--------------------------------- MODULE RGA ---------------------------------
(***************************************************************************)
(* The replicated growable array of src/crdt/list_rga.cpp and              *)
(* src/crdt/text_rga.cpp as a data type: element ids and their order, the   *)
(* changes replicas exchange, and what landing a change or a whole state    *)
(* does to a replica's _nodes and _children.  TextRGA is ListRGA with       *)
(* another payload, so one module stands for both.                          *)
(*                                                                         *)
(* The loops of merge() and retry_pending_changes() are given here by the   *)
(* set of elements they land (Landing, Landed).  MergeLoop and ReplicaLoops *)
(* run those loops one iteration at a time and show they compute it.        *)
(***************************************************************************)
EXTENDS Integers, Sequences, FiniteSets, Functions

CONSTANTS
    Client,   \* client ids; only std::string's < on them is used, so numbers
    Value,    \* list items or characters
    NoValue   \* the empty value a delete change carries

ASSUME ClientAssumption == Client \subseteq Nat \ {0}
ASSUME ValueAssumption == NoValue \notin Value

-----------------------------------------------------------------------------
(* Ids.  "<client>:<20-digit zero-padded seq>" compares by client, then by  *)
(* sequence number; the empty string is the list head.                      *)

Id == Client \X (Nat \ {0})

Head0 == <<0, 0>>

Place == Id \cup {Head0}

\* [mutant] The id is made from _local_sequence before it is incremented.
NextIdPost(client, sequence) == <<client, sequence>>

\* next_id(): the id made from the incremented _local_sequence.
NextId(client, sequence) == <<client, sequence + 1>>

\* operator< on two ids.
Before(a, b) == a[1] < b[1] \/ (a[1] = b[1] /\ a[2] < b[2])

IsSortedListOf(s, S) ==
    /\ Range(s) = S
    /\ \A i, j \in DOMAIN s : i < j => Before(s[i], s[j])

\* A sibling list holding the ids S, after std::ranges::sort.
SortIds(S) == CHOOSE s \in [1..Cardinality(S) -> S] : IsSortedListOf(s, S)

-----------------------------------------------------------------------------
(* Nodes and changes. *)

Node == [previous_id : Place, value : Value, deleted : BOOLEAN]

IsNodeMap(nodes) ==
    /\ DOMAIN nodes \in SUBSET Id
    /\ IsFiniteSet(DOMAIN nodes)
    /\ nodes \in [DOMAIN nodes -> Node]

\* Sibling lists by parent, the head included.
IsSiblingMap(children) ==
    /\ children = [p \in DOMAIN children |-> children[p]]
    /\ DOMAIN children \subseteq Place
    /\ \A p \in DOMAIN children :
          Range(children[p]) \subseteq Id /\ IsFiniteSet(Range(children[p]))

\* An insert's id is its operation's id.
Change ==
    {c \in [type : {"insert_op", "delete_op"}, operation_id : Id,
            element_id : Id, previous_id : Place, value : Value \cup {NoValue}] :
        c.type = "insert_op" => c.value \in Value /\ c.element_id = c.operation_id}

InsertChange(id, previous, v) ==
    [type |-> "insert_op", operation_id |-> id, element_id |-> id,
     previous_id |-> previous, value |-> v]

DeleteChange(id, element) ==
    [type |-> "delete_op", operation_id |-> id, element_id |-> element,
     previous_id |-> Head0, value |-> NoValue]

Inserts(changes) == {c \in changes : c.type = "insert_op"}
Deletes(changes) == {c \in changes : c.type = "delete_op"}

OperationIds(changes) == {c.operation_id : c \in changes}

InsertsOf(changes, n) == {c \in Inserts(changes) : c.element_id = n}

TheInsert(changes, n) == CHOOSE c \in InsertsOf(changes, n) : TRUE

\* The live nodes a set of insert changes asks for, by element id.
Requested(changes) ==
    [n \in {c.element_id : c \in Inserts(changes)} |->
        LET c == TheInsert(changes, n)
        IN  [previous_id |-> c.previous_id, value |-> c.value, deleted |-> FALSE]]

-----------------------------------------------------------------------------
(* Which elements land.  A sweep lands an element once its previous_id is   *)
(* the head, known, or landed, and sweeps repeat until one makes no         *)
(* progress, so the elements that land are the least set closed under that. *)

Saturated(L, known, incoming) ==
    \A n \in DOMAIN incoming :
        incoming[n].previous_id \in known \cup L \cup {Head0} => n \in L

Landing(known, incoming) ==
    {n \in DOMAIN incoming :
        \A L \in SUBSET DOMAIN incoming : Saturated(L, known, incoming) => n \in L}

\* [mutant] A delete is accepted, and an insert lands, whatever it depends on.
LandedUnchecked(known, changes) == changes

\* The changes of a batch that try_apply_change accepts by the time the sweeps
\* stop: inserts whose chain resolves, deletes whose target is present.
Landed(known, changes) ==
    LET arrived == Landing(known, Requested(changes))
    IN  {c \in Inserts(changes) : c.element_id \in arrived}
            \cup {c \in Deletes(changes) : c.element_id \in known \cup arrived}

-----------------------------------------------------------------------------
(* What landing does to a replica. *)

\* _nodes after a set of changes has landed.
NodesAfter(nodes, landed) ==
    LET requested == Requested(landed)
        erased    == {c.element_id : c \in Deletes(landed)}
        Stored(n) == IF n \in DOMAIN nodes THEN nodes[n] ELSE requested[n]
    IN  [n \in DOMAIN nodes \cup DOMAIN requested |->
            [Stored(n) EXCEPT !.deleted = @ \/ n \in erased]]

\* [mutant] The incoming node replaces the one that is there, tombstone and all.
NodesOverwritten(nodes, incoming) ==
    [n \in DOMAIN nodes \cup Landing(DOMAIN nodes, incoming) |->
        IF n \in DOMAIN incoming THEN incoming[n] ELSE nodes[n]]

\* [mutant] Tombstones of known nodes are ignored.
NodesMergedLive(nodes, incoming) ==
    [n \in DOMAIN nodes \cup Landing(DOMAIN nodes, incoming) |->
        IF n \in DOMAIN nodes THEN nodes[n] ELSE incoming[n]]

\* _nodes after merge(): tombstones of known nodes are OR-ed, the nodes whose
\* chain resolves are copied as they come.
NodesMerged(nodes, incoming) ==
    [n \in DOMAIN nodes \cup Landing(DOMAIN nodes, incoming) |->
        IF n \in DOMAIN nodes
        THEN [nodes[n] EXCEPT
                !.deleted = @ \/ (n \in DOMAIN incoming /\ incoming[n].deleted)]
        ELSE incoming[n]]

\* The nodes inserted right after p, and the p they were inserted after.
Below(nodes, p) == {n \in DOMAIN nodes : nodes[n].previous_id = p}
ParentsOf(nodes) == {nodes[n].previous_id : n \in DOMAIN nodes}

Kids(children, p) == IF p \in DOMAIN children THEN Range(children[p]) ELSE {}

\* [mutant] No sort: siblings stay in the order they arrived in.
ChildrenAppended(children, fresh) ==
    [p \in DOMAIN children \cup DOMAIN fresh \cup ParentsOf(fresh) |->
            (IF p \in DOMAIN children THEN children[p] ELSE << >>) \o SortIds(Below(fresh, p))]

\* [mutant] No try_emplace: a new node gets no list until it has a child.
ChildrenNoSlot(children, fresh) ==
    [p \in DOMAIN children \cup ParentsOf(fresh) |->
            IF p \in ParentsOf(fresh) THEN SortIds(Kids(children, p) \cup Below(fresh, p))
            ELSE children[p]]

\* _children after the nodes `fresh` were emplaced: each is added to its
\* predecessor's sibling list, which is sorted, and gets a list of its own.
ChildrenWith(children, fresh) ==
    [p \in DOMAIN children \cup DOMAIN fresh \cup ParentsOf(fresh) |->
            IF p \in ParentsOf(fresh) THEN SortIds(Kids(children, p) \cup Below(fresh, p))
            ELSE IF p \in DOMAIN children THEN children[p]
            ELSE << >>]

\* children is the sorted tree of the previous_ids of nodes.
Mirrors(children, nodes) ==
    /\ DOMAIN children = DOMAIN nodes \cup {Head0}
    /\ \A p \in DOMAIN children :
          IsSortedListOf(children[p], Below(nodes, p))

\* Every chain of predecessors is there.
Closed(nodes) ==
    \A n \in DOMAIN nodes : nodes[n].previous_id \in DOMAIN nodes \cup {Head0}

\* The nodes of `after` that `before` did not have.
NewNodes(before, after) == Restrict(after, DOMAIN after \ DOMAIN before)

-----------------------------------------------------------------------------
(* The order a document has by its ids alone. *)

\* The chain of elements from the head to n, for each n.
Path(nodes) ==
    LET path[n \in DOMAIN nodes] ==
            IF nodes[n].previous_id = Head0 THEN <<n>>
            ELSE Append(path[nodes[n].previous_id], n)
    IN  path

\* An element comes before what was inserted after it, and siblings with all that
\* follows them come in the order of their ids.
Precedes(nodes, a, b) ==
    LET p == Path(nodes)[a]
        q == Path(nodes)[b]
        Parts(i) == /\ \A j \in 1..(i - 1) : p[j] = q[j]
                    /\ Before(p[i], q[i])
    IN  \/ Len(p) < Len(q) /\ SubSeq(q, 1, Len(p)) = p
        \/ \E i \in DOMAIN p \cap DOMAIN q : Parts(i)

\* The elements a user sees.
Visible(nodes) == {n \in DOMAIN nodes : ~nodes[n].deleted}

-----------------------------------------------------------------------------
(* Facts: what a change or a state says, whoever says it.  They are the     *)
(* vocabulary of the properties and of the abstract Document.               *)

InsertFact(id, node) ==
    [kind |-> "insert", id |-> id, previous_id |-> node.previous_id, value |-> node.value]

DeleteFact(id) == [kind |-> "delete", id |-> id]

FactsOfChanges(cs) ==
    {InsertFact(c.element_id, c) : c \in Inserts(cs)}
        \cup {DeleteFact(c.element_id) : c \in Deletes(cs)}

FactsOfNodes(ns) ==
    {InsertFact(n, ns[n]) : n \in DOMAIN ns}
        \cup {DeleteFact(n) : n \in {m \in DOMAIN ns : ns[m].deleted}}

\* The nodes a set of facts describes, and those of them whose chain of
\* predecessors the facts also describe.
Told(facts) ==
    LET inserts == {f \in facts : f.kind = "insert"}
    IN  [n \in {f.id : f \in inserts} |->
            LET f == CHOOSE g \in inserts : g.id = n
            IN  [previous_id |-> f.previous_id, value |-> f.value,
                 deleted |-> DeleteFact(n) \in facts]]

Settled(facts) == Restrict(Told(facts), Landing({}, Told(facts)))

=============================================================================

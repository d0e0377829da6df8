--------------------------------- MODULE Wire ---------------------------------
(***************************************************************************)
(* The codec of handler.cpp and the dispatch of messages.cpp: which payloads *)
(* are turned into states, and what a payload does to the server's three     *)
(* masters.  A JSON object is a record of the fields it has, in which any    *)
(* field may be missing or Junk.  The array "nodes" is a function from the    *)
(* element_id of each entry to its other fields: no order of the entries      *)
(* matters (MergeLoop), and no two entries of a state bear one id.            *)
(***************************************************************************)
EXTENDS RGA, FiniteSetsExt

CONSTANTS
    Half,   \* the values that are half of a surrogate pair
    Junk    \* a JSON value of a wrong type, or a payload that is no object

ASSUME HalfAssumption == Half \subseteq Value
ASSUME JunkAssumption == Junk \notin Id

Side == {"increments", "decrements"}

-----------------------------------------------------------------------------
(* Reading JSON. *)

\* The field is there, and of the type that belongs there.
Fits(object, field) == field \in DOMAIN object /\ object[field] # Junk

\* json::parse() discards the whole text if one string in it holds a lone half of a
\* surrogate pair, and each node has its value in a string of its own.
Parses(payload) ==
    /\ payload # Junk
    /\ Fits(payload, "nodes") =>
          \A n \in DOMAIN payload.nodes :
              payload.nodes[n] # Junk /\ Fits(payload.nodes[n], "value")
                  => payload.nodes[n].value \notin Half

\* parse_envelope() returns an object.
IsEnvelope(payload, type) ==
    /\ Parses(payload)
    /\ Fits(payload, "type") /\ payload.type = type

(* Counters. *)

\* extract_counts(): one entry that is not an unsigned number spoils all.
IsCounts(object) == \A c \in DOMAIN object : object[c] # Junk

NonZeroCounts(bucket) == Restrict(bucket, {c \in DOMAIN bucket : bucket[c] # 0})

EncodeCounter(state) ==
    [type |-> "counter_state",
     increments |-> NonZeroCounts(state.increments),
     decrements |-> NonZeroCounts(state.decrements)]

\* decode_counter() returns a state: the one the two maps hold.
DecodesCounter(payload) ==
    /\ IsEnvelope(payload, "counter_state")
    /\ \A side \in Side : Fits(payload, side) /\ IsCounts(payload[side])

(* Lists and texts, which differ in the envelope's type.  An entry whose      *)
(* element_id is missing or no string has the id Junk.                         *)

ItemFields == {"previous_id", "value", "deleted"}

\* [mutant] An empty element_id is taken.
IsItemWithAnyId(n, entry) ==
    /\ n # Junk
    /\ entry # Junk /\ \A field \in ItemFields : Fits(entry, field)

\* list_item_from_json(), text_character_from_json(): the head's id is refused.
IsItem(n, entry) ==
    /\ n \notin {Junk, Head0}
    /\ entry # Junk /\ \A field \in ItemFields : Fits(entry, field)

EncodeNodes(type, nodes) == [type |-> type, nodes |-> nodes]

\* decode_list_state(), decode_text_state() return a state: all the entries or none.
DecodesNodes(payload, type) ==
    /\ IsEnvelope(payload, type) /\ Fits(payload, "nodes")
    /\ \A n \in DOMAIN payload.nodes : IsItem(n, payload.nodes[n])

-----------------------------------------------------------------------------
(* The server's masters. *)

JoinCounts(bucket, incoming) ==
    [c \in DOMAIN bucket \cup DOMAIN incoming |->
        Max({b[c] : b \in {d \in {bucket, incoming} : c \in DOMAIN d}})]

\* Each constructor, for the replica "server", which makes no changes of its own.
NewMasters(server) ==
    [counter |-> [side \in Side |-> [c \in {server} |-> 0]],
     list    |-> [n \in {} |-> n],
     text    |-> [n \in {} |-> n]]

\* [mutant] An entry that cannot be read is passed over, and the others are merged.
ProcessedPartly(masters, payload) ==
    LET Legible(ns)   == Restrict(ns, {n \in DOMAIN ns : IsItem(n, ns[n])})
        IsState(type) == IsEnvelope(payload, type) /\ Fits(payload, "nodes")
    IN  IF DecodesCounter(payload)
        THEN [masters EXCEPT !.counter = [side \in Side |-> JoinCounts(@[side], payload[side])]]
        ELSE IF IsState("list_state")
        THEN [masters EXCEPT !.list = NodesMerged(@, Legible(payload.nodes))]
        ELSE IF IsState("text_state")
        THEN [masters EXCEPT !.text = NodesMerged(@, Legible(payload.nodes))]
        ELSE masters

\* The first decoder that accepts the payload owns the merge,
Processed(masters, payload) ==
    IF DecodesCounter(payload)
    THEN [masters EXCEPT !.counter = [side \in Side |-> JoinCounts(@[side], payload[side])]]
    ELSE IF DecodesNodes(payload, "list_state")
    THEN [masters EXCEPT !.list = NodesMerged(@, payload.nodes)]
    ELSE IF DecodesNodes(payload, "text_state")
    THEN [masters EXCEPT !.text = NodesMerged(@, payload.nodes)]
    ELSE masters

\* and the reply, which is what the master holds now; one reply or none.
Replies(masters, payload) ==
    IF DecodesCounter(payload) THEN <<EncodeCounter(masters.counter)>>
    ELSE IF DecodesNodes(payload, "list_state") THEN <<EncodeNodes("list_state", masters.list)>>
    ELSE IF DecodesNodes(payload, "text_state") THEN <<EncodeNodes("text_state", masters.text)>>
    ELSE << >>

==============================================================================

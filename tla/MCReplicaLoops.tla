---------------------------- MODULE MCReplicaLoops ----------------------------
(* ReplicaLoops with a chain of three inserts, a sibling and a delete, and    *)
(* with states that bring any of these elements at another place than the       *)
(* change does, deleted, without its predecessor, or in a circle.               *)
EXTENDS ReplicaLoops

MCChanges == {
    InsertChange(<<1, 1>>, Head0, "x"),
    InsertChange(<<2, 1>>, <<1, 1>>, "x"),
    InsertChange(<<1, 2>>, <<2, 1>>, "x"),
    InsertChange(<<2, 2>>, <<1, 1>>, "x"),
    DeleteChange(<<1, 3>>, <<2, 1>>)}

Nodes(n) ==
    CASE n = <<1, 1>> -> [previous_id : {Head0, <<1, 2>>}, value : Value, deleted : BOOLEAN]
      [] n = <<2, 1>> -> [previous_id : {<<1, 1>>}, value : Value, deleted : {FALSE}]
      [] n = <<1, 2>> -> [previous_id : {<<1, 1>>, <<2, 1>>}, value : Value, deleted : {FALSE}]

MCStates ==
    UNION {{s \in [D -> UNION {Nodes(n) : n \in D}] : \A n \in D : s[n] \in Nodes(n)} :
              D \in SUBSET {<<1, 1>>, <<2, 1>>, <<1, 2>>}}

==============================================================================

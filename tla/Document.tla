------------------------------- MODULE Document -------------------------------
(***************************************************************************)
(* What replicated-list users are promised, with no ids to order, buffers   *)
(* or loops: a replica's document is a function of the set of facts it was  *)
(* told, whatever carried them and in whatever order.  list_rga.hpp:6-10.   *)
(***************************************************************************)
EXTENDS RGA

VARIABLES
    made,      \* facts that local operations have made
    heard,     \* the facts each replica was told
    document   \* the nodes each replica shows or walks over

docVars == <<made, heard, document>>

Init ==
    /\ made = {}
    /\ heard = [r \in Client |-> {}]
    /\ document = [r \in Client |-> Settled({})]

\* Replica r is told more; facts new to everyone are its own.
Hear(r) ==
    /\ heard[r] \subseteq heard'[r]
    /\ heard' = [heard EXCEPT ![r] = heard'[r]]
    /\ made' = made \cup heard'[r]
    /\ document' = [document EXCEPT ![r] = Settled(heard'[r])]

\* Facts go round from replica to replica; a replica that makes one hears it.
Next == \E r \in Client :
           /\ Hear(r)
           /\ Cardinality(made' \ made) <= 1

Spec == Init /\ [][Next]_docVars

==============================================================================

----------------------------- MODULE MCTextSession -----------------------------
(* TextSession with payloads like those of tests/handler_test.cpp from a third  *)
(* client: lists and texts that can be read, have an entry that cannot, hang in  *)
(* the air, or delete the first letter a page typed and go on from it; counters, *)
(* and messages of other types or of none.                                      *)
EXTENDS TextSession

Third == 3

Letter(previous) == [previous_id |-> previous, value |-> "x", deleted |-> FALSE]

Nodes(type, ns) == [type |-> type, nodes |-> ns]

Counts(n) == [c \in {Third} |-> n]

MCStray == {
    Nodes("list_state", [n \in {<<Third, 1>>} |-> Letter(Head0)]),
    Nodes("text_state", [n \in {Third} \X {1, 3} |->
                            Letter(IF n[2] = 1 THEN Head0 ELSE <<Third, 2>>)]),
    Nodes("text_state", [n \in {<<2, 1>>, <<Third, 4>>} |->
                            IF n[1] = Third THEN Letter(<<2, 1>>)
                            ELSE [Letter(Head0) EXCEPT !.deleted = TRUE]]),
    Nodes("text_state", [n \in {Third} \X {1, 2} |->
                            [Letter(Head0) EXCEPT !.deleted = IF n[2] = 1 THEN FALSE ELSE Junk]]),
    Nodes("text_state", [n \in {<<Third, 1>>, Head0} |-> Letter(Head0)]),
    Nodes("list_state", [n \in {<<Third, 1>>, Junk} |-> Letter(Head0)]),
    Nodes("list_state", Junk),
    [type |-> "text_state"],
    [nodes |-> [n \in {} |-> n]],
    [type |-> "counter_state", increments |-> Counts(2), decrements |-> Counts(0)],
    [type |-> "counter_state", increments |-> Counts(2), decrements |-> Counts(Junk)],
    [type |-> "counter_state", increments |-> Counts(2)],
    Auth(Third),
    Junk}

MCNoStray == {}

MCDrawn == <<2, 1>>

\* Typing at the end and in the midst, deleting at the beginning, in the midst and at
\* the end, and replacing a part or all; once the letter deleted is doubtful.
MCTexts == {<<"x">>, <<"x", "x">>, <<"x", "y">>, <<"x", "z", "y">>, <<"z", "y">>}

\* A letter, and a character of two UTF-16 units.
MCPairedTexts == {<< >>, <<"x">>, <<"high", "low">>, <<"x", "high", "low">>}

==============================================================================

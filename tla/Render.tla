-------------------------------- MODULE Render --------------------------------
(***************************************************************************)
(* The two walks that turn nodes and siblings into the list or the text a    *)
(* user sees: the server's render_from(), an explicit stack, and the pages'   *)
(* rgaWalk(), the recursion it replaced.                                      *)
(***************************************************************************)
EXTENDS RGA, SequencesExt

-----------------------------------------------------------------------------
(* render_from().  A walk is its stack of Frames and the elements emitted so  *)
(* far; each iteration of the loop makes the next walk.                       *)

Frame(p) == [parent |-> p, index |-> 0]

Top(walk) == walk.stack[Len(walk.stack)]

\* The frame on top is used up.
Pop(walk) == [walk EXCEPT !.stack = SubSeq(@, 1, Len(@) - 1)]

\* [mutant] A deleted child is skipped together with what was inserted after it.
DescendLive(nodes, children, walk) ==
    LET child == children[Top(walk).parent][Top(walk).index + 1]
        moved == [walk.stack EXCEPT ![Len(walk.stack)].index = @ + 1]
    IN  [output |-> IF nodes[child].deleted THEN walk.output ELSE Append(walk.output, child),
         stack  |-> IF nodes[child].deleted THEN moved ELSE Append(moved, Frame(child))]

\* The next child is emitted unless deleted, and its own children come next.
Descend(nodes, children, walk) ==
    LET child == children[Top(walk).parent][Top(walk).index + 1]
        moved == [walk.stack EXCEPT ![Len(walk.stack)].index = @ + 1]
    IN  [output |-> IF nodes[child].deleted THEN walk.output ELSE Append(walk.output, child),
         stack  |-> IF children[child] # << >> THEN Append(moved, Frame(child)) ELSE moved]

\* One iteration of the while loop.
Iteration(nodes, children, walk) ==
    IF walk.stack = << >> THEN walk
    ELSE IF Top(walk).index >= Len(children[Top(walk).parent]) THEN Pop(walk)
    ELSE Descend(nodes, children, walk)

\* The walk after as many iterations as a tree of these nodes takes: each node is
\* descended to once, and each frame, the head's or a node's, popped once.
Walked(nodes, children) ==
    LET walk[i \in 0..(2 * Cardinality(DOMAIN nodes) + 1)] ==
            IF i = 0 THEN [stack |-> <<Frame(Head0)>>, output |-> << >>]
            ELSE Iteration(nodes, children, walk[i - 1])
    IN  walk[2 * Cardinality(DOMAIN nodes) + 1]

-----------------------------------------------------------------------------
(* rgaWalk().                                                                 *)

\* What a visit adds to what listVisibleNodes() and textRenderFlat() collect.
Shown(nodes, n) == IF nodes[n].deleted THEN << >> ELSE <<n>>

\* What recur(p) collects, for each p.
Recur(nodes, children) ==
    LET recur[p \in DOMAIN children] ==
            FoldLeft(LAMBDA seen, kid : seen \o Shown(nodes, kid) \o recur[kid],
                     << >>, children[p])
    IN  recur

\* The ids of the elements a page shows, in the order it shows them.
RenderedIds(nodes, children) == Recur(nodes, children)[Head0]

==============================================================================

------------------------------ MODULE TextSession ------------------------------
(***************************************************************************)
(* Pages whose users type into the textarea (website/app.js) and the server  *)
(* they share the text with.  Each page turns what is typed into edits of its *)
(* replica by comparing the textarea with the text its replica renders; the   *)
(* server reads every payload through the codec.  Connections hold: Session   *)
(* covers their loss.  The pages' counters and lists touch no state of this.  *)
(***************************************************************************)
EXTENDS Wire, Render

CONSTANTS
    Browser,      \* the browser tabs
    Drawn,        \* the ids make_client_id() draws, in the order it draws them
    Texts,        \* what may be in the textarea after an input event, by UTF-16 units
    Stray,        \* payloads that clients other than these pages send
    Server,       \* the masters' client id
    MaxInputs,    \* bound: input events and stray payloads in all
    MaxStates     \* bound: text states on their way over one connection

ASSUME DrawnAssumption ==
    /\ Drawn \in [1..Cardinality(Browser) -> Client]
    /\ \A i, j \in DOMAIN Drawn : Drawn[i] = Drawn[j] => i = j
ASSUME BrowserAssumption == IsFiniteSet(Browser)
ASSUME TextsAssumption == Texts \subseteq Seq(Value)
\* A payload has finitely many entries, whose ids are strings of the form ids have or no
\* strings, and a field that is of the type its decoder wants has a value of that type.
ASSUME StrayAssumption ==
    \A payload \in Stray \ {Junk} :
        /\ Fits(payload, "nodes") =>
              /\ payload.nodes = [n \in DOMAIN payload.nodes |-> payload.nodes[n]]
              /\ DOMAIN payload.nodes \subseteq Place \cup {Junk}
              /\ IsFiniteSet(DOMAIN payload.nodes)
              /\ \A n \in DOMAIN payload.nodes :
                    IsItem(n, payload.nodes[n]) => payload.nodes[n] \in Node
        /\ \A side \in Side :
              Fits(payload, side) /\ IsCounts(payload[side]) =>
                  payload[side] \in [DOMAIN payload[side] -> Nat]
\* The clients that send them say the same of an element they have in common: of every
\* element of a list, and of every letter of the text that none of the pages typed.
StrayNodes(type) == {payload.nodes : payload \in {p \in Stray : DecodesNodes(p, type)}}
OfPages(n) == n[1] \in Range(Drawn)
ASSUME StrayIdsAssumption ==
    \A type \in {"list_state", "text_state"} :
        \A a, b \in StrayNodes(type) : \A n \in DOMAIN a \cap DOMAIN b :
            type = "list_state" \/ ~OfPages(n) =>
                a[n].previous_id = b[n].previous_id /\ a[n].value = b[n].value
ASSUME TextBoundsAssumption == {MaxInputs, MaxStates} \subseteq Nat

VARIABLES
    masters,     \* _master_counter, _master_list and _master_text
    link,        \* "connecting" until on_open()
    clientId,    \* clientId, 0 for null
    textarea,    \* textArea.value
    nodes,       \* textState.nodes
    children,    \* textState.children
    sequence,    \* textState.sequence
    toServer,    \* what the page sent and the server has not read
    toBrowser,   \* what the server sent and the page has not read
    inputs       \* input events and stray payloads so far

page == <<clientId, textarea, nodes, children, sequence>>
wire == <<link, toServer, toBrowser>>
vars == <<masters, page, wire, inputs>>

-----------------------------------------------------------------------------
Spelled(ns, ids) == [i \in DOMAIN ids |-> ns[ids[i]].value]

\* textRenderFlat(): the text, whose letters have the ids RenderedIds.  Every value is
\* one UTF-16 unit, as the values are that pages make (newStr[i]): only then does place
\* i of the text belong to place i of the ids.
RenderedText(ns, kids) == Spelled(ns, RenderedIds(ns, kids))

Auth(c) == [type |-> "auth", id |-> c]

Init ==
    /\ masters = NewMasters(Server)
    /\ link = [b \in Browser |-> "connecting"]
    /\ clientId = [b \in Browser |-> 0]
    /\ textarea = [b \in Browser |-> << >>]
    /\ nodes = [b \in Browser |-> [n \in {} |-> n]]
    /\ children = [b \in Browser |-> [p \in {Head0} |-> << >>]]
    /\ sequence = [b \in Browser |-> 0]
    /\ toServer = [b \in Browser |-> << >>]
    /\ toBrowser = [b \in Browser |-> << >>]
    /\ inputs = 0

-----------------------------------------------------------------------------
(* The server. *)

Opened == {b \in Browser : link[b] = "open"}

\* on_open(): a new id, then the masters.
OnOpen(b) ==
    /\ link[b] = "connecting"
    /\ link' = [link EXCEPT ![b] = "open"]
    /\ toBrowser' = [toBrowser EXCEPT ![b] =
                        <<Auth(Drawn[Cardinality(Opened) + 1]),
                          EncodeNodes("text_state", masters.text)>>]
    /\ UNCHANGED <<masters, page, toServer, inputs>>

\* [mutant] The reply is not sent.
OnMessageSilent(b) ==
    /\ toServer[b] # << >>
    /\ toServer' = [toServer EXCEPT ![b] = Tail(@)]
    /\ masters' = Processed(masters, Head(toServer[b]))
    /\ UNCHANGED <<link, toBrowser, page, inputs>>

\* on_message(): process_message(), and its reply if there is one.
OnMessage(b) ==
    /\ toServer[b] # << >>
    /\ toServer' = [toServer EXCEPT ![b] = Tail(@)]
    /\ masters' = Processed(masters, Head(toServer[b]))
    /\ toBrowser' = [toBrowser EXCEPT ![b] = @ \o Replies(masters', Head(toServer[b]))]
    /\ UNCHANGED <<link, page, inputs>>

\* Of the letters that the pages typed another client knows what the server's text says:
\* it may send them back, all or some, deleted or not.
Knows(payload) ==
    DecodesNodes(payload, "text_state") =>
        \A n \in DOMAIN payload.nodes : OfPages(n) =>
            /\ n \in DOMAIN masters.text
            /\ payload.nodes[n].previous_id = masters.text[n].previous_id
            /\ payload.nodes[n].value = masters.text[n].value

\* on_message() for another client, which gets the reply.
OnStray(payload) ==
    /\ inputs < MaxInputs /\ Knows(payload)
    /\ inputs' = inputs + 1
    /\ masters' = Processed(masters, payload)
    /\ UNCHANGED <<page, wire>>

(* The page. *)

OnAuth(b) ==
    /\ Head(toBrowser[b]).type = "auth"
    /\ clientId' = [clientId EXCEPT ![b] = Head(toBrowser[b]).id]
    /\ UNCHANGED <<textarea, nodes, children, sequence>>

\* rgaInsertNode() puts each new node of the page's replica among its siblings.
Placed(b) ==
    children' = [children EXCEPT ![b] = ChildrenWith(@, NewNodes(nodes[b], nodes'[b]))]

\* advanceSequenceFromNodes(): past every id of one's own in the state.
Advanced(seq, c, ns) == Max({seq} \cup {n[2] : n \in {m \in DOMAIN ns : m[1] = c}})

\* [mutant] The state is put in the place of the replica.
OnTextStateReplacing(b) ==
    /\ Head(toBrowser[b]).type = "text_state"
    /\ nodes' = [nodes EXCEPT ![b] = Head(toBrowser[b]).nodes]
    /\ children' = [children EXCEPT ![b] = ChildrenWith([p \in {Head0} |-> << >>], nodes'[b])]
    /\ sequence' = [sequence EXCEPT ![b] =
                       Advanced(@, clientId[b], Head(toBrowser[b]).nodes)]
    /\ textarea' = [textarea EXCEPT ![b] = RenderedText(nodes'[b], children'[b])]
    /\ UNCHANGED clientId

\* rgaMerge(), and textRender(), which puts the text of the replica in the textarea.
OnTextState(b) ==
    /\ Head(toBrowser[b]).type = "text_state"
    /\ nodes' = [nodes EXCEPT ![b] = NodesMerged(@, Head(toBrowser[b]).nodes)]
    /\ Placed(b)
    /\ sequence' = [sequence EXCEPT ![b] =
                       Advanced(@, clientId[b], Head(toBrowser[b]).nodes)]
    /\ textarea' = [textarea EXCEPT ![b] = RenderedText(nodes'[b], children'[b])]
    /\ UNCHANGED clientId

\* The message listener.
OnEvent(b) ==
    /\ toBrowser[b] # << >>
    /\ toBrowser' = [toBrowser EXCEPT ![b] = Tail(@)]
    /\ UNCHANGED <<masters, link, toServer, inputs>>
    /\ OnAuth(b) \/ OnTextState(b)

(* The user. *)

\* The first loop of textApplyEdit(): how long the common beginning is.
CommonPrefix(old, new) ==
    Max({p \in 0..Min({Len(old), Len(new)}) : SubSeq(old, 1, p) = SubSeq(new, 1, p)})

\* [mutant] The second loop does not stop at the common beginning of the new text.
CommonSuffixOverlapping(old, new, p) ==
    Max({s \in 0..Min({Len(old) - p, Len(new)}) :
            SubSeq(old, Len(old) - s + 1, Len(old)) = SubSeq(new, Len(new) - s + 1, Len(new))})

\* The second loop: the common end of what the first has left of both.
CommonSuffix(old, new, p) ==
    Max({s \in 0..(Min({Len(old), Len(new)}) - p) :
            SubSeq(old, Len(old) - s + 1, Len(old)) = SubSeq(new, Len(new) - s + 1, Len(new))})

\* [mutant] One letter further left.
TypedAfterEarly(oldIds, p) == IF p > 1 THEN oldIds[p - 1] ELSE Head0

\* What the typed letters are inserted after.
TypedAfter(oldIds, p) == IF p > 0 THEN oldIds[p] ELSE Head0

\* textApplyEdit(): tombstones for what is gone, and a chain of nodes for what was
\* typed, after the last letter of the common beginning.
Edited(ns, oldIds, client, seq, new) ==
    LET old    == Spelled(ns, oldIds)
        p      == CommonPrefix(old, new)
        s      == CommonSuffix(old, new, p)
        erased == {oldIds[i] : i \in (p + 1)..(Len(old) - s)}
        typed  == SubSeq(new, p + 1, Len(new) - s)
        id(i)  == <<client, seq + i>>
        Typed(i) == [previous_id |-> IF i > 1 THEN id(i - 1) ELSE TypedAfter(oldIds, p),
                     value |-> typed[i], deleted |-> FALSE]
    IN  [n \in DOMAIN ns \cup {id(i) : i \in DOMAIN typed} |->
            IF n \in DOMAIN ns THEN [ns[n] EXCEPT !.deleted = @ \/ n \in erased]
            ELSE Typed(n[2] - seq)]

\* The input event: the textarea holds a new text.  Without a client id the replica
\* does not hear of it.
Input(b, new) ==
    /\ inputs < MaxInputs /\ new # textarea[b]
    /\ inputs' = inputs + 1
    /\ textarea' = [textarea EXCEPT ![b] = new]
    /\ IF clientId[b] = 0 THEN UNCHANGED <<nodes, children, sequence>>
       ELSE /\ nodes' = [nodes EXCEPT ![b] = Edited(@, RenderedIds(@, children[b]),
                                                   clientId[b], sequence[b], new)]
            /\ Placed(b)
            /\ sequence' = [sequence EXCEPT ![b] =
                               @ + Cardinality(DOMAIN nodes'[b] \ DOMAIN nodes[b])]
    /\ UNCHANGED <<masters, wire, clientId>>

\* The sync button.  Bound: one sync is read before the next.
Sync(b) ==
    /\ link[b] = "open"
    /\ toServer[b] = << >> /\ Len(toBrowser[b]) < MaxStates
    /\ toServer' = [toServer EXCEPT ![b] = <<EncodeNodes("text_state", nodes[b])>>]
    /\ UNCHANGED <<masters, link, toBrowser, page, inputs>>

-----------------------------------------------------------------------------
Serve(b) == OnOpen(b) \/ OnMessage(b)

Next ==
    \/ \E b \in Browser :
          \/ Serve(b) \/ OnEvent(b) \/ Sync(b)
          \/ \E new \in Texts : Input(b, new)
    \/ \E payload \in Stray : OnStray(payload)

\* The server's loop and the pages' event loops run, and every user presses sync now
\* and then.  Nobody has to type.
Spec ==
    /\ Init /\ [][Next]_vars
    /\ \A b \in Browser : WF_vars(Serve(b)) /\ WF_vars(OnEvent(b)) /\ WF_vars(Sync(b))

-----------------------------------------------------------------------------
\* What the server keeps is well formed whatever it was sent, and so is the text of
\* every page, whose siblings are the sorted tree of its nodes (app.js:72-98).
TypeOK ==
    /\ IsNodeMap(masters.list) /\ IsNodeMap(masters.text)
    /\ \A side \in Side : masters.counter[side] \in [DOMAIN masters.counter[side] -> Nat]
    /\ clientId \in [Browser -> Client \cup {0}]
    /\ sequence \in [Browser -> Nat]
    /\ \A b \in Browser : /\ IsNodeMap(nodes[b]) /\ textarea[b] \in Seq(Value)
                        /\ Mirrors(children[b], nodes[b])
    /\ link \in [Browser -> {"connecting", "open"}]

(* Payloads. *)

\* A string in it is cut in the midst of a character.
HoldsHalf(payload) ==
    Fits(payload, "nodes") /\ \E n \in DOMAIN payload.nodes :
        /\ payload.nodes[n] # Junk /\ Fits(payload.nodes[n], "value")
        /\ payload.nodes[n].value \in Half

\* Every entry of it can be read, and its type is one the server knows.
Readable(payload) ==
    /\ payload # Junk /\ Fits(payload, "type") /\ ~HoldsHalf(payload)
    /\ \/ /\ payload.type \in {"list_state", "text_state"}
          /\ Fits(payload, "nodes") /\ \A n \in DOMAIN payload.nodes :
                 /\ n \in Id /\ payload.nodes[n] # Junk
                 /\ {f \in ItemFields : Fits(payload.nodes[n], f)} = ItemFields
       \/ /\ payload.type = "counter_state"
          /\ \A side \in Side : Fits(payload, side) /\ \A c \in DOMAIN payload[side] :
                                                           payload[side][c] # Junk

\* The document of someone who was told all that these nodes and this payload say.
ToldBy(ns, payload) == Settled(FactsOfNodes(ns) \cup FactsOfNodes(payload.nodes))

\* The two sides of the counter after it was told of these counts.
Counted(before, after, payload) ==
    \A side \in Side :
        /\ DOMAIN after[side] = DOMAIN before[side] \cup DOMAIN payload[side]
        /\ \A c \in DOMAIN before[side] : before[side][c] <= after[side][c]
        /\ \A c \in DOMAIN payload[side] : payload[side][c] <= after[side][c]

\* What becomes of the masters: if an entry of the payload cannot be read nothing; else
\* its master, and no other, is told all of it.
WholeOrNot(payload) ==
    IF ~Readable(payload) THEN UNCHANGED masters
    ELSE /\ IF payload.type = "counter_state"
            THEN Counted(masters.counter, masters'.counter, payload)
            ELSE UNCHANGED masters.counter
         /\ masters'.list = IF payload.type = "list_state"
                            THEN ToldBy(masters.list, payload) ELSE masters.list
         /\ masters'.text = IF payload.type = "text_state"
                            THEN ToldBy(masters.text, payload) ELSE masters.text

\* A payload is taken whole or not at all, and by one master: "a malformed payload
\* yields a clean nullopt rather than partial state" (handler.cpp:8-9).
AllOrNothing ==
    [][/\ \A payload \in Stray : OnStray(payload) => WholeOrNot(payload)
       /\ \A b \in Browser : OnMessage(b) => WholeOrNot(Head(toServer[b]))]_vars

(* Typing. *)

\* Page b turns an input event into edits.
Types(b) == inputs' # inputs /\ textarea'[b] # textarea[b] /\ clientId[b] # 0

\* The run of letters that was typed, put after the first k letters that stay.
PutIn(stay, k, run) == SubSeq(stay, 1, k) \o run \o SubSeq(stay, k + 1, Len(stay))

\* The elements of a list that are in S, in the order of the list.
Within(list, S) ==
    FoldLeft(LAMBDA kept, n : IF n \in S THEN Append(kept, n) ELSE kept, << >>, list)

\* The letters that stay keep their order, the typed ones come in one run, and if the
\* run is not where the user sees it (put in after the p-th letter) then only because
\* letters that were inserted after the same letter earlier come first.
InputLands(b) ==
    LET ids  == RenderedIds(nodes'[b], children'[b])
        stay == Within(RenderedIds(nodes[b], children[b]), Visible(nodes'[b]))
        run  == Within(ids, DOMAIN nodes'[b] \ DOMAIN nodes[b])
    IN  \E p \in 0..Len(stay) : \E k \in p..Len(stay) :
           /\ Spelled(nodes'[b], PutIn(stay, p, run)) = textarea'[b]
           /\ ids = PutIn(stay, k, run)
           /\ \A i \in (p + 1)..k : p > 0 => stay[p] \in Range(Path(nodes[b])[stay[i]])

\* What an input event does to the replica's text.
EditsLand == [][\A b \in Browser : Types(b) => InputLands(b)]_vars

\* "a diff against the rendered view so local typing turns into RGA inserts and
\* deletes" (README.md:15-16): after an input event the replica's text is the one the
\* user sees in the textarea.
TypedIsRendered ==
    [][\A b \in Browser : Types(b) => RenderedText(nodes'[b], children'[b]) = textarea'[b]]_vars

\* What is typed before the page has its id becomes no edit (app.js:269), and the first
\* render throws it away unless an input event comes before it (app.js:262).  From that
\* render, or from the first input event that put a letter into the replica, the textarea
\* holds the letters of the replica, each as often, though perhaps in another order.
SameLetters ==
    \A b \in Browser :
        clientId[b] # 0 /\ (toBrowser[b] = << >> \/ DOMAIN nodes[b] # {}) =>
            ToBag(textarea[b]) = ToBag(RenderedText(nodes[b], children[b]))

\* A letter goes from the text of page b only if the state it is told has it deleted, and one
\* that comes is the state's, and none that was erased here.
KeepsTyping(b) ==
    LET told   == Head(toBrowser[b]).nodes
        before == Range(RenderedIds(nodes[b], children[b]))
        after  == Range(RenderedIds(nodes'[b], children'[b]))
    IN  /\ \A n \in before \ after : n \in DOMAIN told /\ told[n].deleted
        /\ after \ before \subseteq Visible(told) \ DOMAIN nodes[b]

\* A state that is rendered while the user types on (app.js:328-333) is older than what was
\* typed and erased since the sync: neither is undone.
RenderKeeps ==
    [][\A b \in Browser : OnEvent(b) /\ OnTextState(b) => KeepsTyping(b)]_vars

\* "edits made while offline still converge once you reconnect" (README.md:5-6): when
\* nobody types any more, every page comes to hold the server's text, and to show it.
TextConverges ==
    <>[](\A b \in Browser :
            /\ nodes[b] = masters.text
            /\ textarea[b] = RenderedText(nodes[b], children[b]))

================================================================================

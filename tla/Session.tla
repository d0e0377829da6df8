-------------------------------- MODULE Session --------------------------------
(***************************************************************************)
(* Browsers (website/app.js) and the server (server/server.cpp,             *)
(* server/messages.cpp) sharing one list over WebSockets that break, with a *)
(* server that loses its memory when it restarts and pages that lose theirs *)
(* when they are reloaded.  The counter and the text travel beside the list *)
(* in envelopes of their own and touch no state of it.                      *)
(***************************************************************************)
EXTENDS RGA

CONSTANTS
    Browser,      \* the browser tabs
    Drawn,        \* the ids make_client_id() draws, in the order it draws them
    MaxEdits,     \* bound: list items added and deleted in all
    MaxFaults,    \* bound: lost connections, server crashes and page reloads in all
    MaxStates     \* bound: list states on their way over one connection

\* 128 random bits never repeat, over restarts of the server too.
ASSUME DrawnAssumption ==
    /\ Drawn \in Seq(Client)
    /\ \A i, j \in DOMAIN Drawn : Drawn[i] = Drawn[j] => i = j
ASSUME BoundsAssumption == {MaxEdits, MaxFaults, MaxStates} \subseteq Nat

VARIABLES
    up,          \* the server process runs
    master,      \* the nodes of _master_list
    minted,      \* how many ids make_client_id() has returned
    peer,        \* each browser's connection, seen from the server
    late,        \* states sent on lost connections that may still arrive
    link,        \* ws.readyState
    timer,       \* reconnectTimer is not null
    timeouts,    \* setTimeout() callbacks of the reconnect timer that will fire
    clientId,    \* clientId, 0 for null
    sequence,    \* listState.sequence
    nodes,       \* listState.nodes
    toServer,    \* what the browser sent on a connection that works, not read yet
    toBrowser,   \* what the server sent and the browser has not read
    edits,       \* list items added and deleted so far
    faults       \* faults so far

server == <<up, master, minted>>
wire == <<peer, late, toServer, toBrowser>>
reconnect == <<link, timer, timeouts>>
page == <<clientId, sequence, nodes>>
bounds == <<edits, faults>>
vars == <<server, wire, reconnect, page, bounds>>

-----------------------------------------------------------------------------
(* Messages. *)

Opened == [type |-> "open"]
Auth(c) == [type |-> "auth", id |-> c]
ListState(ns) == [type |-> "list_state", nodes |-> ns]

StatesIn(queue) ==
    {queue[i].nodes : i \in {j \in DOMAIN queue : queue[j].type = "list_state"}}

AuthsIn(queue) ==
    {queue[i].id : i \in {j \in DOMAIN queue : queue[j].type = "auth"}}

EmptyNodes == [n \in {} |-> n]

-----------------------------------------------------------------------------
\* Every page calls connect() once it has loaded.
Init ==
    /\ up = TRUE /\ master = EmptyNodes /\ minted = 0
    /\ peer = [b \in Browser |-> "waiting"]
    /\ late = {}
    /\ link = [b \in Browser |-> "connecting"]
    /\ timer = [b \in Browser |-> FALSE]
    /\ timeouts = [b \in Browser |-> 0]
    /\ clientId = [b \in Browser |-> 0]
    /\ sequence = [b \in Browser |-> 0]
    /\ nodes = [b \in Browser |-> EmptyNodes]
    /\ toServer = [b \in Browser |-> << >>]
    /\ toBrowser = [b \in Browser |-> << >>]
    /\ edits = 0 /\ faults = 0

(* The server. *)

\* [mutant] "client-N": an id that no connection bears now.
MakeClientIdRecycled ==
    LET used == UNION {{clientId[b]} \cup AuthsIn(toBrowser[b]) :
                          b \in {d \in Browser : peer[d] = "serving"}}
    IN  CHOOSE c \in Client \ used : \A d \in Client \ used : c <= d

\* make_client_id()
MakeClientId == Drawn[minted + 1]

\* on_open(): a new id, then the master.
OnOpen(b) ==
    /\ up /\ peer[b] = "waiting"
    /\ minted < Len(Drawn)
    /\ minted' = minted + 1
    /\ peer' = [peer EXCEPT ![b] = "serving"]
    /\ toBrowser' = [toBrowser EXCEPT ![b] =
                        <<Opened, Auth(MakeClientId), ListState(master)>>]
    /\ UNCHANGED <<up, master, late, toServer, reconnect, page, bounds>>

\* [mutant] process_message() merges and returns nullopt.
OnMessageSilent(b) ==
    /\ up /\ peer[b] = "serving" /\ toServer[b] # << >>
    /\ master' = NodesMerged(master, Head(toServer[b]).nodes)
    /\ toServer' = [toServer EXCEPT ![b] = Tail(@)]
    /\ UNCHANGED <<up, minted, peer, late, toBrowser, reconnect, page, bounds>>

\* on_message(): process_message() merges, and the sender gets the result.
OnMessage(b) ==
    /\ up /\ peer[b] = "serving" /\ toServer[b] # << >>
    /\ LET merged == NodesMerged(master, Head(toServer[b]).nodes)
       IN  /\ master' = merged
           /\ toBrowser' = [toBrowser EXCEPT ![b] = Append(@, ListState(merged))]
    /\ toServer' = [toServer EXCEPT ![b] = Tail(@)]
    /\ UNCHANGED <<up, minted, peer, late, reconnect, page, bounds>>

\* on_message() for what was under way when the connection broke: the answer
\* finds nobody.
OnLateMessage ==
    /\ up
    /\ \E ns \in late :
          /\ master' = NodesMerged(master, ns)
          /\ late' = late \ {ns}
    /\ UNCHANGED <<up, minted, peer, toServer, toBrowser, reconnect, page, bounds>>

\* The process ends; the masters live in its memory.
Crash ==
    /\ up /\ faults < MaxFaults
    /\ faults' = faults + 1
    /\ up' = FALSE /\ master' = EmptyNodes
    /\ peer' = [b \in Browser |-> "gone"]
    /\ late' = {}
    /\ toServer' = [b \in Browser |-> << >>]
    /\ UNCHANGED <<minted, toBrowser, reconnect, page, edits>>

Restart ==
    /\ ~up /\ up' = TRUE
    /\ UNCHANGED <<master, minted, wire, reconnect, page, bounds>>

(* The network. *)

\* The connection breaks; the server may yet read what was sent on it.
Lose(b) ==
    /\ peer[b] # "gone" /\ faults < MaxFaults
    /\ faults' = faults + 1
    /\ peer' = [peer EXCEPT ![b] = "gone"]
    /\ late' = late \cup StatesIn(toServer[b])
    /\ toServer' = [toServer EXCEPT ![b] = << >>]
    /\ UNCHANGED <<server, toBrowser, reconnect, page, edits>>

(* The page's transport. *)

\* new WebSocket(): refused if no server is there.
NewSocket(b) ==
    /\ link' = [link EXCEPT ![b] = "connecting"]
    /\ peer' = [peer EXCEPT ![b] = IF up THEN "waiting" ELSE "gone"]

\* The close event, and scheduleReconnect().
OnClose(b) ==
    /\ link[b] # "closed" /\ peer[b] = "gone"
    /\ link' = [link EXCEPT ![b] = "closed"]
    /\ toBrowser' = [toBrowser EXCEPT ![b] = << >>]
    /\ timer' = [timer EXCEPT ![b] = TRUE]
    /\ timeouts' = [timeouts EXCEPT ![b] = IF timer[b] THEN @ ELSE @ + 1]
    /\ UNCHANGED <<server, peer, late, toServer, page, bounds>>

\* [mutant] reconnectTimer keeps the handle of the timer that fired.
ReconnectKeepsTimer(b) ==
    /\ timeouts[b] > 0
    /\ timeouts' = [timeouts EXCEPT ![b] = @ - 1]
    /\ NewSocket(b)
    /\ UNCHANGED <<server, late, toServer, toBrowser, timer, page, bounds>>

\* The reconnect timer fires.
Reconnect(b) ==
    /\ timeouts[b] > 0
    /\ timeouts' = [timeouts EXCEPT ![b] = @ - 1]
    /\ timer' = [timer EXCEPT ![b] = FALSE]
    /\ NewSocket(b)
    /\ UNCHANGED <<server, late, toServer, toBrowser, page, bounds>>

\* advanceSequenceFromNodes(): past every id of one's own in the state.
Advanced(seq, c, ns) ==
    LET own == {n[2] : n \in {m \in DOMAIN ns : m[1] = c}} \cup {seq}
    IN  CHOOSE s \in own : \A t \in own : t <= s

\* The open and message events.
Incoming(b) == Head(toBrowser[b])

OnOpened(b) ==
    /\ Incoming(b).type = "open"
    /\ link' = [link EXCEPT ![b] = "open"]
    /\ UNCHANGED page

OnAuth(b) ==
    /\ Incoming(b).type = "auth"
    /\ clientId' = [clientId EXCEPT ![b] = Incoming(b).id]
    /\ UNCHANGED <<link, sequence, nodes>>

OnListState(b) ==
    /\ Incoming(b).type = "list_state"
    /\ nodes' = [nodes EXCEPT ![b] = NodesMerged(@, Incoming(b).nodes)]
    /\ sequence' = [sequence EXCEPT ![b] = Advanced(@, clientId[b], Incoming(b).nodes)]
    /\ UNCHANGED <<link, clientId>>

OnEvent(b) ==
    /\ link[b] # "closed" /\ toBrowser[b] # << >>
    /\ OnOpened(b) \/ OnAuth(b) \/ OnListState(b)
    /\ toBrowser' = [toBrowser EXCEPT ![b] = Tail(@)]
    /\ UNCHANGED <<server, peer, late, toServer, timer, timeouts, bounds>>

(* The user of the page. *)

InTransit(b) == Len(toServer[b]) + Cardinality({i \in DOMAIN toBrowser[b] :
                                                  toBrowser[b][i].type = "list_state"})

\* The sync button ships the whole local state; on a connection that broke without
\* the page knowing, it is simply lost.  Bound: one sync is read before the next.
Sync(b) ==
    /\ link[b] = "open" /\ peer[b] = "serving"
    /\ toServer[b] = << >> /\ InTransit(b) < MaxStates
    /\ toServer' = [toServer EXCEPT ![b] = Append(@, ListState(nodes[b]))]
    /\ UNCHANGED <<server, peer, late, toBrowser, reconnect, page, bounds>>

\* The element the list ends with, as the user sees it.
IsLastVisible(ns, n) ==
    IF Visible(ns) = {} THEN n = Head0
    ELSE n \in Visible(ns) /\ \A m \in Visible(ns) \ {n} : Precedes(ns, m, n)

\* rgaInsertNode() of a new live node.
WithNode(ns, id, previous, v) ==
    [n \in DOMAIN ns \cup {id} |->
        IF n \in DOMAIN ns THEN ns[n]
        ELSE [previous_id |-> previous, value |-> v, deleted |-> FALSE]]

\* [mutant] The sequence number is used but not advanced.
ListAddAtEndStale(b, v) ==
    /\ clientId[b] # 0 /\ edits < MaxEdits
    /\ edits' = edits + 1
    /\ \E last \in Visible(nodes[b]) \cup {Head0} :
          /\ IsLastVisible(nodes[b], last)
          /\ nodes' = [nodes EXCEPT ![b] =
                          WithNode(@, NextId(clientId[b], sequence[b]), last, v)]
    /\ UNCHANGED <<server, wire, reconnect, clientId, sequence, faults>>

\* listAddAtEnd(), connected or not.
ListAddAtEnd(b, v) ==
    /\ clientId[b] # 0 /\ edits < MaxEdits
    /\ edits' = edits + 1
    /\ sequence' = [sequence EXCEPT ![b] = @ + 1]
    /\ \E last \in Visible(nodes[b]) \cup {Head0} :
          /\ IsLastVisible(nodes[b], last)
          /\ nodes' = [nodes EXCEPT ![b] =
                          WithNode(@, NextId(clientId[b], sequence[b]), last, v)]
    /\ UNCHANGED <<server, wire, reconnect, clientId, faults>>

\* listDelete()
ListDelete(b, n) ==
    /\ clientId[b] # 0 /\ edits < MaxEdits
    /\ edits' = edits + 1
    /\ n \in Visible(nodes[b])
    /\ nodes' = [nodes EXCEPT ![b][n].deleted = TRUE]
    /\ UNCHANGED <<server, wire, reconnect, clientId, sequence, faults>>

\* The tab is closed and opened again.
Reload(b) ==
    /\ faults < MaxFaults
    /\ faults' = faults + 1
    /\ late' = late \cup StatesIn(toServer[b])
    /\ toServer' = [toServer EXCEPT ![b] = << >>]
    /\ toBrowser' = [toBrowser EXCEPT ![b] = << >>]
    /\ NewSocket(b)
    /\ timer' = [timer EXCEPT ![b] = FALSE]
    /\ timeouts' = [timeouts EXCEPT ![b] = 0]
    /\ clientId' = [clientId EXCEPT ![b] = 0]
    /\ sequence' = [sequence EXCEPT ![b] = 0]
    /\ nodes' = [nodes EXCEPT ![b] = EmptyNodes]
    /\ UNCHANGED <<server, edits>>

-----------------------------------------------------------------------------
Serve(b) == OnOpen(b) \/ OnMessage(b)

Server == OnLateMessage \/ Crash \/ Restart \/ \E b \in Browser : Serve(b)

Page(b) == OnClose(b) \/ Reconnect(b) \/ OnEvent(b)

User(b) == \/ Sync(b) \/ Reload(b)
           \/ \E v \in Value : ListAddAtEnd(b, v)
           \/ \E n \in DOMAIN nodes[b] : ListDelete(b, n)

Next == Server \/ \E b \in Browser : Lose(b) \/ Page(b) \/ User(b)

\* The server's loop gets round to every connection, a page's event loop runs and
\* its timer fires, and whoever runs the server starts it again.  Nobody has to
\* press sync.
SystemSpec ==
    /\ Init /\ [][Next]_vars
    /\ WF_vars(Restart)
    /\ \A b \in Browser : WF_vars(Serve(b)) /\ WF_vars(Page(b))

\* The same, and every user presses sync now and then.
Spec == SystemSpec /\ \A b \in Browser : WF_vars(Sync(b))

-----------------------------------------------------------------------------
InFlight == UNION {StatesIn(toServer[b]) \cup StatesIn(toBrowser[b]) : b \in Browser}

\* The lists kept and sent are well formed, and so are connections and timers.
TypeOK ==
    /\ up \in BOOLEAN /\ IsNodeMap(master) /\ minted \in 0..Len(Drawn)
    /\ peer \in [Browser -> {"waiting", "serving", "gone"}]
    /\ link \in [Browser -> {"connecting", "open", "closed"}]
    /\ timer \in [Browser -> BOOLEAN] /\ timeouts \in [Browser -> Nat]
    /\ clientId \in [Browser -> Client \cup {0}]
    /\ sequence \in [Browser -> Nat]
    /\ DOMAIN nodes = Browser /\ \A b \in Browser : IsNodeMap(nodes[b])
    /\ \A ns \in late \cup InFlight : IsNodeMap(ns)

\* The ids of all elements there are, in a page, at the server or on their way.
IdsAnywhere ==
    UNION ({DOMAIN master} \cup {DOMAIN nodes[b] : b \in Browser}
             \cup {DOMAIN ns : ns \in late \cup InFlight})

\* No element anywhere bears an id that a page, or an id just handed out, could
\* give to a new one.
SequenceLeads ==
    \A n \in IdsAnywhere, b \in Browser :
        /\ n[1] = clientId[b] => n[2] <= sequence[b]
        /\ n[1] \notin AuthsIn(toBrowser[b])

\* An element that is added has an id that is nowhere else, not even as the
\* tombstone of an element from before a restart: "a recycled client-N cannot OR a
\* stale tombstone over a fresh local node" (server.cpp:17-18).
FreshElement ==
    [][\A b \in Browser, v \in Value :
          ListAddAtEnd(b, v) => NextId(clientId[b], sequence[b]) \notin IdsAnywhere]_vars

\* A disconnected page has exactly one attempt to reconnect ahead of it, and a
\* page with a connection has none.
ReconnectPlanned ==
    \A b \in Browser : timeouts[b] = IF link[b] = "closed" THEN 1 ELSE 0

\* "Edits made while offline still converge once you reconnect": when the edits
\* and the faults have ended, every page and the server come to hold the same list.
Converges == <>[](\A b \in Browser : nodes[b] = master)

\* "Manual sync button that ships the full local state for merge and rebroadcast"
\* (README.md:20-21): what was merged reaches the pages that are connected.
Rebroadcast ==
    \A b \in Browser, n \in Client \X (1..MaxEdits) :
        n \in DOMAIN master /\ link[b] = "open"
            ~> n \in DOMAIN nodes[b] \/ link[b] # "open"

================================================================================

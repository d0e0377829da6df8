# TLA+ models and proofs for the collaborative CRDT demo

A C++ server and browser pages share three documents: a counter, a list and a text. Each document
is a CRDT kept by every party, and whole states travel over WebSockets. This directory models that
system in TLA+, checks it with TLC on small instances, and proves most of its safety properties for
every number of replicas with TLAPS. Paths below are relative to the repository's root.

1. [The system](#1-the-system)
2. [What makes it hard](#2-what-makes-it-hard)
3. [Modules and the code they model](#3-modules-and-the-code-they-model)
4. [Runs](#4-runs)
5. [Bounds](#5-bounds)
6. [Fairness](#6-fairness)
7. [Proofs](#7-proofs)
8. [Where code and documentation disagree](#8-where-code-and-documentation-disagree)
9. [Not modelled](#9-not-modelled)
10. [Plan](#10-plan)

## 1. The system

| Component | Source | State | Operations |
|---|---|---|---|
| List RGA | `src/crdt/list_rga.cpp` | `_nodes`, `_children` (sorted siblings by parent), `_applied_operations`, `_pending_changes` and their index `_pending_operations`, `_local_sequence` | `insert_at_beginning`, `insert_after`, `erase`, `apply` with `retry_pending_changes`, `state`, `merge`, `items` |
| Text RGA | `src/crdt/text_rga.cpp` | the same with characters | the same; `text` for `items` |
| PN counter | `src/crdt/counter_pn.cpp` | two maps client → `uint64` | `increment`, `decrement`, `merge`, `state`, `value` |
| Wire codec | `src/server/handler.cpp` | none | JSON ↔ states, a payload whole or not at all; drops zero counter entries |
| Dispatch | `src/server/messages.cpp` | none | decode, merge into the master, encode the reply |
| Server | `src/server/server.cpp`, `src/main.cpp` | three master replicas, `_running`, `_started`, `_loop`, `_listen_socket`, `_io_thread` | `start`, `stop`, `join`, destructor, `on_listen_result`, `on_open`, `on_message` |
| Assets, file reading | `src/server/assets.cpp`, `src/util/io.cpp` | none | read three files once |
| Page: replicas | `website/app.js` | `clientId`, `counterState`, `listState`, `textState` | edit, merge, render |
| Page: text editor | `website/app.js` | the textarea | diff against the rendered text on input, render on merge |
| Page: transport | `website/app.js` | the socket, `reconnectTimer`, `reconnectDelay` | `connect`, its listeners, `scheduleReconnect`, the sync button |

How they interact:

- A **page** opens a WebSocket. The server's `on_open` sends it a random client id and the three
  master states. From then on the user edits locally, and the *sync* button sends the whole local
  states.
- The **server** runs one IO thread (the uWebSockets loop). `on_message` merges a state into the
  master and sends the merged state back to the sender. The masters live in memory only.
- Each replica's **loops** (`merge`'s passes, `retry_pending_changes`' sweeps, `render_from`'s
  stack) run over data whose order an `unordered_map` or the network chose.
- The **owner** of the server calls `start`, `join` and the destructor; `stop` may be called on
  any thread and talks to the IO thread through three atomics and a callback deferred to the loop.
- The classes also exchange **single changes** through `apply()`. The server and pages of this
  repository only exchange states; the tests under `tests/crdt` exchange changes, and a library
  user may do both.

What makes each component correct:

- *RGA.* Whoever was told the same shows the same document, whatever carried it, in whatever
  order, however often; nothing told is lost; nothing deleted comes back; the tree of siblings
  agrees with the nodes; the loops compute what they should and end.
- *Counter.* An entry is never invented, doubled or lowered; the value does not depend on map
  order; counting up does not lower the value.
- *Codec and dispatch.* A payload reaches one master whole, or none.
- *Text editor.* No edit is lost between textarea and replica, what is typed stays together and
  in place, and every page comes to show the server's text.
- *Session.* New elements get ids nobody has, across reconnects, crashes and reloads; a
  disconnected page retries once at a time and for ever; edits made offline reach everyone who
  syncs.
- *Server lifecycle.* `stop()` never hangs, is never skipped, never touches a dead loop; `join()`
  returns.

## 2. What makes it hard

The list with source lines is `hazards` in `PROJECT.json`. By theme:

- **Order and repetition of messages.** Changes before their dependencies; the same change twice;
  a change whose effect already came with a state; states merged long after they were taken.
- **Two records of one thing.** `_children` beside `_nodes`, `_pending_operations` beside
  `_pending_changes`, `_applied_operations` beside what was really applied, `sequence` beside the
  ids in `nodes`.
- **Loops that change what they iterate over**, in an order nobody chose, and that must stop on
  dangling or cyclic input but not too early.
- **Boundaries.** Unsigned wrap, saturation, zero entries that the wire drops.
- **Connections and memory that go away.** Sync in flight when the socket breaks, the server
  forgetting everything, the page keeping its sequence number under a new id.
- **Two views of one text.** The textarea beside the tree of letters, compared only when an input
  event or a merge happens, and letters that are not what the user takes for a letter.
- **Payloads that are partly good.**
- **Threads.** `stop()` against the listen callback and against `run_loop()`'s own last store.

## 3. Modules and the code they model

`map` in `PROJECT.json` gives the source lines of each definition.

```
RGA ──┬── RGAReplicas ──(refines)── Document
      ├── MergeLoop ─┬─ ReplicaLoops ── MCReplicaLoops
      ├── Render ────┤
      ├── Wire ──────┴─ TextSession ── MCTextSession
      └── Session ── MCSession
CounterPN        ServerLifecycle

RGATheorems ──┬── RGAReplicasProofs                 CounterPNProofs
              ├── SessionProofs                     ServerLifecycleProofs
              └── RenderTheorems ──┬── ReplicaLoopsProofs
                                   └── TextSessionProofs
```

**RGA** is the data type shared by everything else: ids and their order, nodes, changes, what
landing a change or merging a state does to `_nodes` and `_children`. `TextRGA` is `ListRGA` with
another payload, so one module stands for both. Three abstractions to know:

- An id is `<<client, sequence>>`. In the code it is a string `client:sequence` with the sequence
  padded to 20 digits, and only `<` on strings is used; that orders by client, then by number. The
  head (the empty string) is `<<0, 0>>`, before every id.
- `SortIds(S)` is the sorted sequence of a set, by what it is rather than by sorting.
- `Landing(known, incoming)` is the set of nodes that land when passes are repeated until none
  makes progress: the least set closed under "my predecessor is known, landed or the head".
  `merge()` and `retry_pending_changes()` are stated by this set, in one step; the loop modules
  show that the loops compute it.

**RGAReplicas** is a set of replicas. One action per public operation: `InsertAfter` (also
`insert_at_beginning`), `Erase`, `Deliver` (`apply` of somebody's change), `TakeState`, `Merge`.
`Apply` has the code's three outcomes: now (with the sweeps that follow), later (buffered), again
(ignored). The network is the weakest possible: any change ever made may be delivered at any time,
any number of times or never, and any snapshot may be merged late and again. The calls the code
rejects with an exception change nothing; they are guards. `heard` is a history variable, the
facts a replica was told, which no action reads.

**Document** is the abstract specification: no buffers, sequence numbers or loops, only "the
document is a function of the facts heard". `RGAReplicas!ImplementsDocument` is the refinement,
with `document <- nodes` and `made <-` the facts of the changes.

**MergeLoop** runs `merge()` one loop iteration at a time (`todo` is what lies ahead of the
iterator, `kept` what lies behind it, `progress` is `made_progress`), over states that may hold
anything, and in any order of the nodes. `rgaMerge` in `app.js` runs the same passes.
**Render** has the two walks as operators: `render_from()` with its explicit stack, one iteration
after the other (`Walked`), and the pages' recursive `rgaWalk()` (`Recur`).
**ReplicaLoops** is one replica with all its loops: calls of `merge()` as `MergeLoop` runs them,
calls of `apply()` with each iteration of `retry_pending_changes()` an action, in any order of calls
and of the buffer, and both walks whenever no call is running. The walks are checked against an
order that is defined without stack or recursion over siblings (`RGA!Precedes`).

**Wire** is `handler.cpp` and `messages.cpp`: which payloads decode (`DecodesCounter`,
`DecodesNodes`), what they do to the three masters (`Processed`) and what is answered (`Replies`).
A payload is a record whose fields may be missing or `Junk`, a JSON value of a wrong type. Its
array of nodes is a function from ids to the rest of each entry. `Parses` is the one thing known
of `json::parse()`: a string with a lone half of a surrogate pair spoils the payload.

**TextSession** composes pages whose users type with the server's codec and masters. `Input` is
the whole input event: the textarea takes any of `Texts`, and `Edited` is `textApplyEdit()`, with
`CommonPrefix` and `CommonSuffix` for its two loops. `OnTextState` merges, advances the sequence
number and renders. `OnStray` is a payload of any kind from another client, which may send back
letters the pages typed, as far as the server has them (`Knows`): every client ships the whole
state. A text is a sequence of UTF-16 units, as it is to the diff, and every value is one unit, as
the values are that pages make (`newStr[i]`, `app.js:249`). The codec takes any string: a value of
no unit or of several, which no page makes, would put the ids and the letters of the diff out of
step (`app.js:239`, `243`), and is left out. Connections hold here; their loss is in `Session`.

**CounterPN** has both maps per replica, unsigned arithmetic modulo `UMax + 1`, the saturating sum
in any order of the map, and a wire that drops zeros (`Wire`).

**Session** composes pages and the server over one list. The server: `OnOpen`, `OnMessage`,
`OnLateMessage`, `Crash`, `Restart`. A page's transport: `OnClose` with `scheduleReconnect`,
`Reconnect` when the timer fires, `OnEvent` for the open event and the two messages. The user:
`ListAddAtEnd`, `ListDelete`, `Sync`, `Reload`. `Lose` breaks a connection; each side may learn of
it later, and what was sent on it may still reach the server (`late`). `Drawn` is the sequence of
ids `make_client_id()` will draw, 128 random bits that are taken never to repeat. The counter and
the text travel in envelopes of their own and share no state with the list beyond `clientId`.

**ServerLifecycle** has one action per access to an atomic: `Start`/`Spawn`,
`Stop`/`StopWait`/`StopLoad`/ `StopDefer`, `ListenOk`/`Publish`/`Release` or
`ListenFails`/`Release`, `CloseListenSocket`, `RunEnds`, `RunLoopReturns`, `Join`/`Joined`,
`Destroy`/`DestroyJoin`. `Terminate` is `std::terminate()`: an exception that leaves the IO thread
(`Throw`), and a `start()` over a joinable thread (`StartUnjoined`).

Definitions marked `[mutant]` are not part of the model. Each is a plausible slip in the
definition that follows it; with it in place of that definition, the property named with it in
`PROJECT.json` is violated.

## 4. Runs

From this directory, `tlc -config X.cfg M`.

| Run | Module, config | Checks | Shows |
|---|---|---|---|
| `rga_mixed` | `RGAReplicas`, `_mixed` | `TypeOK`, `CausallyClosed`, `OneOrigin`, `ChildrenMirrorNodes`, `BufferIndexed`, `NothingLost`, `AppliedTookEffect`, `Convergence`, `NoResurrection` | two replicas, up to four changes, changes and states mixed at will |
| `rga_changes` | `RGAReplicas`, `_changes` | `BufferedOnlyWhileBlocked`, `ImplementsDocument` | three replicas with changes alone implement `Document`, and the buffer holds only what is blocked |
| `rga_left_behind` | `RGAReplicas`, `_left_behind` | `ToldIsShown` **violated** | with states mixed in, a buffered change can outlive its dependency's arrival (section 8) |
| `replica_loops` | `MCReplicaLoops` | `TypeOK`, `LoopInv`, `MergeIsOneStep`, `ApplyIsOneStep`, `WalkIsDocumentOrder`, `MergeReturns`, `ApplyReturns` | the passes of `merge()` and the sweeps of `apply()`, in any order of calls on one replica, compute RGAReplicas' single steps, and end; both walks show what they leave in document order |
| `counter` | `CounterPN`, `_fitting` | `TypeOK`, `OwnerLeads`, `EntryIsLargestHeard`, `SumIsOrderFree`, `EntriesOnlyGrow`, `IncrementNeverLowers` | two counters with late and repeated merges, while own counts fit the width |
| `session` | `MCSession` | `TypeOK`, `SequenceLeads`, `ReconnectPlanned`, `FreshElement`, `Converges` | two pages and a server over a lost connection, a crash or a reload |
| `session_rebroadcast` | `MCSession`, `_rebroadcast` | `Rebroadcast` **violated** | only the sender gets the merged state back (section 8) |
| `lifecycle` | `ServerLifecycle` | `TypeOK`, `LoopIsCurrent`, `StopReturns`, `StopCloses`, `JoinReturns` | three threads calling `stop()` at any point of one run |
| `lifecycle_again` | `ServerLifecycle`, `_again` | `LoopIsCurrent` **violated** | the latch is not reset between two runs (section 8) |
| `text` | `MCTextSession` | `TypeOK`, `SameLetters`, `AllOrNothing`, `EditsLand`, `RenderKeeps`, `TextConverges` | two pages typing into one text, and a third client's payloads, good, partly good and bad |
| `text_typed` | `MCTextSession`, `_typed` | `TypedIsRendered` **violated** | what is typed in mid-text comes out elsewhere (section 8) |
| `text_halves` | `MCTextSession`, `_halves` | `TextConverges` **violated** | one character of two UTF-16 units, and the page's text is never merged again (section 8) |

What the less obvious properties say:

- `OneOrigin`: an operation id names one change, and nobody holds an element, a place, a value or
  a tombstone that no operation made.
- `NothingLost`: what a replica was told is exactly what its nodes and its buffer say. It would
  fail if a duplicate, a stale index or a merge dropped something, and also if something appeared
  from nowhere.
- `AppliedTookEffect`: ignoring an operation marked applied is harmless.
- `Convergence`: two replicas told the same by whatever mix, with nothing left to sweep, agree in
  nodes *and* in sibling order.
- `SequenceLeads`: no element anywhere, sent or stored, bears an id that a page could still give
  to a new one, or an id that is being handed out. `FreshElement` is its consequence for each new
  element.
- `Converges`: after the last edit and the last fault, everyone ends with the same list, for ever.
- `WalkIsDocumentOrder`: the server and the pages, which walk the tree by different means, show
  the same elements in the same order, the one ids and predecessors alone define.
- `AllOrNothing`: a payload with one entry that cannot be read changes nothing; any other changes
  exactly the master of its type, to what somebody told all of it would hold. It is said of other
  clients' payloads and of the pages' own.
- `EditsLand`: after an input event the letters that stay are in their order, the typed ones are
  one run, and the run stands where the user typed it, or further right behind letters that were
  inserted after the same letter earlier. It is what holds of `TypedIsRendered`.
- `SameLetters`: a page that has its id, and has read all it was sent or has any letter in its
  replica, holds the same letters in textarea and replica, the same number of times, although their
  order may differ until the next render. What is typed before the id came is not covered, and
  cannot be: it is turned into no edits (`app.js:269`), and the first render throws it away
  (`app.js:262`) unless an input event comes first, whose diff takes it in.
- `RenderKeeps`: the state a page renders is older than what its user typed and erased since the
  sync. A letter goes from the text only if the state has it deleted, and none comes back that was
  erased here.
- `StopCloses`: a `stop()` that found the server running closes the port for good.

Deadlock is checked except in the two lifecycle runs (the owner destroys the server in the end, and
a server nobody calls may rest).

## 5. Bounds

- `rga_mixed`: `MaxChanges = 4`, two replicas, one value. Four changes make chains of three, forks
  below one parent, a delete of an element that has descendants, deletes by both sides and
  buffered chains. Values are never compared, so one is enough. `rga_changes` takes three
  replicas, for changes passed on by third parties, and three changes.
- `replica_loops`: states over three ids, with a fork, dangling chains, a cycle of three, one node
  with different tombstones in successive calls, and one that two states place differently; five
  changes: a chain of three, a sibling, and a delete in its midst. Passes and sweeps of depth three
  are needed for the worst order, so "one too few" shows. Four elements are enough for a deleted
  one with descendants beside a live sibling, where a wrong walk differs from a right one.
- `text`: two pages, two input events or payloads of third clients (`MaxInputs`), two states under
  way per connection (`MaxStates`). `MCTexts` lets one step type, delete or replace at the
  beginning, in the midst and at the end, and has a repeated letter. Two inputs are needed for
  typing into what was typed before, on one page or on both. `MCStray` has one payload for each way
  to be taken or refused, one of which deletes a letter of a page and goes on from it. `text_typed` needs no third client, `text_halves` one input.
- `counter`: `Cap = 3` stands for `INT64_MAX`, so entries are 3 bits wide and sums saturate after
  two steps. Nothing in the module depends on the width but `Cap`. `MaxBumps = 3` with amounts 1
  and 3 reaches saturation and the edge of the width.
- `session`: two pages, two edits and one fault (a lost connection, a crash or a reload, at any
  point), four client ids, drawn neither rising nor falling so that no property leans on their
  order. `MaxStates = 2` list states under way per connection; a page has one sync unread at a
  time. An add and a delete, or two adds, with a crash between them, are what the tombstone and
  sequence hazards need.
- `lifecycle`: `MaxRuns = 1`, the owner and two other threads that may call `stop()` again and
  again, two clients. `lifecycle_again`: two runs.

## 6. Fairness

All fairness is weak, and only on what the code's scheduling does by itself.

- `MergeLoop`, `ReplicaLoops`: the loop inside one call on a thread that is not blocked keeps
  going. Nobody has to call.
- `TextSession`: the server's loop serves each connection (`Serve`), each page handles what it was
  sent (`OnEvent`), and each user presses sync now and then (`Sync`), without which nothing would
  leave a page. Nobody has to type.
- `Session!SystemSpec`: the server's loop serves each connection (`Serve`), a page's event loop
  runs and its reconnect timer fires (`Page`), and whoever runs the server starts it again
  (`Restart`; without it nothing could converge after a crash). Losses, crashes, reloads and edits
  are never forced, and are finite by their bounds.
- `Session!Spec` adds that each user presses sync now and then. `Converges` needs it: nothing
  syncs by itself. `Rebroadcast`, which is said of the system and not of its users, is checked
  without it.
- `ServerLifecycle`: no thread stops in the middle of `start`, `stop`, `join` or the destructor,
  and the IO thread runs. Nobody has to call anything and no client has to leave: `JoinReturns`
  assumes, in the property, that the clients have left.

## 7. Proofs

`tlapm M.tla` proves every obligation of the eight modules with theorems. What each states holds for
all values of the constants.

| Theorem | Module | States |
|---|---|---|
| `TypeCorrect` | `RGAReplicasProofs` | `Spec => []TypeOK` |
| `AlwaysCausallyClosed` | | `Spec => []CausallyClosed` |
| `AlwaysMirrored` | | `Spec => []ChildrenMirrorNodes` |
| `NeverResurrected` | | `Spec => NoResurrection` |
| `AlwaysOneOrigin` | | `Spec => []OneOrigin` |
| `AlwaysIndexed` | | `Spec => []BufferIndexed` |
| `NeverLost` | | `Spec => []NothingLost` |
| `AppliedHasEffect` | | `Spec => []AppliedTookEffect` |
| `ReplicasConverge` | | `Spec => []Convergence` |
| `BufferedWhileBlocked` | | `ChangeSpec => []BufferedOnlyWhileBlocked` |
| `DocumentImplemented` | | `ChangeSpec => ImplementsDocument` |
| `WalksAgree` | `RenderTheorems` | for every tree of nodes, `render_from()` ends, and both walks give its visible elements in the order of `Precedes` |
| `MergeTypeCorrect` | `ReplicaLoopsProofs` | `Spec => []TypeOK` |
| `MergeLoopCorrect` | | `Spec => []LoopInv` |
| `MergeImplementsStep` | | `Spec => []MergeIsOneStep` |
| `LoopsTypeCorrect` | | `LoopsSpec => []TypeOK` |
| `LoopsMergeImplementsStep` | | `LoopsSpec => [](LoopInv /\ MergeIsOneStep)` |
| `ApplyImplementsStep` | | `LoopsSpec => []ApplyIsOneStep` |
| `AlwaysTree` | | `LoopsSpec => []IsTree` |
| `WalkRendersDocument` | | `LoopsSpec => []WalkIsDocumentOrder` |
| `CounterTypeCorrect` | `CounterPNProofs` | `Spec => []TypeOK`, wrapping included |
| `CounterOwnerLeads` | | `FittingSpec => []OwnerLeads` |
| `CounterEntriesOnlyGrow` | | `FittingSpec => EntriesOnlyGrow` |
| `CounterHoldsLargest` | | `FittingSpec => []EntryIsLargestHeard` |
| `CounterSumIsOrderFree` | | `FittingSpec => []SumIsOrderFree` |
| `CounterNeverLowered` | | `FittingSpec => IncrementNeverLowers` |
| `SessionTypeCorrect` | `SessionProofs` | `SystemSpec => []TypeOK` |
| `AlwaysReconnects` | | `SystemSpec => []ReconnectPlanned` |
| `SequenceAlwaysLeads` | | `SystemSpec => []SequenceLeads` |
| `ElementsAreFresh` | | `SystemSpec => FreshElement` |
| `TextTypeCorrect` | `TextSessionProofs` | `Spec => []TypeOK` |
| `TypedTextLands` | | `Spec => EditsLand` |
| `TextareaHoldsReplica` | | `Spec => []SameLetters` |
| `RendersKeepTyping` | | `Spec => RenderKeeps` |
| `PayloadsWholeOrNot` | | `Spec => AllOrNothing` |
| `LifecycleTypeCorrect` | `ServerLifecycleProofs` | `Spec => []TypeOK`, for one run |
| `StopFindsTheLoop` | | `Spec => []LoopIsCurrent`, for one run |

*Assumptions*, which TLC evaluates in each run: client ids are positive numbers
(`ClientAssumption`: only their order is used, and the head is below them all); the value a delete
carries is no list item (`ValueAssumption`); bounds are natural numbers; what `merge()` is given is
a finite node map (`IncomingAssumption`; its chains may be anything); the changes `apply()` is given
are changes, one per operation id (`ChangesAssumption`, which `AlwaysOneOrigin` justifies); `Cap` is
positive, and what is counted is an unsigned number (`AmountAssumption`); the ids `make_client_id()`
draws never repeat (`DrawnAssumption`). For `TextSession` also: the pages are finitely many
(`BrowserAssumption`); texts are sequences of values (`TextsAssumption`); no id is a JSON value of a
wrong type (`JunkAssumption`); a field of a payload that has the type its decoder wants has a value
of it, and payloads are finite (`StrayAssumption`). `StrayIdsAssumption` says that other clients do not contradict each
other: what two of their payloads say of one element, its place and its value, is the same. For a
letter that a page typed the guard `Knows` says it instead, of the payload and the server's text: the
pages' letters depend on the behaviour, and other clients have them from the server. Both are what
128 random bits are for, since clients add elements under ids of their own and copy those of others;
a master that was told two contents of one id keeps the first, and no document tells both. Only
`PayloadsWholeOrNot` uses them.

*RGATheorems* holds the facts about the data type: every finite set of ids has exactly one sorted
list; what `Landing` returns is closed and reaches the head; a replica that grows by a set whose
chains are there stays closed, and its sibling lists stay the sorted tree.

*Replicas: shape.* The inductive invariant is `Shape == TypeOK /\ CausallyClosed /\
ChildrenMirrorNodes`. The parts need each other: `ChildrenWith` re-sorts only the lists of parents
of new nodes, so `_children` mirrors `_nodes` after the step only if it did before; that every node
has a list takes the closure; and both take the types. Every action that changes a replica (`apply`
with its sweeps, `merge`) is shown to be a growth by a closed set (`ApplyNowGrows`, `MergeGrows`),
and one lemma shows that growth keeps `Shape`. Snapshots have to be in the invariant, because a
merge is only as closed as the state it is given.

*Replicas: what they hold.* On top of `Shape`, `Origins` keeps the books of all replicas at once: an
operation id names one change and none is beyond the sequence number of its maker, whatever any
replica or snapshot holds was made by some change, and each replica is `Sound(r)`: its index
mirrors its buffer, what it was told is in its nodes or its buffer, and what it marks as applied
shows. None of the conjuncts is inductive alone. That the index is right needs unique ids, since it
is searched by id alone; unique ids need `sequence` to lead every id its owner made; and that an
ignored repetition loses nothing needs both, and that the id marked applied belongs to the very
change that is ignored. `OneOrigin`, `BufferIndexed`, `NothingLost` and `AppliedTookEffect` are
parts of `Origins`. `Convergence` follows from it without another step of induction: with nothing
left that could land, what waits in the buffer is decided by the facts heard
(`SettledWhenUnblocked`), so the nodes are, and the sibling lists are a function of the nodes.

*Document.* `DocumentImplemented` is the refinement, step by step. The initial replicas are the
initial document; a change made or delivered adds its facts to what was heard (`ApplyHears`), and
the replica then shows what is settled of them, which takes `Sound` and `BufferedOnlyWhileBlocked`
before and after the step. `NextBlocked` shows that sweeps leave nothing in the buffer that could
land; it is true only as long as no state is merged (section 8).

*merge().* The inductive invariant is `LoopInv`, which TLC also checks: what was there is there
with the tombstones seen so far; what was added belongs to `Landing` and is as it came; and after
a pass without progress everything kept is blocked. The conjunct on what is kept makes the nodes
of a finished call a saturated set, and `Landing` is the least of those; the conjunct on what was
added gives the other inclusion. Hence `MergeIsOneStep`, which justifies the single `Merge` step
in `RGAReplicas`, `Session` and `TextSession`.

*merge() and apply() in any order.* `ReplicaLoops` adds the sweeps of `retry_pending_changes()`. The
inductive invariant is `Inv`: types, `LoopInv`, `BufferInv` (nodes are marked applied, index and
buffer agree, what `apply()` began with is remembered as it was) and `SweepInv`. The last is the
loop invariant of the sweeps: the replica is what the changes landed so far make of the one
`apply()` was called on, every change landed is one that `Landed` contains, and behind the iterator
of a sweep without progress everything waits. As with `merge()`, the two inclusions together give
`ApplyIsOneStep` when the sweeps end, in whatever order the buffer is read. `AlwaysTree` is stated
for what reads the result: the predecessors of one replica's nodes are a tree under the head, and
`_children` lists it, after every iteration of either loop and although `merge()` is given cycles
and dangling chains. Both walks end because of it. Merging one's own or somebody's state while a
sweep runs is not among the steps, as no call of the class starts inside another.

*Both walks.* `RenderTheorems` shows that `render_from()` and `rgaWalk()` compute one thing, for
trees of any size. First the order: `Path(nodes)[n]` is a recursion over predecessors, of which a
solution has to be shown to exist before anything can be said of it. `ChainExists` has the chain by
induction over the tree (what holds after the head, and after each element it holds of, holds of
all: the closure of `Landing` again), `ChainsAgree` that there is only one, `PathSolves` that `Path`
gives it. `PrecedesIsOrder` follows, and `ListsAgree`: of given elements there is only one list in
that order. Then the recursion: `RecurWalks` says that what is collected below an element is the
list of what was inserted after it, since it holds of an element whenever it holds of its children
(`SubInduction`, by a descendant with the fewest descendants for which it would not); within one
element it is the fold over its siblings (`JoinRun`). Last the stack: `Left` is all that the frames
on it have still before them, and the invariant of the loop (`WalkInv`, `IterationStep`) is that
what was emitted is the list of the visible elements not left, that all of those come before all
that is left, and that iterations and frames together are at most two per element visited, and one
more. After `2 * Cardinality + 1` iterations the stack is therefore empty, and `WalksAgree` follows:
both walks are the one list of the visible elements. With `AlwaysTree` it gives
`WalkRendersDocument`: whatever states are merged and changes swept, what the server and the pages
show is the same, and it is in document order.

*Text.* The inductive invariant of `TextSession` is `Typed`: the masters and every page's nodes are
trees, `children` is a function of `nodes` (`SiblingLists`), what is under way are text states of
such trees, a page hears its id first and a text next (`Phase`), and no id of its own lies ahead of
its sequence number (`Leads`). The last two need each other: the diff puts new letters under ids
beyond the sequence number, so they are new only if it leads, and it leads the page's own id only
from the moment that id came, when the page has no letters yet. `TextTypeCorrect` is its first part.

`TypedTextLands` and `TextareaHoldsReplica` are about `textApplyEdit()`. `EditedIs` says what it does to the
nodes: the two loops have found a common beginning and end that do not overlap, what lies between
is erased, and the run that was typed hangs, one letter from the other, on the last letter of the
beginning. `EditGrows` says that the tree stays one, `RunIsListed` that the run is listed in the
order it was typed and that nothing else was inserted after any of it. So whatever comes after its
first letter and does not belong to it comes after all of it (`SubTogether`): the run is in one
piece, at the place where its first letter splits the letters that stay (`ListsSplit`). The letters
between that place and the one the user sees come after the anchor and before a letter inserted
after the anchor, so they were inserted after it too, which is `EditsLand`. For `SameLetters` the
letters are counted by value (`InputLetters`); what is shown after a merge is a render. Before the
first render a page that has its id has letters only from an input event, whose diff put all of the
textarea into the replica. `RendersKeepTyping` needs only that both lists of letters are those of the
visible nodes, which are trees by `Typed`.

`PayloadsWholeOrNot` has two halves. `ReadableDecodes`: the decoders take just the payloads of which
every entry can be read. `MergedIsTold`: the nodes after `merge()` are the document of the facts of
both sides, provided that no element is given two contents. That proviso is what takes an invariant,
`Agreed`. It says that there is a book of all elements held anywhere, by a master, by a page, under
way, or in another client's payload unless a page typed it, which every one of them agrees with
(`Booked`; of what pages typed, other clients say what the server's text does, by `Knows`); that an
element under a page's id is one the page has counted past (`Issued`); and that no two pages have
one id, held or on its way (`Distinct`). Merging adds nothing to the book. Typing does, and what it adds is
new by `Issued` and `Distinct`.

*Counter.* `OwnerLeads` needs `TypeOK` and that own entries fit the width (`FittingSpec`): a client
whose own count wraps is at once credited with more than it counts. `HeardInv` says that of each
entry nothing larger was heard and that it was heard itself, which merges keep since zeros, which
the wire drops, read as missing entries do. The sums are folds, so what they compute is proved by
induction over data: not by an induction theorem, but by taking the least position where the
claim would fail (`Least`). `FoldTable` shows first that the recursion in the fold's definition has
a solution at all, `SaturatingRun` and `PlainRun` what one more summand does, and
`SaturatingIsClamped` that saturating on the way is clamping in the end (`Cap` absorbs). That all
orders give one sum is `SumsAgree`, by taking the last summand of one order out of the other. It
holds for finite maps (`FiniteEntries`), which every step keeps.

*Session.* For any number of pages, edits and faults. `Typed` is `TypeOK` with the messages under
way, which a handler reads. `ReconnectPlanned` needs that a page keeps the handle of its timer
exactly while it is disconnected (`TimerInv`). `SequenceLeads` needs `OwnersInv`: a client id that
was handed out is held by one page or is on its way to one, once, and every element bears an id
that was handed out. Without it a page could be given an id under which another page has elements,
and the sequence number it kept would say nothing about them. What a merge brings
needs no more of the page than that its sequence number does not go back (`AdvancedIs`), since it
leads all elements of its id before they come back to it; that it keeps the number under a new id
is harmless, since the new id has no elements at all. The theorems are about `SystemSpec`,
without fairness, which `Spec` implies.

*Server.* For one run (`MaxRuns = 1`, as `main.cpp` starts it; `lifecycle_again` shows why not for
two), with any number of threads calling `stop()` and any number of clients. The inductive invariant
is `OneRun`: the types, what each point of `run_loop()` says of the atomics (`Phases`), and
`OneCloser`: the exchange of `_running` lets at most one thread through, and as long as that thread
is inside `stop()` nothing has closed the port, so the loop it found cannot end under it.

Each inductive invariant was checked with TLC on the instance of its run before it was proved:
`Agreed` with the book made of every state held at the time, and all but the invariants of the
walks, which quantify over more than TLC can enumerate; there TLC checked the property. `LoopInv` is
still in its run.

*Only model-checked.* Every safety and action property of a run that passes is proved. Liveness
(`MergeReturns`, `ApplyReturns`, `Converges`, `TextConverges`, `StopReturns`, `StopCloses`,
`JoinReturns`) is out of the prover's reach and stays with TLC. That the loops end, which is liveness
in `ReplicaLoops`, is proved of `render_from()` alone, whose iterations `Walked` counts.

## 8. Where code and documentation disagree

Each is a run that TLC ends with a counterexample; `findings` in `PROJECT.json` has the quotes.

- **Buffered changes after a merge** (`rga_left_behind`). `list_rga.hpp:9-10`: "operations that
  arrive before their dependency are buffered and retried once it lands". `merge()` does not
  retry: a change whose dependency lands through a state stays unapplied until the next successful
  `apply()`. `Convergence` therefore asks that nothing in the buffers could land.
- **Rebroadcast** (`session_rebroadcast`). `README.md:20-21`: sync "ships the full local state for
  merge and rebroadcast". The server answers the sender only, as `server.hpp:13-14` says.
- **A second run** (`lifecycle_again`). `server.cpp:71-74`: a `stop()` "can never see `_loop ==
  nullptr` and skip the deferred close". `_started` is not reset: after a run whose listening
  failed, a joined and restarted server's `stop()` does not wait, and can skip the close.
  `main.cpp` starts the server once; for one run `LoopIsCurrent` holds.
- **Typing in mid-text** (`text_typed`). `README.md:15-16`: "a diff against the rendered view so
  local typing turns into RGA inserts and deletes". What is typed between two letters is inserted
  after the left one, behind what was inserted after it earlier, which as a rule is the right one:
  typing z into xy gives xyz, shown at the next render. `EditsLand` says what does hold.
- **Characters outside the basic plane** (`text_halves`). `README.md:5-6`: edits "converge once you
  reconnect". The diff makes two nodes of an emoji, each with half of a surrogate pair, and
  `json::parse` refuses the payload. Nodes are never removed, so that page's text is refused for
  ever, without a reply.

Not a run of its own: `README.md:108-109` says "The counter saturates instead of overflowing". It is
the sum in `value()` that saturates; `increment()` adds modulo 2^64, and a replica whose own entry
wraps lowers its value. `CounterPN!FittingSpec` excludes that, and `CounterPN!Spec` has it.

## 9. Not modelled

- The spelling of JSON, object keys given twice, and an id given twice in one payload.
- The three asset files, the TLS files, HTTP routes: read once, no state.
- uWebSockets' and nlohmann/json's inside. From uWebSockets the model takes: ordered delivery per
  connection, callbacks on the loop's thread, a loop that ends when nothing is left to poll,
  `defer` from any thread.
- The 16 MiB payload limit and the length of the reconnect delay.
- In `Session`, the counter and the text; in `TextSession`, lost connections, and the pages' counters
  and lists. A page counts under a new id after each reconnect and keeps its old entries, which
  `CounterPN` covers as one more client.
- In the text, values of no UTF-16 unit or of several, which no page makes (section 3).
- The cursor of the textarea, and `textSuppressInput`: setting `value` from a script fires no
  input event. The depth of `rgaWalk`'s recursion.
- `start()` over an unjoined thread and exceptions of the IO thread end the process, in the model
  as in the code; no document says what they should do, so no property is stated.
- Build files, CI, scripts, page and style sheet.

## 10. Plan

Done, in this order: `RGA`, `RGAReplicas` with `Document`; `MergeLoop`, `Render`, `ReplicaLoops`;
`CounterPN`; their proofs; `Session`; `ServerLifecycle` and its proofs; `Wire` and `TextSession`; the
other properties of `RGAReplicas` and the refinement; the proofs of `ReplicaLoops`, `Session` and
the counter's sums; the walks; the proofs of `TextSession`.

What is left:

1. The counter's entries under the ids of earlier connections, in `Session`.
2. Lost connections in `TextSession`, and with them the typed text that a page has when it gets a
   new id.

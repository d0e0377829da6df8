---------------------------- MODULE ServerLifecycle ----------------------------
(***************************************************************************)
(* start(), stop(), join() and the destructor of Server (server/server.cpp) *)
(* on the thread that owns it, stop() on other threads at any time, and the *)
(* IO thread, one access to an atomic at a time.                            *)
(***************************************************************************)
EXTENDS Integers

CONSTANTS
    Owner,     \* the thread that constructs, starts, joins and destroys the server
    Stopper,   \* other threads, which may call stop()
    MaxRuns,   \* bound: IO threads spawned in all
    MaxClients \* bound: connections open at a time

ASSUME ThreadAssumption == Owner \notin Stopper
ASSUME BoundsAssumption == MaxRuns \in Nat /\ MaxClients \in Nat

Thread == Stopper \cup {Owner}

VARIABLES
    running,     \* _running
    started,     \* _started
    loop,        \* _loop: 0 for nullptr, else the run whose loop it points to
    socket,      \* _listen_socket is not null; the port is open
    joinable,    \* _io_thread.joinable()
    runs,        \* IO threads spawned so far
    io,          \* where the IO thread is in run_loop()
    deferred,    \* close_listen_socket() calls deferred to the loop
    clients,     \* open connections
    owner,       \* what the owner is doing
    stopping,    \* where each thread is in stop()
    target       \* history: the run its stop() was called in; no action reads it

atomics == <<running, started, loop, socket>>
thread == <<joinable, runs, io>>
work == <<deferred, clients>>
callers == <<owner, stopping, target>>
vars == <<atomics, thread, work, callers>>

-----------------------------------------------------------------------------
Init ==
    /\ running = FALSE /\ started = FALSE /\ loop = 0 /\ socket = FALSE
    /\ joinable = FALSE /\ runs = 0 /\ io = "none"
    /\ deferred = 0 /\ clients = 0
    /\ owner = "idle"
    /\ stopping = [t \in Thread |-> "no"]
    /\ target = [t \in Thread |-> 0]

(* The owner. *)

\* std::terminate(): the process is gone.
Terminate ==
    /\ owner' = "gone" /\ stopping' = [t \in Thread |-> "no"]
    /\ io' = "none" /\ socket' = FALSE /\ clients' = 0 /\ deferred' = 0
    /\ UNCHANGED <<running, started, loop, joinable, runs, target>>

\* start(): _running.exchange(true); if it was true already, start() returns.
Start ==
    /\ owner = "idle" /\ stopping[Owner] = "no"
    /\ ~running /\ ~joinable /\ runs < MaxRuns
    /\ running' = TRUE
    /\ owner' = "spawn"
    /\ UNCHANGED <<started, loop, socket, thread, work, stopping, target>>

\* _io_thread = std::thread(...)
Spawn ==
    /\ owner = "spawn"
    /\ owner' = "idle"
    /\ joinable' = TRUE /\ runs' = runs + 1 /\ io' = "boot"
    /\ UNCHANGED <<atomics, work, stopping, target>>

\* start() after a run that was not joined: the assignment to _io_thread terminates.
\* Nothing another thread does between the exchange and it can matter.
StartUnjoined ==
    /\ owner = "idle" /\ stopping[Owner] = "no"
    /\ ~running /\ joinable
    /\ Terminate

\* join() is entered, and with no thread to join returns at once.
Join ==
    /\ owner = "idle" /\ stopping[Owner] = "no" /\ joinable
    /\ owner' = "join"
    /\ UNCHANGED <<atomics, thread, work, stopping, target>>

\* The destructor's stop(); the other threads are done with the server by then.
Destroy ==
    /\ owner = "idle" /\ \A t \in Thread : stopping[t] = "no"
    /\ owner' = "stop"
    /\ UNCHANGED <<atomics, thread, work, stopping, target>>

\* ... and its join().
DestroyJoin ==
    /\ owner = "stopped" /\ stopping[Owner] = "no"
    /\ owner' = IF joinable THEN "last join" ELSE "gone"
    /\ UNCHANGED <<atomics, thread, work, stopping, target>>

Joined ==
    /\ owner \in {"join", "last join"} /\ io = "over"
    /\ joinable' = FALSE /\ io' = "none"
    /\ owner' = IF owner = "join" THEN "idle" ELSE "gone"
    /\ UNCHANGED <<atomics, runs, work, stopping, target>>

(* stop(). *)

MayStop(t) ==
    /\ stopping[t] = "no"
    /\ IF t = Owner THEN owner \in {"idle", "stop"}
       ELSE owner \notin {"stop", "stopped", "last join", "gone"}

\* The run there is, or that is about to be spawned.
CurrentRun == IF owner = "spawn" THEN runs + 1 ELSE runs

Returning(t) == [stopping EXCEPT ![t] = "no"]

Leaving(t) == owner' = IF t = Owner /\ owner = "stop" THEN "stopped" ELSE owner

\* [mutant] stop() does not look at what it exchanged.
StopAlways(t) ==
    /\ MayStop(t)
    /\ running' = FALSE
    /\ stopping' = [stopping EXCEPT ![t] = "wait"]
    /\ target' = [target EXCEPT ![t] = CurrentRun]
    /\ Leaving(t)
    /\ UNCHANGED <<started, loop, socket, thread, work>>

\* _running.exchange(false); if it was false already, stop() returns.
Stop(t) ==
    /\ MayStop(t)
    /\ running' = FALSE
    /\ stopping' = IF running THEN [stopping EXCEPT ![t] = "wait"] ELSE stopping
    /\ target' = [target EXCEPT ![t] = CurrentRun]
    /\ Leaving(t)
    /\ UNCHANGED <<started, loop, socket, thread, work>>

\* [mutant] No _started.wait().
StopNoWait(t) ==
    /\ stopping[t] = "wait"
    /\ stopping' = [stopping EXCEPT ![t] = "load"]
    /\ UNCHANGED <<atomics, thread, work, owner, target>>

\* _started.wait(false)
StopWait(t) ==
    /\ stopping[t] = "wait" /\ started
    /\ stopping' = [stopping EXCEPT ![t] = "load"]
    /\ UNCHANGED <<atomics, thread, work, owner, target>>

\* _loop.load(); without a loop stop() returns.
StopLoad(t) ==
    /\ stopping[t] = "load"
    /\ stopping' = IF loop = 0 THEN Returning(t) ELSE [stopping EXCEPT ![t] = "defer"]
    /\ UNCHANGED <<atomics, thread, work, owner, target>>

\* loop->defer(close_listen_socket)
StopDefer(t) ==
    /\ stopping[t] = "defer"
    /\ stopping' = Returning(t)
    /\ deferred' = deferred + 1
    /\ UNCHANGED <<atomics, thread, clients, owner, target>>

(* The IO thread. *)

\* [mutant] on_listen_result() returns on failure without the latch.
ListenFailsSilent ==
    /\ io = "boot"
    /\ running' = FALSE
    /\ io' = "run"
    /\ UNCHANGED <<started, loop, socket, joinable, runs, work, callers>>

\* on_listen_result(nullptr): _running, then _started.
ListenFails ==
    /\ io = "boot"
    /\ running' = FALSE
    /\ io' = "failed"
    /\ UNCHANGED <<started, loop, socket, joinable, runs, work, callers>>

ListenOk ==
    /\ io = "boot"
    /\ socket' = TRUE
    /\ io' = "listening"
    /\ UNCHANGED <<running, started, loop, joinable, runs, work, callers>>

\* [mutant] _started is stored before _loop.
PublishLate ==
    /\ io = "listening"
    /\ IF started THEN loop' = runs /\ io' = "run" /\ UNCHANGED started
       ELSE started' = TRUE /\ UNCHANGED <<loop, io>>
    /\ UNCHANGED <<running, socket, joinable, runs, work, callers>>

\* on_listen_result(socket): after _listen_socket, _loop ...
Publish ==
    /\ io = "listening"
    /\ loop' = runs
    /\ io' = "published"
    /\ UNCHANGED <<running, started, socket, joinable, runs, work, callers>>

\* ... and _started, in either branch.
Release ==
    /\ io \in {"failed", "published"}
    /\ started' = TRUE
    /\ io' = "run"
    /\ UNCHANGED <<running, loop, socket, joinable, runs, work, callers>>

\* Assets::load() cannot read a file: nobody catches what the thread throws.  (With a
\* certificate that cannot be read, it is listening that fails.)
Throw ==
    /\ io = "boot"
    /\ Terminate

\* The loop runs close_listen_socket().
CloseListenSocket ==
    /\ io = "run" /\ deferred > 0
    /\ deferred' = deferred - 1
    /\ socket' = FALSE
    /\ UNCHANGED <<running, started, loop, thread, clients, callers>>

Connect ==
    /\ io = "run" /\ socket /\ clients < MaxClients
    /\ clients' = clients + 1
    /\ UNCHANGED <<atomics, thread, deferred, callers>>

Disconnect ==
    /\ io = "run" /\ clients > 0
    /\ clients' = clients - 1
    /\ UNCHANGED <<atomics, thread, deferred, callers>>

\* app.run() returns once the loop has nothing left to poll.
RunEnds ==
    /\ io = "run" /\ ~socket /\ clients = 0
    /\ io' = "ending"
    /\ UNCHANGED <<atomics, joinable, runs, work, callers>>

\* The last store of run_loop(); then the thread, and its loop, are gone.
RunLoopReturns ==
    /\ io = "ending"
    /\ running' = FALSE
    /\ io' = "over"
    /\ UNCHANGED <<started, loop, socket, joinable, runs, work, callers>>

-----------------------------------------------------------------------------
StopStep(t) == StopWait(t) \/ StopLoad(t) \/ StopDefer(t)

OwnerStep == Spawn \/ DestroyJoin \/ Joined \/ (owner = "stop" /\ Stop(Owner))

LoopStep == \/ ListenFails \/ ListenOk \/ Publish \/ Release \/ Throw
            \/ CloseListenSocket \/ RunEnds \/ RunLoopReturns

Next ==
    \/ Start \/ StartUnjoined \/ Join \/ Destroy \/ OwnerStep
    \/ \E t \in Thread : Stop(t) \/ StopStep(t)
    \/ LoopStep \/ Connect \/ Disconnect

\* No thread stops in the middle of a function; nobody has to call one, and no
\* client has to leave.
Spec ==
    /\ Init /\ [][Next]_vars
    /\ WF_vars(OwnerStep)
    /\ WF_vars(LoopStep)
    /\ \A t \in Thread : WF_vars(StopStep(t))

-----------------------------------------------------------------------------
\* The loop is one of a run there was, and there is at most one close to run, however
\* many threads call stop().
TypeOK ==
    /\ running \in BOOLEAN /\ started \in BOOLEAN /\ socket \in BOOLEAN
    /\ joinable \in BOOLEAN
    /\ runs \in 0..MaxRuns /\ loop \in 0..runs
    /\ io \in {"none", "boot", "listening", "published", "failed", "run", "ending", "over"}
    /\ deferred \in 0..1 /\ clients \in 0..MaxClients
    /\ owner \in {"idle", "spawn", "join", "stop", "stopped", "last join", "gone"}
    /\ stopping \in [Thread -> {"no", "wait", "load", "defer"}]
    /\ target \in [Thread -> 0..MaxRuns]

\* The IO thread may still open the port, or has it open.
MayListen == io \in {"boot", "listening", "published"} \/ socket

\* "A stop() racing the listen callback can never see _loop == nullptr and skip the
\* deferred close" (server.cpp:71-75): past its wait, stop() finds the loop of the
\* run it was called in, or there is nothing to close.
LoopIsCurrent ==
    \A t \in Thread :
        stopping[t] \in {"load", "defer"} /\ target[t] = runs =>
            \/ loop = runs /\ io \notin {"none", "over"}
            \/ loop = 0 /\ ~MayListen

\* stop() never waits for ever, whatever becomes of the listening.
StopReturns ==
    \A t \in Thread : stopping[t] # "no" ~> stopping[t] = "no"

\* A stop() that found the server running closes the port for good.
StopCloses ==
    \A t \in Thread : [](stopping[t] = "wait" => <>[]~socket)

\* Whoever joins a server that was stopped, and that its clients have left, returns.
JoinReturns ==
    \A t \in Thread :
        [](stopping[t] = "wait" /\ <>[](clients = 0) =>
              <>[](owner \notin {"join", "last join"}))

================================================================================

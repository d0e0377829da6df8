-------------------------- MODULE ServerLifecycleProofs --------------------------
(* That stop() of a server that is started once, as main() does it, can neither  *)
(* miss the loop nor reach one that is gone, for any number of threads that call *)
(* it and any number of clients.                                                 *)
EXTENDS ServerLifecycle, TLAPS

Closing(t) == stopping[t] \in {"wait", "load", "defer"}

\* What each point of run_loop() says of the atomics of the one run.
Phases ==
    /\ runs = 0 => io = "none" /\ ~started /\ loop = 0 /\ ~joinable
    /\ io # "none" => runs = 1
    /\ owner = "spawn" => runs = 0
    /\ runs = 0 => deferred = 0 /\ (running => owner = "spawn")
    /\ io \in {"none", "boot", "failed", "ending", "over"} => ~socket
    /\ io \in {"boot", "listening", "published", "failed"} => ~started
    /\ io \in {"boot", "listening", "failed"} => loop = 0
    /\ io \in {"listening", "published"} => socket
    /\ io = "published" => loop = 1
    /\ io = "run" => started /\ (loop = 0 => ~socket)
    /\ io \in {"failed", "ending", "over"} => ~running
    /\ io = "run" /\ ~socket => ~running
    /\ io = "none" /\ runs = 1 => ~running \/ owner = "gone"

\* The exchange of _running lets one thread through, and it finds the port open until
\* it has closed it.
OneCloser ==
    /\ \A t, u \in Thread : Closing(t) /\ Closing(u) => t = u
    /\ running => deferred = 0
    /\ \A t \in Thread : Closing(t) => runs = 1 \/ owner = "spawn"
    /\ \A t \in Thread : Closing(t) => ~running /\ deferred = 0
    /\ \A t \in Thread : Closing(t) /\ loop = 1 => socket
    /\ \A t \in Thread : stopping[t] \in {"load", "defer"} => started
    /\ \A t \in Thread : stopping[t] = "defer" => loop = 1

\* The types, a kind at a time, for one run.
Flags == {running, started, socket, joinable} \subseteq BOOLEAN

Numbers ==
    /\ runs \in {0, 1} /\ loop \in {0, 1} /\ loop <= runs
    /\ deferred \in {0, 1} /\ clients \in 0..MaxClients

Points ==
    /\ io \in {"none", "boot", "listening", "published", "failed", "run", "ending", "over"}
    /\ owner \in {"idle", "spawn", "join", "stop", "stopped", "last join", "gone"}

Stops ==
    /\ stopping \in [Thread -> {"no", "wait", "load", "defer"}]
    /\ target \in [Thread -> {0, 1}]

OneRun == Flags /\ Numbers /\ Points /\ Stops /\ Phases /\ OneCloser

(* Together they are the type invariant of a server that is started once.         *)
LEMMA OneRunTypeOK == MaxRuns = 1 /\ OneRun => TypeOK
<1> SUFFICES ASSUME MaxRuns = 1, OneRun PROVE TypeOK
  OBVIOUS
<1>1. running \in BOOLEAN /\ started \in BOOLEAN /\ socket \in BOOLEAN /\ joinable \in BOOLEAN
  BY DEF OneRun, Flags
<1>2. 0..MaxRuns = {0, 1} /\ 0..1 = {0, 1}
  OBVIOUS
<1>3. runs \in 0..MaxRuns /\ loop \in 0..runs /\ deferred \in 0..1 /\ clients \in 0..MaxClients
  BY <1>2 DEF OneRun, Numbers
<1>4. target \in [Thread -> 0..MaxRuns]
  BY <1>2 DEF OneRun, Stops
<1> QED BY <1>1, <1>3, <1>4, Zenon DEF TypeOK, OneRun, Points, Stops

-----------------------------------------------------------------------------
(* A constructed server has no run yet.                                          *)
LEMMA InitOneRun == MaxRuns = 1 /\ Init => OneRun
<1> SUFFICES ASSUME MaxRuns = 1, Init PROVE OneRun
  OBVIOUS
<1>1. Flags
  BY DEF Init, Flags
<1>2. Numbers
  BY BoundsAssumption DEF Init, Numbers
<1>3. Points
  BY DEF Init, Points
<1>4. Stops
  BY DEF Init, Stops
<1>5. Phases
  BY DEF Init, Phases
<1>6. OneCloser
  BY DEF Init, OneCloser, Closing
<1> QED BY <1>1, <1>2, <1>3, <1>4, <1>5, <1>6 DEF OneRun

(* start() up to the exchange: only before the one run.                        *)
LEMMA StartKeeps ==
  ASSUME MaxRuns = 1, OneRun, Start
  PROVE  OneRun'
<1> USE DEF atomics, thread, work, callers, Start
<1>1. Flags'
  BY DEF OneRun, Flags
<1>2. Numbers'
  BY BoundsAssumption DEF OneRun, Numbers, Phases, OneCloser, Closing
<1>3. Points'
  BY DEF OneRun, Points
<1>4. Stops'
  BY DEF OneRun, Stops, Numbers
<1>5. Phases'
  BY DEF OneRun, Phases, Numbers, OneCloser, Closing
<1>6. OneCloser'
  BY DEF OneRun, OneCloser, Phases, Numbers, Stops, Closing
<1> QED BY <1>1, <1>2, <1>3, <1>4, <1>5, <1>6 DEF OneRun

(* The thread is spawned.                                                      *)
LEMMA SpawnKeeps ==
  ASSUME MaxRuns = 1, OneRun, Spawn
  PROVE  OneRun'
<1> USE DEF atomics, thread, work, callers, Spawn
<1>1. Flags'
  BY DEF OneRun, Flags
<1>2. Numbers'
  BY BoundsAssumption DEF OneRun, Numbers, Phases, OneCloser, Closing
<1>3. Points'
  BY DEF OneRun, Points
<1>4. Stops'
  BY DEF OneRun, Stops, Numbers
<1>5. Phases'
  BY DEF OneRun, Phases, Numbers, OneCloser, Closing
<1>6. OneCloser'
  BY DEF OneRun, OneCloser, Phases, Numbers, Stops, Closing
<1> QED BY <1>1, <1>2, <1>3, <1>4, <1>5, <1>6 DEF OneRun

(* std::terminate() leaves nobody closing.                                     *)
LEMMA TerminateKeeps ==
  ASSUME MaxRuns = 1, OneRun, StartUnjoined \/ Throw
  PROVE  OneRun'
<1> USE DEF atomics, thread, work, callers, StartUnjoined, Throw, Terminate
<1>1. Flags'
  BY DEF OneRun, Flags
<1>2. Numbers'
  BY BoundsAssumption DEF OneRun, Numbers, Phases, OneCloser, Closing
<1>3. Points'
  BY DEF OneRun, Points
<1>4. Stops'
  BY DEF OneRun, Stops, Numbers
<1>5. Phases'
  BY DEF OneRun, Phases, Numbers, OneCloser, Closing
<1>6. OneCloser'
  BY DEF OneRun, OneCloser, Phases, Numbers, Stops, Closing
<1> QED BY <1>1, <1>2, <1>3, <1>4, <1>5, <1>6 DEF OneRun

(* The owner enters join() or the destructor.                                  *)
LEMMA LeaveKeeps ==
  ASSUME MaxRuns = 1, OneRun, Join \/ Destroy
  PROVE  OneRun'
<1> USE DEF atomics, thread, work, callers, Join, Destroy
<1>1. Flags'
  BY DEF OneRun, Flags
<1>2. Numbers'
  BY BoundsAssumption DEF OneRun, Numbers, Phases, OneCloser, Closing
<1>3. Points'
  BY DEF OneRun, Points
<1>4. Stops'
  BY DEF OneRun, Stops, Numbers
<1>5. Phases'
  BY DEF OneRun, Phases, Numbers, OneCloser, Closing
<1>6. OneCloser'
  BY DEF OneRun, OneCloser, Phases, Numbers, Stops, Closing
<1> QED BY <1>1, <1>2, <1>3, <1>4, <1>5, <1>6 DEF OneRun

(* The destructor goes on to join().                                           *)
LEMMA LastJoinKeeps ==
  ASSUME MaxRuns = 1, OneRun, DestroyJoin
  PROVE  OneRun'
<1> USE DEF atomics, thread, work, callers, DestroyJoin
<1>1. Flags'
  BY DEF OneRun, Flags
<1>2. Numbers'
  BY BoundsAssumption DEF OneRun, Numbers, Phases, OneCloser, Closing
<1>3. Points'
  BY DEF OneRun, Points
<1>4. Stops'
  BY DEF OneRun, Stops, Numbers
<1>5. Phases'
  BY DEF OneRun, Phases, Numbers, OneCloser, Closing
<1>6. OneCloser'
  BY DEF OneRun, OneCloser, Phases, Numbers, Stops, Closing
<1> QED BY <1>1, <1>2, <1>3, <1>4, <1>5, <1>6 DEF OneRun

(* The thread is joined once it is over.                                       *)
LEMMA JoinedKeeps ==
  ASSUME MaxRuns = 1, OneRun, Joined
  PROVE  OneRun'
<1> USE DEF atomics, thread, work, callers, Joined
<1>1. Flags'
  BY DEF OneRun, Flags
<1>2. Numbers'
  BY BoundsAssumption DEF OneRun, Numbers, Phases, OneCloser, Closing
<1>3. Points'
  BY DEF OneRun, Points
<1>4. Stops'
  BY DEF OneRun, Stops, Numbers
<1>5. Phases'
  BY DEF OneRun, Phases, Numbers, OneCloser, Closing
<1>6. OneCloser'
  BY DEF OneRun, OneCloser, Phases, Numbers, Stops, Closing
<1> QED BY <1>1, <1>2, <1>3, <1>4, <1>5, <1>6 DEF OneRun

(* stop() wins the exchange only while nobody else is closing.                 *)
LEMMA StopKeeps ==
  ASSUME MaxRuns = 1, OneRun, NEW t \in Thread, Stop(t)
  PROVE  OneRun'
<1> USE DEF atomics, thread, work, callers
<1>1. /\ running' = FALSE
      /\ UNCHANGED <<started, loop, socket, joinable, runs, io, deferred, clients>>
      /\ owner' = owner \/ (owner = "stop" /\ owner' = "stopped")
      /\ running => stopping' = [stopping EXCEPT ![t] = "wait"]
      /\ ~running => stopping' = stopping
  BY Zenon DEF Stop, Leaving
<1>2. CurrentRun \in {0, 1}
  BY DEF CurrentRun, OneRun, Phases, Numbers
<1>3. Flags'
  BY <1>1 DEF OneRun, Flags
<1>4. Numbers'
  BY <1>1 DEF OneRun, Numbers
<1>5. Points'
  BY <1>1 DEF OneRun, Points
<1>6. Stops'
  <2>1. target' = [target EXCEPT ![t] = CurrentRun]
    BY DEF Stop
  <2> QED BY <1>1, <1>2, <2>1 DEF OneRun, Stops
<1>7. Phases'
  BY <1>1 DEF OneRun, Phases
<1>8. OneCloser'
  <2>1. CASE running
    <3> owner # "gone"
      BY DEF Stop, MayStop
    <3>1. /\ \A u \in Thread : ~Closing(u)
          /\ deferred = 0
          /\ loop = 1 => socket
          /\ runs = 1 \/ owner = "spawn"
      BY <2>1 DEF OneRun, OneCloser, Phases, Numbers, Points
    <3>2. \A u \in Thread : u # t => stopping'[u] = stopping[u]
      BY <1>1, <2>1 DEF OneRun, Stops
    <3>3. stopping'[t] = "wait"
      BY <1>1, <2>1 DEF OneRun, Stops
    <3> QED BY <1>1, <3>1, <3>2, <3>3 DEF OneCloser, Closing
  <2>2. CASE ~running
    BY <1>1, <2>2 DEF OneRun, OneCloser, Closing
  <2> QED BY <2>1, <2>2
<1> QED BY <1>3, <1>4, <1>5, <1>6, <1>7, <1>8 DEF OneRun

(* stop() waits for the latch.                                                 *)
LEMMA StopWaitKeeps ==
  ASSUME MaxRuns = 1, OneRun, NEW t \in Thread, StopWait(t)
  PROVE  OneRun'
<1> USE DEF atomics, thread, work, callers, StopWait
<1>1. Flags'
  BY DEF OneRun, Flags
<1>2. Numbers'
  BY BoundsAssumption DEF OneRun, Numbers, Phases, OneCloser, Closing
<1>3. Points'
  BY DEF OneRun, Points
<1>4. Stops'
  BY DEF OneRun, Stops, Numbers
<1>5. Phases'
  BY DEF OneRun, Phases, Numbers, OneCloser, Closing
<1>6. OneCloser'
  BY DEF OneRun, OneCloser, Phases, Numbers, Stops, Closing
<1> QED BY <1>1, <1>2, <1>3, <1>4, <1>5, <1>6 DEF OneRun

(* stop() reads _loop.                                                         *)
LEMMA StopLoadKeeps ==
  ASSUME MaxRuns = 1, OneRun, NEW t \in Thread, StopLoad(t)
  PROVE  OneRun'
<1> USE DEF atomics, thread, work, callers, StopLoad, Returning
<1>1. Flags'
  BY DEF OneRun, Flags
<1>2. Numbers'
  BY BoundsAssumption DEF OneRun, Numbers, Phases, OneCloser, Closing
<1>3. Points'
  BY DEF OneRun, Points
<1>4. Stops'
  BY DEF OneRun, Stops, Numbers
<1>5. Phases'
  BY DEF OneRun, Phases, Numbers, OneCloser, Closing
<1>6. OneCloser'
  BY DEF OneRun, OneCloser, Phases, Numbers, Stops, Closing
<1> QED BY <1>1, <1>2, <1>3, <1>4, <1>5, <1>6 DEF OneRun

(* stop() defers the close, and nobody else can.                               *)
LEMMA StopDeferKeeps ==
  ASSUME MaxRuns = 1, OneRun, NEW t \in Thread, StopDefer(t)
  PROVE  OneRun'
<1> USE DEF atomics, thread, work, callers, StopDefer, Returning
<1>1. Flags'
  BY DEF OneRun, Flags
<1>2. Numbers'
  BY BoundsAssumption DEF OneRun, Numbers, Phases, OneCloser, Closing
<1>3. Points'
  BY DEF OneRun, Points
<1>4. Stops'
  BY DEF OneRun, Stops, Numbers
<1>5. Phases'
  BY DEF OneRun, Phases, Numbers, OneCloser, Closing
<1>6. OneCloser'
  BY DEF OneRun, OneCloser, Phases, Numbers, Stops, Closing
<1> QED BY <1>1, <1>2, <1>3, <1>4, <1>5, <1>6 DEF OneRun

(* on_listen_result(nullptr).                                                  *)
LEMMA FailsKeeps ==
  ASSUME MaxRuns = 1, OneRun, ListenFails
  PROVE  OneRun'
<1> USE DEF atomics, thread, work, callers, ListenFails
<1>1. Flags'
  BY DEF OneRun, Flags
<1>2. Numbers'
  BY BoundsAssumption DEF OneRun, Numbers, Phases, OneCloser, Closing
<1>3. Points'
  BY DEF OneRun, Points
<1>4. Stops'
  BY DEF OneRun, Stops, Numbers
<1>5. Phases'
  BY DEF OneRun, Phases, Numbers, OneCloser, Closing
<1>6. OneCloser'
  BY DEF OneRun, OneCloser, Phases, Numbers, Stops, Closing
<1> QED BY <1>1, <1>2, <1>3, <1>4, <1>5, <1>6 DEF OneRun

(* on_listen_result(socket), one store at a time.                              *)
LEMMA ListenKeeps ==
  ASSUME MaxRuns = 1, OneRun, ListenOk \/ Publish \/ Release
  PROVE  OneRun'
<1> USE DEF atomics, thread, work, callers, ListenOk, Publish, Release
<1>1. Flags'
  BY DEF OneRun, Flags
<1>2. Numbers'
  BY BoundsAssumption DEF OneRun, Numbers, Phases, OneCloser, Closing
<1>3. Points'
  BY DEF OneRun, Points
<1>4. Stops'
  BY DEF OneRun, Stops, Numbers
<1>5. Phases'
  BY DEF OneRun, Phases, Numbers, OneCloser, Closing
<1>6. OneCloser'
  BY DEF OneRun, OneCloser, Phases, Numbers, Stops, Closing
<1> QED BY <1>1, <1>2, <1>3, <1>4, <1>5, <1>6 DEF OneRun

(* The loop closes the port: whoever deferred that is gone by then.            *)
LEMMA CloseKeeps ==
  ASSUME MaxRuns = 1, OneRun, CloseListenSocket
  PROVE  OneRun'
<1> USE DEF atomics, thread, work, callers, CloseListenSocket
<1>1. Flags'
  BY DEF OneRun, Flags
<1>2. Numbers'
  BY BoundsAssumption DEF OneRun, Numbers, Phases, OneCloser, Closing
<1>3. Points'
  BY DEF OneRun, Points
<1>4. Stops'
  BY DEF OneRun, Stops, Numbers
<1>5. Phases'
  BY DEF OneRun, Phases, Numbers, OneCloser, Closing
<1>6. OneCloser'
  BY DEF OneRun, OneCloser, Phases, Numbers, Stops, Closing
<1> QED BY <1>1, <1>2, <1>3, <1>4, <1>5, <1>6 DEF OneRun

(* The end of run_loop(), which only a closed port lets it reach.              *)
LEMMA EndKeeps ==
  ASSUME MaxRuns = 1, OneRun, RunEnds \/ RunLoopReturns
  PROVE  OneRun'
<1> USE DEF atomics, thread, work, callers, RunEnds, RunLoopReturns
<1>1. Flags'
  BY DEF OneRun, Flags
<1>2. Numbers'
  BY BoundsAssumption DEF OneRun, Numbers, Phases, OneCloser, Closing
<1>3. Points'
  BY DEF OneRun, Points
<1>4. Stops'
  BY DEF OneRun, Stops, Numbers
<1>5. Phases'
  BY DEF OneRun, Phases, Numbers, OneCloser, Closing
<1>6. OneCloser'
  BY DEF OneRun, OneCloser, Phases, Numbers, Stops, Closing
<1> QED BY <1>1, <1>2, <1>3, <1>4, <1>5, <1>6 DEF OneRun

(* Clients come and go.                                                        *)
LEMMA ClientKeeps ==
  ASSUME MaxRuns = 1, OneRun, Connect \/ Disconnect
  PROVE  OneRun'
<1> USE DEF atomics, thread, work, callers, Connect, Disconnect
<1>1. Flags'
  BY DEF OneRun, Flags
<1>2. Numbers'
  BY BoundsAssumption DEF OneRun, Numbers, Phases, OneCloser, Closing
<1>3. Points'
  BY DEF OneRun, Points
<1>4. Stops'
  BY DEF OneRun, Stops, Numbers
<1>5. Phases'
  BY DEF OneRun, Phases, Numbers, OneCloser, Closing
<1>6. OneCloser'
  BY DEF OneRun, OneCloser, Phases, Numbers, Stops, Closing
<1> QED BY <1>1, <1>2, <1>3, <1>4, <1>5, <1>6 DEF OneRun

-----------------------------------------------------------------------------
(* OneRun is inductive.                                                          *)
LEMMA NextOneRun == MaxRuns = 1 /\ OneRun /\ [Next]_vars => OneRun'
<1> SUFFICES ASSUME MaxRuns = 1, OneRun, [Next]_vars PROVE OneRun'
  OBVIOUS
<1>1. CASE Start
  BY <1>1, StartKeeps
<1>2. CASE StartUnjoined
  BY <1>2, TerminateKeeps
<1>3. CASE Join \/ Destroy
  BY <1>3, LeaveKeeps
<1>4. CASE OwnerStep
  <2>1. Owner \in Thread
    BY DEF Thread
  <2> QED BY <1>4, <2>1, SpawnKeeps, LastJoinKeeps, JoinedKeeps, StopKeeps DEF OwnerStep
<1>5. ASSUME NEW t \in Thread, Stop(t) \/ StopStep(t) PROVE OneRun'
  BY <1>5, StopKeeps, StopWaitKeeps, StopLoadKeeps, StopDeferKeeps DEF StopStep
<1>6. CASE LoopStep
  BY <1>6, FailsKeeps, ListenKeeps, CloseKeeps, EndKeeps, TerminateKeeps DEF LoopStep
<1>7. CASE Connect \/ Disconnect
  BY <1>7, ClientKeeps
<1>8. CASE UNCHANGED vars
  BY <1>8 DEF vars, atomics, thread, work, callers, OneRun, Flags, Numbers, Points, Stops,
              Phases, OneCloser, Closing
<1> QED BY <1>1, <1>2, <1>3, <1>4, <1>5, <1>6, <1>7, <1>8 DEF Next

(* A stop() past its wait has the loop it was called for, or nothing to close.    *)
LEMMA OneRunLoop == OneRun => LoopIsCurrent
<1> SUFFICES ASSUME OneRun, NEW t \in Thread,
                    stopping[t] \in {"load", "defer"}, target[t] = runs
             PROVE  \/ loop = runs /\ io \notin {"none", "over"}
                    \/ loop = 0 /\ ~MayListen
  BY DEF LoopIsCurrent
<1>1. Closing(t) /\ started
  BY DEF OneRun, OneCloser, Closing
<1>2. runs = 1
  BY <1>1 DEF OneRun, Phases, Numbers
<1>3. CASE loop = 1
  <2>1. socket
    BY <1>1, <1>3 DEF OneRun, OneCloser
  <2> QED BY <1>2, <1>3, <2>1 DEF OneRun, Phases
<1>4. CASE loop = 0
  BY <1>1, <1>4 DEF OneRun, Phases, Points, MayListen
<1> QED BY <1>3, <1>4 DEF OneRun, Numbers

(* Of a server that is started once, as in main.cpp, the loop pointer is null or   *)
(* the run's, and however many threads call stop() the port is closed at most once *)
(* (server.cpp:71-85).                                                             *)
THEOREM LifecycleTypeCorrect ==
  ASSUME MaxRuns = 1 PROVE Spec => []TypeOK
<1> QED BY InitOneRun, NextOneRun, OneRunTypeOK, PTL DEF Spec

(* "A stop() racing the listen callback can never see _loop == nullptr and skip    *)
(* the deferred close" (server.cpp:71-74), nor defer to a loop that is gone: true  *)
(* for any number of threads and clients if the server is started once.            *)
THEOREM StopFindsTheLoop ==
  ASSUME MaxRuns = 1 PROVE Spec => []LoopIsCurrent
<1> QED BY InitOneRun, NextOneRun, OneRunLoop, PTL DEF Spec

================================================================================

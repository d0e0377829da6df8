------------------------------- MODULE CounterPN -------------------------------
(***************************************************************************)
(* The PN counter (counter_pn.cpp): each replica adds to its own entry of    *)
(* two maps, states are shipped at any time and merged late, repeatedly or   *)
(* never, entry by entry, by maximum.  Entries are unsigned integers of the  *)
(* width whose largest signed integer is Cap: 2^63 - 1 in the program.       *)
(***************************************************************************)
EXTENDS Integers, FiniteSets, Functions, SequencesExt

CONSTANTS
    Client,    \* replica ids
    Cap,       \* INT64_MAX
    Amount,    \* the arguments of increment() and decrement()
    MaxBumps   \* bound: how many local operations there are in all

ASSUME CapAssumption == Cap \in Nat \ {0}

UMax == 2 * Cap + 1   \* UINT64_MAX

ASSUME AmountAssumption == Amount \subseteq 0..UMax
ASSUME MaxBumpsAssumption == MaxBumps \in Nat

Side == {"increments", "decrements"}

VARIABLES
    state,     \* _state of each replica: per side, client -> entry
    shipped,   \* the last state each replica put on the wire
    bumps,     \* local operations so far
    heard      \* history: the counts each replica made or was told of

vars == <<state, shipped, bumps, heard>>

-----------------------------------------------------------------------------
\* operator[]: a missing entry reads, and springs up, as zero.
At(bucket, c) == IF c \in DOMAIN bucket THEN bucket[c] ELSE 0

\* [mutant] The incoming entry wins.
JoinedLast(bucket, incoming) ==
    [c \in DOMAIN bucket \cup DOMAIN incoming |->
        IF c \in DOMAIN incoming THEN incoming[c] ELSE bucket[c]]

\* [mutant] Entries are added up.
JoinedSum(bucket, incoming) ==
    [c \in DOMAIN bucket \cup DOMAIN incoming |->
        (At(bucket, c) + At(incoming, c)) % (UMax + 1)]

\* One side of merge().
Joined(bucket, incoming) ==
    [c \in DOMAIN bucket \cup DOMAIN incoming |->
        IF At(bucket, c) < At(incoming, c) THEN At(incoming, c) ELSE At(bucket, c)]

\* [mutant] The other state replaces this one.
MergedReplace(mine, other) == other

Merged(mine, other) == [side \in Side |-> Joined(mine[side], other[side])]

\* non_zero_counts(), applied by encode_counter() to both sides.
Wire(s) == [side \in Side |->
               Restrict(s[side], {c \in DOMAIN s[side] : s[side][c] # 0})]

\* [mutant] The entry is tested against the cap before it is added.
AddUnclamped(total, amount) == IF amount >= Cap THEN Cap ELSE total + amount

\* One iteration of saturating_sum(); once at Cap the total stays there, so the
\* early return needs no state of its own.
Add(total, amount) == IF amount >= Cap - total THEN Cap ELSE total + amount

\* saturating_sum() when the unordered_map yields its entries in this order.
SaturatingSum(bucket, order) ==
    FoldLeft(LAMBDA total, c : Add(total, bucket[c]), 0, order)

Orders(bucket) == SetToSeqs(DOMAIN bucket)

Total(bucket) == SaturatingSum(bucket, CHOOSE o \in Orders(bucket) : TRUE)

\* value()
ValueOf(s) == Total(s["increments"]) - Total(s["decrements"])

\* Counts: "c's entry on this side has reached n".
CountsOf(s) ==
    UNION {{<<side, c, s[side][c]>> : c \in DOMAIN s[side]} : side \in Side}

-----------------------------------------------------------------------------
\* The constructor primes both maps with the replica's own zero entry.
Init ==
    /\ state = [r \in Client |-> [side \in Side |-> [c \in {r} |-> 0]]]
    /\ shipped = [r \in Client |-> Wire(state[r])]
    /\ bumps = 0
    /\ heard = [r \in Client |-> CountsOf(state[r])]

\* [mutant] The sum wraps where a signed integer would.
BumpSigned(r, side, amount) ==
    LET sum == (At(state[r][side], r) + amount) % (Cap + 1)
    IN  /\ bumps < MaxBumps
        /\ bumps' = bumps + 1
        /\ state' = [state EXCEPT ![r][side][r] = sum]
        /\ heard' = [heard EXCEPT ![r] = @ \cup {<<side, r, sum>>}]
        /\ UNCHANGED shipped

\* increment(amount) and decrement(amount): unsigned addition, modulo 2^64.
Bump(r, side, amount) ==
    LET sum == (At(state[r][side], r) + amount) % (UMax + 1)
    IN  /\ bumps < MaxBumps
        /\ bumps' = bumps + 1
        /\ state' = [state EXCEPT ![r][side][r] = sum]
        /\ heard' = [heard EXCEPT ![r] = @ \cup {<<side, r, sum>>}]
        /\ UNCHANGED shipped

\* encode_counter(state()) leaves for the peers.
Ship(r) ==
    /\ shipped' = [shipped EXCEPT ![r] = Wire(state[r])]
    /\ UNCHANGED <<state, bumps, heard>>

\* merge(state) of anything a peer shipped last.
MergeShipped(r, s) ==
    /\ state' = [state EXCEPT ![r] = Merged(@, shipped[s])]
    /\ heard' = [heard EXCEPT ![r] = @ \cup CountsOf(shipped[s])]
    /\ UNCHANGED <<shipped, bumps>>

\* merge(counter) of a replica in the same process, zero entries included.
MergeReplica(r, s) ==
    /\ state' = [state EXCEPT ![r] = Merged(@, state[s])]
    /\ heard' = [heard EXCEPT ![r] = @ \cup CountsOf(state[s])]
    /\ UNCHANGED <<shipped, bumps>>

Sync == \E r, s \in Client :
           Ship(r) \/ MergeShipped(r, s) \/ MergeReplica(r, s)

Next == Sync \/ \E r \in Client, side \in Side, amount \in Amount :
                    Bump(r, side, amount)

Spec == Init /\ [][Next]_vars

\* As long as no replica counts past UMax itself.
Fits(r, side, amount) == state[r][side][r] + amount <= UMax

FittingNext ==
    Sync \/ \E r \in Client, side \in Side, amount \in Amount :
               Fits(r, side, amount) /\ Bump(r, side, amount)

FittingSpec == Init /\ [][FittingNext]_vars

-----------------------------------------------------------------------------
IsState(s) ==
    /\ DOMAIN s = Side
    /\ \A side \in Side :
          /\ DOMAIN s[side] \subseteq Client
          /\ \A c \in DOMAIN s[side] : s[side][c] \in 0..UMax

\* The maps hold entries of the right width of known clients, and a replica's own entry
\* is always there.
TypeOK ==
    /\ DOMAIN state = Client /\ DOMAIN shipped = Client
    /\ \A r \in Client :
          /\ IsState(state[r]) /\ IsState(shipped[r])
          /\ \A side \in Side : r \in DOMAIN state[r][side]
    /\ bumps \in 0..MaxBumps

\* No replica, and no state on its way, credits a client with more than the
\* client has counted itself: a merge never invents or doubles a count.
OwnerLeads ==
    \A r, s \in Client, side \in Side :
        /\ At(state[s][side], r) <= state[r][side][r]
        /\ At(shipped[s][side], r) <= state[r][side][r]

\* Every entry is the largest count the replica was told of, so replicas that were
\* told the same agree, whatever was stale, repeated or out of order.
EntryIsLargestHeard ==
    \A r, c \in Client, side \in Side :
        LET told == {f[3] : f \in {g \in heard[r] : g[1] = side /\ g[2] = c}} \cup {0}
        IN  /\ At(state[r][side], c) \in told
            /\ \A n \in told : n <= At(state[r][side], c)

\* The value does not depend on the order an unordered_map yields its entries
\* in, although the sum stops early: it is the true sum, clamped.
SumIsOrderFree ==
    \A r \in Client, side \in Side :
        LET bucket == state[r][side]
            sum    == FoldLeft(LAMBDA n, c : n + bucket[c], 0, SetToSeq(DOMAIN bucket))
        IN  \A o \in Orders(bucket) :
                SaturatingSum(bucket, o) = IF sum < Cap THEN sum ELSE Cap

\* Counting up never lowers the value of the replica that counts, saturated or not.
\* Holds while own counts fit (FittingSpec); beyond that increment() wraps.
IncrementNeverLowers ==
    [][\A r \in Client :
          \A amount \in Amount :
             Bump(r, "increments", amount) => ValueOf(state'[r]) >= ValueOf(state[r])]_vars

\* No entry ever goes down, in a replica or in what it ships next.
EntriesOnlyGrow ==
    [][\A r, c \in Client, side \in Side :
          At(state[r][side], c) <= At(state'[r][side], c)]_vars

==============================================================================

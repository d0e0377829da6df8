---------------------------- MODULE CounterPNProofs ----------------------------
(* What CounterPN.tla's runs check on small instances, for any replicas, any   *)
(* width and any amounts.                                                      *)
EXTENDS CounterPN, FiniteSetTheorems, WellFoundedInduction, TLAPS

(* A counter has two sides, increments() and decrements().                     *)
LEMMA SideAreTwo == "increments" \in Side /\ "decrements" \in Side
  BY DEF Side

(* merge() of a valid state with a valid state is a valid state that lowers no *)
(* entry and raises none above the larger of the two.                          *)
LEMMA MergedState ==
  ASSUME NEW s, NEW t, IsState(s), IsState(t)
  PROVE  /\ IsState(Merged(s, t))
         /\ \A side \in Side :
               /\ DOMAIN Merged(s, t)[side] = DOMAIN s[side] \cup DOMAIN t[side]
               /\ \A c \in Client :
                     /\ At(s[side], c) <= At(Merged(s, t)[side], c)
                     /\ At(Merged(s, t)[side], c) \in {At(s[side], c), At(t[side], c)}
<1> USE CapAssumption DEF UMax
<1>1. \A side \in Side, c \in Client :
         At(s[side], c) \in 0..UMax /\ At(t[side], c) \in 0..UMax
  BY DEF IsState, At
<1>2. ASSUME NEW side \in Side
      PROVE  /\ DOMAIN Merged(s, t)[side] = DOMAIN s[side] \cup DOMAIN t[side]
             /\ \A c \in DOMAIN s[side] \cup DOMAIN t[side] :
                  Merged(s, t)[side][c] =
                    IF At(s[side], c) < At(t[side], c) THEN At(t[side], c)
                                                       ELSE At(s[side], c)
  BY DEF Merged, Joined
<1>3. ASSUME NEW side \in Side, NEW c \in Client
      PROVE  /\ At(s[side], c) <= At(Merged(s, t)[side], c)
             /\ At(Merged(s, t)[side], c) \in {At(s[side], c), At(t[side], c)}
  <2>1. CASE c \in DOMAIN s[side] \cup DOMAIN t[side]
    BY <1>1, <1>2, <2>1 DEF At
  <2>2. CASE c \notin DOMAIN s[side] \cup DOMAIN t[side]
    BY <1>1, <1>2, <2>2 DEF At
  <2> QED BY <2>1, <2>2
<1>4. IsState(Merged(s, t))
  <2>1. DOMAIN Merged(s, t) = Side
    BY DEF Merged
  <2>2. ASSUME NEW side \in Side
        PROVE  /\ DOMAIN Merged(s, t)[side] \subseteq Client
               /\ \A c \in DOMAIN Merged(s, t)[side] : Merged(s, t)[side][c] \in 0..UMax
    BY <1>1, <1>2 DEF IsState
  <2> QED BY <2>1, <2>2 DEF IsState
<1> QED BY <1>2, <1>3, <1>4

(* What goes on the wire is valid, and says of every client what the state     *)
(* says: the zero entries it leaves out read as zero.                          *)
LEMMA WireState ==
  ASSUME NEW s, IsState(s)
  PROVE  /\ IsState(Wire(s))
         /\ \A side \in Side, c \in Client : At(Wire(s)[side], c) = At(s[side], c)
<1>1. \A side \in Side :
         /\ DOMAIN Wire(s)[side] = {c \in DOMAIN s[side] : s[side][c] # 0}
         /\ \A c \in DOMAIN Wire(s)[side] : Wire(s)[side][c] = s[side][c]
  BY DEF Wire, Restrict
<1>2. DOMAIN Wire(s) = Side
  BY DEF Wire
<1> QED BY <1>1, <1>2 DEF IsState, At

-----------------------------------------------------------------------------
(* An increment changes one entry, to the sum modulo UMax + 1, and keeps the   *)
(* state valid.                                                                *)
LEMMA BumpedState ==
  ASSUME TypeOK, NEW r \in Client, NEW side \in Side, NEW amount \in Amount,
         Bump(r, side, amount)
  PROVE  /\ TypeOK'
         /\ state[r][side][r] \in 0..UMax
         /\ state'[r][side][r] = (state[r][side][r] + amount) % (UMax + 1)
         /\ \A s, c \in Client, d \in Side :
               <<s, d, c>> # <<r, side, r>> => At(state'[s][d], c) = At(state[s][d], c)
<1> USE CapAssumption, AmountAssumption, MaxBumpsAssumption DEF UMax
<1> DEFINE sum == (At(state[r][side], r) + amount) % (UMax + 1)
<1>1. /\ r \in DOMAIN state[r][side]
      /\ state[r][side][r] \in 0..UMax
      /\ At(state[r][side], r) = state[r][side][r]
  BY DEF TypeOK, IsState, At
<1>2. sum \in 0..UMax
  BY <1>1
<1>3. /\ state' = [state EXCEPT ![r][side][r] = sum]
      /\ shipped' = shipped
      /\ bumps < MaxBumps /\ bumps' = bumps + 1
  BY DEF Bump
<1> HIDE DEF sum
<1>4. /\ DOMAIN state' = Client
      /\ \A s \in Client :
           /\ DOMAIN state'[s] = Side
           /\ \A d \in Side :
                /\ DOMAIN state'[s][d] = DOMAIN state[s][d]
                /\ \A c \in DOMAIN state[s][d] :
                     state'[s][d][c] = IF <<s, d, c>> = <<r, side, r>> THEN sum
                                       ELSE state[s][d][c]
  BY <1>3 DEF TypeOK, IsState
<1>5. ASSUME NEW s \in Client
      PROVE  IsState(state'[s]) /\ \A d \in Side : s \in DOMAIN state'[s][d]
  BY <1>2, <1>4 DEF TypeOK, IsState
<1>6. TypeOK'
  <2>1. bumps' \in 0..MaxBumps
    BY <1>3 DEF TypeOK
  <2> QED BY <1>3, <1>4, <1>5, <2>1 DEF TypeOK
<1>7. state'[r][side][r] = sum
  BY <1>1, <1>4
<1>8. ASSUME NEW s \in Client, NEW c \in Client, NEW d \in Side,
             <<s, d, c>> # <<r, side, r>>
      PROVE  At(state'[s][d], c) = At(state[s][d], c)
  BY <1>4, <1>8 DEF At
<1> QED BY <1>1, <1>6, <1>7, <1>8 DEF sum

(* A fresh counter is well formed.                                             *)
LEMMA InitTypeOK == Init => TypeOK
<1> SUFFICES ASSUME Init PROVE TypeOK
  OBVIOUS
<1> USE CapAssumption, MaxBumpsAssumption DEF UMax
<1>1. \A r \in Client : IsState(state[r]) /\ \A side \in Side : r \in DOMAIN state[r][side]
  BY DEF Init, IsState
<1>2. \A r \in Client : IsState(Wire(state[r]))
  BY <1>1, WireState
<1>3. DOMAIN state = Client /\ DOMAIN shipped = Client
  BY DEF Init
<1>4. \A r \in Client : shipped[r] = Wire(state[r])
  BY DEF Init
<1>5. bumps \in 0..MaxBumps
  BY DEF Init
<1> QED BY <1>1, <1>2, <1>3, <1>4, <1>5 DEF TypeOK

(* The three ways replicas exchange states keep the state valid.               *)
LEMMA SyncTypeOK == TypeOK /\ Sync => TypeOK'
<1> SUFFICES ASSUME TypeOK, NEW r \in Client, NEW s \in Client,
                    Ship(r) \/ MergeShipped(r, s) \/ MergeReplica(r, s)
             PROVE  TypeOK'
  BY DEF Sync
<1>1. CASE Ship(r)
  <2>1. IsState(Wire(state[r]))
    BY WireState DEF TypeOK
  <2> QED BY <1>1, <2>1 DEF Ship, TypeOK
<1>2. ASSUME NEW t, IsState(t), state' = [state EXCEPT ![r] = Merged(@, t)],
             UNCHANGED <<shipped, bumps>>
      PROVE  TypeOK'
  <2>1. /\ IsState(Merged(state[r], t))
        /\ \A side \in Side : r \in DOMAIN Merged(state[r], t)[side]
    BY <1>2, MergedState DEF TypeOK
  <2> QED BY <1>2, <2>1 DEF TypeOK
<1>3. CASE MergeShipped(r, s)
  BY <1>2, <1>3 DEF MergeShipped, TypeOK
<1>4. CASE MergeReplica(r, s)
  BY <1>2, <1>4 DEF MergeReplica, TypeOK
<1> QED BY <1>1, <1>3, <1>4

(* Every operation keeps it so, a wrapping increment() included.               *)
LEMMA NextTypeOK == TypeOK /\ [Next]_vars => TypeOK'
<1> SUFFICES ASSUME TypeOK, [Next]_vars PROVE TypeOK'
  OBVIOUS
<1>1. CASE Sync
  BY <1>1, SyncTypeOK
<1>2. ASSUME NEW r \in Client, NEW side \in Side, NEW amount \in Amount,
             Bump(r, side, amount)
      PROVE  TypeOK'
  BY <1>2, BumpedState
<1>3. CASE UNCHANGED vars
  BY <1>3 DEF vars, TypeOK
<1> QED BY <1>1, <1>2, <1>3 DEF Next

(* Every behaviour, overflowing or not, keeps the maps well formed: entries    *)
(* stay in range and a replica never loses its own (counter_pn.cpp:20-26).     *)
THEOREM CounterTypeCorrect == Spec => []TypeOK
  BY InitTypeOK, NextTypeOK, PTL DEF Spec

(* Replicas that never count past the width take a subset of those steps.      *)
LEMMA FittingTypeOK == FittingSpec => []TypeOK
<1>1. [FittingNext]_vars => [Next]_vars
  BY DEF FittingNext, Next
<1> QED BY <1>1, InitTypeOK, NextTypeOK, PTL DEF FittingSpec

-----------------------------------------------------------------------------
(* A count that fits does not wrap.                                            *)
LEMMA FittingSum ==
  ASSUME NEW n \in 0..UMax, NEW amount \in Amount, n + amount <= UMax
  PROVE  (n + amount) % (UMax + 1) = n + amount
<1> USE CapAssumption, AmountAssumption DEF UMax
<1>1. n + amount \in 0..UMax
  OBVIOUS
<1> QED BY <1>1

(* Who merges takes an entry from one of the two sides, each of which the      *)
(* owner leads.                                                                *)
LEMMA MergeOwnerLeads ==
  ASSUME TypeOK, OwnerLeads, NEW r \in Client, NEW s \in Client,
         NEW t, t \in {shipped[s], state[s]},
         state' = [state EXCEPT ![r] = Merged(@, t)], UNCHANGED <<shipped, bumps>>
  PROVE  OwnerLeads'
<1> USE CapAssumption DEF UMax
<1>1. IsState(t) /\ IsState(state[r])
  BY DEF TypeOK
<1>2. ASSUME NEW c \in Client, NEW side \in Side
      PROVE  /\ At(state[r][side], c) <= At(Merged(state[r], t)[side], c)
             /\ At(Merged(state[r], t)[side], c) \in {At(state[r][side], c), At(t[side], c)}
             /\ DOMAIN Merged(state[r], t)[side] = DOMAIN state[r][side] \cup DOMAIN t[side]
  BY <1>1, MergedState
<1>3. \A c, d \in Client, side \in Side :
         /\ At(state[d][side], c) \in 0..UMax
         /\ At(shipped[d][side], c) \in 0..UMax
         /\ At(state[c][side], c) = state[c][side][c]
  BY DEF TypeOK, IsState, At
<1>4. ASSUME NEW c \in Client, NEW side \in Side
      PROVE  At(t[side], c) <= At(state[c][side], c)
  BY <1>3 DEF OwnerLeads
<1>5. ASSUME NEW c \in Client, NEW side \in Side
      PROVE  /\ state'[c][side][c] = At(state'[c][side], c)
             /\ At(state[c][side], c) <= state'[c][side][c]
  <2>1. CASE c = r
    <3>1. state'[c] = Merged(state[r], t)
      BY <2>1 DEF TypeOK
    <3>2. c \in DOMAIN Merged(state[r], t)[side]
      BY <1>2, <2>1 DEF TypeOK
    <3> QED BY <1>2, <2>1, <3>1, <3>2 DEF At
  <2>2. CASE c # r
    BY <1>3, <2>2 DEF TypeOK
  <2> QED BY <2>1, <2>2
<1>6. ASSUME NEW c \in Client, NEW d \in Client, NEW side \in Side
      PROVE  At(state'[d][side], c) <= At(state[c][side], c)
  <2>1. CASE d = r
    <3>1. state'[d] = Merged(state[r], t)
      BY <2>1 DEF TypeOK
    <3>2. At(state[r][side], c) <= At(state[c][side], c)
      BY <1>3 DEF OwnerLeads
    <3> QED BY <1>2, <1>4, <3>1, <3>2
  <2>2. CASE d # r
    BY <1>3, <2>2 DEF OwnerLeads, TypeOK
  <2> QED BY <2>1, <2>2
<1>7. \A c, d \in Client, side \in Side :
         /\ At(state'[d][side], c) \in Int
         /\ At(state[c][side], c) \in Int
         /\ state'[c][side][c] \in Int
         /\ At(shipped[d][side], c) \in Int
  <2>1. \A d \in Client : IsState(state'[d])
    BY <1>1, MergedState DEF TypeOK
  <2>2. \A c, d \in Client, side \in Side : At(state'[d][side], c) \in Int
    BY <2>1 DEF IsState, At
  <2> QED BY <1>3, <1>5, <2>2
<1>8. ASSUME NEW c \in Client, NEW d \in Client, NEW side \in Side
      PROVE  /\ At(state'[d][side], c) <= state'[c][side][c]
             /\ At(shipped'[d][side], c) <= state'[c][side][c]
  <2>1. At(shipped[d][side], c) <= At(state[c][side], c)
    BY <1>3 DEF OwnerLeads
  <2> QED BY <1>5, <1>6, <1>7, <2>1
<1> QED BY <1>8 DEF OwnerLeads

(* At the start nobody has counted, and nobody is credited with anything.      *)
LEMMA InitOwnerLeads == Init => OwnerLeads
<1> SUFFICES ASSUME Init, NEW r \in Client, NEW s \in Client, NEW side \in Side
             PROVE  /\ At(state[s][side], r) <= state[r][side][r]
                    /\ At(shipped[s][side], r) <= state[r][side][r]
  BY DEF OwnerLeads
<1>1. At(state[s][side], r) = 0 /\ state[r][side][r] = 0
  BY DEF Init, At
<1>2. At(shipped[s][side], r) = At(state[s][side], r)
  BY InitTypeOK, WireState DEF Init, TypeOK
<1> QED BY <1>1, <1>2

(* A merge raises an entry to one its owner has reached; only the owner adds.  *)
LEMMA NextOwnerLeads == TypeOK /\ OwnerLeads /\ [FittingNext]_vars => OwnerLeads'
<1> SUFFICES ASSUME TypeOK, OwnerLeads, [FittingNext]_vars PROVE OwnerLeads'
  OBVIOUS
<1> USE CapAssumption DEF UMax
<1>1. ASSUME NEW r \in Client, Ship(r) PROVE OwnerLeads'
  <2>1. \A side \in Side, c \in Client : At(Wire(state[r])[side], c) = At(state[r][side], c)
    BY WireState DEF TypeOK
  <2>2. \A s \in Client : shipped'[s] = IF s = r THEN Wire(state[r]) ELSE shipped[s]
    BY <1>1 DEF Ship, TypeOK
  <2>3. state' = state
    BY <1>1 DEF Ship
  <2> QED BY <2>1, <2>2, <2>3 DEF OwnerLeads
<1>2. ASSUME NEW r \in Client, NEW s \in Client, MergeShipped(r, s) PROVE OwnerLeads'
  BY <1>2, MergeOwnerLeads DEF MergeShipped
<1>3. ASSUME NEW r \in Client, NEW s \in Client, MergeReplica(r, s) PROVE OwnerLeads'
  BY <1>3, MergeOwnerLeads DEF MergeReplica
<1>4. ASSUME NEW r \in Client, NEW side \in Side, NEW amount \in Amount,
             Fits(r, side, amount), Bump(r, side, amount)
      PROVE  OwnerLeads'
  <2>1. /\ state'[r][side][r] = state[r][side][r] + amount
        /\ state[r][side][r] \in Nat
        /\ amount \in Nat
    BY <1>4, BumpedState, FittingSum, AmountAssumption DEF Fits
  <2>2. \A s, c \in Client, d \in Side :
           <<s, d, c>> # <<r, side, r>> => At(state'[s][d], c) = At(state[s][d], c)
    BY <1>4, BumpedState
  <2>3. TypeOK'
    BY <1>4, BumpedState
  <2>4. \A c, d \in Client, e \in Side :
           /\ At(state[d][e], c) \in Nat /\ At(shipped[d][e], c) \in Nat
           /\ At(state'[d][e], c) \in Nat
           /\ At(state[c][e], c) = state[c][e][c]
           /\ At(state'[c][e], c) = state'[c][e][c]
    BY <2>3 DEF TypeOK, IsState, At
  <2>5. shipped' = shipped
    BY <1>4 DEF Bump
  <2>6. \A c \in Client, e \in Side : At(state[c][e], c) <= At(state'[c][e], c)
    BY <2>1, <2>2, <2>4
  <2>7. ASSUME NEW c \in Client, NEW d \in Client, NEW e \in Side
        PROVE  /\ At(state'[d][e], c) <= state'[c][e][c]
               /\ At(shipped[d][e], c) <= state'[c][e][c]
    <3>1. /\ At(state[d][e], c) <= At(state[c][e], c)
          /\ At(shipped[d][e], c) <= At(state[c][e], c)
      BY <2>4 DEF OwnerLeads
    <3>2. CASE <<d, e, c>> = <<r, side, r>>
      BY <2>4, <2>6, <3>1, <3>2
    <3>3. CASE <<d, e, c>> # <<r, side, r>>
      BY <2>2, <2>4, <2>6, <3>1, <3>3
    <3> QED BY <3>2, <3>3
  <2> QED BY <2>5, <2>7 DEF OwnerLeads
<1>5. CASE UNCHANGED vars
  BY <1>5 DEF vars, OwnerLeads
<1> QED BY <1>1, <1>2, <1>3, <1>4, <1>5 DEF FittingNext, Sync

(* As long as no replica counts past UMax itself, no peer and no message in    *)
(* flight ever credits a client with more than it counted, for any number of   *)
(* replicas: merges and re-deliveries cannot inflate the counter.              *)
THEOREM CounterOwnerLeads == FittingSpec => []OwnerLeads
  BY FittingTypeOK, InitOwnerLeads, NextOwnerLeads, PTL DEF FittingSpec

-----------------------------------------------------------------------------
(* No step lowers an entry: merge_entries() takes the maximum, increment() adds.*)
LEMMA NextEntriesGrow ==
  ASSUME TypeOK, [FittingNext]_vars, NEW r \in Client, NEW c \in Client, NEW side \in Side
  PROVE  At(state[r][side], c) <= At(state'[r][side], c)
<1> USE CapAssumption DEF UMax
<1>1. At(state[r][side], c) \in 0..UMax
  BY DEF TypeOK, IsState, At
<1>2. ASSUME state' = state PROVE At(state[r][side], c) <= At(state'[r][side], c)
  BY <1>1, <1>2
<1>3. ASSUME NEW d \in Client, NEW t, IsState(t),
             state' = [state EXCEPT ![d] = Merged(@, t)]
      PROVE  At(state[r][side], c) <= At(state'[r][side], c)
  <2>1. At(state[d][side], c) <= At(Merged(state[d], t)[side], c)
    BY <1>3, MergedState DEF TypeOK
  <2>2. state'[r] = IF r = d THEN Merged(state[d], t) ELSE state[r]
    BY <1>3 DEF TypeOK
  <2> QED BY <1>1, <2>1, <2>2
<1>4. ASSUME NEW d \in Client, NEW s \in Client,
             Ship(d) \/ MergeShipped(d, s) \/ MergeReplica(d, s)
      PROVE  At(state[r][side], c) <= At(state'[r][side], c)
  <2>1. IsState(shipped[s]) /\ IsState(state[s])
    BY DEF TypeOK
  <2> QED BY <1>2, <1>3, <1>4, <2>1 DEF Ship, MergeShipped, MergeReplica
<1>5. ASSUME NEW d \in Client, NEW e \in Side, NEW amount \in Amount,
             Fits(d, e, amount), Bump(d, e, amount)
      PROVE  At(state[r][side], c) <= At(state'[r][side], c)
  <2>1. CASE <<r, side, c>> = <<d, e, d>>
    <3>1. /\ state'[r][side][c] = state[r][side][c] + amount
          /\ state[r][side][c] \in Nat /\ amount \in Nat
          /\ TypeOK'
      BY <1>5, <2>1, BumpedState, FittingSum, AmountAssumption DEF Fits
    <3>2. /\ At(state[r][side], c) = state[r][side][c]
          /\ At(state'[r][side], c) = state'[r][side][c]
      BY <2>1, <3>1 DEF TypeOK, At
    <3> QED BY <3>1, <3>2
  <2>2. CASE <<r, side, c>> # <<d, e, d>>
    BY <1>1, <1>5, <2>2, BumpedState
  <2> QED BY <2>1, <2>2
<1>6. CASE UNCHANGED vars
  BY <1>2, <1>6 DEF vars
<1> QED BY <1>4, <1>5, <1>6 DEF FittingNext, Sync

(* "Per-client max is monotonic" (counter_pn.hpp:32-33): no entry of any       *)
(* replica ever goes down, whatever is merged in whatever order.               *)
THEOREM CounterEntriesOnlyGrow == FittingSpec => EntriesOnlyGrow
<1>1. TypeOK /\ [FittingNext]_vars =>
        [\A r, c \in Client, side \in Side :
            At(state[r][side], c) <= At(state'[r][side], c)]_vars
  BY NextEntriesGrow
<1> QED BY <1>1, FittingTypeOK, PTL DEF FittingSpec, EntriesOnlyGrow

-----------------------------------------------------------------------------
(* What a replica was told.                                                    *)

Count == Side \X Client \X Nat

\* Of each entry nothing larger was heard, and the entry itself was, unless it is
\* missing or zero.
LargestHeard(s, told) ==
    \A side \in Side, c \in Client :
        /\ At(s[side], c) = 0 \/ <<side, c, At(s[side], c)>> \in told
        /\ \A n \in Nat : <<side, c, n>> \in told => n <= At(s[side], c)

HeardInv ==
    /\ heard \in [Client -> SUBSET Count]
    /\ \A r \in Client : LargestHeard(state[r], heard[r])

(* Entries are numbers, missing ones too.                                      *)
LEMMA AtIsNat ==
  ASSUME NEW s, IsState(s), NEW side \in Side, NEW c \in Client
  PROVE  At(s[side], c) \in Nat
<1> QED BY CapAssumption DEF IsState, At, UMax

(* A state tells the entries it has.                                           *)
LEMMA CountsAre ==
  ASSUME NEW s, IsState(s)
  PROVE  /\ CountsOf(s) \subseteq Count
         /\ \A side \in Side, c \in Client, n \in Nat :
               <<side, c, n>> \in CountsOf(s) <=> c \in DOMAIN s[side] /\ n = s[side][c]
<1>1. \A side \in Side : DOMAIN s[side] \subseteq Client
      /\ \A c \in DOMAIN s[side] : s[side][c] \in Nat
  BY CapAssumption DEF IsState, UMax
<1>2. \A f : f \in CountsOf(s) <=> \E side \in Side : \E c \in DOMAIN s[side] :
                                      f = <<side, c, s[side][c]>>
  BY DEF CountsOf
<1>3. CountsOf(s) \subseteq Count
  BY <1>1, <1>2 DEF Count
<1> QED BY <1>2, <1>3

(* So it tells the largest counts in it.                                       *)
LEMMA StateTells ==
  ASSUME NEW s, IsState(s)
  PROVE  LargestHeard(s, CountsOf(s))
<1> QED BY CountsAre, AtIsNat DEF LargestHeard, At

(* What merge() holds afterwards is the largest of all it held and was told.   *)
LEMMA MergeHears ==
  ASSUME NEW s, NEW t, IsState(s), IsState(t),
         NEW told \in SUBSET Count, LargestHeard(s, told)
  PROVE  LargestHeard(Merged(s, t), told \cup CountsOf(t))
<1> SUFFICES ASSUME NEW side \in Side, NEW c \in Client
             PROVE  LET e == At(Merged(s, t)[side], c)
                        all == told \cup CountsOf(t)
                    IN  /\ e = 0 \/ <<side, c, e>> \in all
                        /\ \A n \in Nat : <<side, c, n>> \in all => n <= e
  BY DEF LargestHeard
<1> DEFINE e == At(Merged(s, t)[side], c)
           a == At(s[side], c)
           b == At(t[side], c)
<1>1. a \in Nat /\ b \in Nat
  BY AtIsNat
<1>2. e = IF a < b THEN b ELSE a
  BY <1>1 DEF Merged, Joined, At
<1>3. /\ a = 0 \/ <<side, c, a>> \in told
      /\ \A n \in Nat : <<side, c, n>> \in told => n <= a
  BY DEF LargestHeard
<1>4. /\ b = 0 \/ <<side, c, b>> \in CountsOf(t)
      /\ \A n \in Nat : <<side, c, n>> \in CountsOf(t) => n <= b
  BY StateTells DEF LargestHeard
<1> HIDE DEF a, b, e
<1>5. e \in Nat /\ a <= e /\ b <= e /\ (e = a \/ e = b)
  BY <1>1, <1>2
<1>6. e = 0 \/ <<side, c, e>> \in told \cup CountsOf(t)
  BY <1>3, <1>4, <1>5
<1>7. \A n \in Nat : <<side, c, n>> \in told \cup CountsOf(t) => n <= e
  BY <1>1, <1>3, <1>4, <1>5
<1> QED BY <1>6, <1>7 DEF e

(* A fresh counter was told of its own zero entries.                           *)
LEMMA InitHeard == Init => HeardInv
<1> SUFFICES ASSUME Init PROVE HeardInv
  OBVIOUS
<1>1. TypeOK
  BY InitTypeOK
<1>2. \A r \in Client : IsState(state[r]) /\ heard[r] = CountsOf(state[r])
  BY <1>1 DEF Init, TypeOK
<1>3. heard \in [Client -> SUBSET Count]
  BY <1>2, CountsAre DEF Init
<1> QED BY <1>2, <1>3, StateTells DEF HeardInv

(* A merge hears all the other state says; who counts hears a count no smaller *)
(* than the one before.                                                        *)
LEMMA NextHeard == TypeOK /\ HeardInv /\ [FittingNext]_vars => HeardInv'
<1> SUFFICES ASSUME TypeOK, HeardInv, [FittingNext]_vars PROVE HeardInv'
  OBVIOUS
<1>1. ASSUME UNCHANGED <<state, heard>> PROVE HeardInv'
  BY <1>1 DEF HeardInv
<1>2. ASSUME NEW r \in Client, NEW t, IsState(t),
             state' = [state EXCEPT ![r] = Merged(@, t)],
             heard' = [heard EXCEPT ![r] = @ \cup CountsOf(t)]
      PROVE  HeardInv'
  <2>1. LargestHeard(Merged(state[r], t), heard[r] \cup CountsOf(t))
    BY <1>2, MergeHears DEF TypeOK, HeardInv
  <2>2. heard' \in [Client -> SUBSET Count]
    BY <1>2, CountsAre DEF HeardInv
  <2>3. \A d \in Client : /\ state'[d] = IF d = r THEN Merged(state[r], t) ELSE state[d]
                          /\ heard'[d] = IF d = r THEN heard[r] \cup CountsOf(t) ELSE heard[d]
    BY <1>2 DEF TypeOK, HeardInv
  <2> QED BY <2>1, <2>2, <2>3 DEF HeardInv
<1>3. ASSUME NEW r \in Client, NEW s \in Client,
             Ship(r) \/ MergeShipped(r, s) \/ MergeReplica(r, s)
      PROVE  HeardInv'
  <2>1. IsState(shipped[s]) /\ IsState(state[s])
    BY DEF TypeOK
  <2> QED BY <1>1, <1>2, <1>3, <2>1 DEF Ship, MergeShipped, MergeReplica
<1>4. ASSUME NEW r \in Client, NEW side \in Side, NEW amount \in Amount,
             Fits(r, side, amount), Bump(r, side, amount)
      PROVE  HeardInv'
  <2> DEFINE own == state[r][side][r]
             sum == state'[r][side][r]
  <2>1. /\ sum = own + amount /\ own \in Nat /\ amount \in Nat
        /\ TypeOK'
        /\ \A s, c \in Client, d \in Side :
              <<s, d, c>> # <<r, side, r>> => At(state'[s][d], c) = At(state[s][d], c)
    BY <1>4, BumpedState, FittingSum, AmountAssumption DEF Fits
  <2>2. own = At(state[r][side], r) /\ sum = At(state'[r][side], r)
    BY <2>1 DEF TypeOK, At
  <2>3. sum = (At(state[r][side], r) + amount) % (UMax + 1)
    BY <1>4, <2>2, BumpedState
  <2> HIDE DEF own, sum
  <2>4. heard' = [heard EXCEPT ![r] = @ \cup {<<side, r, sum>>}]
    BY <1>4, <2>3 DEF Bump
  <2>5. sum \in Nat /\ own <= sum
    BY <2>1
  <2>6. heard' \in [Client -> SUBSET Count]
    BY <2>4, <2>5 DEF HeardInv, Count
  <2>7. ASSUME NEW s \in Client, NEW d \in Side, NEW c \in Client
        PROVE  /\ At(state'[s][d], c) = 0 \/ <<d, c, At(state'[s][d], c)>> \in heard'[s]
               /\ \A n \in Nat : <<d, c, n>> \in heard'[s] => n <= At(state'[s][d], c)
    <3>1. /\ At(state[s][d], c) = 0 \/ <<d, c, At(state[s][d], c)>> \in heard[s]
          /\ \A n \in Nat : <<d, c, n>> \in heard[s] => n <= At(state[s][d], c)
      BY DEF HeardInv, LargestHeard
    <3>2. CASE <<s, d, c>> = <<r, side, r>>
      <4>1. heard'[s] = heard[s] \cup {<<d, c, sum>>}
        BY <2>4, <3>2 DEF HeardInv
      <4> QED BY <2>1, <2>2, <2>5, <3>1, <3>2, <4>1
    <3>3. CASE <<s, d, c>> # <<r, side, r>>
      <4>1. \A n \in Nat : <<d, c, n>> \in heard'[s] <=> <<d, c, n>> \in heard[s]
        BY <2>4, <3>3 DEF HeardInv
      <4>2. At(state'[s][d], c) = At(state[s][d], c) /\ At(state[s][d], c) \in Nat
        BY <2>1, <3>3, AtIsNat DEF TypeOK
      <4> QED BY <3>1, <4>1, <4>2
    <3> QED BY <3>2, <3>3
  <2> QED BY <2>6, <2>7 DEF HeardInv, LargestHeard
<1>5. CASE UNCHANGED vars
  BY <1>1, <1>5 DEF vars
<1> QED BY <1>3, <1>4, <1>5 DEF FittingNext, Sync

(* However states are delayed, repeated or reordered, each entry is the largest *)
(* count the replica made or was told of, so replicas told the same agree.     *)
THEOREM CounterHoldsLargest == FittingSpec => []EntryIsLargestHeard
<1>1. ASSUME TypeOK, HeardInv PROVE EntryIsLargestHeard
  <2> SUFFICES ASSUME NEW r \in Client, NEW c \in Client, NEW side \in Side
               PROVE  LET told == {f[3] : f \in {g \in heard[r] : g[1] = side /\ g[2] = c}}
                                    \cup {0}
                      IN  /\ At(state[r][side], c) \in told
                          /\ \A n \in told : n <= At(state[r][side], c)
    BY DEF EntryIsLargestHeard
  <2> DEFINE about == {g \in heard[r] : g[1] = side /\ g[2] = c}
             e     == At(state[r][side], c)
  <2>1. e \in Nat
    BY <1>1, AtIsNat DEF TypeOK
  <2>2. /\ e = 0 \/ <<side, c, e>> \in heard[r]
        /\ \A n \in Nat : <<side, c, n>> \in heard[r] => n <= e
    BY <1>1 DEF HeardInv, LargestHeard
  <2>3. \A g \in about : g[3] \in Nat /\ g = <<side, c, g[3]>>
    BY <1>1 DEF HeardInv, Count
  <2>4. <<side, c, e>> \in heard[r] => <<side, c, e>> \in about
    OBVIOUS
  <2> HIDE DEF e
  <2>5. e \in {f[3] : f \in about} \cup {0}
    BY <2>2, <2>4
  <2>6. \A n \in {f[3] : f \in about} \cup {0} : n <= e
    BY <2>1, <2>2, <2>3
  <2> QED BY <2>5, <2>6 DEF e
<1> QED BY <1>1, FittingTypeOK, InitHeard, NextHeard, PTL DEF FittingSpec

-----------------------------------------------------------------------------
(* Sums over the entries of a map.                                             *)

(* Of some numbers one is the least.                                           *)
LEMMA Least ==
  ASSUME NEW T, T \subseteq Nat, T # {}
  PROVE  \E x \in T : \A y \in T : x <= y
<1>1. OpToRel(<, Nat) = {ss \in Nat \X Nat : ss[1] < ss[2]}
  BY Zenon DEF OpToRel
<1>2. IsWellFoundedOn({ss \in Nat \X Nat : ss[1] < ss[2]}, Nat)
  BY <1>1, NatLessThanWellFounded, Zenon
<1>3. PICK x \in T : \A y \in T : ~(<<y, x>> \in {ss \in Nat \X Nat : ss[1] < ss[2]})
  BY <1>2, WFMin
<1>4. ASSUME NEW y \in T PROVE x <= y
  <2>1. x \in Nat /\ y \in Nat
    OBVIOUS
  <2>2. <<y, x>> \in Nat \X Nat /\ <<y, x>>[1] = y /\ <<y, x>>[2] = x
    BY <2>1
  <2>3. ~(y < x)
    BY <1>3, <2>2
  <2> QED BY <2>1, <2>3
<1> QED BY <1>4

(* A set of positions has a last one.                                          *)
LEMMA MaxIs ==
  ASSUME NEW n \in Nat, NEW s \in SUBSET (1..n), s # {}
  PROVE  Max(s) \in s /\ \A y \in s : y <= Max(s)
<1> DEFINE T == {n - y : y \in s}
<1>1. \A y \in s : y \in 1..n
  OBVIOUS
<1>2. T \subseteq Nat /\ T # {}
  <2>1. \A y \in s : n - y \in Nat
    BY <1>1
  <2> QED BY <2>1
<1>3. PICK t \in T : \A u \in T : t <= u
  BY <1>2, Least
<1>4. PICK x \in s : t = n - x
  OBVIOUS
<1>5. \A y \in s : n - y \in T
  OBVIOUS
<1> HIDE DEF T
<1>6. \A y \in s : x >= y
  BY <1>1, <1>3, <1>4, <1>5
<1>7. Max(s) \in s /\ \A y \in s : Max(s) >= y
  BY <1>6 DEF Max
<1> QED BY <1>1, <1>7

(* The last of the first positions.                                            *)
LEMMA MaxOfFirst ==
  ASSUME NEW i \in Nat \ {0}
  PROVE  Max(1..i) = i /\ (1..i) \ {i} = 1..(i - 1) /\ 1..i # {}
<1>1. 1..i \in SUBSET (1..i) /\ 1..i # {} /\ i \in 1..i
  OBVIOUS
<1>2. Max(1..i) \in 1..i /\ \A y \in 1..i : y <= Max(1..i)
  BY <1>1, MaxIs
<1>3. Max(1..i) = i
  BY <1>1, <1>2
<1>4. (1..i) \ {i} = 1..(i - 1)
  OBVIOUS
<1> QED BY <1>1, <1>3, <1>4

(* A fold that runs over the first n positions, last one first, has a value for *)
(* each set of them.                                                           *)
LEMMA FoldTable ==
  ASSUME NEW n \in Nat, NEW v \in [1..n -> Nat], NEW g \in [Nat \X Nat -> Nat]
  PROVE  \E h \in [SUBSET (1..n) -> Nat] : \A s \in SUBSET (1..n) :
            h[s] = IF s = {} THEN 0 ELSE g[<<h[s \ {Max(s)}], v[Max(s)]>>]
<1> DEFINE Solved(m, h) == \A s \in SUBSET (1..m) :
                              h[s] = IF s = {} THEN 0 ELSE g[<<h[s \ {Max(s)}], v[Max(s)]>>]
           Bad == {m \in 0..n : ~\E h \in [SUBSET (1..m) -> Nat] : Solved(m, h)}
<1>1. Bad = {}
  <2> SUFFICES ASSUME Bad # {} PROVE FALSE
    OBVIOUS
  <2>1. Bad \subseteq Nat
    OBVIOUS
  <2>2. PICK m \in Bad : \A k \in Bad : m <= k
    BY <2>1, Least
  <2>3. m \in 0..n /\ ~\E h \in [SUBSET (1..m) -> Nat] : Solved(m, h)
    BY <2>2
  <2>4. CASE m = 0
    <3> DEFINE h == [s \in SUBSET (1..m) |-> 0]
    <3>1. h \in [SUBSET (1..m) -> Nat]
      OBVIOUS
    <3>2. \A s \in SUBSET (1..m) : s = {}
      BY <2>4
    <3>3. Solved(m, h)
      BY <3>2
    <3> HIDE DEF h, Solved
    <3> QED BY <2>3, <3>1, <3>3
  <2>5. CASE m # 0
    <3>1. m - 1 \in 0..n /\ m \in 1..n /\ m \in Nat /\ m - 1 < m
      BY <2>3, <2>5
    <3>2. m - 1 \notin Bad
      <4> HIDE DEF Bad
      <4>1. m - 1 \in Bad => m <= m - 1
        BY <2>2
      <4> QED BY <3>1, <4>1
    <3>3. PICK f \in [SUBSET (1..(m - 1)) -> Nat] : Solved(m - 1, f)
      BY <3>1, <3>2
    <3> DEFINE h == [s \in SUBSET (1..m) |-> IF m \in s THEN g[<<f[s \ {m}], v[m]>>] ELSE f[s]]
    <3>4. ASSUME NEW s \in SUBSET (1..m)
          PROVE  s \ {m} \in SUBSET (1..(m - 1))
                 /\ (m \in s => Max(s) = m) /\ (m \notin s => s \in SUBSET (1..(m - 1)))
      <4>1. s \ {m} \in SUBSET (1..(m - 1))
        BY <3>1
      <4>2. ASSUME m \in s PROVE Max(s) = m
        <5>1. Max(s) \in s /\ m <= Max(s)
          BY <3>1, <4>2, MaxIs
        <5>2. Max(s) \in 1..m
          BY <5>1
        <5> QED BY <3>1, <5>1, <5>2
      <4> QED BY <4>1, <4>2
    <3>5. v[m] \in Nat
      BY <3>1
    <3>6. h \in [SUBSET (1..m) -> Nat]
      <4>1. ASSUME NEW s \in SUBSET (1..m)
            PROVE  (IF m \in s THEN g[<<f[s \ {m}], v[m]>>] ELSE f[s]) \in Nat
        <5>1. f[s \ {m}] \in Nat /\ (m \notin s => f[s] \in Nat)
          BY <3>4
        <5>2. <<f[s \ {m}], v[m]>> \in Nat \X Nat
          BY <3>5, <5>1
        <5> QED BY <5>1, <5>2
      <4> QED BY <4>1
    <3>7. ASSUME NEW s \in SUBSET (1..m)
          PROVE  h[s] = IF s = {} THEN 0 ELSE g[<<h[s \ {Max(s)}], v[Max(s)]>>]
      <4>1. CASE m \in s
        <5>1. h[s] = g[<<f[s \ {m}], v[m]>>]
          BY <4>1
        <5>2. s \ {m} \in SUBSET (1..m) /\ m \notin s \ {m}
          BY <3>4
        <5>3. h[s \ {m}] = f[s \ {m}]
          BY <5>2
        <5> HIDE DEF h
        <5> QED BY <3>4, <4>1, <5>1, <5>3
      <4>2. CASE m \notin s
        <5>1. s \in SUBSET (1..(m - 1))
          BY <3>4, <4>2
        <5>2. f[s] = IF s = {} THEN 0 ELSE g[<<f[s \ {Max(s)}], v[Max(s)]>>]
          BY <3>3, <5>1
        <5>3. s \ {Max(s)} \in SUBSET (1..m) /\ m \notin s \ {Max(s)}
          BY <4>2
        <5>4. h[s] = f[s] /\ h[s \ {Max(s)}] = f[s \ {Max(s)}]
          BY <4>2, <5>3
        <5> HIDE DEF h
        <5> QED BY <5>2, <5>4
      <4> QED BY <4>1, <4>2
    <3> HIDE DEF h
    <3>8. Solved(m, h)
      BY <3>7
    <3> HIDE DEF Solved
    <3> QED BY <2>3, <3>6, <3>8
  <2> QED BY <2>4, <2>5
<1>2. n \in 0..n
  OBVIOUS
<1>3. \E h \in [SUBSET (1..n) -> Nat] : Solved(n, h)
  BY <1>1, <1>2
<1> QED BY <1>3

\* The true sum of the entries, in an order.
PlainSum(bucket, order) == FoldLeft(LAMBDA n, c : n + bucket[c], 0, order)

\* A are the sums of the first entries, the first i for each i.
Sums(A, bucket, o, n) ==
    /\ A \in [0..n -> Int]
    /\ A[0] = 0
    /\ \A i \in 1..n : A[i] = A[i - 1] + bucket[o[i]]

\* C are the totals saturating_sum() goes through.
Totals(C, bucket, o, n) ==
    /\ C \in [0..n -> Nat]
    /\ C[0] = 0
    /\ \A i \in 1..n : C[i] = Add(C[i - 1], bucket[o[i]])

(* saturating_sum() runs through the entries in the order it is given, adding  *)
(* one to the total at a time.                                                 *)
LEMMA SaturatingRun ==
  ASSUME NEW bucket, NEW n \in Nat, NEW o, DOMAIN o = 1..n,
         \A i \in 1..n : bucket[o[i]] \in Nat
  PROVE  \E A : Totals(A, bucket, o, n) /\ SaturatingSum(bucket, o) = A[n]
<1> USE CapAssumption
<1> DEFINE Body(h) == [s \in SUBSET (DOMAIN o) |->
                          IF s = {} THEN 0 ELSE Add(h[s \ {Max(s)}], bucket[o[Max(s)]])]
           v == [i \in 1..n |-> bucket[o[i]]]
           g == [p \in Nat \X Nat |-> Add(p[1], p[2])]
<1>1. SaturatingSum(bucket, o) = (CHOOSE h : h = Body(h))[DOMAIN o]
  BY Zenon DEF SaturatingSum, FoldLeft, MapThenFoldSet
<1>2. \A a, b \in Nat : Add(a, b) \in Nat
  BY DEF Add
<1>3. v \in [1..n -> Nat] /\ g \in [Nat \X Nat -> Nat]
  BY <1>2
<1>4. \A a, b \in Nat : g[<<a, b>>] = Add(a, b)
  OBVIOUS
<1> HIDE DEF g
<1>5. \E h : h = Body(h)
  <2>1. PICK h \in [SUBSET (1..n) -> Nat] : \A s \in SUBSET (1..n) :
            h[s] = IF s = {} THEN 0 ELSE g[<<h[s \ {Max(s)}], v[Max(s)]>>]
    BY <1>3, FoldTable
  <2>2. ASSUME NEW s \in SUBSET (1..n)
        PROVE  h[s] = IF s = {} THEN 0 ELSE Add(h[s \ {Max(s)}], bucket[o[Max(s)]])
    <3>1. CASE s = {}
      BY <2>1, <3>1
    <3>2. CASE s # {}
      <4>1. Max(s) \in 1..n /\ s \ {Max(s)} \in SUBSET (1..n)
        BY <3>2, MaxIs
      <4>2. h[s \ {Max(s)}] \in Nat /\ v[Max(s)] \in Nat /\ v[Max(s)] = bucket[o[Max(s)]]
        BY <1>3, <4>1
      <4>3. h[s] = g[<<h[s \ {Max(s)}], v[Max(s)]>>]
        BY <2>1, <3>2
      <4> HIDE DEF v
      <4> QED BY <1>4, <3>2, <4>2, <4>3
    <3> QED BY <3>1, <3>2
  <2>3. h = Body(h)
    BY <2>2
  <2> QED BY <2>3
<1> DEFINE k == CHOOSE h : h = Body(h)
<1>6. k = Body(k)
  BY <1>5
<1> HIDE DEF k
<1>7. k[{}] = 0 /\ \A i \in 1..n : k[1..i] = Add(k[1..(i - 1)], bucket[o[i]])
  <2>1. k[{}] = 0
    BY <1>6
  <2>2. ASSUME NEW i \in 1..n PROVE k[1..i] = Add(k[1..(i - 1)], bucket[o[i]])
    <3>1. 1..i \in SUBSET (1..n) /\ Max(1..i) = i /\ (1..i) \ {i} = 1..(i - 1) /\ 1..i # {}
      <4>1. i \in Nat \ {0} /\ 1..i \in SUBSET (1..n)
        OBVIOUS
      <4> QED BY <4>1, MaxOfFirst
    <3> QED BY <1>6, <3>1
  <2> QED BY <2>1, <2>2
<1> DEFINE A == [i \in 0..n |-> k[1..i]]
<1>8. A[0] = 0 /\ A[n] = SaturatingSum(bucket, o)
  <2>1. 1..0 = {}
    OBVIOUS
  <2> QED BY <1>1, <1>7, <2>1 DEF k
<1>9. \A i \in 1..n : A[i] = Add(A[i - 1], bucket[o[i]])
  BY <1>7
<1> HIDE DEF A
<1>10. ASSUME NEW i \in 0..n PROVE A[i] \in Nat
  <2> DEFINE Bad == {j \in 0..n : A[j] \notin Nat}
  <2> SUFFICES ASSUME Bad # {} PROVE FALSE
    OBVIOUS
  <2>0. Bad \subseteq Nat
    OBVIOUS
  <2>1. PICK m \in Bad : \A j \in Bad : m <= j
    BY <2>0, Least
  <2>2. m # 0 /\ m \in 1..n /\ m - 1 \in 0..n /\ m - 1 \notin Bad
    BY <1>8, <2>1
  <2>3. A[m - 1] \in Nat /\ A[m] \notin Nat
    BY <2>1, <2>2
  <2> QED BY <1>2, <1>9, <2>2, <2>3
<1>11. A \in [0..n -> Nat]
  BY <1>10 DEF A
<1> QED BY <1>8, <1>9, <1>11 DEF Totals

(* So does the true sum.                                                       *)
LEMMA PlainRun ==
  ASSUME NEW bucket, NEW n \in Nat, NEW o, DOMAIN o = 1..n,
         \A i \in 1..n : bucket[o[i]] \in Nat
  PROVE  \E A : /\ Sums(A, bucket, o, n) /\ A \in [0..n -> Nat]
                /\ PlainSum(bucket, o) = A[n]
<1> DEFINE Body(h) == [s \in SUBSET (DOMAIN o) |->
                          IF s = {} THEN 0 ELSE h[s \ {Max(s)}] + bucket[o[Max(s)]]]
           v == [i \in 1..n |-> bucket[o[i]]]
           g == [p \in Nat \X Nat |-> p[1] + p[2]]
<1>1. PlainSum(bucket, o) = (CHOOSE h : h = Body(h))[DOMAIN o]
  BY Zenon DEF PlainSum, FoldLeft, MapThenFoldSet
<1>2. \A a, b \in Nat : a + b \in Nat
  OBVIOUS
<1>3. v \in [1..n -> Nat] /\ g \in [Nat \X Nat -> Nat]
  BY <1>2
<1>4. \A a, b \in Nat : g[<<a, b>>] = a + b
  OBVIOUS
<1> HIDE DEF g
<1>5. \E h : h = Body(h)
  <2>1. PICK h \in [SUBSET (1..n) -> Nat] : \A s \in SUBSET (1..n) :
            h[s] = IF s = {} THEN 0 ELSE g[<<h[s \ {Max(s)}], v[Max(s)]>>]
    BY <1>3, FoldTable
  <2>2. ASSUME NEW s \in SUBSET (1..n)
        PROVE  h[s] = IF s = {} THEN 0 ELSE h[s \ {Max(s)}] + bucket[o[Max(s)]]
    <3>1. CASE s = {}
      BY <2>1, <3>1
    <3>2. CASE s # {}
      <4>1. Max(s) \in 1..n /\ s \ {Max(s)} \in SUBSET (1..n)
        BY <3>2, MaxIs
      <4>2. h[s \ {Max(s)}] \in Nat /\ v[Max(s)] \in Nat /\ v[Max(s)] = bucket[o[Max(s)]]
        BY <1>3, <4>1
      <4>3. h[s] = g[<<h[s \ {Max(s)}], v[Max(s)]>>]
        BY <2>1, <3>2
      <4> HIDE DEF v
      <4> QED BY <1>4, <3>2, <4>2, <4>3
    <3> QED BY <3>1, <3>2
  <2>3. h = Body(h)
    BY <2>2
  <2> QED BY <2>3
<1> DEFINE k == CHOOSE h : h = Body(h)
<1>6. k = Body(k)
  BY <1>5
<1> HIDE DEF k
<1>7. k[{}] = 0 /\ \A i \in 1..n : k[1..i] = k[1..(i - 1)] + bucket[o[i]]
  <2>1. k[{}] = 0
    BY <1>6
  <2>2. ASSUME NEW i \in 1..n PROVE k[1..i] = k[1..(i - 1)] + bucket[o[i]]
    <3>1. 1..i \in SUBSET (1..n) /\ Max(1..i) = i /\ (1..i) \ {i} = 1..(i - 1) /\ 1..i # {}
      <4>1. i \in Nat \ {0} /\ 1..i \in SUBSET (1..n)
        OBVIOUS
      <4> QED BY <4>1, MaxOfFirst
    <3> QED BY <1>6, <3>1
  <2> QED BY <2>1, <2>2
<1> DEFINE A == [i \in 0..n |-> k[1..i]]
<1>8. A[0] = 0 /\ A[n] = PlainSum(bucket, o)
  <2>1. 1..0 = {}
    OBVIOUS
  <2> QED BY <1>1, <1>7, <2>1 DEF k
<1>9. \A i \in 1..n : A[i] = A[i - 1] + bucket[o[i]]
  BY <1>7
<1> HIDE DEF A
<1>10. ASSUME NEW i \in 0..n PROVE A[i] \in Nat
  <2> DEFINE Bad == {j \in 0..n : A[j] \notin Nat}
  <2> SUFFICES ASSUME Bad # {} PROVE FALSE
    OBVIOUS
  <2>0. Bad \subseteq Nat
    OBVIOUS
  <2>1. PICK m \in Bad : \A j \in Bad : m <= j
    BY <2>0, Least
  <2>2. m # 0 /\ m \in 1..n /\ m - 1 \in 0..n /\ m - 1 \notin Bad
    BY <1>8, <2>1
  <2>3. A[m - 1] \in Nat /\ A[m] \notin Nat
    BY <2>1, <2>2
  <2> QED BY <1>2, <1>9, <2>2, <2>3
<1>11. A \in [0..n -> Nat]
  BY <1>10 DEF A
<1>12. A \in [0..n -> Int]
  BY <1>11
<1> QED BY <1>8, <1>9, <1>11, <1>12 DEF Sums

(* The sum that stops at Cap is the true sum or Cap.                           *)
LEMMA SaturatingIsClamped ==
  ASSUME NEW bucket, NEW n \in Nat, NEW o, DOMAIN o = 1..n,
         \A i \in 1..n : bucket[o[i]] \in Nat
  PROVE  /\ PlainSum(bucket, o) \in Nat
         /\ SaturatingSum(bucket, o)
              = IF PlainSum(bucket, o) < Cap THEN PlainSum(bucket, o) ELSE Cap
<1> USE CapAssumption
<1>0. PICK A, C : /\ Sums(A, bucket, o, n) /\ A \in [0..n -> Nat] /\ PlainSum(bucket, o) = A[n]
                  /\ Totals(C, bucket, o, n) /\ SaturatingSum(bucket, o) = C[n]
  <2>1. \E A : /\ Sums(A, bucket, o, n) /\ A \in [0..n -> Nat]
                /\ PlainSum(bucket, o) = A[n]
    BY PlainRun, Zenon
  <2>2. \E C : Totals(C, bucket, o, n) /\ SaturatingSum(bucket, o) = C[n]
    BY SaturatingRun, Zenon
  <2> QED BY <2>1, <2>2
<1>1. /\ A \in [0..n -> Nat] /\ A[0] = 0 /\ PlainSum(bucket, o) = A[n]
      /\ \A i \in 1..n : A[i] = A[i - 1] + bucket[o[i]]
  BY <1>0 DEF Sums
<1>2. /\ C \in [0..n -> Nat] /\ C[0] = 0 /\ SaturatingSum(bucket, o) = C[n]
      /\ \A i \in 1..n : C[i] = Add(C[i - 1], bucket[o[i]])
  BY <1>0 DEF Totals
<1> DEFINE Bad == {i \in 0..n : C[i] # IF A[i] < Cap THEN A[i] ELSE Cap}
<1>3. Bad = {}
  <2> SUFFICES ASSUME Bad # {} PROVE FALSE
    OBVIOUS
  <2>0. Bad \subseteq Nat
    OBVIOUS
  <2>1. PICK m \in Bad : \A j \in Bad : m <= j
    BY <2>0, Least
  <2>2. m \in 1..n /\ m - 1 \in 0..n /\ m - 1 \notin Bad
    BY <1>1, <1>2, <2>1
  <2>3. /\ C[m - 1] = IF A[m - 1] < Cap THEN A[m - 1] ELSE Cap
        /\ C[m] # IF A[m] < Cap THEN A[m] ELSE Cap
    BY <2>1, <2>2
  <2>4. /\ A[m] = A[m - 1] + bucket[o[m]] /\ C[m] = Add(C[m - 1], bucket[o[m]])
        /\ A[m - 1] \in Nat /\ C[m - 1] \in Nat /\ bucket[o[m]] \in Nat
    BY <1>1, <1>2, <2>2
  <2> HIDE DEF Bad
  <2> QED BY <2>3, <2>4 DEF Add
<1>4. n \in 0..n
  OBVIOUS
<1>5. C[n] = IF A[n] < Cap THEN A[n] ELSE Cap
  BY <1>3, <1>4
<1> QED BY <1>1, <1>2, <1>4, <1>5

\* o lists the n members of D, each once.
Lists(o, n, D) ==
    /\ o \in [1..n -> D]
    /\ \A i, j \in 1..n : o[i] = o[j] => i = j
    /\ \A x \in D : \E i \in 1..n : o[i] = x

\* There is a sum over all of D but x, and it is smaller by the entry of x.
HasSumWithout(bucket, D, n, sum, x) ==
    \E p, B : /\ Lists(p, n - 1, D \ {x}) /\ Sums(B, bucket, p, n - 1)
              /\ sum = B[n - 1] + bucket[x]

(* Taking one client out of the order takes its entry out of the sum.          *)
LEMMA SumWithout ==
  ASSUME NEW bucket, NEW D, \A x \in D : bucket[x] \in Nat,
         NEW n \in Nat \ {0}, NEW o, Lists(o, n, D), NEW A, Sums(A, bucket, o, n),
         NEW k \in 1..n
  PROVE  HasSumWithout(bucket, D, n, A[n], o[k])
<1> DEFINE x == o[k]
           p == [i \in 1..(n - 1) |-> IF i < k THEN o[i] ELSE o[i + 1]]
           B == [i \in 0..(n - 1) |-> IF i < k THEN A[i] ELSE A[i + 1] - bucket[x]]
<1>1. /\ o \in [1..n -> D]
      /\ \A i, j \in 1..n : o[i] = o[j] => i = j
      /\ \A y \in D : \E i \in 1..n : o[i] = y
  BY DEF Lists
<1>2. /\ A \in [0..n -> Int] /\ A[0] = 0
      /\ \A i \in 1..n : A[i] = A[i - 1] + bucket[o[i]]
  BY DEF Sums
<1>3. x \in D /\ bucket[x] \in Nat
  BY <1>1
<1>4. \A i \in 1..(n - 1) : /\ i < k => i \in 1..n /\ i # k /\ p[i] = o[i]
                            /\ i >= k => i + 1 \in 1..n /\ i + 1 # k /\ p[i] = o[i + 1]
  OBVIOUS
<1>5. Lists(p, n - 1, D \ {x})
  <2>1. p \in [1..(n - 1) -> D \ {x}]
    <3>1. \A i \in 1..(n - 1) : p[i] \in D \ {x}
      BY <1>1, <1>4
    <3> QED BY <3>1
  <2>2. ASSUME NEW i \in 1..(n - 1), NEW j \in 1..(n - 1), p[i] = p[j] PROVE i = j
    <3> HIDE DEF p
    <3> QED BY <1>1, <1>4, <2>2
  <2>3. ASSUME NEW y \in D \ {x} PROVE \E i \in 1..(n - 1) : p[i] = y
    <3>1. PICK i \in 1..n : o[i] = y
      BY <1>1
    <3>2. i # k
      BY <3>1
    <3>3. CASE i < k
      <4>1. i \in 1..(n - 1) /\ p[i] = o[i]
        BY <1>4, <3>3
      <4> QED BY <3>1, <4>1
    <3>4. CASE i > k
      <4>1. i - 1 \in 1..(n - 1) /\ i - 1 >= k /\ (i - 1) + 1 = i
        BY <3>4
      <4>2. p[i - 1] = o[i]
        BY <1>4, <4>1
      <4> QED BY <3>1, <4>1, <4>2
    <3> QED BY <3>2, <3>3, <3>4
  <2> HIDE DEF p
  <2> QED BY <2>1, <2>2, <2>3 DEF Lists
<1>6. Sums(B, bucket, p, n - 1)
  <2>1. B \in [0..(n - 1) -> Int]
    <3>1. \A i \in 0..(n - 1) : i \in 0..n /\ i + 1 \in 0..n
      OBVIOUS
    <3>2. \A i \in 0..(n - 1) : A[i] \in Int /\ A[i + 1] - bucket[x] \in Int
      BY <1>2, <1>3, <3>1
    <3> QED BY <3>2
  <2>2. B[0] = 0
    BY <1>2
  <2>3. ASSUME NEW i \in 1..(n - 1) PROVE B[i] = B[i - 1] + bucket[p[i]]
    <3>1. /\ i \in 1..n /\ i + 1 \in 1..n /\ i - 1 \in 0..(n - 1) /\ i \in 0..(n - 1)
          /\ (i + 1) - 1 = i /\ i - 1 \in 0..n /\ i \in 0..n
      OBVIOUS
    <3>2. /\ A[i] = A[i - 1] + bucket[o[i]] /\ A[i + 1] = A[i] + bucket[o[i + 1]]
          /\ A[i - 1] \in Int /\ A[i] \in Int
          /\ bucket[o[i]] \in Nat /\ bucket[o[i + 1]] \in Nat
      BY <1>1, <1>2, <3>1
    <3>3. CASE i < k
      <4>1. B[i] = A[i] /\ B[i - 1] = A[i - 1] /\ p[i] = o[i]
        BY <3>1, <3>3
      <4> QED BY <3>2, <4>1
    <3>4. CASE i = k
      <4>1. B[i] = A[i + 1] - bucket[x] /\ B[i - 1] = A[i - 1] /\ p[i] = o[i + 1]
        BY <3>1, <3>4
      <4> QED BY <1>3, <3>2, <3>4, <4>1
    <3>5. CASE i > k
      <4>1. B[i] = A[i + 1] - bucket[x] /\ p[i] = o[i + 1]
        BY <3>1, <3>5
      <4>2. B[i - 1] = A[i] - bucket[x]
        BY <3>1, <3>5
      <4> HIDE DEF p, B, x
      <4> QED BY <1>3, <3>2, <4>1, <4>2
    <3> QED BY <3>3, <3>4, <3>5
  <2> HIDE DEF B
  <2> QED BY <2>1, <2>2, <2>3 DEF Sums
<1>7. A[n] = B[n - 1] + bucket[x]
  <2>1. n - 1 \in 0..(n - 1) /\ n \in 0..n /\ n \in 1..n /\ (n - 1) + 1 = n /\ n - 1 \in 0..n
    OBVIOUS
  <2>2. A[n] \in Int /\ A[n - 1] \in Int /\ A[n] = A[n - 1] + bucket[o[n]]
    BY <1>2, <2>1
  <2>3. CASE k = n
    <3>1. B[n - 1] = A[n - 1]
      BY <2>1, <2>3
    <3> QED BY <2>2, <2>3, <3>1
  <2>4. CASE k # n
    <3>1. B[n - 1] = A[n] - bucket[x]
      BY <2>1, <2>4
    <3> QED BY <1>3, <2>2, <3>1
  <2> QED BY <2>3, <2>4
<1> HIDE DEF p, B
<1> QED BY <1>5, <1>6, <1>7 DEF HasSumWithout

\* Two sums over the same n clients are equal.
Agree(bucket, K, n) ==
    \A D \in SUBSET K : \A o, q, A, B :
        Lists(o, n, D) /\ Lists(q, n, D) /\ Sums(A, bucket, o, n) /\ Sums(B, bucket, q, n)
            => A[n] = B[n]

(* They are, if sums over one client less are.                                 *)
LEMMA SumsAgreeNext ==
  ASSUME NEW bucket, NEW K, \A x \in K : bucket[x] \in Nat,
         NEW n \in Nat \ {0}, Agree(bucket, K, n - 1),
         NEW D \in SUBSET K, NEW o, NEW q, NEW A, NEW B,
         Lists(o, n, D), Lists(q, n, D), Sums(A, bucket, o, n), Sums(B, bucket, q, n)
  PROVE  A[n] = B[n]
<1>1. \A x \in D : bucket[x] \in Nat
  OBVIOUS
<1>2. n \in 1..n /\ o[n] \in D
  BY DEF Lists
<1>3. PICK k \in 1..n : q[k] = o[n]
  BY <1>2 DEF Lists
<1>4. PICK o1, A1 : /\ Lists(o1, n - 1, D \ {o[n]}) /\ Sums(A1, bucket, o1, n - 1)
                    /\ A[n] = A1[n - 1] + bucket[o[n]]
  <2>1. HasSumWithout(bucket, D, n, A[n], o[n])
    BY <1>1, <1>2, SumWithout
  <2> QED BY <2>1 DEF HasSumWithout
<1>5. PICK q1, B1 : /\ Lists(q1, n - 1, D \ {q[k]}) /\ Sums(B1, bucket, q1, n - 1)
                    /\ B[n] = B1[n - 1] + bucket[q[k]]
  <2>1. HasSumWithout(bucket, D, n, B[n], q[k])
    BY <1>1, SumWithout
  <2> QED BY <2>1 DEF HasSumWithout
<1>6. D \ {o[n]} \in SUBSET K
  OBVIOUS
<1>7. A1[n - 1] = B1[n - 1]
  BY <1>3, <1>4, <1>5, <1>6 DEF Agree
<1> QED BY <1>3, <1>4, <1>5, <1>7

(* So the true sum does not depend on the order.                               *)
LEMMA SumsAgree ==
  ASSUME NEW bucket, NEW K, \A x \in K : bucket[x] \in Nat
  PROVE  \A n \in Nat : Agree(bucket, K, n)
<1> DEFINE Bad == {n \in Nat : ~Agree(bucket, K, n)}
<1> SUFFICES ASSUME Bad # {} PROVE FALSE
  OBVIOUS
<1>1. Bad \subseteq Nat
  OBVIOUS
<1>2. PICK n \in Bad : \A j \in Bad : n <= j
  BY <1>1, Least
<1>3. n \in Nat /\ ~Agree(bucket, K, n) /\ \A j \in Nat : j < n => Agree(bucket, K, j)
  BY <1>2
<1> HIDE DEF Bad
<1>4. CASE n = 0
  <2>1. \A o, A : Sums(A, bucket, o, 0) => A[0] = 0
    BY DEF Sums
  <2> QED BY <1>3, <1>4, <2>1 DEF Agree
<1>5. CASE n # 0
  <2>1. n \in Nat \ {0} /\ n - 1 \in Nat /\ n - 1 < n
    BY <1>3, <1>5
  <2>2. Agree(bucket, K, n - 1)
    BY <1>3, <2>1
  <2>3. Agree(bucket, K, n)
    BY <2>1, <2>2, SumsAgreeNext DEF Agree
  <2> QED BY <1>3, <2>3
<1> QED BY <1>4, <1>5

-----------------------------------------------------------------------------
(* The value.                                                                  *)

(* An order of finitely many entries lists their clients, each once, and there *)
(* is one.                                                                     *)
LEMMA OrdersAre ==
  ASSUME NEW bucket, IsFiniteSet(DOMAIN bucket)
  PROVE  /\ Cardinality(DOMAIN bucket) \in Nat
         /\ \A o \in Orders(bucket) : Lists(o, Cardinality(DOMAIN bucket), DOMAIN bucket)
         /\ SetToSeq(DOMAIN bucket) \in Orders(bucket)
<1> DEFINE D == DOMAIN bucket
           n == Cardinality(D)
<1>1. n \in Nat /\ ExistsBijection(1..n, D)
  BY FS_CardinalityType
<1>2. IsFiniteSet(1..n) /\ Cardinality(1..n) = n
  BY <1>1, FS_Interval
<1>3. ASSUME NEW o \in Orders(bucket) PROVE Lists(o, n, D)
  <2>1. o \in [1..n -> D] /\ \A i, j \in 1..n : o[i] = o[j] => i = j
    BY <1>3 DEF Orders, SetToSeqs
  <2>2. o \in Injection(1..n, D)
    BY <2>1 DEF Injection, IsInjective
  <2>3. o \in Surjection(1..n, D)
    BY <1>1, <1>2, <2>2, FS_Injection
  <2>4. \A x \in D : \E i \in 1..n : o[i] = x
    BY <2>3 DEF Surjection
  <2> QED BY <2>1, <2>4 DEF Lists
<1>4. SetToSeq(D) \in Orders(bucket)
  <2>1. PICK f \in [1..n -> D] : \A i, j \in 1..n : f[i] = f[j] => i = j
    BY <1>1 DEF ExistsBijection, Bijection, Injection, IsInjective
  <2>2. IsInjective(f)
    BY <2>1 DEF IsInjective
  <2>3. SetToSeq(D) \in [1..n -> D] /\ IsInjective(SetToSeq(D))
    BY <2>1, <2>2 DEF SetToSeq
  <2> QED BY <2>3 DEF IsInjective, Orders, SetToSeqs
<1> QED BY <1>1, <1>3, <1>4

(* Whatever order an unordered_map yields its entries in, saturating_sum()     *)
(* returns their sum, or Cap.                                                  *)
LEMMA AnyOrderSums ==
  ASSUME NEW bucket, IsFiniteSet(DOMAIN bucket),
         \A c \in DOMAIN bucket : bucket[c] \in Nat,
         NEW o \in Orders(bucket)
  PROVE  LET sum == PlainSum(bucket, SetToSeq(DOMAIN bucket))
         IN  SaturatingSum(bucket, o) = IF sum < Cap THEN sum ELSE Cap
<1> DEFINE n == Cardinality(DOMAIN bucket)
           q == SetToSeq(DOMAIN bucket)
<1>1. n \in Nat /\ Lists(o, n, DOMAIN bucket) /\ Lists(q, n, DOMAIN bucket)
  BY OrdersAre
<1> HIDE DEF n, q
<1>2. /\ DOMAIN o = 1..n /\ \A i \in 1..n : bucket[o[i]] \in Nat
      /\ DOMAIN q = 1..n /\ \A i \in 1..n : bucket[q[i]] \in Nat
  BY <1>1 DEF Lists
<1>3. PICK A : Sums(A, bucket, o, n) /\ PlainSum(bucket, o) = A[n]
  BY <1>1, <1>2, PlainRun
<1>4. PICK B : Sums(B, bucket, q, n) /\ PlainSum(bucket, q) = B[n]
  BY <1>1, <1>2, PlainRun
<1>5. Agree(bucket, DOMAIN bucket, n)
  BY <1>1, SumsAgree
<1>6. PlainSum(bucket, o) = PlainSum(bucket, q)
  BY <1>1, <1>3, <1>4, <1>5 DEF Agree
<1> QED BY <1>1, <1>2, <1>6, SaturatingIsClamped DEF q

\* The maps stay finite.
FiniteEntries ==
    \A r \in Client, side \in Side :
        IsFiniteSet(DOMAIN state[r][side]) /\ IsFiniteSet(DOMAIN shipped[r][side])

(* The wire form of a finite map is finite.                                    *)
LEMMA WireFinite ==
  ASSUME NEW s, NEW side \in Side, IsFiniteSet(DOMAIN s[side])
  PROVE  IsFiniteSet(DOMAIN Wire(s)[side])
<1>1. DOMAIN Wire(s)[side] \in SUBSET DOMAIN s[side]
  BY DEF Wire, Restrict
<1> QED BY <1>1, FS_Subset

(* A fresh counter has one entry a side.                                       *)
LEMMA InitFinite == Init => FiniteEntries
<1> SUFFICES ASSUME Init, NEW r \in Client, NEW side \in Side
             PROVE  IsFiniteSet(DOMAIN state[r][side]) /\ IsFiniteSet(DOMAIN shipped[r][side])
  BY DEF FiniteEntries
<1>1. DOMAIN state[r][side] = {r} /\ shipped[r] = Wire(state[r])
  BY DEF Init
<1>2. IsFiniteSet(DOMAIN state[r][side])
  BY <1>1, FS_Singleton
<1>3. IsFiniteSet(DOMAIN Wire(state[r])[side])
  BY <1>2, WireFinite
<1> QED BY <1>1, <1>2, <1>3

(* A merge adds finitely many entries, and nothing else adds any.              *)
LEMMA NextFinite == TypeOK /\ FiniteEntries /\ [FittingNext]_vars => FiniteEntries'
<1> SUFFICES ASSUME TypeOK, FiniteEntries, [FittingNext]_vars PROVE FiniteEntries'
  OBVIOUS
<1>1. CASE UNCHANGED vars
  BY <1>1 DEF FiniteEntries, vars
<1>2. ASSUME NEW r \in Client, Ship(r) PROVE FiniteEntries'
  <2>1. \A side \in Side : IsFiniteSet(DOMAIN Wire(state[r])[side])
    BY WireFinite DEF FiniteEntries
  <2> QED BY <1>2, <2>1 DEF Ship, FiniteEntries, TypeOK
<1>3. ASSUME NEW r \in Client, NEW t, IsState(t), \A side \in Side : IsFiniteSet(DOMAIN t[side]),
             state' = [state EXCEPT ![r] = Merged(@, t)], UNCHANGED shipped
      PROVE  FiniteEntries'
  <2>1. \A side \in Side : IsFiniteSet(DOMAIN state[r][side] \cup DOMAIN t[side])
    BY <1>3, FS_Union DEF FiniteEntries
  <2>2. \A side \in Side : IsFiniteSet(DOMAIN Merged(state[r], t)[side])
    BY <1>3, <2>1, MergedState DEF TypeOK
  <2> QED BY <1>3, <2>2 DEF FiniteEntries, TypeOK
<1>4. ASSUME NEW r \in Client, NEW s \in Client, MergeShipped(r, s) PROVE FiniteEntries'
  BY <1>3, <1>4 DEF MergeShipped, FiniteEntries, TypeOK
<1>5. ASSUME NEW r \in Client, NEW s \in Client, MergeReplica(r, s) PROVE FiniteEntries'
  BY <1>3, <1>5 DEF MergeReplica, FiniteEntries, TypeOK
<1>6. ASSUME NEW r \in Client, NEW side \in Side, NEW amount \in Amount, Bump(r, side, amount)
      PROVE  FiniteEntries'
  <2>1. \A s \in Client, d \in Side : DOMAIN state'[s][d] = DOMAIN state[s][d]
    BY <1>6 DEF Bump, TypeOK, IsState
  <2> QED BY <1>6, <2>1 DEF Bump, FiniteEntries
<1> QED BY <1>1, <1>2, <1>4, <1>5, <1>6 DEF FittingNext, Sync

(* The value a replica shows does not depend on the order in which the         *)
(* unordered_map yields the entries, although saturating_sum() returns early.  *)
THEOREM CounterSumIsOrderFree == FittingSpec => []SumIsOrderFree
<1>1. ASSUME TypeOK, FiniteEntries PROVE SumIsOrderFree
  <2> SUFFICES ASSUME NEW r \in Client, NEW side \in Side, NEW o \in Orders(state[r][side])
               PROVE  LET sum == PlainSum(state[r][side], SetToSeq(DOMAIN state[r][side]))
                      IN  SaturatingSum(state[r][side], o) = IF sum < Cap THEN sum ELSE Cap
    BY Zenon DEF SumIsOrderFree, PlainSum
  <2>1. \A c \in DOMAIN state[r][side] : state[r][side][c] \in Nat
    BY <1>1, CapAssumption DEF TypeOK, IsState, UMax
  <2>2. IsFiniteSet(DOMAIN state[r][side])
    BY <1>1 DEF FiniteEntries
  <2> QED BY <2>1, <2>2, AnyOrderSums
<1> QED BY <1>1, FittingTypeOK, InitFinite, NextFinite, PTL DEF FittingSpec

(* Entries that are no smaller have no smaller total.                          *)
LEMMA TotalGrows ==
  ASSUME NEW a, NEW b, DOMAIN a = DOMAIN b, IsFiniteSet(DOMAIN a),
         \A c \in DOMAIN a : a[c] \in Nat /\ b[c] \in Nat /\ a[c] <= b[c]
  PROVE  Total(a) \in Nat /\ Total(b) \in Nat /\ Total(a) <= Total(b)
<1> USE CapAssumption
<1> DEFINE n == Cardinality(DOMAIN a)
           o == CHOOSE p \in Orders(a) : TRUE
<1>1. Orders(a) = Orders(b) /\ Total(a) = SaturatingSum(a, o) /\ Total(b) = SaturatingSum(b, o)
  BY DEF Total, Orders
<1>2. n \in Nat /\ Lists(o, n, DOMAIN a)
  BY OrdersAre
<1> HIDE DEF n, o
<1>3. /\ DOMAIN o = 1..n
      /\ \A i \in 1..n : a[o[i]] \in Nat /\ b[o[i]] \in Nat /\ a[o[i]] <= b[o[i]]
  BY <1>2 DEF Lists
<1>4. PICK A : Totals(A, a, o, n) /\ SaturatingSum(a, o) = A[n]
  BY <1>2, <1>3, SaturatingRun
<1>5. PICK B : Totals(B, b, o, n) /\ SaturatingSum(b, o) = B[n]
  BY <1>2, <1>3, SaturatingRun
<1>6. /\ A \in [0..n -> Nat] /\ A[0] = 0 /\ \A i \in 1..n : A[i] = Add(A[i - 1], a[o[i]])
      /\ B \in [0..n -> Nat] /\ B[0] = 0 /\ \A i \in 1..n : B[i] = Add(B[i - 1], b[o[i]])
  BY <1>4, <1>5 DEF Totals
<1> DEFINE Bad == {i \in 0..n : ~(A[i] <= B[i] /\ B[i] <= Cap)}
<1>7. Bad = {}
  <2> SUFFICES ASSUME Bad # {} PROVE FALSE
    OBVIOUS
  <2>0. Bad \subseteq Nat
    OBVIOUS
  <2>1. PICK m \in Bad : \A j \in Bad : m <= j
    BY <2>0, Least
  <2>2. m \in 1..n /\ m - 1 \in 0..n /\ m - 1 \notin Bad
    <3>1. m # 0
      BY <1>6, <2>1, CapAssumption
    <3>2. m \in 0..n /\ \A k \in Bad : m <= k
      BY <2>1
    <3>3. m \in 1..n /\ m - 1 \in 0..n /\ m - 1 < m
      BY <1>2, <3>1, <3>2
    <3> HIDE DEF Bad
    <3> QED BY <3>2, <3>3
  <2>3. A[m - 1] <= B[m - 1] /\ B[m - 1] <= Cap /\ ~(A[m] <= B[m] /\ B[m] <= Cap)
    BY <2>1, <2>2
  <2>4. /\ A[m] = Add(A[m - 1], a[o[m]]) /\ B[m] = Add(B[m - 1], b[o[m]])
        /\ A[m - 1] \in Nat /\ B[m - 1] \in Nat
        /\ a[o[m]] \in Nat /\ b[o[m]] \in Nat /\ a[o[m]] <= b[o[m]]
    BY <1>3, <1>6, <2>2
  <2> HIDE DEF Bad
  <2> QED BY <2>3, <2>4 DEF Add
<1>8. n \in 0..n
  BY <1>2
<1>9. A[n] <= B[n] /\ A[n] \in Nat /\ B[n] \in Nat
  BY <1>6, <1>7, <1>8
<1> QED BY <1>1, <1>4, <1>5, <1>9

(* As long as counts fit, increment() never lowers the value of the replica    *)
(* that counts, near Cap and at Cap included.                                  *)
THEOREM CounterNeverLowered == FittingSpec => IncrementNeverLowers
<1>1. ASSUME TypeOK, FiniteEntries, [FittingNext]_vars,
             NEW r \in Client, NEW amount \in Amount, Bump(r, "increments", amount)
      PROVE  ValueOf(state'[r]) >= ValueOf(state[r])
  <2> DEFINE a == state[r]["increments"]
             b == state'[r]["increments"]
             d == state[r]["decrements"]
  <2>0. "increments" \in Side /\ "decrements" \in Side /\ "increments" # "decrements"
    BY SideAreTwo
  <2>1. DOMAIN a = DOMAIN b /\ state'[r]["decrements"] = d
    BY <1>1, <2>0 DEF Bump, TypeOK, IsState
  <2>2. TypeOK'
    BY <1>1, <2>0, BumpedState
  <2>3. ASSUME NEW c \in DOMAIN a PROVE a[c] \in Nat /\ b[c] \in Nat /\ a[c] <= b[c]
    <3>1. c \in Client /\ c \in DOMAIN b
      BY <1>1, <2>0, <2>1 DEF TypeOK, IsState
    <3>2. a[c] \in Nat /\ b[c] \in Nat
      BY <1>1, <2>0, <2>1, <2>2, CapAssumption DEF TypeOK, IsState, UMax
    <3>3. At(a, c) <= At(b, c)
      BY <1>1, <2>0, <3>1, NextEntriesGrow
    <3> QED BY <3>1, <3>2, <3>3 DEF At
  <2>4. \A c \in DOMAIN d : d[c] \in Nat
    BY <1>1, <2>0, CapAssumption DEF TypeOK, IsState, UMax
  <2>5. IsFiniteSet(DOMAIN a) /\ IsFiniteSet(DOMAIN d)
    BY <1>1, <2>0 DEF FiniteEntries
  <2> HIDE DEF a, b, d
  <2>6. Total(a) \in Nat /\ Total(b) \in Nat /\ Total(a) <= Total(b)
    BY <2>1, <2>3, <2>5, TotalGrows
  <2>7. Total(d) \in Nat
    <3>1. \A c \in DOMAIN d : d[c] \in Nat /\ d[c] <= d[c]
      BY <2>4
    <3> QED BY <2>5, <3>1, TotalGrows
  <2>8. ValueOf(state[r]) = Total(a) - Total(d) /\ ValueOf(state'[r]) = Total(b) - Total(d)
    BY <2>1 DEF ValueOf, a, b, d
  <2> QED BY <2>6, <2>7, <2>8
<1>2. TypeOK /\ FiniteEntries /\ [FittingNext]_vars =>
        [\A r \in Client : \A amount \in Amount :
           Bump(r, "increments", amount) => ValueOf(state'[r]) >= ValueOf(state[r])]_vars
  BY <1>1
<1> QED BY <1>2, FittingTypeOK, InitFinite, NextFinite, PTL DEF FittingSpec, IncrementNeverLowers

================================================================================

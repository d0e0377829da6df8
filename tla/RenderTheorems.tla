----------------------------- MODULE RenderTheorems -----------------------------
(* Lemmas about the walks of Render.tla and about the order a document has by   *)
(* its ids alone, used by the proofs about what replicas and pages show.        *)
EXTENDS Render, RGATheorems, SequenceTheorems, FiniteSetTheorems, WellFoundedInduction

-----------------------------------------------------------------------------
(* Least numbers, and folds over lists.                                        *)

(* Of some numbers one is the least.                                           *)
LEMMA Least ==
  ASSUME NEW T, T \subseteq Nat, T # {}
  PROVE  \E x \in T : \A y \in T : x <= y
<1>1. OpToRel(<, Nat) = {ss \in Nat \X Nat : ss[1] < ss[2]}
  BY Zenon DEF OpToRel
<1>2. IsWellFoundedOn({ss \in Nat \X Nat : ss[1] < ss[2]}, Nat)
  BY <1>1, NatLessThanWellFounded, Zenon
<1>3. PICK x \in T : \A y \in T : ~(<<y, x>> \in {ss \in Nat \X Nat : ss[1] < ss[2]})
  BY <1>2, WFMin
<1>4. ASSUME NEW y \in T PROVE x <= y
  <2>1. x \in Nat /\ y \in Nat
    OBVIOUS
  <2>2. <<y, x>> \in Nat \X Nat /\ <<y, x>>[1] = y /\ <<y, x>>[2] = x
    BY <2>1
  <2>3. ~(y < x)
    BY <1>3, <2>2
  <2> QED BY <2>1, <2>3
<1> QED BY <1>4

(* A set of positions has a last one.                                          *)
LEMMA MaxIs ==
  ASSUME NEW n \in Nat, NEW s \in SUBSET (1..n), s # {}
  PROVE  Max(s) \in s /\ \A y \in s : y <= Max(s)
<1> DEFINE T == {n - y : y \in s}
<1>1. \A y \in s : y \in 1..n
  OBVIOUS
<1>2. T \subseteq Nat /\ T # {}
  <2>1. \A y \in s : n - y \in Nat
    BY <1>1
  <2> QED BY <2>1
<1>3. PICK t \in T : \A u \in T : t <= u
  BY <1>2, Least
<1>4. PICK x \in s : t = n - x
  OBVIOUS
<1>5. \A y \in s : n - y \in T
  OBVIOUS
<1> HIDE DEF T
<1>6. \A y \in s : x >= y
  BY <1>1, <1>3, <1>4, <1>5
<1>7. Max(s) \in s /\ \A y \in s : Max(s) >= y
  BY <1>6 DEF Max
<1> QED BY <1>1, <1>7

(* The last of the first positions.                                            *)
LEMMA MaxOfFirst ==
  ASSUME NEW m \in Nat, NEW i \in 1..m
  PROVE  /\ 1..i \in SUBSET (1..m) /\ 1..i # {}
         /\ Max(1..i) = i /\ (1..i) \ {i} = 1..(i - 1)
<1>1. i \in Nat /\ 1..i \in SUBSET (1..i) /\ 1..i # {} /\ i \in 1..i /\ 1..i \in SUBSET (1..m)
  OBVIOUS
<1>2. Max(1..i) \in 1..i /\ \A y \in 1..i : y <= Max(1..i)
  BY <1>1, MaxIs
<1>3. Max(1..i) = i
  BY <1>1, <1>2
<1>4. (1..i) \ {i} = 1..(i - 1)
  OBVIOUS
<1> QED BY <1>1, <1>3, <1>4

\* h has a value for each set of the first m positions: its last position taken last.
Table(h, m, D, base, g) ==
    /\ h \in [SUBSET (1..m) -> D]
    /\ \A s \in SUBSET (1..m) :
          h[s] = IF s = {} THEN base ELSE g[<<h[s \ {Max(s)}], Max(s)>>]

(* A fold that runs over the first m positions, last one first, has a value for *)
(* each set of them.                                                           *)
LEMMA FoldTable ==
  ASSUME NEW m \in Nat, NEW D, NEW base \in D, NEW g \in [D \X (1..m) -> D]
  PROVE  \E h : Table(h, m, D, base, g)
<1> DEFINE Solved(k, h) == \A s \in SUBSET (1..k) :
                              h[s] = IF s = {} THEN base ELSE g[<<h[s \ {Max(s)}], Max(s)>>]
           Bad == {k \in 0..m : ~\E h \in [SUBSET (1..k) -> D] : Solved(k, h)}
<1>1. Bad = {}
  <2> SUFFICES ASSUME Bad # {} PROVE FALSE
    OBVIOUS
  <2>1. Bad \subseteq Nat
    OBVIOUS
  <2>2. PICK k \in Bad : \A j \in Bad : k <= j
    BY <2>1, Least
  <2>3. k \in 0..m /\ ~\E h \in [SUBSET (1..k) -> D] : Solved(k, h)
    BY <2>2
  <2>4. CASE k = 0
    <3> DEFINE h == [s \in SUBSET (1..k) |-> base]
    <3>1. h \in [SUBSET (1..k) -> D]
      OBVIOUS
    <3>2. \A s \in SUBSET (1..k) : s = {}
      BY <2>4
    <3>3. Solved(k, h)
      BY <3>2
    <3> HIDE DEF h, Solved
    <3> QED BY <2>3, <3>1, <3>3
  <2>5. CASE k # 0
    <3>1. k - 1 \in 0..m /\ k \in 1..m /\ k \in Nat /\ k - 1 < k
      BY <2>3, <2>5
    <3>2. k - 1 \notin Bad
      <4> HIDE DEF Bad
      <4>1. k - 1 \in Bad => k <= k - 1
        BY <2>2
      <4> QED BY <3>1, <4>1
    <3>3. PICK f \in [SUBSET (1..(k - 1)) -> D] : Solved(k - 1, f)
      BY <3>1, <3>2
    <3> DEFINE h == [s \in SUBSET (1..k) |-> IF k \in s THEN g[<<f[s \ {k}], k>>] ELSE f[s]]
    <3>4. ASSUME NEW s \in SUBSET (1..k)
          PROVE  s \ {k} \in SUBSET (1..(k - 1))
                 /\ (k \in s => Max(s) = k) /\ (k \notin s => s \in SUBSET (1..(k - 1)))
      <4>1. s \ {k} \in SUBSET (1..(k - 1))
        BY <3>1
      <4>2. ASSUME k \in s PROVE Max(s) = k
        <5>1. Max(s) \in s /\ k <= Max(s)
          BY <3>1, <4>2, MaxIs
        <5>2. Max(s) \in 1..k
          BY <5>1
        <5> QED BY <3>1, <5>1, <5>2
      <4> QED BY <4>1, <4>2
    <3>6. h \in [SUBSET (1..k) -> D]
      <4>1. ASSUME NEW s \in SUBSET (1..k)
            PROVE  (IF k \in s THEN g[<<f[s \ {k}], k>>] ELSE f[s]) \in D
        <5>1. f[s \ {k}] \in D /\ (k \notin s => f[s] \in D)
          BY <3>4
        <5>2. <<f[s \ {k}], k>> \in D \X (1..m)
          BY <3>1, <5>1
        <5> QED BY <5>1, <5>2
      <4> QED BY <4>1
    <3>7. ASSUME NEW s \in SUBSET (1..k)
          PROVE  h[s] = IF s = {} THEN base ELSE g[<<h[s \ {Max(s)}], Max(s)>>]
      <4>1. CASE k \in s
        <5>1. h[s] = g[<<f[s \ {k}], k>>]
          BY <4>1
        <5>2. s \ {k} \in SUBSET (1..k) /\ k \notin s \ {k}
          BY <3>4
        <5>3. h[s \ {k}] = f[s \ {k}]
          BY <5>2
        <5> HIDE DEF h
        <5> QED BY <3>4, <4>1, <5>1, <5>3
      <4>2. CASE k \notin s
        <5>1. s \in SUBSET (1..(k - 1))
          BY <3>4, <4>2
        <5>2. f[s] = IF s = {} THEN base ELSE g[<<f[s \ {Max(s)}], Max(s)>>]
          BY <3>3, <5>1
        <5>3. s \ {Max(s)} \in SUBSET (1..k) /\ k \notin s \ {Max(s)}
          BY <4>2
        <5>4. h[s] = f[s] /\ h[s \ {Max(s)}] = f[s \ {Max(s)}]
          BY <4>2, <5>3
        <5> HIDE DEF h
        <5> QED BY <5>2, <5>4
      <4> QED BY <4>1, <4>2
    <3> HIDE DEF h
    <3>8. Solved(k, h)
      BY <3>7
    <3> HIDE DEF Solved
    <3> QED BY <2>3, <3>6, <3>8
  <2> QED BY <2>4, <2>5
<1>2. m \in 0..m
  OBVIOUS
<1>3. PICK h \in [SUBSET (1..m) -> D] : Solved(m, h)
  BY <1>1, <1>2
<1>4. Table(h, m, D, base, g)
  BY <1>3 DEF Table
<1> QED BY <1>4

\* One level of rgaWalk(): each kid, if it is shown, followed by what h has for it.
Join(nodes, h, kids) ==
    FoldLeft(LAMBDA seen, kid : seen \o Shown(nodes, kid) \o h[kid], << >>, kids)

\* A are the lists Join goes through.
Joined(nodes, A, h, kids, m, S) ==
    /\ A \in [0..m -> Seq(S)]
    /\ A[0] = << >>
    /\ \A i \in 1..m : A[i] = A[i - 1] \o Shown(nodes, kids[i]) \o h[kids[i]]

Joins(nodes, h, kids, m, S) ==
    \E A : Joined(nodes, A, h, kids, m, S) /\ Join(nodes, h, kids) = A[m]

(* Join takes the kids in their order, one at a time.                          *)
LEMMA JoinRun ==
  ASSUME NEW S, NEW m \in Nat, NEW kids, DOMAIN kids = 1..m, NEW nodes, NEW h,
         \A i \in 1..m : Shown(nodes, kids[i]) \in Seq(S) /\ h[kids[i]] \in Seq(S)
  PROVE  Joins(nodes, h, kids, m, S)
<1> DEFINE Body(f) == [s \in SUBSET (DOMAIN kids) |->
                          IF s = {} THEN << >>
                          ELSE f[s \ {Max(s)}] \o Shown(nodes, kids[Max(s)]) \o h[kids[Max(s)]]]
           g == [p \in Seq(S) \X (1..m) |-> p[1] \o Shown(nodes, kids[p[2]]) \o h[kids[p[2]]]]
<1>1. Join(nodes, h, kids) = (CHOOSE f : f = Body(f))[DOMAIN kids]
  BY Zenon DEF Join, FoldLeft, MapThenFoldSet
<1>2. \A a \in Seq(S), i \in 1..m : a \o Shown(nodes, kids[i]) \o h[kids[i]] \in Seq(S)
  <2>1. \A i \in 1..m : Shown(nodes, kids[i]) \in Seq(S)
    OBVIOUS
  <2> QED BY <2>1, ConcatProperties
<1>3. g \in [Seq(S) \X (1..m) -> Seq(S)]
  <2>1. \A p \in Seq(S) \X (1..m) : p[1] \in Seq(S) /\ p[2] \in 1..m
    OBVIOUS
  <2> QED BY <1>2, <2>1
<1>4. \A a \in Seq(S), i \in 1..m : g[<<a, i>>] = a \o Shown(nodes, kids[i]) \o h[kids[i]]
  OBVIOUS
<1>a. << >> \in Seq(S)
  OBVIOUS
<1> HIDE DEF g
<1>5. \E f \in [SUBSET (1..m) -> Seq(S)] : f = Body(f)
  <2>1. PICK f \in [SUBSET (1..m) -> Seq(S)] : \A s \in SUBSET (1..m) :
            f[s] = IF s = {} THEN << >> ELSE g[<<f[s \ {Max(s)}], Max(s)>>]
    <3> HIDE DEF Body
    <3> DEFINE D == Seq(S)
               none == << >>
    <3> HIDE DEF D, none
    <3>1. g \in [D \X (1..m) -> D] /\ none \in D
      BY <1>3, <1>a DEF D, none
    <3>2. PICK f : Table(f, m, D, none, g)
      BY <3>1, FoldTable
    <3>3. f \in [SUBSET (1..m) -> D] /\ \A s \in SUBSET (1..m) :
             f[s] = IF s = {} THEN none ELSE g[<<f[s \ {Max(s)}], Max(s)>>]
      BY <3>2 DEF Table
    <3> QED BY <3>3 DEF D, none
  <2>2. ASSUME NEW s \in SUBSET (1..m)
        PROVE  f[s] = IF s = {} THEN << >>
                      ELSE f[s \ {Max(s)}] \o Shown(nodes, kids[Max(s)]) \o h[kids[Max(s)]]
    <3>1. CASE s = {}
      BY <2>1, <3>1
    <3>2. CASE s # {}
      <4>1. Max(s) \in 1..m /\ s \ {Max(s)} \in SUBSET (1..m)
        BY <3>2, MaxIs
      <4>2. f[s \ {Max(s)}] \in Seq(S)
        BY <4>1
      <4>3. f[s] = g[<<f[s \ {Max(s)}], Max(s)>>]
        BY <2>1, <3>2
      <4> QED BY <1>4, <3>2, <4>1, <4>2, <4>3
    <3> QED BY <3>1, <3>2
  <2>3. f = Body(f)
    BY <2>2
  <2> QED BY <2>3
<1> DEFINE k == CHOOSE f : f = Body(f)
<1>6. k = Body(k)
  BY <1>5
<1> HIDE DEF k
<1>7. /\ k[{}] = << >>
      /\ \A i \in 1..m : k[1..i] = k[1..(i - 1)] \o Shown(nodes, kids[i]) \o h[kids[i]]
  <2>1. k[{}] = << >>
    BY <1>6
  <2>2. ASSUME NEW i \in 1..m PROVE k[1..i] = k[1..(i - 1)] \o Shown(nodes, kids[i]) \o h[kids[i]]
    <3>1. /\ 1..i \in SUBSET (1..m) /\ 1..i # {}
          /\ Max(1..i) = i /\ (1..i) \ {i} = 1..(i - 1)
      BY MaxOfFirst
    <3> QED BY <1>6, <3>1
  <2> QED BY <2>1, <2>2
<1> DEFINE A == [i \in 0..m |-> k[1..i]]
<1>b. \A i \in 1..m : i \in 0..m /\ i - 1 \in 0..m
  OBVIOUS
<1>8. A[0] = << >> /\ A[m] = Join(nodes, h, kids)
  <2>1. 1..0 = {} /\ 0 \in 0..m /\ m \in 0..m
    OBVIOUS
  <2>2. Join(nodes, h, kids) = k[1..m]
    BY <1>1 DEF k
  <2> HIDE DEF Body
  <2> QED BY <1>7, <2>1, <2>2
<1>9. \A i \in 1..m : A[i] = A[i - 1] \o Shown(nodes, kids[i]) \o h[kids[i]]
  <2> HIDE DEF Body
  <2>1. \A i \in 1..m : A[i] = k[1..i] /\ A[i - 1] = k[1..(i - 1)]
    BY <1>b
  <2> HIDE DEF A
  <2> QED BY <1>7, <2>1
<1>10. ASSUME NEW i \in 0..m PROVE A[i] \in Seq(S)
  <2> DEFINE Bad == {j \in 0..m : A[j] \notin Seq(S)}
  <2> HIDE DEF A, Body
  <2> SUFFICES ASSUME Bad # {} PROVE FALSE
    OBVIOUS
  <2>0. Bad \subseteq Nat
    OBVIOUS
  <2>1. PICK j \in Bad : \A l \in Bad : j <= l
    BY <2>0, Least
  <2>a. j \in 0..m /\ A[j] \notin Seq(S)
    BY <2>1
  <2>b. j # 0
    BY <1>8, <1>a, <2>a
  <2>2. j # 0 /\ j \in 1..m /\ j - 1 \in 0..m /\ j - 1 \notin Bad
    BY <2>1, <2>a, <2>b
  <2>3. A[j - 1] \in Seq(S) /\ A[j] \notin Seq(S)
    BY <2>1, <2>2
  <2> QED BY <1>2, <1>9, <2>2, <2>3
<1>11. A \in [0..m -> Seq(S)]
  BY <1>10
<1> HIDE DEF A
<1> QED BY <1>8, <1>9, <1>11 DEF Joined, Joins

-----------------------------------------------------------------------------
(* Chains.                                                                     *)

\* f has the chain of each element of C, which holds their predecessors too.
Solves(nodes, C, f) ==
    /\ C \subseteq DOMAIN nodes
    /\ \A n \in C : nodes[n].previous_id \in C \cup {Head0}
    /\ f \in [C -> Seq(DOMAIN nodes)]
    /\ \A n \in C : f[n] = IF nodes[n].previous_id = Head0 THEN <<n>>
                           ELSE Append(f[nodes[n].previous_id], n)

(* In a tree, what holds right after the head, and after each element it holds *)
(* of, holds of all.                                                           *)
LEMMA TreeInduction ==
  ASSUME NEW nodes, Whole(nodes), NEW L, L \subseteq DOMAIN nodes,
         \A n \in DOMAIN nodes : nodes[n].previous_id \in L \cup {Head0} => n \in L
  PROVE  L = DOMAIN nodes
<1>1. Saturated(L, {}, nodes)
  BY DEF Saturated
<1> QED BY <1>1, LandingLeast DEF Whole

(* A tree has all the predecessors of its elements.                            *)
LEMMA TreeIsClosed ==
  ASSUME NEW nodes, Whole(nodes), NEW n \in DOMAIN nodes
  PROVE  nodes[n].previous_id \in DOMAIN nodes \cup {Head0}
  BY LandingHasPredecessor DEF Whole

(* Each element of a tree has a chain, and only one.                           *)
LEMMA ChainsAgree ==
  ASSUME NEW nodes, Whole(nodes), NEW C, NEW f, Solves(nodes, C, f),
         NEW D, NEW g, Solves(nodes, D, g), NEW n \in C, n \in D
  PROVE  f[n] = g[n]
<1> DEFINE L == {m \in DOMAIN nodes : m \in C /\ m \in D => f[m] = g[m]}
<1>1. ASSUME NEW m \in DOMAIN nodes, nodes[m].previous_id \in L \cup {Head0} PROVE m \in L
  <2>1. ASSUME m \in C, m \in D PROVE f[m] = g[m]
    <3>1. CASE nodes[m].previous_id = Head0
      BY <2>1, <3>1 DEF Solves
    <3>2. CASE nodes[m].previous_id # Head0
      <4>1. nodes[m].previous_id \in C /\ nodes[m].previous_id \in D
        BY <2>1, <3>2 DEF Solves
      <4>2. f[nodes[m].previous_id] = g[nodes[m].previous_id]
        BY <1>1, <3>2, <4>1
      <4>3. f[m] = Append(f[nodes[m].previous_id], m)
        BY <2>1, <3>2 DEF Solves
      <4>4. g[m] = Append(g[nodes[m].previous_id], m)
        BY <2>1, <3>2 DEF Solves
      <4> QED BY <4>2, <4>3, <4>4
    <3> QED BY <3>1, <3>2
  <2> QED BY <2>1
<1>2. L = DOMAIN nodes
  BY <1>1, TreeInduction
<1> QED BY <1>2 DEF Solves

(* There is one.                                                               *)
LEMMA ChainExists ==
  ASSUME NEW nodes, Whole(nodes), NEW n \in DOMAIN nodes
  PROVE  \E C, f : Solves(nodes, C, f) /\ n \in C
<1> DEFINE L == {m \in DOMAIN nodes : \E C, f : Solves(nodes, C, f) /\ m \in C}
<1>1. ASSUME NEW m \in DOMAIN nodes, nodes[m].previous_id \in L \cup {Head0} PROVE m \in L
  <2>1. CASE nodes[m].previous_id = Head0
    <3> DEFINE f == [x \in {m} |-> <<m>>]
    <3>1. f \in [{m} -> Seq(DOMAIN nodes)] /\ f[m] = <<m>>
      OBVIOUS
    <3> HIDE DEF f
    <3>2. Solves(nodes, {m}, f)
      BY <2>1, <3>1 DEF Solves
    <3> QED BY <3>2
  <2>2. CASE nodes[m].previous_id # Head0
    <3> DEFINE p == nodes[m].previous_id
    <3>1. PICK C, f : Solves(nodes, C, f) /\ p \in C
      BY <1>1, <2>2
    <3>2. CASE m \in C
      BY <3>1, <3>2
    <3>3. CASE m \notin C
      <4> DEFINE D == C \cup {m}
                 g == [x \in D |-> IF x = m THEN Append(f[p], m) ELSE f[x]]
      <4>1. f[p] \in Seq(DOMAIN nodes) /\ \A x \in C : f[x] \in Seq(DOMAIN nodes)
        BY <3>1 DEF Solves
      <4>2. Append(f[p], m) \in Seq(DOMAIN nodes)
        BY <4>1, AppendProperties
      <4>3. g \in [D -> Seq(DOMAIN nodes)]
        BY <4>1, <4>2
      <4>4. g[m] = Append(f[p], m) /\ \A x \in C : g[x] = f[x]
        BY <3>3
      <4> HIDE DEF g
      <4>5. ASSUME NEW x \in D
            PROVE  /\ nodes[x].previous_id \in D \cup {Head0}
                   /\ g[x] = IF nodes[x].previous_id = Head0 THEN <<x>>
                             ELSE Append(g[nodes[x].previous_id], x)
        <5>1. CASE x = m
          BY <2>2, <3>1, <4>4, <5>1
        <5>2. CASE x \in C
          BY <3>1, <4>4, <5>2 DEF Solves
        <5> QED BY <5>1, <5>2
      <4>6. D \subseteq DOMAIN nodes
        BY <3>1 DEF Solves
      <4> HIDE DEF D
      <4>7. Solves(nodes, D, g)
        BY <4>3, <4>5, <4>6 DEF Solves
      <4> QED BY <4>7 DEF D
    <3> QED BY <3>2, <3>3
  <2> QED BY <2>1, <2>2
<1>2. L = DOMAIN nodes
  BY <1>1, TreeInduction
<1> QED BY <1>2

(* Path gives it.                                                              *)
LEMMA PathSolves ==
  ASSUME NEW nodes, Whole(nodes)
  PROVE  Solves(nodes, DOMAIN nodes, Path(nodes))
<1> DEFINE N == DOMAIN nodes
           Body(f) == [n \in N |-> IF nodes[n].previous_id = Head0 THEN <<n>>
                                   ELSE Append(f[nodes[n].previous_id], n)]
           Of(n) == CHOOSE v : \E C, f : Solves(nodes, C, f) /\ n \in C /\ v = f[n]
           all == [n \in N |-> Of(n)]
<1>1. Path(nodes) = CHOOSE f : f = Body(f)
  BY Zenon DEF Path
<1>2. ASSUME NEW C, NEW f, Solves(nodes, C, f), NEW n \in C PROVE all[n] = f[n]
  <2>1. n \in N
    BY <1>2 DEF Solves
  <2>2. \E v : \E D, g : Solves(nodes, D, g) /\ n \in D /\ v = g[n]
    BY <1>2
  <2>3. PICK D, g : Solves(nodes, D, g) /\ n \in D /\ Of(n) = g[n]
    BY <2>2
  <2>4. g[n] = f[n]
    BY <1>2, <2>3, ChainsAgree
  <2> QED BY <2>1, <2>3, <2>4
<1>3. ASSUME NEW n \in N
      PROVE  all[n] = IF nodes[n].previous_id = Head0 THEN <<n>>
                      ELSE Append(all[nodes[n].previous_id], n)
  <2> HIDE DEF all
  <2>1. PICK C, f : Solves(nodes, C, f) /\ n \in C
    BY ChainExists
  <2>2. all[n] = f[n]
    BY <1>2, <2>1
  <2>3. CASE nodes[n].previous_id = Head0
    BY <2>1, <2>2, <2>3 DEF Solves
  <2>4. CASE nodes[n].previous_id # Head0
    <3>1. nodes[n].previous_id \in C
      BY <2>1, <2>4 DEF Solves
    <3>2. all[nodes[n].previous_id] = f[nodes[n].previous_id]
      BY <1>2, <2>1, <3>1
    <3> QED BY <2>1, <2>2, <2>4, <3>2 DEF Solves
  <2> QED BY <2>3, <2>4
<1>4. all = Body(all)
  <2>1. all = [n \in N |-> all[n]]
    OBVIOUS
  <2> HIDE DEF all, N
  <2>2. [n \in N |-> all[n]] = Body(all)
    BY <1>3, Zenon
  <2> HIDE DEF Body
  <2> QED BY <2>1, <2>2
<1> DEFINE k == CHOOSE f : f = Body(f)
<1>5. k = Body(k)
  BY <1>4
<1> HIDE DEF k
<1>6. \A n \in N : k[n] = IF nodes[n].previous_id = Head0 THEN <<n>>
                          ELSE Append(k[nodes[n].previous_id], n)
  BY <1>5
<1>7. DOMAIN k = N /\ k = [n \in N |-> k[n]]
  BY <1>5
<1> DEFINE L == {n \in N : k[n] \in Seq(N)}
<1>8. ASSUME NEW n \in N, nodes[n].previous_id \in L \cup {Head0} PROVE n \in L
  <2>1. CASE nodes[n].previous_id = Head0
    <3>1. k[n] = <<n>>
      BY <1>6, <2>1
    <3>2. <<n>> \in Seq(N)
      OBVIOUS
    <3> QED BY <3>1, <3>2
  <2>2. CASE nodes[n].previous_id # Head0
    <3>1. k[nodes[n].previous_id] \in Seq(N)
      BY <1>8, <2>2
    <3>2. Append(k[nodes[n].previous_id], n) \in Seq(N)
      BY <3>1, AppendProperties
    <3> QED BY <1>6, <2>2, <3>2
  <2> QED BY <2>1, <2>2
<1>9. L = N
  BY <1>8, TreeInduction
<1>10. k \in [N -> Seq(N)]
  BY <1>7, <1>9
<1>11. Path(nodes) = k
  BY <1>1 DEF k
<1> QED BY <1>6, <1>10, <1>11, TreeIsClosed DEF Solves


-----------------------------------------------------------------------------
(* The order of chains.                                                        *)

\* The lexicographic order: a chain comes before those that continue it.
LexBefore(p, q) ==
    \/ Len(p) < Len(q) /\ \A j \in 1..Len(p) : p[j] = q[j]
    \/ \E i \in 1..Len(p) : /\ i <= Len(q)
                            /\ \A j \in 1..(i - 1) : p[j] = q[j]
                            /\ Before(p[i], q[i])

(* It is a strict order.                                                       *)
LEMMA LexIsOrder ==
  /\ \A p \in Seq(Id) : ~LexBefore(p, p)
  /\ \A p, q, r \in Seq(Id) : LexBefore(p, q) /\ LexBefore(q, r) => LexBefore(p, r)
<1>0. ASSUME NEW p \in Seq(Id) PROVE Len(p) \in Nat /\ \A i \in 1..Len(p) : p[i] \in Id
  OBVIOUS
<1>1. ASSUME NEW p \in Seq(Id) PROVE ~LexBefore(p, p)
  <2>1. Len(p) \in Nat /\ \A i \in 1..Len(p) : ~Before(p[i], p[i])
    BY <1>0, BeforeIsOrder
  <2> QED BY <2>1 DEF LexBefore
<1>2. ASSUME NEW p \in Seq(Id), NEW q \in Seq(Id), NEW r \in Seq(Id),
             LexBefore(p, q), LexBefore(q, r)
      PROVE  LexBefore(p, r)
  <2> DEFINE a == Len(p)
             b == Len(q)
             c == Len(r)
  <2>0. a \in Nat /\ b \in Nat /\ c \in Nat
    BY <1>0
  <2>a. \A i \in Nat : i >= 1 /\ i <= a /\ i <= b /\ i <= c /\ Before(p[i], q[i]) /\ Before(q[i], r[i])
           => Before(p[i], r[i])
    <3> SUFFICES ASSUME NEW i \in Nat, i >= 1, i <= a, i <= b, i <= c,
                        Before(p[i], q[i]), Before(q[i], r[i])
                 PROVE  Before(p[i], r[i])
      OBVIOUS
    <3>1. i \in 1..Len(p) /\ i \in 1..Len(q) /\ i \in 1..Len(r)
      BY <2>0
    <3>2. p[i] \in Id /\ q[i] \in Id /\ r[i] \in Id
      BY <1>0, <3>1
    <3> QED BY <3>2, BeforeIsOrder
  <2>1. CASE a < b /\ \A j \in 1..a : p[j] = q[j]
    <3>1. CASE b < c /\ \A j \in 1..b : q[j] = r[j]
      <4>1. a < c /\ \A j \in 1..a : p[j] = r[j]
        BY <2>0, <2>1, <3>1
      <4> QED BY <4>1 DEF LexBefore
    <3>2. ASSUME NEW i \in 1..b, i <= c, \A j \in 1..(i - 1) : q[j] = r[j], Before(q[i], r[i])
          PROVE  LexBefore(p, r)
      <4>1. CASE i <= a
        <5>1. i \in 1..a /\ p[i] = q[i]
          BY <2>0, <2>1, <3>2, <4>1
        <5>2. \A j \in 1..(i - 1) : j \in 1..a
          BY <2>0, <5>1
        <5>3. \A j \in 1..(i - 1) : p[j] = r[j]
          BY <2>1, <3>2, <5>2
        <5> QED BY <3>2, <5>1, <5>3 DEF LexBefore
      <4>2. CASE i > a
        <5>1. a < c /\ \A j \in 1..a : p[j] = r[j]
          BY <2>0, <2>1, <3>2, <4>2
        <5> QED BY <5>1 DEF LexBefore
      <4> QED BY <2>0, <4>1, <4>2
    <3> QED BY <1>2, <3>1, <3>2 DEF LexBefore
  <2>2. ASSUME NEW k \in 1..a, k <= b, \A j \in 1..(k - 1) : p[j] = q[j], Before(p[k], q[k])
        PROVE  LexBefore(p, r)
    <3>1. CASE b < c /\ \A j \in 1..b : q[j] = r[j]
      <4>1. k <= c /\ q[k] = r[k]
        BY <2>0, <2>2, <3>1
      <4>2. \A j \in 1..(k - 1) : j \in 1..b
        BY <2>0, <2>2
      <4>3. \A j \in 1..(k - 1) : p[j] = r[j]
        BY <2>2, <3>1, <4>2
      <4> QED BY <2>2, <4>1, <4>3 DEF LexBefore
    <3>2. ASSUME NEW i \in 1..b, i <= c, \A j \in 1..(i - 1) : q[j] = r[j], Before(q[i], r[i])
          PROVE  LexBefore(p, r)
      <4>1. CASE i < k
        <5>1. i \in 1..a /\ p[i] = q[i] /\ \A j \in 1..(i - 1) : p[j] = r[j]
          BY <2>0, <2>2, <3>2, <4>1
        <5> QED BY <3>2, <5>1 DEF LexBefore
      <4>2. CASE i > k
        <5>1. k <= c /\ q[k] = r[k] /\ \A j \in 1..(k - 1) : p[j] = r[j]
          BY <2>0, <2>2, <3>2, <4>2
        <5> QED BY <2>2, <5>1 DEF LexBefore
      <4>3. CASE i = k
        <5>1. k <= c /\ k \in Nat /\ k >= 1 /\ \A j \in 1..(k - 1) : p[j] = r[j]
          BY <2>0, <2>2, <3>2, <4>3
        <5>2. Before(p[k], r[k])
          BY <2>0, <2>2, <2>a, <3>2, <4>3, <5>1
        <5> QED BY <2>2, <5>1, <5>2 DEF LexBefore
      <4> QED BY <2>0, <4>1, <4>2, <4>3
    <3> QED BY <1>2, <3>1, <3>2 DEF LexBefore
  <2> QED BY <1>2, <2>1, <2>2 DEF LexBefore
<1> QED BY <1>1, <1>2

\* A node map in which every chain of predecessors ends at the head.
Tree(nodes) == IsNodeMap(nodes) /\ Whole(nodes)

(* What a chain is made of, one element at a time.                             *)
LEMMA PathStep ==
  ASSUME NEW nodes, Tree(nodes), NEW n \in DOMAIN nodes
  PROVE  LET P == Path(nodes)
             p == nodes[n].previous_id
         IN  /\ P[n] \in Seq(DOMAIN nodes)
             /\ Len(P[n]) \in Nat /\ Len(P[n]) >= 1 /\ P[n][Len(P[n])] = n
             /\ p = Head0 => Len(P[n]) = 1
             /\ p # Head0 => /\ p \in DOMAIN nodes /\ Len(P[p]) \in Nat
                             /\ Len(P[n]) = Len(P[p]) + 1
                             /\ \A j \in 1..Len(P[p]) : P[n][j] = P[p][j]
<1> DEFINE P == Path(nodes)
           p == nodes[n].previous_id
           N == DOMAIN nodes
<1>1. Solves(nodes, N, P)
  BY PathSolves DEF Tree
<1>2. /\ P[n] \in Seq(N) /\ p \in N \cup {Head0}
      /\ P[n] = IF p = Head0 THEN <<n>> ELSE Append(P[p], n)
      /\ p # Head0 => P[p] \in Seq(N)
  BY <1>1 DEF Solves
<1> HIDE DEF P, p
<1>3. CASE p = Head0
  <2>1. P[n] = <<n>>
    BY <1>2, <1>3
  <2> QED BY <1>2, <1>3, <2>1 DEF P, p
<1>4. CASE p # Head0
  <2> DEFINE q == P[p]
             S == Seq(N)
  <2>1. P[n] = Append(q, n) /\ p \in N /\ q \in Seq(N) /\ P[n] \in Seq(N)
    BY <1>2, <1>4
  <2> HIDE DEF q
  <2>2. /\ Len(q) \in Nat /\ Len(Append(q, n)) = Len(q) + 1
        /\ Append(q, n)[Len(q) + 1] = n
        /\ \A j \in 1..Len(q) : Append(q, n)[j] = q[j]
    BY <2>1, AppendProperties
  <2>3. /\ Len(P[n]) = Len(q) + 1 /\ P[n][Len(q) + 1] = n
        /\ \A j \in 1..Len(q) : P[n][j] = q[j]
    BY <2>1, <2>2
  <2>4. Len(P[n]) \in Nat /\ Len(P[n]) >= 1 /\ P[n][Len(P[n])] = n
    BY <2>2, <2>3
  <2> QED BY <1>4, <2>1, <2>2, <2>3, <2>4 DEF P, p, q
<1> QED BY <1>3, <1>4

(* The beginning of a chain is the chain of the element it ends with.          *)
LEMMA PathNests ==
  ASSUME NEW nodes, Tree(nodes), NEW n \in DOMAIN nodes, NEW i \in 1..Len(Path(nodes)[n])
  PROVE  LET P == Path(nodes)
         IN  /\ P[n][i] \in DOMAIN nodes
             /\ Len(P[P[n][i]]) = i
             /\ \A j \in 1..i : P[P[n][i]][j] = P[n][j]
<1> DEFINE P == Path(nodes)
           N == DOMAIN nodes
           Nests(m, k) == /\ P[m][k] \in N
                          /\ Len(P[P[m][k]]) = k
                          /\ \A j \in 1..k : P[P[m][k]][j] = P[m][j]
           L == {m \in N : \A k \in 1..Len(P[m]) : Nests(m, k)}
<1>1. ASSUME NEW m \in N
      PROVE  /\ Len(P[m]) \in Nat /\ Len(P[m]) >= 1 /\ P[m][Len(P[m])] = m
             /\ Len(P[m]) # 1 =>
                   /\ nodes[m].previous_id \in N
                   /\ Len(P[m]) = Len(P[nodes[m].previous_id]) + 1
                   /\ \A j \in 1..Len(P[nodes[m].previous_id]) :
                         P[m][j] = P[nodes[m].previous_id][j]
  BY PathStep
<1>a. ASSUME NEW m \in N, Len(P[m]) # 1 PROVE nodes[m].previous_id # Head0
  BY <1>a, PathStep
<1> HIDE DEF P
<1>2. ASSUME NEW m \in N, nodes[m].previous_id \in L \cup {Head0} PROVE m \in L
  <2>a. Len(P[m]) \in Nat /\ Len(P[m]) >= 1 /\ P[m][Len(P[m])] = m
    BY <1>1
  <2>1. ASSUME NEW k \in 1..Len(P[m]) PROVE Nests(m, k)
    <3>1. CASE k = Len(P[m])
      BY <2>a, <3>1
    <3>2. CASE k # Len(P[m])
      <4> DEFINE p == nodes[m].previous_id
      <4>1. p # Head0
        <5>1. Len(P[m]) # 1
          BY <2>a, <2>1, <3>2
        <5> QED BY <1>a, <5>1
      <4>c. Len(P[m]) # 1
          BY <2>a, <2>1, <3>2
      <4>a. /\ p \in N /\ Len(P[m]) = Len(P[p]) + 1
            /\ \A j \in 1..Len(P[p]) : P[m][j] = P[p][j]
        BY <1>1, <4>c
      <4>d. Len(P[p]) \in Nat
        BY <1>1, <4>a
      <4>2. p \in L /\ p \in N
        BY <1>2, <4>1, <4>a
      <4>b. k \in 1..Len(P[p]) /\ \A j \in 1..k : j \in 1..Len(P[p])
        BY <2>a, <2>1, <3>2, <4>a, <4>d
      <4>3. k \in 1..Len(P[p]) /\ P[m][k] = P[p][k] /\ \A j \in 1..k : P[m][j] = P[p][j]
        BY <4>a, <4>b
      <4>4. Nests(p, k)
        BY <4>2, <4>3
      <4> HIDE DEF L, p
      <4> QED BY <4>3, <4>4
    <3> QED BY <3>1, <3>2
  <2> HIDE DEF Nests
  <2> QED BY <2>1
<1>3. L = N
  <2> HIDE DEF L
  <2>1. L \subseteq N
    BY DEF L
  <2> QED BY <1>2, <2>1, TreeInduction DEF Tree
<1>4. n \in L /\ i \in 1..Len(P[n])
  BY <1>3 DEF P
<1>5. Nests(n, i)
  BY <1>4
<1> QED BY <1>5 DEF P

(* Precedes is that order of the chains.                                       *)
LEMMA PrecedesIs ==
  ASSUME NEW nodes, Tree(nodes), NEW a \in DOMAIN nodes, NEW b \in DOMAIN nodes
  PROVE  Precedes(nodes, a, b) <=> LexBefore(Path(nodes)[a], Path(nodes)[b])
<1> DEFINE p == Path(nodes)[a]
           q == Path(nodes)[b]
<1>1. p \in Seq(DOMAIN nodes) /\ q \in Seq(DOMAIN nodes)
  BY PathStep
<1>2. Precedes(nodes, a, b) <=>
         \/ Len(p) < Len(q) /\ SubSeq(q, 1, Len(p)) = p
         \/ \E i \in DOMAIN p \cap DOMAIN q :
               (\A j \in 1..(i - 1) : p[j] = q[j]) /\ Before(p[i], q[i])
  BY DEF Precedes
<1> HIDE DEF p, q
<1>3. /\ Len(p) \in Nat /\ Len(q) \in Nat
      /\ DOMAIN p = 1..Len(p) /\ DOMAIN q = 1..Len(q)
  BY <1>1
<1>4. Len(p) < Len(q) => (SubSeq(q, 1, Len(p)) = p <=> \A j \in 1..Len(p) : p[j] = q[j])
  <2> SUFFICES ASSUME Len(p) < Len(q)
               PROVE  SubSeq(q, 1, Len(p)) = p <=> \A j \in 1..Len(p) : p[j] = q[j]
    OBVIOUS
  <2> DEFINE r == SubSeq(q, 1, Len(p))
  <2>1. r \in Seq(DOMAIN nodes) /\ Len(r) = Len(p) /\ \A j \in 1..Len(p) : r[j] = q[j]
    BY <1>1, <1>3
  <2>2. (\A j \in 1..Len(p) : p[j] = q[j]) => r = p
    <3> HIDE DEF r
    <3> SUFFICES ASSUME \A j \in 1..Len(p) : p[j] = q[j] PROVE r = p
      OBVIOUS
    <3>1. \A j \in 1..Len(p) : r[j] = p[j]
      BY <2>1
    <3> QED BY <1>1, <2>1, <3>1, SeqEqual
  <2> HIDE DEF r
  <2>3. r = p => \A j \in 1..Len(p) : p[j] = q[j]
    BY <2>1
  <2> QED BY <2>2, <2>3 DEF r
<1>5. ASSUME NEW i
      PROVE  i \in DOMAIN p \cap DOMAIN q <=> i \in 1..Len(p) /\ i <= Len(q)
  BY <1>3
<1>6. Precedes(nodes, a, b) <=> LexBefore(p, q)
  BY <1>2, <1>4, <1>5 DEF LexBefore
<1> QED BY <1>6 DEF p, q

(* The order of a document is one.                                             *)
LEMMA PrecedesIsOrder ==
  ASSUME NEW nodes, Tree(nodes)
  PROVE  /\ \A a \in DOMAIN nodes : ~Precedes(nodes, a, a)
         /\ \A a, b, c \in DOMAIN nodes :
               Precedes(nodes, a, b) /\ Precedes(nodes, b, c) => Precedes(nodes, a, c)
<1>1. ASSUME NEW a \in DOMAIN nodes PROVE Path(nodes)[a] \in Seq(Id)
  <2>1. DOMAIN nodes \subseteq Id
    BY DEF Tree, IsNodeMap
  <2>2. Path(nodes)[a] \in Seq(DOMAIN nodes)
    BY PathStep
  <2> DEFINE p == Path(nodes)[a]
  <2> HIDE DEF p
  <2>3. p \in Seq(Id)
    BY <2>1, <2>2 DEF p
  <2> QED BY <2>3 DEF p
<1>2. ASSUME NEW a \in DOMAIN nodes PROVE ~Precedes(nodes, a, a)
  BY <1>1, LexIsOrder, PrecedesIs
<1>3. ASSUME NEW a \in DOMAIN nodes, NEW b \in DOMAIN nodes, NEW c \in DOMAIN nodes,
             Precedes(nodes, a, b), Precedes(nodes, b, c)
      PROVE  Precedes(nodes, a, c)
  <2>1. LexBefore(Path(nodes)[a], Path(nodes)[b]) /\ LexBefore(Path(nodes)[b], Path(nodes)[c])
    BY <1>3, PrecedesIs
  <2>2. LexBefore(Path(nodes)[a], Path(nodes)[c])
    BY <1>1, <2>1, LexIsOrder
  <2> QED BY <2>2, PrecedesIs
<1> QED BY <1>2, <1>3

\* What n was inserted after, directly or not, and n.
Up(nodes, n) == IF n = Head0 THEN {Head0} ELSE {Head0} \cup Range(Path(nodes)[n])

\* p and all that was inserted after it, directly or not.
Sub(nodes, p) == {n \in DOMAIN nodes \cup {Head0} : p \in Up(nodes, n)}

(* An element is after what its predecessor is after, and after itself.        *)
LEMMA UpStep ==
  ASSUME NEW nodes, Tree(nodes), NEW n \in DOMAIN nodes
  PROVE  LET p == nodes[n].previous_id
         IN  /\ n # Head0 /\ p \in DOMAIN nodes \cup {Head0}
             /\ Up(nodes, n) = Up(nodes, p) \cup {n}
             /\ n \notin Up(nodes, p)
<1> DEFINE P == Path(nodes)
           p == nodes[n].previous_id
           N == DOMAIN nodes
<1>1. n # Head0 /\ Head0 \notin N
  BY HeadIsNoId DEF Tree, IsNodeMap
<1>2. p \in N \cup {Head0}
  BY TreeIsClosed DEF Tree
<1>3. \A m \in N : P[m] \in Seq(N) /\ Len(P[m]) \in Nat /\ DOMAIN P[m] = 1..Len(P[m])
  <2>1. ASSUME NEW m \in N PROVE P[m] \in Seq(N)
    BY PathStep
  <2> HIDE DEF P
  <2> QED BY <2>1
<1>4. Len(P[n]) >= 1 /\ P[n][Len(P[n])] = n
  BY PathStep
<1>5. CASE p = Head0
  <2>1. Len(P[n]) = 1
    BY <1>5, PathStep
  <2> HIDE DEF P
  <2>2. Range(P[n]) = {n}
    BY <1>3, <1>4, <2>1 DEF Range
  <2> HIDE DEF p
  <2>3. Up(nodes, p) = {Head0} /\ Up(nodes, n) = {Head0, n}
    BY <1>1, <1>5, <2>2 DEF Up, P
  <2> QED BY <1>1, <1>2, <2>3 DEF p
<1>6. CASE p # Head0
  <2>1. /\ p \in N /\ Len(P[n]) = Len(P[p]) + 1
        /\ \A j \in 1..Len(P[p]) : P[n][j] = P[p][j]
    BY <1>6, PathStep
  <2>2. ASSUME NEW i \in 1..Len(P[p]) PROVE Len(P[P[p][i]]) = i
    BY <2>1, PathNests
  <2> HIDE DEF P, p
  <2>3. Range(P[n]) = Range(P[p]) \cup {n}
    <3>1. DOMAIN P[n] = DOMAIN P[p] \cup {Len(P[n])}
      BY <1>3, <2>1
    <3>2. \A j \in DOMAIN P[p] : P[n][j] = P[p][j]
      BY <1>3, <2>1
    <3> QED BY <1>4, <3>1, <3>2 DEF Range
  <2>4. n \notin Range(P[p])
    <3> SUFFICES ASSUME n \in Range(P[p]) PROVE FALSE
      OBVIOUS
    <3>1. PICK i \in 1..Len(P[p]) : n = P[p][i]
      BY <1>3, <2>1 DEF Range
    <3>2. Len(P[n]) = i
      BY <2>2, <3>1
    <3> QED BY <1>3, <2>1, <3>2
  <2>5. Up(nodes, p) = {Head0} \cup Range(P[p]) /\ Up(nodes, n) = {Head0} \cup Range(P[n])
    BY <1>1, <1>6 DEF Up, P
  <2> QED BY <1>1, <1>2, <2>3, <2>4, <2>5 DEF p
<1> QED BY <1>5, <1>6

(* What something is after is after no more than it is.                        *)
LEMMA UpNests ==
  ASSUME NEW nodes, Tree(nodes), NEW n \in DOMAIN nodes \cup {Head0}
  PROVE  /\ n \in Up(nodes, n) /\ Head0 \in Up(nodes, n)
         /\ Up(nodes, n) \subseteq DOMAIN nodes \cup {Head0}
         /\ \A a \in Up(nodes, n) : Up(nodes, a) \subseteq Up(nodes, n)
<1> DEFINE N == DOMAIN nodes
           Good(m) == /\ m \in Up(nodes, m) /\ Head0 \in Up(nodes, m)
                      /\ Up(nodes, m) \subseteq N \cup {Head0}
                      /\ \A a \in Up(nodes, m) : Up(nodes, a) \subseteq Up(nodes, m)
           L == {m \in N : Good(m)}
<1>1. Good(Head0)
  BY DEF Up
<1>2. ASSUME NEW m \in N, nodes[m].previous_id \in L \cup {Head0} PROVE m \in L
  <2> DEFINE p == nodes[m].previous_id
  <2>1. Good(p)
    BY <1>1, <1>2
  <2>2. p \in N \cup {Head0} /\ Up(nodes, m) = Up(nodes, p) \cup {m}
    BY UpStep
  <2> HIDE DEF p
  <2>3. Good(m)
    BY <2>1, <2>2
  <2> QED BY <2>3
<1>3. L = N
  <2> HIDE DEF L
  <2>1. L \subseteq N
    BY DEF L
  <2> QED BY <1>2, <2>1, TreeInduction DEF Tree
<1>4. Good(n)
  BY <1>1, <1>3
<1> QED BY <1>4

(* All that comes after p is right after it, or comes after what is.           *)
LEMMA SubStep ==
  ASSUME NEW nodes, Tree(nodes), NEW p \in DOMAIN nodes \cup {Head0}
  PROVE  /\ p \in Sub(nodes, p) /\ Sub(nodes, p) \subseteq DOMAIN nodes \cup {Head0}
         /\ \A n \in Sub(nodes, p) : n # p => \E c \in Below(nodes, p) : n \in Sub(nodes, c)
         /\ \A c \in Below(nodes, p) : /\ Sub(nodes, c) \subseteq Sub(nodes, p)
                                       /\ Sub(nodes, c) \subseteq DOMAIN nodes
                                       /\ p \notin Sub(nodes, c)
<1> DEFINE N == DOMAIN nodes
           L == {m \in N : p \in Up(nodes, m) /\ m # p =>
                              \E c \in Below(nodes, p) : c \in Up(nodes, m)}
<1>1. p \in Sub(nodes, p) /\ Sub(nodes, p) \subseteq N \cup {Head0}
  BY UpNests DEF Sub
<1>2. ASSUME NEW m \in N, nodes[m].previous_id \in L \cup {Head0} PROVE m \in L
  <2> DEFINE q == nodes[m].previous_id
  <2> SUFFICES ASSUME p \in Up(nodes, m), m # p
               PROVE  \E c \in Below(nodes, p) : c \in Up(nodes, m)
    OBVIOUS
  <2>1. q \in N \cup {Head0} /\ Up(nodes, m) = Up(nodes, q) \cup {m}
    BY UpStep
  <2>2. p \in Up(nodes, q)
    BY <2>1
  <2>3. CASE q = p
    BY <2>1, <2>3 DEF Below
  <2>4. CASE q # p
    <3>1. q # Head0
      BY <2>2, <2>4 DEF Up
    <3>2. q \in L
      BY <1>2, <3>1
    <3> HIDE DEF q
    <3>3. PICK c \in Below(nodes, p) : c \in Up(nodes, q)
      BY <2>2, <2>4, <3>2
    <3> QED BY <2>1, <3>3
  <2> QED BY <2>3, <2>4
<1>3. L = N
  <2> HIDE DEF L
  <2>1. L \subseteq N
    BY DEF L
  <2> QED BY <1>2, <2>1, TreeInduction DEF Tree
<1>4. ASSUME NEW n \in Sub(nodes, p), n # p
      PROVE  \E c \in Below(nodes, p) : n \in Sub(nodes, c)
  <2>1. n \in N \cup {Head0} /\ p \in Up(nodes, n)
    BY DEF Sub
  <2>2. n \in N
    BY <1>4, <2>1 DEF Up
  <2>3. PICK c \in Below(nodes, p) : c \in Up(nodes, n)
    BY <1>3, <1>4, <2>1, <2>2
  <2> QED BY <2>1, <2>3 DEF Sub
<1>5. ASSUME NEW c \in Below(nodes, p)
      PROVE  /\ Sub(nodes, c) \subseteq Sub(nodes, p)
             /\ Sub(nodes, c) \subseteq N
             /\ p \notin Sub(nodes, c)
  <2>1. c \in N /\ nodes[c].previous_id = p
    BY DEF Below
  <2>2. c # Head0 /\ Up(nodes, c) = Up(nodes, p) \cup {c} /\ c \notin Up(nodes, p)
    BY <2>1, UpStep
  <2>3. p \in Up(nodes, c)
    BY <2>2, UpNests
  <2>4. ASSUME NEW n \in Sub(nodes, c) PROVE n \in Sub(nodes, p) /\ n \in N
    <3>1. n \in N \cup {Head0} /\ c \in Up(nodes, n)
      BY DEF Sub
    <3>2. p \in Up(nodes, n)
      BY <2>3, <3>1, UpNests
    <3>3. n # Head0
      BY <2>2, <3>1 DEF Up
    <3> QED BY <3>1, <3>2, <3>3 DEF Sub
  <2>5. p \notin Sub(nodes, c)
    BY <2>2 DEF Sub
  <2> QED BY <2>4, <2>5
<1> QED BY <1>1, <1>4, <1>5

(* What was inserted after an element comes after it.                          *)
LEMMA SubFollows ==
  ASSUME NEW nodes, Tree(nodes), NEW p \in DOMAIN nodes, NEW n \in Sub(nodes, p), n # p
  PROVE  n \in DOMAIN nodes /\ Precedes(nodes, p, n)
<1> DEFINE P == Path(nodes)
           N == DOMAIN nodes
<1>1. p # Head0 /\ n \in N \cup {Head0} /\ p \in Up(nodes, n)
  BY HeadIsNoId DEF Sub, Tree, IsNodeMap
<1>2. n \in N /\ p \in Range(P[n])
  BY <1>1, HeadIsNoId DEF Up, Tree, IsNodeMap
<1>3. P[n] \in Seq(N) /\ Len(P[n]) \in Nat /\ P[n][Len(P[n])] = n
  BY <1>2, PathStep
<1>4. PICK i \in 1..Len(P[n]) : p = P[n][i]
  BY <1>2, <1>3 DEF Range
<1>5. Len(P[p]) = i /\ \A j \in 1..i : P[p][j] = P[n][j]
  BY <1>2, <1>4, PathNests
<1> HIDE DEF P
<1>6. i # Len(P[n])
  BY <1>3, <1>4
<1>7. Len(P[p]) < Len(P[n])
  BY <1>3, <1>4, <1>5, <1>6
<1>8. LexBefore(P[p], P[n])
  BY <1>5, <1>7 DEF LexBefore
<1> QED BY <1>2, <1>8, PrecedesIs DEF P

(* Siblings, each with what was inserted after it, come in the order of their  *)
(* ids.                                                                        *)
LEMMA SiblingsFollow ==
  ASSUME NEW nodes, Tree(nodes), NEW p \in DOMAIN nodes \cup {Head0},
         NEW c \in Below(nodes, p), NEW d \in Below(nodes, p), Before(c, d),
         NEW a \in Sub(nodes, c), NEW b \in Sub(nodes, d)
  PROVE  Precedes(nodes, a, b)
<1> DEFINE P == Path(nodes)
           N == DOMAIN nodes
           k == Len(P[c])
<1>1. c \in N /\ d \in N /\ nodes[c].previous_id = p /\ nodes[d].previous_id = p
  BY DEF Below
<1>2. ASSUME NEW m \in N, NEW n \in Sub(nodes, m)
      PROVE  /\ n \in N /\ Len(P[m]) \in 1..Len(P[n])
             /\ \A j \in 1..Len(P[m]) : P[m][j] = P[n][j]
             /\ P[m][Len(P[m])] = m /\ Len(P[m]) \in Nat /\ Len(P[n]) \in Nat
  <2>1. m # Head0 /\ n \in N \cup {Head0} /\ m \in Up(nodes, n)
    BY HeadIsNoId DEF Sub, Tree, IsNodeMap
  <2>2. n \in N /\ m \in Range(P[n])
    BY <2>1, HeadIsNoId DEF Up, Tree, IsNodeMap
  <2>3. P[n] \in Seq(N) /\ Len(P[n]) \in Nat
    BY <2>2, PathStep
  <2>4. PICK i \in 1..Len(P[n]) : m = P[n][i]
    BY <2>2, <2>3 DEF Range
  <2>5. Len(P[m]) = i /\ \A j \in 1..i : P[m][j] = P[n][j]
    BY <2>2, <2>4, PathNests
  <2>6. P[m][Len(P[m])] = m /\ Len(P[m]) \in Nat
    BY PathStep
  <2> HIDE DEF P
  <2> QED BY <2>2, <2>3, <2>4, <2>5, <2>6
<1>3. /\ Len(P[d]) = k
      /\ \A j \in 1..(k - 1) : P[c][j] = P[d][j]
  <2>1. CASE p = Head0
    <3>1. k = 1 /\ Len(P[d]) = 1
      BY <1>1, <2>1, PathStep
    <3> HIDE DEF P, k
    <3> QED BY <3>1
  <2>2. CASE p # Head0
    <3>1. /\ Len(P[p]) \in Nat
          /\ k = Len(P[p]) + 1 /\ \A j \in 1..Len(P[p]) : P[c][j] = P[p][j]
      BY <1>1, <2>2, PathStep
    <3>2. Len(P[d]) = Len(P[p]) + 1 /\ \A j \in 1..Len(P[p]) : P[d][j] = P[p][j]
      BY <1>1, <2>2, PathStep
    <3> HIDE DEF P, k
    <3> QED BY <3>1, <3>2
  <2> QED BY <2>1, <2>2
<1>4. /\ a \in N /\ k \in 1..Len(P[a]) /\ \A j \in 1..k : P[c][j] = P[a][j]
      /\ P[c][k] = c /\ k \in Nat /\ Len(P[a]) \in Nat
  BY <1>1, <1>2
<1>5. /\ b \in N /\ k \in 1..Len(P[b]) /\ \A j \in 1..k : P[d][j] = P[b][j]
      /\ P[d][k] = d /\ Len(P[b]) \in Nat
  BY <1>1, <1>2, <1>3
<1> HIDE DEF P, k
<1>6. \A j \in 1..(k - 1) : P[a][j] = P[b][j]
  <2>1. \A j \in 1..(k - 1) : j \in 1..k
    BY <1>4
  <2> QED BY <1>3, <1>4, <1>5, <2>1
<1>7. k \in 1..k
  BY <1>4
<1>8. Before(P[a][k], P[b][k]) /\ k <= Len(P[b])
  BY <1>4, <1>5, <1>7
<1>9. LexBefore(P[a], P[b])
  BY <1>4, <1>6, <1>8 DEF LexBefore
<1> QED BY <1>4, <1>5, <1>9, PrecedesIs DEF P

-----------------------------------------------------------------------------
(* Lists in the order of a document.                                           *)

\* s has the elements D, each once, in the order the document has by its ids.
Lists(nodes, s, D) ==
    /\ s \in Seq(DOMAIN nodes) /\ Range(s) = D
    /\ \A i, j \in DOMAIN s : i < j => Precedes(nodes, s[i], s[j])

(* Such a list begins with what another one of the same elements begins with.  *)
LEMMA ListsBegin ==
  ASSUME NEW nodes, Tree(nodes), NEW D, NEW s, Lists(nodes, s, D), NEW t, Lists(nodes, t, D)
  PROVE  Len(s) <= Len(t) /\ \A i \in 1..Len(s) : s[i] = t[i]
<1> DEFINE N == DOMAIN nodes
           Bad == {i \in 1..Len(s) : ~(i \in 1..Len(t) /\ s[i] = t[i])}
<1>1. /\ Len(s) \in Nat /\ DOMAIN s = 1..Len(s) /\ \A i \in 1..Len(s) : s[i] \in N
      /\ Len(t) \in Nat /\ DOMAIN t = 1..Len(t) /\ \A i \in 1..Len(t) : t[i] \in N
  BY DEF Lists
<1>2. /\ \A a \in N : ~Precedes(nodes, a, a)
      /\ \A a, b, c \in N : Precedes(nodes, a, b) /\ Precedes(nodes, b, c) => Precedes(nodes, a, c)
  BY PrecedesIsOrder
<1>3. /\ \A i, j \in 1..Len(s) : i < j => Precedes(nodes, s[i], s[j])
      /\ \A i, j \in 1..Len(t) : i < j => Precedes(nodes, t[i], t[j])
  BY <1>1 DEF Lists
<1>4. /\ \A i \in 1..Len(s) : \E j \in 1..Len(t) : s[i] = t[j]
      /\ \A i \in 1..Len(t) : \E j \in 1..Len(s) : t[i] = s[j]
  BY <1>1 DEF Lists, Range
<1>5. Bad = {}
  <2> SUFFICES ASSUME Bad # {} PROVE FALSE
    OBVIOUS
  <2>1. Bad \subseteq Nat
    OBVIOUS
  <2>2. PICK j \in Bad : \A i \in Bad : j <= i
    BY <2>1, Least
  <2>3. j \in 1..Len(s) /\ ~(j \in 1..Len(t) /\ s[j] = t[j])
    BY <2>2
  <2>4. ASSUME NEW i \in 1..Len(s), i < j PROVE i \in 1..Len(t) /\ s[i] = t[i]
    <3>1. i \in Bad => j <= i
      BY <2>2
    <3>2. i \notin Bad
      BY <1>1, <2>3, <2>4, <3>1
    <3> QED BY <3>2
  <2> HIDE DEF Bad
  <2>5. PICK m \in 1..Len(t) : s[j] = t[m]
    BY <1>4, <2>3
  <2>6. ~(m < j)
    <3> SUFFICES ASSUME m < j PROVE FALSE
      OBVIOUS
    <3>1. m \in 1..Len(s)
      BY <1>1, <2>3
    <3>2. s[m] = t[m] /\ Precedes(nodes, s[m], s[j])
      BY <1>3, <2>3, <2>4, <3>1
    <3> QED BY <1>1, <1>2, <2>3, <2>5, <3>2
  <2>7. j \in 1..Len(t) /\ j <= m
    BY <1>1, <2>3, <2>6
  <2>8. PICK l \in 1..Len(s) : t[j] = s[l]
    BY <1>4, <2>7
  <2>9. ~(l < j)
    <3> SUFFICES ASSUME l < j PROVE FALSE
      OBVIOUS
    <3>1. l \in 1..Len(t) /\ s[l] = t[l]
      BY <2>4
    <3>2. Precedes(nodes, t[l], t[j])
      BY <1>3, <2>7, <3>1
    <3> QED BY <1>1, <1>2, <2>7, <2>8, <3>1, <3>2
  <2>10. s[j] # t[j] /\ j # m /\ j # l
    BY <2>3, <2>5, <2>7, <2>8
  <2>11. j < m /\ j < l
    BY <1>1, <2>3, <2>7, <2>9, <2>10
  <2>12. Precedes(nodes, t[j], t[m]) /\ Precedes(nodes, s[j], s[l])
    BY <1>3, <2>3, <2>7, <2>11
  <2>13. Precedes(nodes, t[j], s[j]) /\ Precedes(nodes, s[j], t[j])
    BY <2>5, <2>8, <2>12
  <2>14. t[j] \in N /\ s[j] \in N
    BY <1>1, <2>3, <2>7
  <2> QED BY <1>2, <2>13, <2>14
<1>6. \A i \in 1..Len(s) : i \in 1..Len(t) /\ s[i] = t[i]
  BY <1>5
<1>7. Len(s) <= Len(t)
  <2>1. CASE Len(s) = 0
    BY <1>1, <2>1
  <2>2. CASE Len(s) # 0
    <3>1. Len(s) \in 1..Len(s)
      BY <1>1, <2>2
    <3>2. Len(s) \in 1..Len(t)
      BY <1>6, <3>1
    <3> QED BY <1>1, <3>2
  <2> QED BY <2>1, <2>2
<1> QED BY <1>6, <1>7

(* There is only one.                                                          *)
LEMMA ListsAgree ==
  ASSUME NEW nodes, Tree(nodes), NEW D, NEW s, Lists(nodes, s, D), NEW t, Lists(nodes, t, D)
  PROVE  s = t
<1>1. Len(s) <= Len(t) /\ Len(t) <= Len(s) /\ \A i \in 1..Len(s) : s[i] = t[i]
  BY ListsBegin
<1>2. s \in Seq(DOMAIN nodes) /\ t \in Seq(DOMAIN nodes)
  BY DEF Lists
<1>3. Len(s) = Len(t)
  BY <1>1, <1>2
<1> QED BY <1>1, <1>2, <1>3, SeqEqual

(* The empty list, and a list of one element.                                  *)
LEMMA ListsFew ==
  ASSUME NEW nodes
  PROVE  /\ Lists(nodes, << >>, {})
         /\ \A n \in DOMAIN nodes : Lists(nodes, <<n>>, {n})
<1>1. Lists(nodes, << >>, {})
  BY DEF Lists, Range
<1>2. ASSUME NEW n \in DOMAIN nodes PROVE Lists(nodes, <<n>>, {n})
  <2> DEFINE s == <<n>>
  <2>1. s \in Seq(DOMAIN nodes) /\ DOMAIN s = {1} /\ s[1] = n
    OBVIOUS
  <2> HIDE DEF s
  <2>2. Lists(nodes, s, {n})
    BY <2>1 DEF Lists, Range
  <2> QED BY <2>2 DEF s
<1> QED BY <1>1, <1>2

(* One list after another, if all of the one comes before all of the other.    *)
LEMMA ListsConcat ==
  ASSUME NEW nodes, NEW D, NEW s, Lists(nodes, s, D), NEW E, NEW t, Lists(nodes, t, E),
         \A a \in D, b \in E : Precedes(nodes, a, b)
  PROVE  Lists(nodes, s \o t, D \cup E)
<1> DEFINE N == DOMAIN nodes
           r == s \o t
<1>1. /\ s \in Seq(N) /\ Len(s) \in Nat /\ DOMAIN s = 1..Len(s)
      /\ t \in Seq(N) /\ Len(t) \in Nat /\ DOMAIN t = 1..Len(t)
  BY DEF Lists
<1>2. /\ r \in Seq(N) /\ Len(r) = Len(s) + Len(t) /\ DOMAIN r = 1..(Len(s) + Len(t))
      /\ \A i \in 1..(Len(s) + Len(t)) : r[i] = IF i <= Len(s) THEN s[i] ELSE t[i - Len(s)]
  BY <1>1, ConcatProperties
<1> HIDE DEF r
<1>3. /\ \A i \in 1..Len(s) : s[i] \in D
      /\ \A i \in 1..Len(t) : t[i] \in E
      /\ \A i, j \in 1..Len(s) : i < j => Precedes(nodes, s[i], s[j])
      /\ \A i, j \in 1..Len(t) : i < j => Precedes(nodes, t[i], t[j])
      /\ \A a \in D : \E i \in 1..Len(s) : a = s[i]
      /\ \A a \in E : \E i \in 1..Len(t) : a = t[i]
  BY <1>1 DEF Lists, Range
<1>4. ASSUME NEW i \in DOMAIN r, NEW j \in DOMAIN r, i < j PROVE Precedes(nodes, r[i], r[j])
  <2>1. CASE j <= Len(s)
    <3>1. i \in 1..Len(s) /\ j \in 1..Len(s) /\ r[i] = s[i] /\ r[j] = s[j]
      BY <1>1, <1>2, <1>4, <2>1
    <3> QED BY <1>3, <1>4, <3>1
  <2>2. CASE i > Len(s)
    <3>1. /\ i - Len(s) \in 1..Len(t) /\ j - Len(s) \in 1..Len(t) /\ i - Len(s) < j - Len(s)
          /\ r[i] = t[i - Len(s)] /\ r[j] = t[j - Len(s)]
      BY <1>1, <1>2, <1>4, <2>2
    <3> QED BY <1>3, <3>1
  <2>3. CASE i <= Len(s) /\ j > Len(s)
    <3>1. /\ i \in 1..Len(s) /\ j - Len(s) \in 1..Len(t)
          /\ r[i] = s[i] /\ r[j] = t[j - Len(s)]
      BY <1>1, <1>2, <2>3
    <3>2. r[i] \in D /\ r[j] \in E
      BY <1>3, <3>1
    <3> QED BY <3>2
  <2> QED BY <1>1, <1>2, <2>1, <2>2, <2>3
<1>5. Range(r) = D \cup E
  <2>1. ASSUME NEW i \in DOMAIN r PROVE r[i] \in D \cup E
    <3>1. CASE i <= Len(s)
      BY <1>1, <1>2, <1>3, <3>1
    <3>2. CASE i > Len(s)
      <4>1. i - Len(s) \in 1..Len(t) /\ r[i] = t[i - Len(s)]
        BY <1>1, <1>2, <3>2
      <4> QED BY <1>3, <4>1
    <3> QED BY <1>1, <1>2, <3>1, <3>2
  <2>2. ASSUME NEW a \in D PROVE \E i \in DOMAIN r : r[i] = a
    <3>1. PICK i \in 1..Len(s) : a = s[i]
      BY <1>3
    <3>2. i \in DOMAIN r /\ r[i] = s[i]
      BY <1>1, <1>2
    <3> QED BY <3>1, <3>2
  <2>3. ASSUME NEW a \in E PROVE \E i \in DOMAIN r : r[i] = a
    <3>1. PICK i \in 1..Len(t) : a = t[i]
      BY <1>3
    <3> DEFINE k == i + Len(s)
    <3>a. k \in 1..(Len(s) + Len(t)) /\ ~(k <= Len(s)) /\ k - Len(s) = i
      BY <1>1
    <3> HIDE DEF k
    <3>2. k \in DOMAIN r /\ r[k] = t[i]
      BY <1>2, <3>a
    <3> QED BY <3>1, <3>2
  <2> QED BY <2>1, <2>2, <2>3 DEF Range
<1>6. Lists(nodes, r, D \cup E)
  BY <1>2, <1>4, <1>5 DEF Lists
<1> QED BY <1>6 DEF r

(* One more element, which all of the list comes before.                       *)
LEMMA ListsAppend ==
  ASSUME NEW nodes, NEW D, NEW s, Lists(nodes, s, D), NEW n \in DOMAIN nodes,
         \A a \in D : Precedes(nodes, a, n)
  PROVE  Lists(nodes, Append(s, n), D \cup {n})
<1>1. Lists(nodes, <<n>>, {n})
  BY ListsFew
<1>2. Lists(nodes, s \o <<n>>, D \cup {n})
  BY <1>1, ListsConcat
<1>3. s \o <<n>> = Append(s, n)
  <2>1. s \in Seq(DOMAIN nodes)
    BY DEF Lists
  <2> QED BY <2>1
<1> QED BY <1>2, <1>3


-----------------------------------------------------------------------------
(* rgaWalk().                                                                  *)

(* The siblings of a sorted tree.                                              *)
LEMMA KidsInOrder ==
  ASSUME NEW nodes, Tree(nodes), NEW p \in DOMAIN nodes \cup {Head0}
  PROVE  LET kids == SiblingLists(nodes)[p]
         IN  /\ kids \in Seq(DOMAIN nodes) /\ Len(kids) \in Nat /\ DOMAIN kids = 1..Len(kids)
             /\ Range(kids) = Below(nodes, p)
             /\ \A i \in 1..Len(kids) : kids[i] \in Below(nodes, p)
             /\ \A i, j \in 1..Len(kids) : i < j => Before(kids[i], kids[j])
<1> DEFINE S == Below(nodes, p)
           s == SortIds(S)
<1>1. S \subseteq DOMAIN nodes /\ S \subseteq Id /\ IsFiniteSet(S)
  BY FS_Subset DEF Below, Tree, IsNodeMap
<1>2. s \in [1..Cardinality(S) -> S] /\ IsSortedListOf(s, S) /\ Cardinality(S) \in Nat
  BY <1>1, SortIdsSorts, FS_CardinalityType
<1>3. SiblingLists(nodes)[p] = s
  BY DEF SiblingLists
<1> HIDE DEF s, S
<1>4. s \in Seq(DOMAIN nodes) /\ Len(s) \in Nat /\ DOMAIN s = 1..Len(s) /\ Len(s) = Cardinality(S)
  <2>1. s \in [1..Cardinality(S) -> DOMAIN nodes]
    BY <1>1, <1>2
  <2> QED BY <1>2, <2>1
<1>5. \A i \in 1..Len(s) : s[i] \in S
  BY <1>2, <1>4
<1> QED BY <1>2, <1>3, <1>4, <1>5 DEF IsSortedListOf, S

(* What comes after p is more than what comes after one of its kids.           *)
LEMMA SubShrinks ==
  ASSUME NEW nodes, Tree(nodes), NEW p \in DOMAIN nodes \cup {Head0}, NEW c \in Below(nodes, p)
  PROVE  /\ Cardinality(Sub(nodes, c)) \in Nat /\ Cardinality(Sub(nodes, p)) \in Nat
         /\ Cardinality(Sub(nodes, c)) < Cardinality(Sub(nodes, p))
<1>1. IsFiniteSet(DOMAIN nodes \cup {Head0})
  BY FS_AddElement DEF Tree, IsNodeMap
<1>2. /\ Sub(nodes, p) \subseteq DOMAIN nodes \cup {Head0} /\ p \in Sub(nodes, p)
      /\ Sub(nodes, c) \subseteq Sub(nodes, p) /\ p \notin Sub(nodes, c)
  BY SubStep
<1>3. IsFiniteSet(Sub(nodes, p)) /\ IsFiniteSet(Sub(nodes, c))
  BY <1>1, <1>2, FS_Subset
<1>4. Cardinality(Sub(nodes, c)) \in Nat /\ Cardinality(Sub(nodes, p)) \in Nat
  BY <1>3, FS_CardinalityType
<1>5. /\ Cardinality(Sub(nodes, c)) <= Cardinality(Sub(nodes, p))
      /\ Cardinality(Sub(nodes, p)) = Cardinality(Sub(nodes, c)) => Sub(nodes, p) = Sub(nodes, c)
  BY <1>2, <1>3, FS_Subset
<1> QED BY <1>2, <1>4, <1>5

(* What holds of p whenever it holds of its kids holds of all.                 *)
LEMMA SubInduction ==
  ASSUME NEW nodes, Tree(nodes), NEW L,
         \A p \in DOMAIN nodes \cup {Head0} : Below(nodes, p) \subseteq L => p \in L
  PROVE  DOMAIN nodes \cup {Head0} \subseteq L
<1> DEFINE N0 == DOMAIN nodes \cup {Head0}
           Size(p) == Cardinality(Sub(nodes, p))
           Bad == {p \in N0 : p \notin L}
           Sizes == {Size(p) : p \in Bad}
<1> SUFFICES ASSUME Bad # {} PROVE FALSE
  OBVIOUS
<1>1. \A p \in N0 : Size(p) \in Nat
  <2> SUFFICES ASSUME NEW p \in N0 PROVE Size(p) \in Nat
    OBVIOUS
  <2>1. IsFiniteSet(N0)
    BY FS_AddElement DEF Tree, IsNodeMap
  <2>2. Sub(nodes, p) \subseteq N0
    BY DEF Sub
  <2> QED BY <2>1, <2>2, FS_Subset, FS_CardinalityType
<1>2. \A p \in N0 : \A c \in Below(nodes, p) : Size(c) < Size(p) /\ c \in N0
  <2>1. \A p \in N0 : \A c \in Below(nodes, p) : Size(c) < Size(p)
    BY SubShrinks
  <2> HIDE DEF Size
  <2> QED BY <2>1 DEF Below
<1> HIDE DEF Size, N0
<1>3. Sizes \subseteq Nat /\ Sizes # {}
  BY <1>1
<1>4. PICK k \in Sizes : \A l \in Sizes : k <= l
  BY <1>3, Least
<1>5. PICK p \in Bad : k = Size(p)
  OBVIOUS
<1>6. \A q \in Bad : Size(p) <= Size(q)
  BY <1>4, <1>5
<1>7. ASSUME NEW c \in Below(nodes, p) PROVE c \in L
  <2>1. Size(c) < Size(p) /\ c \in N0 /\ Size(c) \in Nat /\ Size(p) \in Nat
    BY <1>1, <1>2
  <2>2. c \notin Bad
    BY <1>6, <2>1
  <2> QED BY <2>1, <2>2
<1> QED BY <1>5, <1>7 DEF N0

\* w lists what was inserted after p, directly or not.
IsWalkOf(nodes, w, p) == Lists(nodes, w, (Sub(nodes, p) \ {p}) \cap Visible(nodes))

(* Walks of the kids, each after its kid, make a walk.                         *)
LEMMA JoinWalks ==
  ASSUME NEW nodes, Tree(nodes), NEW p \in DOMAIN nodes \cup {Head0},
         NEW h, \A c \in Below(nodes, p) : IsWalkOf(nodes, h[c], c)
  PROVE  IsWalkOf(nodes, Join(nodes, h, SiblingLists(nodes)[p]), p)
<1> DEFINE N == DOMAIN nodes
           kids == SiblingLists(nodes)[p]
           m == Len(kids)
           V == Visible(nodes)
           First(i) == UNION {Sub(nodes, kids[j]) : j \in 1..i}
<1>1. /\ m \in Nat /\ DOMAIN kids = 1..m /\ Range(kids) = Below(nodes, p)
      /\ \A i \in 1..m : kids[i] \in Below(nodes, p)
      /\ \A i, j \in 1..m : i < j => Before(kids[i], kids[j])
  BY KidsInOrder
<1> HIDE DEF kids, m
<1>2. \A i \in 1..m : kids[i] \in N /\ h[kids[i]] \in Seq(N)
  BY <1>1 DEF IsWalkOf, Lists, Below
<1>a. \A n \in N : Lists(nodes, Shown(nodes, n), {n} \cap V)
  <2> TAKE n \in N
  <2>1. CASE nodes[n].deleted
    <3>1. Shown(nodes, n) = << >> /\ {n} \cap V = {}
      BY <2>1 DEF Shown, Visible
    <3> QED BY <3>1, ListsFew
  <2>2. CASE ~nodes[n].deleted
    <3>1. Shown(nodes, n) = <<n>> /\ {n} \cap V = {n}
      BY <2>2 DEF Shown, Visible
    <3> QED BY <3>1, ListsFew
  <2> QED BY <2>1, <2>2
<1>b. \A i \in 1..m : Shown(nodes, kids[i]) \in Seq(N) /\ h[kids[i]] \in Seq(N)
  BY <1>2, <1>a DEF Lists
<1> HIDE DEF V
<1>c. Joins(nodes, h, kids, m, N)
  BY <1>1, <1>b, JoinRun
<1>3. PICK A : Joined(nodes, A, h, kids, m, N) /\ Join(nodes, h, kids) = A[m]
  BY <1>c DEF Joins
<1>4. /\ A[0] = << >>
      /\ \A i \in 1..m : A[i] = A[i - 1] \o Shown(nodes, kids[i]) \o h[kids[i]]
  BY <1>3 DEF Joined
<1> DEFINE Good(i) == Lists(nodes, A[i], First(i) \cap V)
           Bad == {i \in 0..m : ~Good(i)}
<1>5. Good(0)
  <2>1. First(0) \cap V = {}
    OBVIOUS
  <2> HIDE DEF First
  <2> QED BY <1>4, <2>1, ListsFew
<1>6. ASSUME NEW i \in 1..m, Good(i - 1) PROVE Good(i)
  <2> DEFINE c == kids[i]
  <2>1. c \in Below(nodes, p) /\ c \in N
    BY <1>1, <1>2
  <2>2. First(i) = First(i - 1) \cup Sub(nodes, c)
    <3>1. 1..i = 1..(i - 1) \cup {i}
      OBVIOUS
    <3> QED BY <3>1
  <2>3. \A a \in First(i - 1), b \in Sub(nodes, c) : Precedes(nodes, a, b)
    <3> SUFFICES ASSUME NEW a \in First(i - 1), NEW b \in Sub(nodes, c)
                 PROVE  Precedes(nodes, a, b)
      OBVIOUS
    <3>1. PICK j \in 1..(i - 1) : a \in Sub(nodes, kids[j])
      OBVIOUS
    <3>2. j \in 1..m /\ j < i
      BY <1>1
    <3>3. Before(kids[j], c) /\ kids[j] \in Below(nodes, p)
      BY <1>1, <3>2
    <3> HIDE DEF c
    <3> QED BY <2>1, <3>1, <3>3, SiblingsFollow
  <2>4. Lists(nodes, h[c], (Sub(nodes, c) \ {c}) \cap V)
    BY <2>1 DEF IsWalkOf, V
  <2>5. c \in Sub(nodes, c) /\ \A n \in Sub(nodes, c) \ {c} : Precedes(nodes, c, n)
    BY <2>1, SubStep, SubFollows
  <2>6. Lists(nodes, Shown(nodes, c), {c} \cap V)
    BY <1>a, <2>1
  <2>7. A[i] = (A[i - 1] \o Shown(nodes, c)) \o h[c]
    BY <1>4
  <2> HIDE DEF c, First
  <2>8. Lists(nodes, A[i - 1] \o Shown(nodes, c), (First(i - 1) \cap V) \cup ({c} \cap V))
    <3>1. \A a \in First(i - 1) \cap V, b \in {c} \cap V : Precedes(nodes, a, b)
      BY <2>3, <2>5
    <3> QED BY <1>6, <2>6, <3>1, ListsConcat
  <2>9. \A a \in (First(i - 1) \cap V) \cup ({c} \cap V), b \in (Sub(nodes, c) \ {c}) \cap V :
           Precedes(nodes, a, b)
    BY <2>3, <2>5
  <2>10. Lists(nodes, (A[i - 1] \o Shown(nodes, c)) \o h[c],
               ((First(i - 1) \cap V) \cup ({c} \cap V)) \cup ((Sub(nodes, c) \ {c}) \cap V))
    BY <2>4, <2>8, <2>9, ListsConcat
  <2>11. ((First(i - 1) \cap V) \cup ({c} \cap V)) \cup ((Sub(nodes, c) \ {c}) \cap V)
            = First(i) \cap V
    BY <2>2, <2>5
  <2> QED BY <2>7, <2>10, <2>11
<1> HIDE DEF Good
<1>7. Bad = {}
  <2> SUFFICES ASSUME Bad # {} PROVE FALSE
    OBVIOUS
  <2>1. Bad \subseteq Nat
    BY <1>1
  <2>2. PICK i \in Bad : \A j \in Bad : i <= j
    BY <2>1, Least
  <2>3. i \in 0..m /\ ~Good(i)
    BY <2>2
  <2>4. i # 0
    BY <1>5, <2>3
  <2>5. i \in 1..m /\ i - 1 \in 0..m /\ ~(i <= i - 1)
    BY <1>1, <2>3, <2>4
  <2>6. i - 1 \notin Bad
    BY <2>2, <2>5
  <2> QED BY <1>6, <2>3, <2>5, <2>6
<1>8. Good(m)
  BY <1>1, <1>7
<1>9. First(m) = Sub(nodes, p) \ {p}
  <2>1. ASSUME NEW n \in First(m) PROVE n \in Sub(nodes, p) \ {p}
    <3>1. PICK j \in 1..m : n \in Sub(nodes, kids[j])
      OBVIOUS
    <3> QED BY <1>1, <3>1, SubStep
  <2>2. ASSUME NEW n \in Sub(nodes, p) \ {p} PROVE n \in First(m)
    <3>1. PICK c \in Below(nodes, p) : n \in Sub(nodes, c)
      BY SubStep
    <3>2. PICK j \in 1..m : c = kids[j]
      BY <1>1 DEF Range
    <3> QED BY <3>1, <3>2
  <2> QED BY <2>1, <2>2
<1> QED BY <1>3, <1>8, <1>9 DEF IsWalkOf, Good, kids, V

(* There is a walk of each element.                                            *)
LEMMA WalkExists ==
  ASSUME NEW nodes, Tree(nodes), NEW p \in DOMAIN nodes \cup {Head0}
  PROVE  IsWalkOf(nodes, CHOOSE w : IsWalkOf(nodes, w, p), p)
<1> DEFINE N0 == DOMAIN nodes \cup {Head0}
           h == [c \in N0 |-> CHOOSE w : IsWalkOf(nodes, w, c)]
           L == {q \in N0 : IsWalkOf(nodes, h[q], q)}
<1>1. ASSUME NEW q \in N0, Below(nodes, q) \subseteq L PROVE q \in L
  <2>1. IsWalkOf(nodes, Join(nodes, h, SiblingLists(nodes)[q]), q)
    <3> HIDE DEF h
    <3>1. \A c \in Below(nodes, q) : IsWalkOf(nodes, h[c], c)
      BY <1>1
    <3> QED BY <3>1, JoinWalks
  <2>2. IsWalkOf(nodes, h[q], q)
    BY <2>1
  <2> QED BY <2>2
<1>2. N0 \subseteq L
  <2> HIDE DEF L
  <2> QED BY <1>1, SubInduction
<1> QED BY <1>2

(* The recursion collects what is shown of all that was inserted after an      *)
(* element, in the order of the document.                                      *)
LEMMA RecurWalks ==
  ASSUME NEW nodes, Tree(nodes), NEW p \in DOMAIN nodes \cup {Head0}
  PROVE  IsWalkOf(nodes, Recur(nodes, SiblingLists(nodes))[p], p)
<1> DEFINE N0 == DOMAIN nodes \cup {Head0}
           children == SiblingLists(nodes)
           Body(f) == [q \in DOMAIN children |-> Join(nodes, f, children[q])]
           h == [c \in N0 |-> CHOOSE w : IsWalkOf(nodes, w, c)]
<1>1. Recur(nodes, children) = CHOOSE f : f = Body(f)
  BY Zenon DEF Recur, Join
<1>2. DOMAIN children = N0
  BY DEF SiblingLists
<1> HIDE DEF children
<1>3. ASSUME NEW q \in N0 PROVE h[q] = Join(nodes, h, children[q])
  <2>1. \A c \in N0 : IsWalkOf(nodes, h[c], c)
    BY WalkExists
  <2> HIDE DEF h
  <2>2. IsWalkOf(nodes, Join(nodes, h, children[q]), q)
    BY <2>1, JoinWalks DEF Below, children
  <2> QED BY <2>1, <2>2, ListsAgree DEF IsWalkOf
<1>4. h = Body(h)
  <2>1. h = [q \in N0 |-> h[q]]
    OBVIOUS
  <2> HIDE DEF h, N0
  <2>2. [q \in N0 |-> h[q]] = Body(h)
    BY <1>2, <1>3, Zenon
  <2> HIDE DEF Body
  <2> QED BY <2>1, <2>2
<1> DEFINE k == CHOOSE f : f = Body(f)
<1>5. k = Body(k)
  BY <1>4
<1> HIDE DEF k
<1>6. \A q \in N0 : k[q] = Join(nodes, k, children[q])
  BY <1>2, <1>5
<1> DEFINE L == {q \in N0 : IsWalkOf(nodes, k[q], q)}
<1>7. ASSUME NEW q \in N0, Below(nodes, q) \subseteq L PROVE q \in L
  <2>1. \A c \in Below(nodes, q) : IsWalkOf(nodes, k[c], c)
    BY <1>7
  <2>2. IsWalkOf(nodes, Join(nodes, k, children[q]), q)
    BY <2>1, JoinWalks DEF children
  <2> QED BY <1>6, <2>2
<1>8. N0 \subseteq L
  <2> HIDE DEF L
  <2> QED BY <1>7, SubInduction
<1>9. Recur(nodes, children) = k
  BY <1>1 DEF k
<1> QED BY <1>8, <1>9 DEF children

(* The walk of the head visits everything.                                     *)
LEMMA SubOfHead ==
  ASSUME NEW nodes, Tree(nodes)
  PROVE  Sub(nodes, Head0) \ {Head0} = DOMAIN nodes
<1>1. Head0 \notin DOMAIN nodes
  BY HeadIsNoId DEF Tree, IsNodeMap
<1> QED BY <1>1, UpNests DEF Sub

(* What the pages render are the live elements in the order of the document.   *)
LEMMA RenderedLists ==
  ASSUME NEW nodes, Tree(nodes)
  PROVE  Lists(nodes, RenderedIds(nodes, SiblingLists(nodes)), Visible(nodes))
<1>1. DOMAIN nodes \cap Visible(nodes) = Visible(nodes)
  BY DEF Visible
<1> QED BY <1>1, RecurWalks, SubOfHead DEF IsWalkOf, RenderedIds

-----------------------------------------------------------------------------
(* render_from().                                                              *)

KidsOf(nodes, p) == SiblingLists(nodes)[p]

FrameOf(nodes) == [parent : DOMAIN nodes \cup {Head0}, index : Nat]

Moved(f) == [f EXCEPT !.index = @ + 1]

\* What a frame still has before it.
Rest(nodes, f) ==
    UNION {Sub(nodes, KidsOf(nodes, f.parent)[k]) :
              k \in (f.index + 1)..Len(KidsOf(nodes, f.parent))}

\* What the walk has still before it.
Left(nodes, stack) == UNION {Rest(nodes, stack[j]) : j \in 1..Len(stack)}

\* Each frame is for what the frames below it descended to last, or after that.
FramesNest(nodes, stack) ==
    /\ stack \in Seq(FrameOf(nodes))
    /\ \A j, l \in 1..Len(stack) : j < l =>
          /\ stack[j].index \in 1..Len(KidsOf(nodes, stack[j].parent))
          /\ stack[l].parent \in Sub(nodes, KidsOf(nodes, stack[j].parent)[stack[j].index])

(* A frame that is used up has nothing before it.                              *)
LEMMA RestNone ==
  ASSUME NEW nodes, Tree(nodes), NEW f \in FrameOf(nodes),
         f.index >= Len(KidsOf(nodes, f.parent))
  PROVE  Rest(nodes, f) = {}
<1>1. f.parent \in DOMAIN nodes \cup {Head0} /\ f.index \in Nat
  BY DEF FrameOf
<1>2. Len(KidsOf(nodes, f.parent)) \in Nat
  BY <1>1, KidsInOrder DEF KidsOf
<1>3. (f.index + 1)..Len(KidsOf(nodes, f.parent)) = {}
  BY <1>1, <1>2
<1> QED BY <1>3 DEF Rest

(* Else it has its next child before it, which comes first.                    *)
LEMMA RestStep ==
  ASSUME NEW nodes, Tree(nodes), NEW f \in FrameOf(nodes),
         f.index < Len(KidsOf(nodes, f.parent)),
         NEW c, c = KidsOf(nodes, f.parent)[f.index + 1]
  PROVE  /\ c \in Below(nodes, f.parent) /\ c \in DOMAIN nodes
         /\ Rest(nodes, f) = Sub(nodes, c) \cup Rest(nodes, Moved(f))
         /\ c \notin Rest(nodes, Moved(f))
         /\ \A n \in Rest(nodes, f) : n # c => Precedes(nodes, c, n)
<1> DEFINE p == f.parent
           k == f.index
           kids == KidsOf(nodes, p)
           m == Len(kids)
<1>1. p \in DOMAIN nodes \cup {Head0} /\ k \in Nat /\ k < m
  BY DEF FrameOf
<1>2. Moved(f).parent = p /\ Moved(f).index = k + 1
  BY DEF Moved, FrameOf
<1>3. /\ m \in Nat /\ \A i \in 1..m : kids[i] \in Below(nodes, p)
      /\ \A i, j \in 1..m : i < j => Before(kids[i], kids[j])
  BY <1>1, KidsInOrder DEF KidsOf
<1>4. /\ Rest(nodes, f) = UNION {Sub(nodes, kids[i]) : i \in (k + 1)..m}
      /\ Rest(nodes, Moved(f)) = UNION {Sub(nodes, kids[i]) : i \in ((k + 1) + 1)..m}
  BY <1>2 DEF Rest
<1>5. c = kids[k + 1]
  OBVIOUS
<1> HIDE DEF p, k, kids, m
<1>6. k + 1 \in 1..m /\ c \in Below(nodes, p)
  BY <1>1, <1>3, <1>5
<1>7. c \in DOMAIN nodes
  BY <1>6 DEF Below
<1>8. Rest(nodes, f) = Sub(nodes, c) \cup Rest(nodes, Moved(f))
  <2>1. (k + 1)..m = {k + 1} \cup ((k + 1) + 1)..m
    BY <1>1, <1>3
  <2> QED BY <1>4, <1>5, <2>1
<1>9. ASSUME NEW n \in Rest(nodes, Moved(f)) PROVE Precedes(nodes, c, n)
  <2>1. PICK i \in ((k + 1) + 1)..m : n \in Sub(nodes, kids[i])
    BY <1>4
  <2>2. i \in 1..m /\ k + 1 < i
    BY <1>1, <1>3, <2>1
  <2>3. Before(c, kids[i]) /\ kids[i] \in Below(nodes, p) /\ c \in Sub(nodes, c)
    BY <1>3, <1>5, <1>6, <1>7, <2>2, SubStep
  <2> QED BY <1>1, <1>6, <2>1, <2>3, SiblingsFollow
<1>10. c \notin Rest(nodes, Moved(f))
  BY <1>7, <1>9, PrecedesIsOrder
<1>11. ASSUME NEW n \in Sub(nodes, c), n # c PROVE Precedes(nodes, c, n)
  BY <1>7, <1>11, SubFollows
<1> QED BY <1>6, <1>7, <1>8, <1>9, <1>10, <1>11 DEF p

(* The frame of an element has before it what was inserted after the element.  *)
LEMMA RestNew ==
  ASSUME NEW nodes, Tree(nodes), NEW c \in DOMAIN nodes \cup {Head0}
  PROVE  /\ Frame(c) \in FrameOf(nodes) /\ Frame(c).parent = c
         /\ Rest(nodes, Frame(c)) = Sub(nodes, c) \ {c}
         /\ KidsOf(nodes, c) = << >> => Sub(nodes, c) \ {c} = {}
<1> DEFINE kids == KidsOf(nodes, c)
           m == Len(kids)
<1>1. Frame(c) \in FrameOf(nodes) /\ Frame(c).parent = c /\ Frame(c).index = 0
  BY DEF Frame, FrameOf
<1>2. /\ m \in Nat /\ DOMAIN kids = 1..m /\ \A i \in 1..m : kids[i] \in Below(nodes, c)
      /\ Range(kids) = Below(nodes, c)
  BY KidsInOrder DEF KidsOf
<1>3. Rest(nodes, Frame(c)) = UNION {Sub(nodes, kids[i]) : i \in (0 + 1)..m}
  BY <1>1 DEF Rest
<1>b. kids = << >> => m = 0
  OBVIOUS
<1> HIDE DEF kids, m
<1>a. (0 + 1)..m = 1..m
  OBVIOUS
<1>4. ASSUME NEW n \in Rest(nodes, Frame(c)) PROVE n \in Sub(nodes, c) \ {c}
  <2>1. PICK i \in 1..m : n \in Sub(nodes, kids[i])
    BY <1>3, <1>a
  <2> QED BY <1>2, <2>1, SubStep
<1>5. ASSUME NEW n \in Sub(nodes, c) \ {c} PROVE n \in Rest(nodes, Frame(c)) /\ Below(nodes, c) # {}
  <2>1. PICK d \in Below(nodes, c) : n \in Sub(nodes, d)
    BY SubStep
  <2>2. PICK i \in 1..m : d = kids[i]
    BY <1>2 DEF Range
  <2> QED BY <1>3, <1>a, <2>1, <2>2
<1>6. kids = << >> => Below(nodes, c) = {}
  BY <1>2, <1>b DEF Range
<1> QED BY <1>1, <1>4, <1>5, <1>6 DEF kids

(* Pop leaves what the walk has before it.                                     *)
LEMMA PopStep ==
  ASSUME NEW nodes, Tree(nodes), NEW stack, FramesNest(nodes, stack), stack # << >>,
         stack[Len(stack)].index >= Len(KidsOf(nodes, stack[Len(stack)].parent))
  PROVE  LET t == SubSeq(stack, 1, Len(stack) - 1)
         IN  /\ FramesNest(nodes, t) /\ Left(nodes, t) = Left(nodes, stack)
             /\ Len(t) = Len(stack) - 1
<1> DEFINE F == FrameOf(nodes)
           L == Len(stack)
           t == SubSeq(stack, 1, L - 1)
<1>1. stack \in Seq(F) /\ L \in Nat /\ L >= 1 /\ \A j \in 1..L : stack[j] \in F
  <2>1. stack \in Seq(F)
    BY DEF FramesNest
  <2> HIDE DEF F
  <2> QED BY <2>1, EmptySeq
<1>2. t \in Seq(F) /\ Len(t) = L - 1 /\ \A j \in 1..(L - 1) : t[j] = stack[j]
  <2> HIDE DEF F, L
  <2>1. 1 \in Int /\ L - 1 \in Int /\ \A j \in 1..(L - 1) : stack[j] \in F
    BY <1>1
  <2>2. /\ t \in Seq(F) /\ Len(t) = IF 1 <= L - 1 THEN (L - 1) - 1 + 1 ELSE 0
        /\ \A j \in 1..(L - 1) - 1 + 1 : t[j] = stack[1 + j - 1]
    BY <2>1, SubSeqProperties
  <2>3. \A j \in 1..(L - 1) : j \in 1..(L - 1) - 1 + 1 /\ 1 + j - 1 = j
    BY <1>1
  <2>4. \A j \in 1..(L - 1) : t[j] = stack[j]
    BY <2>2, <2>3
  <2>5. Len(t) = L - 1
    BY <1>1, <2>2
  <2> QED BY <2>2, <2>4, <2>5
<1> HIDE DEF t, F
<1>3. FramesNest(nodes, t)
  <2>1. \A j \in 1..Len(t) : j \in 1..L /\ t[j] = stack[j]
    BY <1>1, <1>2
  <2> HIDE DEF L
  <2> QED BY <1>2, <2>1 DEF FramesNest, F, L
<1>4. Rest(nodes, stack[L]) = {}
  BY <1>1, RestNone DEF F
<1>5. Left(nodes, t) = Left(nodes, stack)
  <2>1. 1..L = 1..Len(t) \cup {L} /\ \A j \in 1..Len(t) : t[j] = stack[j]
    BY <1>1, <1>2
  <2> HIDE DEF L
  <2> QED BY <1>4, <2>1 DEF Left, L
<1> QED BY <1>2, <1>3, <1>5 DEF t

\* The child that is next, the stack past it, and the stack with a frame for it.
Descends(nodes, stack, c, moved, t) ==
    /\ stack # << >>
    /\ stack[Len(stack)].index < Len(KidsOf(nodes, stack[Len(stack)].parent))
    /\ c = KidsOf(nodes, stack[Len(stack)].parent)[stack[Len(stack)].index + 1]
    /\ moved = [stack EXCEPT ![Len(stack)] = Moved(stack[Len(stack)])]
    /\ t = IF KidsOf(nodes, c) # << >> THEN Append(moved, Frame(c)) ELSE moved

(* Descend takes the first element of what the walk has before it.             *)
LEMMA DescendStep ==
  ASSUME NEW nodes, Tree(nodes), NEW stack, FramesNest(nodes, stack),
         NEW c, NEW moved, NEW t, Descends(nodes, stack, c, moved, t)
  PROVE  /\ FramesNest(nodes, t) /\ Left(nodes, t) = Left(nodes, stack) \ {c}
         /\ Len(t) \in Nat /\ Len(t) <= Len(stack) + 1
         /\ c \in DOMAIN nodes /\ c \in Left(nodes, stack)
         /\ \A n \in Left(nodes, stack) : n # c => Precedes(nodes, c, n)
<1> DEFINE F == FrameOf(nodes)
           L == Len(stack)
           f == stack[L]
           p == f.parent
           k == f.index
           kids(j) == KidsOf(nodes, stack[j].parent)
<1>0. /\ stack # << >>
      /\ f.index < Len(KidsOf(nodes, f.parent))
      /\ c = KidsOf(nodes, f.parent)[f.index + 1]
      /\ moved = [stack EXCEPT ![L] = Moved(f)]
      /\ t = IF KidsOf(nodes, c) # << >> THEN Append(moved, Frame(c)) ELSE moved
  BY DEF Descends
<1>1. stack \in Seq(F) /\ L \in Nat /\ L >= 1 /\ \A j \in 1..L : stack[j] \in F
  <2>1. stack \in Seq(F)
    BY DEF FramesNest
  <2> HIDE DEF F
  <2> QED BY <1>0, <2>1, EmptySeq
<1>2. L \in 1..L /\ f \in F
  BY <1>1
<1>3. p \in DOMAIN nodes \cup {Head0} /\ k \in Nat
  BY <1>2 DEF FrameOf
<1>4. Moved(f) \in F /\ Moved(f).parent = p /\ Moved(f).index = k + 1
  BY <1>2 DEF FrameOf, Moved
<1>5. /\ moved \in Seq(F) /\ Len(moved) = L /\ moved[L] = Moved(f)
      /\ \A j \in 1..(L - 1) : moved[j] = stack[j]
  <2>1. moved = [stack EXCEPT ![L] = Moved(f)]
    BY <1>0
  <2> HIDE DEF F, f, L
  <2>2. /\ [stack EXCEPT ![L] = Moved(f)] \in Seq(F)
        /\ Len([stack EXCEPT ![L] = Moved(f)]) = L
        /\ \A j \in 1..L : [stack EXCEPT ![L] = Moved(f)][j] = IF j = L THEN Moved(f) ELSE stack[j]
    BY <1>1, <1>2, <1>4, ExceptSeq DEF L
  <2>3. \A j \in 1..(L - 1) : j \in 1..L /\ j # L
    BY <1>1
  <2> QED BY <1>2, <2>1, <2>2, <2>3
<1>6. /\ c \in Below(nodes, p) /\ c \in DOMAIN nodes
      /\ Rest(nodes, f) = Sub(nodes, c) \cup Rest(nodes, Moved(f))
      /\ c \notin Rest(nodes, Moved(f))
      /\ \A n \in Rest(nodes, f) : n # c => Precedes(nodes, c, n)
  BY <1>0, <1>2, RestStep
<1>7. /\ Frame(c) \in F /\ Frame(c).parent = c
      /\ Rest(nodes, Frame(c)) = Sub(nodes, c) \ {c}
      /\ KidsOf(nodes, c) = << >> => Sub(nodes, c) \ {c} = {}
  BY <1>6, RestNew
<1>8. /\ t \in Seq(F) /\ Len(t) \in {L, L + 1} /\ \A j \in 1..L : t[j] = moved[j]
      /\ Len(t) = L + 1 => t[L + 1] = Frame(c)
      /\ Len(t) = L => KidsOf(nodes, c) = << >>
  <2>1. CASE KidsOf(nodes, c) = << >>
    <3>1. t = moved
      BY <1>0, <2>1
    <3> HIDE DEF L, F
    <3> QED BY <1>1, <1>5, <2>1, <3>1
  <2>2. CASE KidsOf(nodes, c) # << >>
    <3>1. t = Append(moved, Frame(c))
      BY <1>0, <2>2
    <3> HIDE DEF L, F
    <3>2. /\ Append(moved, Frame(c)) \in Seq(F) /\ Len(Append(moved, Frame(c))) = Len(moved) + 1
          /\ \A j \in 1..Len(moved) : Append(moved, Frame(c))[j] = moved[j]
          /\ Append(moved, Frame(c))[Len(moved) + 1] = Frame(c)
      BY <1>5, <1>7, AppendProperties
    <3> QED BY <1>1, <1>5, <3>1, <3>2
  <2> QED BY <2>1, <2>2
<1>9. \A j \in 1..(L - 1) : t[j] = stack[j]
  <2>1. \A j \in 1..(L - 1) : j \in 1..L
    BY <1>1
  <2> HIDE DEF L
  <2> QED BY <1>5, <1>8, <2>1
<1>10. t[L] = Moved(f)
  BY <1>2, <1>5, <1>8
<1>a. ASSUME NEW j \in 1..(L - 1)
      PROVE  /\ stack[j].index \in 1..Len(kids(j))
             /\ p \in Sub(nodes, kids(j)[stack[j].index])
  <2>1. j \in 1..L /\ j < L
    BY <1>1
  <2> QED BY <1>2, <2>1 DEF FramesNest
<1>b. ASSUME NEW j \in 1..(L - 1)
      PROVE  stack[j].parent \in DOMAIN nodes \cup {Head0} /\ stack[j].index \in Nat
  <2>1. j \in 1..L
    BY <1>1
  <2> QED BY <1>1, <2>1 DEF FrameOf
<1> HIDE DEF F, L, f, p, k, kids
<1>11. ASSUME NEW j \in 1..(L - 1)
       PROVE  /\ c \in Sub(nodes, kids(j)[stack[j].index])
              /\ \A n \in Rest(nodes, stack[j]) : Precedes(nodes, c, n)
  <2> DEFINE d == kids(j)[stack[j].index]
             m == Len(kids(j))
  <2>1. /\ m \in Nat /\ \A i \in 1..m : kids(j)[i] \in Below(nodes, stack[j].parent)
        /\ \A i, l \in 1..m : i < l => Before(kids(j)[i], kids(j)[l])
    BY <1>b, KidsInOrder DEF KidsOf, kids
  <2>2. stack[j].index \in 1..m /\ p \in Sub(nodes, d)
    BY <1>a
  <2>3. Rest(nodes, stack[j]) = UNION {Sub(nodes, kids(j)[i]) : i \in (stack[j].index + 1)..m}
    BY DEF Rest, kids
  <2> HIDE DEF m
  <2>4. d \in Below(nodes, stack[j].parent) /\ d \in DOMAIN nodes
    BY <2>1, <2>2 DEF Below
  <2>5. c \in Sub(nodes, d)
    <3>1. p \in DOMAIN nodes
      BY <2>2, <2>4, SubStep
    <3>2. nodes[c].previous_id = p
      BY <1>6 DEF Below
    <3>3. Up(nodes, c) = Up(nodes, p) \cup {c}
      BY <1>6, <3>2, UpStep
    <3>4. d \in Up(nodes, p)
      BY <2>2 DEF Sub
    <3> QED BY <1>6, <3>3, <3>4 DEF Sub
  <2>6. ASSUME NEW n \in Rest(nodes, stack[j]) PROVE Precedes(nodes, c, n)
    <3>1. PICK i \in (stack[j].index + 1)..m : n \in Sub(nodes, kids(j)[i])
      BY <2>3
    <3>2. i \in 1..m /\ stack[j].index < i
      BY <1>b, <2>1, <3>1
    <3>3. Before(d, kids(j)[i]) /\ kids(j)[i] \in Below(nodes, stack[j].parent)
      BY <2>1, <2>2, <3>2
    <3> HIDE DEF d
    <3> QED BY <1>b, <2>4, <2>5, <3>1, <3>3, SiblingsFollow
  <2> QED BY <2>5, <2>6
<1> DEFINE Lower == UNION {Rest(nodes, stack[j]) : j \in 1..(L - 1)}
<1>12. Left(nodes, stack) = Lower \cup Rest(nodes, f)
  <2>1. 1..L = 1..(L - 1) \cup {L}
    BY <1>1
  <2> QED BY <2>1 DEF Left, L, f
<1>13. Left(nodes, t) = Lower \cup Rest(nodes, Moved(f)) \cup (Sub(nodes, c) \ {c})
  <2> DEFINE In(n, i) == n \in Rest(nodes, t[i])
  <2>3. \A n : n \in Left(nodes, t) <=> \E i \in 1..Len(t) : In(n, i)
    BY DEF Left
  <2>4. \A n : n \in Lower <=> \E i \in 1..(L - 1) : In(n, i)
    BY <1>9
  <2>5. \A n : In(n, L) <=> n \in Rest(nodes, Moved(f))
    BY <1>10
  <2>6. Len(t) = L + 1 => \A n : In(n, L + 1) <=> n \in Sub(nodes, c) \ {c}
    BY <1>7, <1>8
  <2> HIDE DEF In, Lower
  <2>1. CASE Len(t) = L + 1
    <3>1. \A i : i \in 1..Len(t) <=> i \in 1..(L - 1) \/ i = L \/ i = L + 1
      BY <1>1, <2>1
    <3>2. \A n : (\E i \in 1..Len(t) : In(n, i))
                 <=> (\E i \in 1..(L - 1) : In(n, i)) \/ In(n, L) \/ In(n, L + 1)
      BY <3>1, Zenon
    <3> QED BY <2>1, <2>3, <2>4, <2>5, <2>6, <3>2
  <2>2. CASE Len(t) = L
    <3>1. \A i : i \in 1..Len(t) <=> i \in 1..(L - 1) \/ i = L
      BY <1>1, <2>2
    <3>2. Sub(nodes, c) \ {c} = {}
      BY <1>7, <1>8, <2>2
    <3>3. \A n : (\E i \in 1..Len(t) : In(n, i)) <=> (\E i \in 1..(L - 1) : In(n, i)) \/ In(n, L)
      BY <3>1, Zenon
    <3> QED BY <2>3, <2>4, <2>5, <3>2, <3>3
  <2> QED BY <1>8, <2>1, <2>2
<1>14. \A n \in Lower : Precedes(nodes, c, n)
  BY <1>11
<1>15. c \notin Lower
  BY <1>6, <1>14, PrecedesIsOrder
<1>16. c \in Sub(nodes, c)
  BY <1>6, SubStep
<1> HIDE DEF Lower
<1>17. Left(nodes, t) = Left(nodes, stack) \ {c} /\ c \in Left(nodes, stack)
  BY <1>6, <1>12, <1>13, <1>15, <1>16
<1>18. \A n \in Left(nodes, stack) : n # c => Precedes(nodes, c, n)
  BY <1>6, <1>12, <1>14
<1>19. FramesNest(nodes, t)
  <2>1. ASSUME NEW j \in 1..Len(t), NEW l \in 1..Len(t), j < l
        PROVE  /\ t[j].index \in 1..Len(KidsOf(nodes, t[j].parent))
               /\ t[l].parent \in Sub(nodes, KidsOf(nodes, t[j].parent)[t[j].index])
    <3>0. /\ l \in 1..(L - 1) \/ l = L \/ (l = L + 1 /\ Len(t) = L + 1)
          /\ l = L => j \in 1..(L - 1)
          /\ l = L + 1 => j \in 1..(L - 1) \/ j = L
      <4>1. Len(t) = L \/ Len(t) = L + 1
        BY <1>8
      <4> QED BY <1>1, <2>1, <4>1
    <3>1. CASE l \in 1..(L - 1)
      <4>1. j \in 1..L /\ l \in 1..L /\ t[j] = stack[j] /\ t[l] = stack[l]
        BY <1>1, <1>8, <1>9, <2>1, <3>1
      <4> QED BY <2>1, <4>1 DEF FramesNest, L
    <3>2. CASE l = L
      <4>1. j \in 1..(L - 1) /\ t[j] = stack[j] /\ t[l].parent = p
        BY <1>4, <1>9, <1>10, <3>0, <3>2
      <4> QED BY <1>a, <4>1 DEF kids
    <3>3. CASE l = L + 1 /\ Len(t) = L + 1
      <4>1. t[l] = Frame(c)
        BY <1>8, <3>3
      <4>2. CASE j \in 1..(L - 1)
        <5>1. t[j] = stack[j]
          BY <1>9, <4>2
        <5> QED BY <1>7, <1>11, <1>a, <4>1, <4>2, <5>1 DEF kids
      <4>3. CASE j = L
        <5>1. t[j].parent = p /\ t[j].index = k + 1
          BY <1>4, <1>10, <4>3
        <5>2. c = KidsOf(nodes, p)[k + 1] /\ k < Len(KidsOf(nodes, p))
          BY <1>0 DEF k, p
        <5>3. Len(KidsOf(nodes, p)) \in Nat
          BY <1>3, KidsInOrder DEF KidsOf
        <5>4. k + 1 \in 1..Len(KidsOf(nodes, p))
          BY <1>3, <5>2, <5>3
        <5> QED BY <1>7, <1>16, <4>1, <5>1, <5>2, <5>4
      <4> QED BY <3>0, <3>3, <4>2, <4>3
    <3> QED BY <3>0, <3>1, <3>2, <3>3
  <2> QED BY <1>8, <2>1 DEF FramesNest, F
<1>20. Len(t) \in Nat /\ Len(t) <= L + 1
  BY <1>1, <1>8
<1> QED BY <1>6, <1>17, <1>18, <1>19, <1>20 DEF L

\* The walk after i iterations: what it has not before it any more is out, unless
\* deleted, and all of that comes before what it has; it has taken an iteration
\* for each element it descended to and for each frame it popped.
WalkInv(nodes, walk, i) ==
    LET left == Left(nodes, walk.stack)
    IN  /\ walk \in [stack : Seq(FrameOf(nodes)), output : Seq(DOMAIN nodes)]
        /\ FramesNest(nodes, walk.stack)
        /\ left \subseteq DOMAIN nodes
        /\ Lists(nodes, walk.output, Visible(nodes) \ left)
        /\ \A a \in DOMAIN nodes \ left, b \in left : Precedes(nodes, a, b)
        /\ \/ walk.stack = << >>
           \/ i + Len(walk.stack) <= 2 * Cardinality(DOMAIN nodes \ left) + 1

(* Each iteration keeps this.                                                  *)
LEMMA IterationStep ==
  ASSUME NEW nodes, Tree(nodes), NEW walk, NEW i \in Nat, WalkInv(nodes, walk, i)
  PROVE  WalkInv(nodes, Iteration(nodes, SiblingLists(nodes), walk), i + 1)
<1> DEFINE N == DOMAIN nodes
           F == FrameOf(nodes)
           S == Seq(F)
           O == Seq(N)
           stack == walk.stack
           L == Len(stack)
           f == stack[L]
           left == Left(nodes, stack)
           children == SiblingLists(nodes)
           next == Iteration(nodes, children, walk)
<1>1. /\ walk \in [stack : S, output : O] /\ FramesNest(nodes, stack) /\ left \subseteq N
      /\ Lists(nodes, walk.output, Visible(nodes) \ left)
      /\ \A a \in N \ left, b \in left : Precedes(nodes, a, b)
      /\ stack = << >> \/ i + L <= 2 * Cardinality(N \ left) + 1
  BY DEF WalkInv
<1>2. stack \in S /\ walk.output \in O /\ L \in Nat /\ (stack # << >> => L >= 1)
  <2>1. stack \in S /\ walk.output \in O
    <3> HIDE DEF S, O
    <3> QED BY <1>1
  <2> HIDE DEF F
  <2> QED BY <2>1, EmptySeq
<1>3. IsFiniteSet(N \ left) /\ Cardinality(N \ left) \in Nat
  <2>1. IsFiniteSet(N)
    BY DEF Tree, IsNodeMap
  <2> QED BY <2>1, FS_Subset, FS_CardinalityType
<1>4. CASE stack = << >>
  <2>1. next = walk
    BY <1>4 DEF Iteration
  <2> QED BY <1>4, <2>1 DEF WalkInv
<1>5. CASE stack # << >> /\ f.index >= Len(KidsOf(nodes, f.parent))
  <2> DEFINE t == SubSeq(stack, 1, L - 1)
  <2>1. next = [walk EXCEPT !.stack = t]
    BY <1>5 DEF Iteration, Pop, Top, KidsOf
  <2>2. FramesNest(nodes, t) /\ Left(nodes, t) = left /\ Len(t) = L - 1
    BY <1>1, <1>5, PopStep
  <2>a. t \in S
    BY <2>2 DEF FramesNest
  <2> HIDE DEF t, S, O, next
  <2>3. next.stack = t /\ next.output = walk.output /\ next \in [stack : S, output : O]
    BY <1>1, <2>1, <2>a
  <2>4. i + 1 + Len(t) <= 2 * Cardinality(N \ left) + 1
    BY <1>1, <1>2, <1>3, <1>5, <2>2
  <2> HIDE DEF left
  <2>5. Left(nodes, next.stack) = left
    BY <2>2, <2>3
  <2> QED BY <1>1, <2>2, <2>3, <2>4, <2>5 DEF WalkInv, S, O, next
<1>6. CASE stack # << >> /\ ~(f.index >= Len(KidsOf(nodes, f.parent)))
  <2> DEFINE c == KidsOf(nodes, f.parent)[f.index + 1]
             moved == [stack EXCEPT ![L].index = @ + 1]
             t == IF KidsOf(nodes, c) # << >> THEN Append(moved, Frame(c)) ELSE moved
             out == IF nodes[c].deleted THEN walk.output ELSE Append(walk.output, c)
  <2>1. next = [output |-> out, stack |-> t]
    BY <1>6 DEF Iteration, Descend, Top, KidsOf
  <2>2. f.index < Len(KidsOf(nodes, f.parent))
    <3>1. f \in F
      <4> HIDE DEF F
      <4> QED BY <1>2, <1>6
    <3>2. f.parent \in N \cup {Head0} /\ f.index \in Nat
      BY <3>1 DEF FrameOf
    <3>3. Len(KidsOf(nodes, f.parent)) \in Nat
      BY <3>2, KidsInOrder DEF KidsOf
    <3> QED BY <1>6, <3>2, <3>3
  <2>3. /\ FramesNest(nodes, t) /\ Left(nodes, t) = left \ {c}
        /\ Len(t) \in Nat /\ Len(t) <= L + 1
        /\ c \in N /\ c \in left
        /\ \A n \in left : n # c => Precedes(nodes, c, n)
    <3>1. FramesNest(nodes, stack) /\ stack # << >>
      BY <1>1, <1>6
    <3>2. c = KidsOf(nodes, stack[Len(stack)].parent)[stack[Len(stack)].index + 1]
      OBVIOUS
    <3>3. moved = [stack EXCEPT ![Len(stack)] = Moved(stack[Len(stack)])]
      BY <1>2 DEF Moved
    <3>4. t = IF KidsOf(nodes, c) # << >> THEN Append(moved, Frame(c)) ELSE moved
      OBVIOUS
    <3>5. stack[Len(stack)].index < Len(KidsOf(nodes, stack[Len(stack)].parent))
      BY <2>2
    <3>6. left = Left(nodes, stack) /\ L = Len(stack) /\ N = DOMAIN nodes
      OBVIOUS
    <3> HIDE DEF c, moved, t, left, L, f, N, stack
    <3>7. Descends(nodes, stack, c, moved, t)
      BY <3>1, <3>2, <3>3, <3>4, <3>5 DEF Descends
    <3>8. /\ FramesNest(nodes, t) /\ Left(nodes, t) = Left(nodes, stack) \ {c}
          /\ Len(t) \in Nat /\ Len(t) <= Len(stack) + 1
          /\ c \in DOMAIN nodes /\ c \in Left(nodes, stack)
          /\ \A n \in Left(nodes, stack) : n # c => Precedes(nodes, c, n)
      BY <3>1, <3>7, DescendStep
    <3> QED BY <3>6, <3>8
  <2>a. t \in S
    BY <2>3 DEF FramesNest
  <2> HIDE DEF t, c, left
  <2>4. Lists(nodes, out, Visible(nodes) \ (left \ {c}))
    <3>1. CASE nodes[c].deleted
      <4>1. out = walk.output /\ c \notin Visible(nodes)
        BY <3>1 DEF Visible
      <4>2. Visible(nodes) \ (left \ {c}) = Visible(nodes) \ left
        BY <4>1
      <4> QED BY <1>1, <4>1, <4>2
    <3>2. CASE ~nodes[c].deleted
      <4>1. out = Append(walk.output, c) /\ c \in Visible(nodes) /\ Visible(nodes) \subseteq N
        BY <2>3, <3>2 DEF Visible
      <4>2. Visible(nodes) \ (left \ {c}) = (Visible(nodes) \ left) \cup {c}
        BY <4>1
      <4>3. \A a \in Visible(nodes) \ left : Precedes(nodes, a, c)
        BY <1>1, <2>3, <4>1
      <4>4. Lists(nodes, Append(walk.output, c), (Visible(nodes) \ left) \cup {c})
        BY <1>1, <2>3, <4>3, ListsAppend
      <4> QED BY <4>1, <4>2, <4>4
    <3> QED BY <3>1, <3>2
  <2>5. ASSUME NEW a \in N \ (left \ {c}), NEW b \in left \ {c} PROVE Precedes(nodes, a, b)
    BY <1>1, <2>3
  <2>6. Cardinality(N \ (left \ {c})) = Cardinality(N \ left) + 1
    <3>1. N \ (left \ {c}) = (N \ left) \cup {c} /\ c \notin N \ left
      BY <2>3
    <3> QED BY <1>3, <3>1, FS_AddElement
  <2>b. out \in O
    BY <2>4 DEF Lists
  <2> HIDE DEF out, S, O, next
  <2>7. next.stack = t /\ next.output = out /\ next \in [stack : S, output : O]
    BY <2>1, <2>a, <2>b
  <2>8. i + 1 + Len(t) <= 2 * Cardinality(N \ (left \ {c})) + 1
    BY <1>1, <1>2, <1>3, <1>6, <2>3, <2>6
  <2>9. Left(nodes, next.stack) = left \ {c}
    BY <2>3, <2>7
  <2>10. left \ {c} \subseteq N
    BY <1>1
  <2> QED BY <2>3, <2>4, <2>5, <2>7, <2>8, <2>9, <2>10 DEF WalkInv, S, O, next
<1> QED BY <1>4, <1>5, <1>6

(* The first walk has everything before it.                                    *)
LEMMA WalkStarts ==
  ASSUME NEW nodes, Tree(nodes)
  PROVE  WalkInv(nodes, [stack |-> <<Frame(Head0)>>, output |-> << >>], 0)
<1> DEFINE s == <<Frame(Head0)>>
           F == FrameOf(nodes)
           S == Seq(F)
           O == Seq(DOMAIN nodes)
           walk == [stack |-> s, output |-> << >>]
<1>1. /\ Frame(Head0) \in F
      /\ Rest(nodes, Frame(Head0)) = DOMAIN nodes
  BY RestNew, SubOfHead
<1>2. s \in S /\ Len(s) = 1 /\ s[1] = Frame(Head0)
  <2> HIDE DEF F
  <2> QED BY <1>1
<1>3. Left(nodes, s) = DOMAIN nodes
  <2> HIDE DEF s
  <2>1. 1..Len(s) = {1}
    BY <1>2
  <2> QED BY <1>1, <1>2, <2>1 DEF Left
<1>4. FramesNest(nodes, s)
  <2> HIDE DEF s
  <2> QED BY <1>2 DEF FramesNest
<1>5. Visible(nodes) \ DOMAIN nodes = {} /\ DOMAIN nodes \ DOMAIN nodes = {}
  BY DEF Visible
<1>6. Lists(nodes, << >>, Visible(nodes) \ DOMAIN nodes)
  BY <1>5, ListsFew
<1>7. << >> \in O
  OBVIOUS
<1>8. 0 + Len(s) <= 2 * Cardinality(DOMAIN nodes \ DOMAIN nodes) + 1
  BY <1>2, <1>5, FS_EmptySet
<1> HIDE DEF s, S, O
<1>9. walk.stack = s /\ walk.output = << >> /\ walk \in [stack : S, output : O]
  BY <1>2, <1>7
<1> HIDE DEF walk
<1>10. WalkInv(nodes, walk, 0)
  BY <1>3, <1>4, <1>6, <1>8, <1>9 DEF WalkInv, S, O
<1> QED BY <1>10 DEF walk, s

(* There is a walk for every iteration up to the m-th.                         *)
LEMMA WalkTable ==
  ASSUME NEW nodes, Tree(nodes), NEW m \in Nat,
         NEW walk, walk = CHOOSE w : w = [i \in 0..m |->
            IF i = 0 THEN [stack |-> <<Frame(Head0)>>, output |-> << >>]
            ELSE Iteration(nodes, SiblingLists(nodes), w[i - 1])]
  PROVE  WalkInv(nodes, walk[m], m)
<1> DEFINE first == [stack |-> <<Frame(Head0)>>, output |-> << >>]
           step(w) == Iteration(nodes, SiblingLists(nodes), w)
           Body(w, k) == [i \in 0..k |-> IF i = 0 THEN first ELSE step(w[i - 1])]
           Bad == {k \in 0..m : ~\E w : w = Body(w, k)}
<1>0. WalkInv(nodes, first, 0)
  BY WalkStarts
<1>1. \A w, i : i \in Nat /\ WalkInv(nodes, w, i) => WalkInv(nodes, step(w), i + 1)
  BY IterationStep
<1>2. walk = CHOOSE w : w = Body(w, m)
  OBVIOUS
<1> HIDE DEF first, step
<1>3. Bad = {}
  <2> SUFFICES ASSUME Bad # {} PROVE FALSE
    OBVIOUS
  <2>1. Bad \subseteq Nat
    OBVIOUS
  <2>2. PICK k \in Bad : \A j \in Bad : k <= j
    BY <2>1, Least
  <2>3. k \in 0..m /\ ~\E w : w = Body(w, k)
    BY <2>2
  <2>4. CASE k = 0
    <3> DEFINE w == [i \in 0..k |-> first]
    <3>1. w = Body(w, k)
      BY <2>4
    <3> QED BY <2>3, <3>1
  <2>5. CASE k # 0
    <3>1. k - 1 \in 0..m /\ ~(k <= k - 1) /\ k \in Nat /\ k >= 1
      BY <2>3, <2>5
    <3>2. k - 1 \notin Bad
      <4> HIDE DEF Bad
      <4> QED BY <2>2, <3>1
    <3>3. PICK v : v = Body(v, k - 1)
      BY <3>1, <3>2
    <3>4. \A i \in 0..(k - 1) : v[i] = IF i = 0 THEN first ELSE step(v[i - 1])
      BY <3>3
    <3> DEFINE w == [i \in 0..k |-> IF i = k THEN step(v[k - 1]) ELSE v[i]]
    <3>5. ASSUME NEW i \in 0..k PROVE w[i] = IF i = 0 THEN first ELSE step(w[i - 1])
      <4>1. CASE i = k
        <5>1. i - 1 \in 0..k /\ i - 1 # k /\ i # 0
          BY <3>1, <4>1
        <5>2. w[i] = step(v[k - 1]) /\ w[i - 1] = v[i - 1]
          BY <4>1, <5>1
        <5> HIDE DEF w
        <5> QED BY <4>1, <5>1, <5>2
      <4>2. CASE i # k
        <5>1. i \in 0..(k - 1) /\ w[i] = v[i]
          BY <3>1, <4>2
        <5>2. CASE i = 0
          BY <3>4, <5>1, <5>2
        <5>3. CASE i # 0
          <6>1. i - 1 \in 0..k /\ i - 1 # k
            BY <3>1, <5>1, <5>3
          <6>2. w[i - 1] = v[i - 1]
            BY <6>1
          <6> HIDE DEF w
          <6> QED BY <3>4, <5>1, <5>3, <6>2
        <5> QED BY <5>2, <5>3
      <4> QED BY <4>1, <4>2
    <3>6. w = [i \in 0..k |-> w[i]]
      OBVIOUS
    <3> HIDE DEF w
    <3>7. [i \in 0..k |-> w[i]] = Body(w, k)
      BY <3>5, Zenon
    <3> QED BY <2>3, <3>6, <3>7
  <2> QED BY <2>4, <2>5
<1>4. walk = Body(walk, m)
  <2>1. m \in 0..m
    OBVIOUS
  <2>2. \E w : w = Body(w, m)
    BY <1>3, <2>1
  <2> HIDE DEF Body
  <2> QED BY <1>2, <2>2
<1>5. \A i \in 0..m : walk[i] = IF i = 0 THEN first ELSE step(walk[i - 1])
  BY <1>4
<1> DEFINE Lost == {i \in 0..m : ~WalkInv(nodes, walk[i], i)}
<1>6. Lost = {}
  <2> SUFFICES ASSUME Lost # {} PROVE FALSE
    OBVIOUS
  <2>1. Lost \subseteq Nat
    OBVIOUS
  <2>2. PICK k \in Lost : \A j \in Lost : k <= j
    BY <2>1, Least
  <2>3. k \in 0..m /\ ~WalkInv(nodes, walk[k], k)
    BY <2>2
  <2>4. k # 0
    BY <1>0, <1>5, <2>3
  <2>5. k - 1 \in 0..m /\ ~(k <= k - 1) /\ k - 1 \in Nat /\ (k - 1) + 1 = k
    BY <2>3, <2>4
  <2>6. k - 1 \notin Lost
    <3> HIDE DEF Lost
    <3> QED BY <2>2, <2>5
  <2>7. WalkInv(nodes, walk[k - 1], k - 1)
    BY <2>5, <2>6
  <2>8. WalkInv(nodes, step(walk[k - 1]), (k - 1) + 1)
    BY <1>1, <2>5, <2>7
  <2> QED BY <1>5, <2>3, <2>4, <2>5, <2>8
<1> QED BY <1>6

(* The explicit stack ends empty and emits what the recursion visits.          *)
THEOREM WalksAgree ==
  ASSUME NEW nodes, Tree(nodes)
  PROVE  LET walk == Walked(nodes, SiblingLists(nodes))
         IN  /\ walk.stack = << >>
             /\ Lists(nodes, walk.output, Visible(nodes))
             /\ walk.output = RenderedIds(nodes, SiblingLists(nodes))
<1> DEFINE N == DOMAIN nodes
           m == 2 * Cardinality(N) + 1
           w == CHOOSE w : w = [i \in 0..m |->
                   IF i = 0 THEN [stack |-> <<Frame(Head0)>>, output |-> << >>]
                   ELSE Iteration(nodes, SiblingLists(nodes), w[i - 1])]
           walk == Walked(nodes, SiblingLists(nodes))
           left == Left(nodes, walk.stack)
<1>1. walk = w[m]
  BY Zenon DEF Walked
<1>2. IsFiniteSet(N) /\ Cardinality(N) \in Nat
  BY FS_CardinalityType DEF Tree, IsNodeMap
<1>3. m \in Nat
  BY <1>2
<1> HIDE DEF m
<1>4. WalkInv(nodes, w[m], m)
  BY <1>3, WalkTable
<1> HIDE DEF w, walk
<1>5. /\ walk.stack \in Seq(FrameOf(nodes)) /\ left \subseteq N
      /\ Lists(nodes, walk.output, Visible(nodes) \ left)
      /\ walk.stack = << >> \/ m + Len(walk.stack) <= 2 * Cardinality(N \ left) + 1
  BY <1>1, <1>4 DEF WalkInv
<1>6. Cardinality(N \ left) \in Nat /\ Cardinality(N \ left) <= Cardinality(N)
  BY <1>2, FS_Subset, FS_CardinalityType
<1>7. walk.stack = << >>
  <2> SUFFICES ASSUME walk.stack # << >> PROVE FALSE
    OBVIOUS
  <2>1. Len(walk.stack) \in Nat /\ Len(walk.stack) >= 1
    BY <1>5, EmptySeq
  <2> QED BY <1>2, <1>5, <1>6, <2>1 DEF m
<1>8. left = {}
  <2>1. 1..Len(walk.stack) = {}
    BY <1>7
  <2> QED BY <2>1 DEF Left
<1>9. Lists(nodes, walk.output, Visible(nodes))
  <2>1. Visible(nodes) \ left = Visible(nodes)
    BY <1>8
  <2> HIDE DEF left
  <2> QED BY <1>5, <2>1
<1>10. walk.output = RenderedIds(nodes, SiblingLists(nodes))
  BY <1>9, RenderedLists, ListsAgree
<1> QED BY <1>7, <1>9, <1>10 DEF walk

-----------------------------------------------------------------------------
(* The order of a document that grows.                                         *)

(* Of two elements one comes first.                                            *)
LEMMA PrecedesTotal ==
  ASSUME NEW nodes, Tree(nodes), NEW a \in DOMAIN nodes, NEW b \in DOMAIN nodes, a # b
  PROVE  Precedes(nodes, a, b) \/ Precedes(nodes, b, a)
<1> DEFINE P == Path(nodes)
           p == P[a]
           q == P[b]
           N == DOMAIN nodes
           Bad == {i \in 1..Len(p) : ~(i <= Len(q) /\ p[i] = q[i])}
<1>1. /\ p \in Seq(N) /\ Len(p) \in Nat /\ Len(p) >= 1 /\ p[Len(p)] = a
      /\ q \in Seq(N) /\ Len(q) \in Nat /\ Len(q) >= 1 /\ q[Len(q)] = b
  BY PathStep
<1>a. N \subseteq Id
  BY DEF Tree, IsNodeMap
<1> SUFFICES LexBefore(p, q) \/ LexBefore(q, p)
  BY PrecedesIs
<1> HIDE DEF P, p, q
<1>2. CASE Bad = {}
  <2>1. \A i \in 1..Len(p) : i <= Len(q) /\ p[i] = q[i]
    BY <1>2
  <2>2. Len(p) \in 1..Len(p)
    BY <1>1
  <2>3. Len(p) <= Len(q) /\ p[Len(p)] = q[Len(p)]
    BY <2>1, <2>2
  <2>4. Len(p) # Len(q)
    BY <1>1, <2>3
  <2>5. Len(p) < Len(q)
    BY <1>1, <2>3, <2>4
  <2> QED BY <2>1, <2>5 DEF LexBefore
<1>3. CASE Bad # {}
  <2>1. Bad \subseteq Nat
    OBVIOUS
  <2>2. PICK i \in Bad : \A j \in Bad : i <= j
    BY <1>3, <2>1, Least
  <2>3. i \in 1..Len(p) /\ ~(i <= Len(q) /\ p[i] = q[i])
    BY <2>2
  <2>4. ASSUME NEW j \in 1..Len(p), j < i PROVE j <= Len(q) /\ p[j] = q[j]
    <3>1. j \notin Bad
      <4>1. j \in Bad => i <= j
        BY <2>2
      <4> QED BY <2>3, <2>4, <4>1
    <3> QED BY <3>1
  <2> HIDE DEF Bad
  <2>a. \A j \in 1..(i - 1) : j \in 1..Len(p) /\ j < i
    BY <1>1, <2>3
  <2>b. \A j \in 1..(i - 1) : j <= Len(q) /\ p[j] = q[j]
    BY <2>4, <2>a
  <2>5. CASE i <= Len(q)
    <3>1. i \in 1..Len(q) /\ p[i] # q[i]
      BY <1>1, <2>3, <2>5
    <3>2. p[i] \in Id /\ q[i] \in Id
      BY <1>1, <1>a, <2>3, <3>1
    <3>3. Before(p[i], q[i]) \/ Before(q[i], p[i])
      BY <3>1, <3>2, BeforeIsOrder
    <3>4. i <= Len(p)
      BY <1>1, <2>3
    <3> QED BY <2>3, <2>5, <2>b, <3>1, <3>3, <3>4 DEF LexBefore
  <2>6. CASE ~(i <= Len(q))
    <3>1. Len(q) <= i - 1 /\ Len(q) < Len(p)
      <4>1. CASE i = 1
        BY <1>1, <2>6, <4>1
      <4> QED BY <1>1, <2>3, <2>6
    <3>2. \A j \in 1..Len(q) : j \in 1..(i - 1)
      BY <1>1, <2>3, <3>1
    <3>3. \A j \in 1..Len(q) : q[j] = p[j]
      BY <2>b, <3>2
    <3> QED BY <3>1, <3>3 DEF LexBefore
  <2> QED BY <2>5, <2>6
<1> QED BY <1>2, <1>3

(* What comes after an element and was not inserted after it comes after all   *)
(* that was.                                                                   *)
LEMMA SubTogether ==
  ASSUME NEW nodes, Tree(nodes), NEW a \in DOMAIN nodes, NEW b \in DOMAIN nodes,
         Precedes(nodes, a, b), b \notin Sub(nodes, a), NEW n \in Sub(nodes, a)
  PROVE  Precedes(nodes, n, b)
<1> DEFINE P == Path(nodes)
           N == DOMAIN nodes
           p == P[a]
           q == P[b]
           r == P[n]
<1>1. LexBefore(p, q)
  BY PrecedesIs
<1>2. a # Head0 /\ b # Head0 /\ n \in N \cup {Head0} /\ a \in Up(nodes, n) /\ a \notin Up(nodes, b)
  BY HeadIsNoId DEF Sub, Tree, IsNodeMap
<1>3. n \in N /\ a \in Range(r) /\ a \notin Range(q)
  BY <1>2 DEF Up
<1>4. /\ p \in Seq(N) /\ Len(p) \in Nat /\ Len(p) >= 1 /\ p[Len(p)] = a
      /\ q \in Seq(N) /\ Len(q) \in Nat
      /\ r \in Seq(N) /\ Len(r) \in Nat
  BY <1>3, PathStep
<1>5. PICK k \in 1..Len(r) : a = r[k]
  BY <1>3, <1>4 DEF Range
<1>6. Len(p) = k /\ \A j \in 1..k : p[j] = r[j]
  BY <1>3, <1>5, PathNests
<1>7. ASSUME NEW i \in 1..Len(q) PROVE q[i] # a
  BY <1>3, <1>4 DEF Range
<1> HIDE DEF P, p, q, r
<1>8. ~(Len(p) < Len(q) /\ \A j \in 1..Len(p) : p[j] = q[j])
  <2> SUFFICES ASSUME Len(p) < Len(q), \A j \in 1..Len(p) : p[j] = q[j] PROVE FALSE
    OBVIOUS
  <2>1. Len(p) \in 1..Len(p) /\ Len(p) \in 1..Len(q)
    BY <1>4
  <2> QED BY <1>4, <1>7, <2>1
<1>9. PICK i \in 1..Len(p) : /\ i <= Len(q)
                             /\ \A j \in 1..(i - 1) : p[j] = q[j]
                             /\ Before(p[i], q[i])
  BY <1>1, <1>8 DEF LexBefore
<1>10. i \in 1..Len(r) /\ i \in 1..k /\ \A j \in 1..(i - 1) : j \in 1..k
  BY <1>4, <1>6
<1>11. Before(r[i], q[i]) /\ \A j \in 1..(i - 1) : r[j] = q[j]
  BY <1>6, <1>9, <1>10
<1>12. LexBefore(r, q)
  BY <1>9, <1>10, <1>11 DEF LexBefore
<1> QED BY <1>3, <1>12, PrecedesIs DEF P, q, r

(* Chains stay what they are when elements are added.                          *)
LEMMA PathGrows ==
  ASSUME NEW old, Tree(old), NEW new, Tree(new), DOMAIN old \subseteq DOMAIN new,
         \A n \in DOMAIN old : new[n].previous_id = old[n].previous_id,
         NEW n \in DOMAIN old
  PROVE  Path(new)[n] = Path(old)[n]
<1> DEFINE C == DOMAIN old
           f == Path(old)
<1>1. Solves(old, C, f)
  BY PathSolves DEF Tree
<1>2. Solves(new, DOMAIN new, Path(new))
  BY PathSolves DEF Tree
<1>3. /\ \A m \in C : old[m].previous_id \in C \cup {Head0}
      /\ f \in [C -> Seq(C)]
      /\ \A m \in C : f[m] = IF old[m].previous_id = Head0 THEN <<m>>
                             ELSE Append(f[old[m].previous_id], m)
  BY <1>1 DEF Solves
<1> HIDE DEF f
<1>4. f \in [C -> Seq(DOMAIN new)]
  <2> DEFINE S == Seq(C)
             T == Seq(DOMAIN new)
  <2>1. \A s \in S : s \in T
    OBVIOUS
  <2> HIDE DEF S, T
  <2>2. f \in [C -> S]
    BY <1>3 DEF S
  <2>3. f \in [C -> T]
    BY <2>1, <2>2
  <2> QED BY <2>3 DEF T
<1>5. Solves(new, C, f)
  BY <1>3, <1>4 DEF Solves
<1> QED BY <1>2, <1>5, ChainsAgree DEF Tree, f

\* new has what old has, in its places, and more.
GrowsTo(old, new) ==
    /\ Tree(old) /\ Tree(new) /\ DOMAIN old \subseteq DOMAIN new
    /\ \A n \in DOMAIN old : new[n].previous_id = old[n].previous_id

(* So does the order.                                                          *)
LEMMA OrderGrows ==
  ASSUME NEW old, NEW new, GrowsTo(old, new), NEW a \in DOMAIN old, NEW b \in DOMAIN old
  PROVE  Precedes(new, a, b) <=> Precedes(old, a, b)
<1>1. Path(new)[a] = Path(old)[a] /\ Path(new)[b] = Path(old)[b]
  BY PathGrows DEF GrowsTo
<1>2. /\ Precedes(new, a, b) <=> LexBefore(Path(new)[a], Path(new)[b])
      /\ Precedes(old, a, b) <=> LexBefore(Path(old)[a], Path(old)[b])
  BY PrecedesIs DEF GrowsTo
<1> QED BY <1>1, <1>2

(* And so do lists in that order.                                              *)
LEMMA ListsGrow ==
  ASSUME NEW old, NEW new, GrowsTo(old, new), NEW D, NEW s, Lists(old, s, D)
  PROVE  Lists(new, s, D)
<1>1. /\ s \in Seq(DOMAIN old) /\ Range(s) = D
      /\ \A i, j \in DOMAIN s : i < j => Precedes(old, s[i], s[j])
      /\ \A i \in DOMAIN s : s[i] \in DOMAIN old
  BY DEF Lists
<1>2. s \in Seq(DOMAIN new)
  <2>1. DOMAIN old \subseteq DOMAIN new
    BY DEF GrowsTo
  <2> QED BY <1>1, <2>1
<1>3. \A i, j \in DOMAIN s : i < j => Precedes(new, s[i], s[j])
  BY <1>1, OrderGrows
<1> QED BY <1>1, <1>2, <1>3 DEF Lists

(* A part of a list.                                                           *)
LEMMA ListsPart ==
  ASSUME NEW nodes, NEW D, NEW s, Lists(nodes, s, D),
         NEW a \in Nat, NEW b \in Nat, b <= Len(s)
  PROVE  /\ Lists(nodes, SubSeq(s, a + 1, b), {s[i] : i \in (a + 1)..b})
         /\ a <= b => Len(SubSeq(s, a + 1, b)) = b - a
         /\ \A i \in 1..(b - a) : SubSeq(s, a + 1, b)[i] = s[a + i]
<1> DEFINE N == DOMAIN nodes
           r == SubSeq(s, a + 1, b)
<1>1. s \in Seq(N) /\ Len(s) \in Nat /\ DOMAIN s = 1..Len(s) /\ \A i \in 1..Len(s) : s[i] \in N
  BY DEF Lists
<1>2. /\ r \in Seq(N)
      /\ Len(r) = IF a + 1 <= b THEN b - (a + 1) + 1 ELSE 0
      /\ \A i \in 1..(b - (a + 1) + 1) : r[i] = s[(a + 1) + i - 1]
  <2>1. a + 1 \in Int /\ b \in Int /\ \A i \in (a + 1)..b : s[i] \in N
    BY <1>1
  <2> QED BY <2>1, SubSeqProperties
<1> HIDE DEF r
<1>3. /\ b - (a + 1) + 1 = b - a /\ (a <= b => Len(r) = b - a) /\ (~(a <= b) => Len(r) = 0)
      /\ \A i \in 1..(b - a) : (a + 1) + i - 1 = a + i
  BY <1>2
<1>4. \A i \in 1..(b - a) : r[i] = s[a + i]
  BY <1>2, <1>3
<1>5. DOMAIN r = 1..(b - a)
  <2>1. DOMAIN r = 1..Len(r)
    BY <1>2
  <2> QED BY <1>3, <2>1
<1>6. Range(r) = {s[i] : i \in (a + 1)..b}
  <2>1. ASSUME NEW i \in 1..(b - a) PROVE a + i \in (a + 1)..b
    OBVIOUS
  <2>2. ASSUME NEW i \in (a + 1)..b PROVE i - a \in 1..(b - a) /\ r[i - a] = s[i]
    <3>1. i - a \in 1..(b - a) /\ a + (i - a) = i
      OBVIOUS
    <3> QED BY <1>4, <3>1
  <2> QED BY <1>4, <1>5, <2>1, <2>2 DEF Range
<1>7. \A i, j \in DOMAIN r : i < j => Precedes(nodes, r[i], r[j])
  <2> SUFFICES ASSUME NEW i \in 1..(b - a), NEW j \in 1..(b - a), i < j
               PROVE  Precedes(nodes, r[i], r[j])
    BY <1>5
  <2>1. a + i \in DOMAIN s /\ a + j \in DOMAIN s /\ a + i < a + j
    BY <1>1
  <2>2. Precedes(nodes, s[a + i], s[a + j])
    BY <2>1 DEF Lists
  <2> QED BY <1>4, <2>2
<1>8. Lists(nodes, r, {s[i] : i \in (a + 1)..b})
  BY <1>2, <1>6, <1>7 DEF Lists
<1> QED BY <1>3, <1>4, <1>8 DEF r
====

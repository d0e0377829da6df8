--------------------------- MODULE TextSessionProofs ---------------------------
(* Any number of pages with the textarea, any texts typed into it, and any     *)
(* payloads sent to the server: what is typed lands in the page's replica as   *)
(* the diff says, no letter is lost between the two, nothing that arrives       *)
(* leaves a replica ill formed, and payloads are taken whole or not at all.     *)
EXTENDS TextSession, RenderTheorems

-----------------------------------------------------------------------------
(* Parts of lists.                                                             *)

\* A are the lists Within goes through.
Filtered(A, list, W, S) ==
    /\ A \in [0..Len(list) -> Seq(S)]
    /\ A[0] = << >>
    /\ \A i \in 1..Len(list) :
          A[i] = IF list[i] \in W THEN Append(A[i - 1], list[i]) ELSE A[i - 1]

(* Within takes the elements of the list in their order, one at a time.        *)
LEMMA WithinRun ==
  ASSUME NEW S, NEW list \in Seq(S), NEW W
  PROVE  \E A : Filtered(A, list, W, S) /\ Within(list, W) = A[Len(list)]
<1> DEFINE m == Len(list)
           Next1(a, n) == IF n \in W THEN Append(a, n) ELSE a
           Body(f) == [s \in SUBSET (DOMAIN list) |->
                          IF s = {} THEN << >>
                          ELSE IF list[Max(s)] \in W THEN Append(f[s \ {Max(s)}], list[Max(s)])
                               ELSE f[s \ {Max(s)}]]
           g == [p \in Seq(S) \X (1..m) |-> Next1(p[1], list[p[2]])]
<1>1. Within(list, W) = (CHOOSE f : f = Body(f))[DOMAIN list]
  BY Zenon DEF Within, FoldLeft, MapThenFoldSet
<1>b. m \in Nat /\ DOMAIN list = 1..m /\ \A i \in 1..m : list[i] \in S
  OBVIOUS
<1>2. \A a \in Seq(S), i \in 1..m : Next1(a, list[i]) \in Seq(S)
  BY <1>b, AppendProperties
<1>3. g \in [Seq(S) \X (1..m) -> Seq(S)]
  <2>1. \A p \in Seq(S) \X (1..m) : p[1] \in Seq(S) /\ p[2] \in 1..m
    OBVIOUS
  <2> HIDE DEF Next1
  <2> QED BY <1>2, <2>1
<1>4. \A a \in Seq(S), i \in 1..m : g[<<a, i>>] = Next1(a, list[i])
  OBVIOUS
<1>a. << >> \in Seq(S)
  OBVIOUS
<1> HIDE DEF g, m
<1>5. \E f \in [SUBSET (1..m) -> Seq(S)] : f = Body(f)
  <2>1. PICK f \in [SUBSET (1..m) -> Seq(S)] : \A s \in SUBSET (1..m) :
            f[s] = IF s = {} THEN << >> ELSE g[<<f[s \ {Max(s)}], Max(s)>>]
    <3> HIDE DEF Body, Next1
    <3> DEFINE D == Seq(S)
               none == << >>
    <3> HIDE DEF D, none
    <3>1. g \in [D \X (1..m) -> D] /\ none \in D
      BY <1>3, <1>a DEF D, none
    <3>2. PICK f : Table(f, m, D, none, g)
      BY <1>b, <3>1, FoldTable
    <3>3. f \in [SUBSET (1..m) -> D] /\ \A s \in SUBSET (1..m) :
             f[s] = IF s = {} THEN none ELSE g[<<f[s \ {Max(s)}], Max(s)>>]
      BY <3>2 DEF Table
    <3> QED BY <3>3 DEF D, none
  <2>2. ASSUME NEW s \in SUBSET (1..m)
        PROVE  f[s] = IF s = {} THEN << >> ELSE Next1(f[s \ {Max(s)}], list[Max(s)])
    <3> HIDE DEF Next1
    <3>1. CASE s = {}
      BY <2>1, <3>1
    <3>2. CASE s # {}
      <4>1. Max(s) \in 1..m /\ s \ {Max(s)} \in SUBSET (1..m)
        BY <1>b, <3>2, MaxIs
      <4>2. f[s \ {Max(s)}] \in Seq(S)
        BY <4>1
      <4>3. f[s] = g[<<f[s \ {Max(s)}], Max(s)>>]
        BY <2>1, <3>2
      <4> QED BY <1>4, <3>2, <4>1, <4>2, <4>3
    <3> QED BY <3>1, <3>2
  <2>3. f = Body(f)
    BY <1>b, <2>2
  <2> QED BY <2>3
<1> DEFINE k == CHOOSE f : f = Body(f)
<1>6. k = Body(k)
  BY <1>5
<1> HIDE DEF k
<1>7. k[{}] = << >> /\ \A i \in 1..m : k[1..i] = Next1(k[1..(i - 1)], list[i])
  <2>1. k[{}] = << >>
    BY <1>6
  <2>2. ASSUME NEW i \in 1..m PROVE k[1..i] = Next1(k[1..(i - 1)], list[i])
    <3>1. /\ 1..i \in SUBSET (1..m) /\ 1..i # {}
          /\ Max(1..i) = i /\ (1..i) \ {i} = 1..(i - 1)
      BY <1>b, MaxOfFirst
    <3> QED BY <1>6, <1>b, <3>1
  <2> QED BY <2>1, <2>2
<1> DEFINE A == [i \in 0..m |-> k[1..i]]
<1>8. A[0] = << >> /\ A[m] = Within(list, W)
  <2>1. 1..0 = {} /\ 0 \in 0..m /\ m \in 0..m
    BY <1>b
  <2>2. Within(list, W) = k[1..m]
    BY <1>1, <1>b DEF k
  <2> HIDE DEF Body
  <2> QED BY <1>7, <2>1, <2>2
<1>9. \A i \in 1..m : A[i] = Next1(A[i - 1], list[i])
  <2> HIDE DEF Next1
  <2> QED BY <1>7, <1>b
<1>10. ASSUME NEW i \in 0..m PROVE A[i] \in Seq(S)
  <2> DEFINE Bad == {j \in 0..m : A[j] \notin Seq(S)}
  <2> HIDE DEF A, Body, Next1
  <2> SUFFICES ASSUME Bad # {} PROVE FALSE
    OBVIOUS
  <2>0. Bad \subseteq Nat
    BY <1>b
  <2>1. PICK j \in Bad : \A l \in Bad : j <= l
    BY <2>0, Least
  <2>a. j \in 0..m /\ A[j] \notin Seq(S)
    BY <2>1
  <2>b. j # 0
    BY <1>8, <1>a, <2>a
  <2>2. j # 0 /\ j \in 1..m /\ j - 1 \in 0..m /\ j - 1 \notin Bad
    BY <1>b, <2>1, <2>a, <2>b
  <2>3. A[j - 1] \in Seq(S) /\ A[j] \notin Seq(S)
    BY <2>1, <2>2
  <2> QED BY <1>2, <1>9, <2>2, <2>3
<1>11. A \in [0..m -> Seq(S)]
  BY <1>10
<1> HIDE DEF A
<1> QED BY <1>8, <1>9, <1>11 DEF Filtered, m

(* Within keeps the order of the list.                                         *)
LEMMA WithinLists ==
  ASSUME NEW nodes0, NEW D, NEW s, Lists(nodes0, s, D), NEW W
  PROVE  Lists(nodes0, Within(s, W), D \cap W)
<1> DEFINE N == DOMAIN nodes0
           First(i) == {s[j] : j \in 1..i}
<1>1. /\ s \in Seq(N) /\ Len(s) \in Nat /\ DOMAIN s = 1..Len(s)
      /\ \A i \in 1..Len(s) : s[i] \in N
      /\ \A i, j \in 1..Len(s) : i < j => Precedes(nodes0, s[i], s[j])
  BY DEF Lists
<1>2. D = First(Len(s))
  BY <1>1 DEF Lists, Range
<1>3. PICK A : Filtered(A, s, W, N) /\ Within(s, W) = A[Len(s)]
  BY <1>1, WithinRun
<1>4. /\ A[0] = << >>
      /\ \A i \in 1..Len(s) : A[i] = IF s[i] \in W THEN Append(A[i - 1], s[i]) ELSE A[i - 1]
  BY <1>3 DEF Filtered
<1> DEFINE Good(i) == Lists(nodes0, A[i], First(i) \cap W)
           Bad == {i \in 0..Len(s) : ~Good(i)}
<1>5. Good(0)
  <2>1. First(0) \cap W = {}
    OBVIOUS
  <2> HIDE DEF First
  <2> QED BY <1>4, <2>1, ListsFew
<1>6. ASSUME NEW i \in 1..Len(s), Good(i - 1) PROVE Good(i)
  <2>1. First(i) = First(i - 1) \cup {s[i]}
    <3>1. 1..i = 1..(i - 1) \cup {i}
      OBVIOUS
    <3> QED BY <3>1
  <2>2. \A a \in First(i - 1) : Precedes(nodes0, a, s[i])
    <3>1. \A j \in 1..(i - 1) : j \in 1..Len(s) /\ j < i
      BY <1>1
    <3> QED BY <1>1, <3>1
  <2> HIDE DEF First
  <2>3. CASE s[i] \in W
    <3>1. A[i] = Append(A[i - 1], s[i]) /\ First(i) \cap W = (First(i - 1) \cap W) \cup {s[i]}
      BY <1>4, <2>1, <2>3
    <3>2. \A a \in First(i - 1) \cap W : Precedes(nodes0, a, s[i])
      BY <2>2
    <3>3. Lists(nodes0, Append(A[i - 1], s[i]), (First(i - 1) \cap W) \cup {s[i]})
      BY <1>1, <1>6, <3>2, ListsAppend
    <3> QED BY <3>1, <3>3
  <2>4. CASE s[i] \notin W
    <3>1. A[i] = A[i - 1] /\ First(i) \cap W = First(i - 1) \cap W
      BY <1>4, <2>1, <2>4
    <3> QED BY <1>6, <3>1
  <2> QED BY <2>3, <2>4
<1> HIDE DEF Good
<1>7. Bad = {}
  <2> SUFFICES ASSUME Bad # {} PROVE FALSE
    OBVIOUS
  <2>1. Bad \subseteq Nat
    BY <1>1
  <2>2. PICK i \in Bad : \A j \in Bad : i <= j
    BY <2>1, Least
  <2>3. i \in 0..Len(s) /\ ~Good(i)
    BY <2>2
  <2>4. i # 0
    BY <1>5, <2>3
  <2>5. i \in 1..Len(s) /\ i - 1 \in 0..Len(s) /\ ~(i <= i - 1)
    BY <1>1, <2>3, <2>4
  <2>6. i - 1 \notin Bad
    BY <2>2, <2>5
  <2> QED BY <1>6, <2>3, <2>5, <2>6
<1>8. Good(Len(s))
  BY <1>1, <1>7
<1> QED BY <1>2, <1>3, <1>8 DEF Good

-----------------------------------------------------------------------------
(* Numbers and letters.                                                        *)

(* The least and the largest of numbers.                                       *)
LEMMA MinOfTwo ==
  ASSUME NEW a \in Nat, NEW b \in Nat
  PROVE  Min({a, b}) \in Nat /\ Min({a, b}) <= a /\ Min({a, b}) <= b
<1>1. \E x \in {a, b} : \A y \in {a, b} : x <= y
  <2>1. {a, b} \subseteq Nat /\ {a, b} # {}
    OBVIOUS
  <2> QED BY <2>1, Least
<1>2. Min({a, b}) \in {a, b} /\ \A y \in {a, b} : Min({a, b}) <= y
  BY <1>1 DEF Min
<1> QED BY <1>2

LEMMA MaxUpTo ==
  ASSUME NEW n \in Nat, NEW S, S \subseteq 0..n, S # {}
  PROVE  Max(S) \in S /\ \A y \in S : y <= Max(S)
<1> DEFINE T == {n - y : y \in S}
<1>1. \A y \in S : y \in 0..n /\ n - y \in Nat
  OBVIOUS
<1>2. T \subseteq Nat /\ T # {}
  BY <1>1
<1>3. PICK t \in T : \A u \in T : t <= u
  BY <1>2, Least
<1>4. PICK x \in S : t = n - x
  OBVIOUS
<1>5. \A y \in S : n - y \in T
  OBVIOUS
<1> HIDE DEF T
<1>6. \A y \in S : x >= y
  BY <1>1, <1>3, <1>4, <1>5
<1>7. Max(S) \in S /\ \A y \in S : Max(S) >= y
  BY <1>6 DEF Max
<1> QED BY <1>1, <1>7

(* Finitely many numbers have a bound.                                         *)
LEMMA NumbersBounded ==
  ASSUME NEW S, S \subseteq Nat, IsFiniteSet(S)
  PROVE  \E n \in Nat : S \subseteq 0..n
<1> DEFINE Bounded(T) == \E n \in Nat : T \subseteq 0..n
           Sizes == {k \in Nat : \E T \in SUBSET Nat : IsFiniteSet(T) /\ Cardinality(T) = k /\ ~Bounded(T)}
<1>1. Sizes = {}
  <2> SUFFICES ASSUME Sizes # {} PROVE FALSE
    OBVIOUS
  <2>1. Sizes \subseteq Nat
    OBVIOUS
  <2>2. PICK k \in Sizes : \A l \in Sizes : k <= l
    BY <2>1, Least
  <2>3. PICK T \in SUBSET Nat : IsFiniteSet(T) /\ Cardinality(T) = k /\ ~Bounded(T)
    BY <2>2
  <2>4. T # {}
    <3>1. Bounded({})
      OBVIOUS
    <3> HIDE DEF Bounded
    <3> QED BY <2>3, <3>1
  <2>5. PICK x \in T : TRUE
    BY <2>4
  <2>6. /\ IsFiniteSet(T \ {x}) /\ Cardinality(T \ {x}) = k - 1 /\ k \in Nat
        /\ Cardinality(T \ {x}) \in Nat
    BY <2>1, <2>2, <2>3, <2>5, FS_RemoveElement, FS_CardinalityType
  <2>7. k - 1 \notin Sizes
    <3> HIDE DEF Sizes
    <3>1. k - 1 \in Sizes => k <= k - 1
      BY <2>2
    <3> QED BY <2>6, <3>1
  <2>8. Bounded(T \ {x})
    <3>1. T \ {x} \in SUBSET Nat /\ k - 1 \in Nat
      BY <2>6
    <3> HIDE DEF Bounded
    <3> QED BY <2>6, <2>7, <3>1
  <2>9. PICK n \in Nat : T \ {x} \subseteq 0..n
    BY <2>8
  <2>10. x \in Nat /\ n + x \in Nat /\ T \subseteq 0..(n + x)
    <3>1. x \in Nat /\ n + x \in Nat
      OBVIOUS
    <3>2. ASSUME NEW y \in T PROVE y \in 0..(n + x)
      <4>1. CASE y = x
        BY <3>1, <4>1
      <4>2. CASE y # x
        <5>1. y \in 0..n
          BY <2>9, <4>2
        <5> QED BY <3>1, <5>1
      <4> QED BY <4>1, <4>2
    <3> QED BY <3>1, <3>2
  <2> QED BY <2>3, <2>10
<1>2. Cardinality(S) \in Nat
  BY FS_CardinalityType
<1>3. S \in SUBSET Nat
  OBVIOUS
<1>4. Bounded(S)
  <2> HIDE DEF Bounded
  <2> QED BY <1>1, <1>2, <1>3
<1> QED BY <1>4

(* The letters of a text, and their values.                                    *)
LEMMA SpelledIs ==
  ASSUME NEW ns, IsNodeMap(ns), NEW ids \in Seq(DOMAIN ns)
  PROVE  /\ Spelled(ns, ids) \in Seq(Value) /\ Len(Spelled(ns, ids)) = Len(ids)
         /\ DOMAIN Spelled(ns, ids) = 1..Len(ids) /\ Len(ids) \in Nat
         /\ \A i \in 1..Len(ids) : Spelled(ns, ids)[i] = ns[ids[i]].value
<1>1. Len(ids) \in Nat /\ DOMAIN ids = 1..Len(ids) /\ \A i \in 1..Len(ids) : ids[i] \in DOMAIN ns
  OBVIOUS
<1>2. \A n \in DOMAIN ns : ns[n].value \in Value
  BY DEF IsNodeMap, Node
<1>3. Spelled(ns, ids) = [i \in 1..Len(ids) |-> ns[ids[i]].value]
  BY <1>1 DEF Spelled
<1>4. Spelled(ns, ids) \in [1..Len(ids) -> Value]
  BY <1>1, <1>2, <1>3
<1>5. Spelled(ns, ids) \in Seq(Value)
  BY <1>1, <1>4
<1>6. Len(Spelled(ns, ids)) = Len(ids)
  <2>1. DOMAIN Spelled(ns, ids) = 1..Len(ids)
    BY <1>3
  <2> QED BY <1>1, <1>5, <2>1
<1> QED BY <1>1, <1>3, <1>5, <1>6

(* The common beginning of two texts.                                          *)
LEMMA CommonPrefixIs ==
  ASSUME NEW S, NEW old \in Seq(S), NEW new \in Seq(S)
  PROVE  LET p == CommonPrefix(old, new)
         IN  /\ p \in Nat /\ p <= Min({Len(old), Len(new)})
             /\ \A i \in 1..p : new[i] = old[i]
<1> DEFINE m == Min({Len(old), Len(new)})
           T == {p \in 0..m : SubSeq(old, 1, p) = SubSeq(new, 1, p)}
           p == CommonPrefix(old, new)
<1>1. m \in Nat /\ m <= Len(old) /\ m <= Len(new)
  BY MinOfTwo
<1> HIDE DEF m
<1>2. T # {}
  <2>1. SubSeq(old, 1, 0) = << >> /\ SubSeq(new, 1, 0) = << >>
    BY SubSeqEmpty
  <2>2. 0 \in 0..m
    BY <1>1
  <2> QED BY <2>1, <2>2
<1>3. Max(T) \in T
  BY <1>1, <1>2, MaxUpTo
<1>4. p = Max(T)
  BY DEF CommonPrefix, m
<1>5. p \in 0..m /\ SubSeq(old, 1, p) = SubSeq(new, 1, p)
  BY <1>3, <1>4
<1> HIDE DEF p
<1>6. ASSUME NEW i \in 1..p PROVE new[i] = old[i]
  <2>1. /\ 1 \in Int /\ p \in Int /\ i \in 1..(p - 1 + 1)
        /\ \A j \in 1..p : old[j] \in S /\ new[j] \in S
    BY <1>1, <1>5
  <2>2. SubSeq(old, 1, p)[i] = old[1 + i - 1] /\ SubSeq(new, 1, p)[i] = new[1 + i - 1]
    BY <2>1, SubSeqProperties
  <2>3. 1 + i - 1 = i
    OBVIOUS
  <2> QED BY <1>5, <2>2, <2>3
<1> QED BY <1>5, <1>6, <1>1 DEF p, m

(* The common end of what is left of them.                                     *)
LEMMA CommonSuffixIs ==
  ASSUME NEW S, NEW old \in Seq(S), NEW new \in Seq(S),
         NEW p \in Nat, p <= Min({Len(old), Len(new)})
  PROVE  LET s == CommonSuffix(old, new, p)
         IN  /\ s \in Nat /\ p + s <= Len(old) /\ p + s <= Len(new)
             /\ \A i \in 1..s : new[Len(new) - s + i] = old[Len(old) - s + i]
<1> DEFINE m == Min({Len(old), Len(new)})
           a == Len(old)
           b == Len(new)
           Same(k) == SubSeq(old, a - k + 1, a) = SubSeq(new, b - k + 1, b)
           T == {k \in 0..(m - p) : Same(k)}
           s == CommonSuffix(old, new, p)
<1>1. m \in Nat /\ m <= a /\ m <= b /\ a \in Nat /\ b \in Nat /\ p <= m
  BY MinOfTwo
<1>a. \A j \in 1..a : old[j] \in S
  OBVIOUS
<1>b. \A j \in 1..b : new[j] \in S
  OBVIOUS
<1>4. s = Max(T)
  BY DEF CommonSuffix
<1> HIDE DEF m, s, a, b
<1>2. T # {}
  <2>1. SubSeq(old, a - 0 + 1, a) = << >> /\ SubSeq(new, b - 0 + 1, b) = << >>
    BY <1>1, SubSeqEmpty
  <2>2. 0 \in 0..(m - p)
    BY <1>1
  <2>3. Same(0)
    BY <2>1
  <2> QED BY <2>2, <2>3
<1>3. Max(T) \in T
  <2>1. m - p \in Nat
    BY <1>1
  <2> HIDE DEF Same
  <2>2. T \subseteq 0..(m - p)
    OBVIOUS
  <2> HIDE DEF T
  <2> QED BY <1>2, <2>1, <2>2, MaxUpTo
<1>5. s \in 0..(m - p) /\ Same(s)
  BY <1>3, <1>4
<1>6. ASSUME NEW i \in 1..s PROVE new[b - s + i] = old[a - s + i]
  <2>1. /\ a - s + 1 \in Int /\ b - s + 1 \in Int /\ a \in Int /\ b \in Int
        /\ i \in 1..(a - (a - s + 1) + 1) /\ i \in 1..(b - (b - s + 1) + 1)
    BY <1>1, <1>5
  <2>2. \A j \in (a - s + 1)..a : old[j] \in S
    <3>1. \A j \in (a - s + 1)..a : j \in 1..a
      BY <1>1, <1>5
    <3> QED BY <1>a, <3>1
  <2>3. \A j \in (b - s + 1)..b : new[j] \in S
    <3>1. \A j \in (b - s + 1)..b : j \in 1..b
      BY <1>1, <1>5
    <3> QED BY <1>b, <3>1
  <2>4. SubSeq(old, a - s + 1, a)[i] = old[(a - s + 1) + i - 1]
    BY <2>1, <2>2, SubSeqProperties
  <2>5. SubSeq(new, b - s + 1, b)[i] = new[(b - s + 1) + i - 1]
    BY <2>1, <2>3, SubSeqProperties
  <2>6. (a - s + 1) + i - 1 = a - s + i /\ (b - s + 1) + i - 1 = b - s + i
    BY <1>1, <1>5
  <2> QED BY <1>5, <2>4, <2>5, <2>6
<1>7. s \in Nat /\ p + s <= a /\ p + s <= b
  BY <1>1, <1>5
<1> QED BY <1>6, <1>7 DEF s, a, b

-----------------------------------------------------------------------------
(* An edit.                                                                    *)

\* The letters ids are what the page shows, and no id of its own lies ahead.
Editable(ns, ids, client, seq) ==
    /\ Tree(ns) /\ Lists(ns, ids, Visible(ns))
    /\ client \in Client /\ seq \in Nat
    /\ \A n \in DOMAIN ns : n[1] = client => n[2] <= seq

\* The ids of a run of t.
Run(client, seq, t) == {<<client, seq + i>> : i \in 1..t}

Erased(ids, p, s) == {ids[i] : i \in (p + 1)..(Len(ids) - s)}

\* What is typed at place i of a run.
RunNode(ids, client, seq, new, p, i) ==
    [previous_id |-> IF i > 1 THEN <<client, seq + (i - 1)>> ELSE TypedAfter(ids, p),
     value |-> new[p + i], deleted |-> FALSE]

\* nn is ns after all letters but the first p and the last s were erased, and a run of
\* t was typed in their place.
IsEdit(ns, ids, client, seq, new, nn, p, s, t) ==
    /\ p \in Nat /\ s \in Nat /\ t \in Nat
    /\ p + s <= Len(ids) /\ Len(new) = p + t + s
    /\ \A i \in 1..p : new[i] = ns[ids[i]].value
    /\ \A i \in 1..s : new[p + t + i] = ns[ids[Len(ids) - s + i]].value
    /\ DOMAIN nn = DOMAIN ns \cup Run(client, seq, t)
    /\ nn = [n \in DOMAIN nn |-> nn[n]]
    /\ \A n \in DOMAIN ns :
          nn[n] = [ns[n] EXCEPT !.deleted = @ \/ n \in Erased(ids, p, s)]
    /\ \A i \in 1..t : nn[<<client, seq + i>>] = RunNode(ids, client, seq, new, p, i)

EditExists(ns, ids, client, seq, new, nn) ==
    \E p, s, t : IsEdit(ns, ids, client, seq, new, nn, p, s, t)

(* That is what textApplyEdit() does.                                          *)
LEMMA EditedIs ==
  ASSUME NEW ns, NEW ids, NEW client, NEW seq, Editable(ns, ids, client, seq),
         NEW new \in Seq(Value)
  PROVE  EditExists(ns, ids, client, seq, new, Edited(ns, ids, client, seq, new))
<1> DEFINE old == Spelled(ns, ids)
           p == CommonPrefix(old, new)
           s == CommonSuffix(old, new, p)
           t == Len(new) - s - p
           typed == SubSeq(new, p + 1, Len(new) - s)
           nn == Edited(ns, ids, client, seq, new)
           F == Run(client, seq, t)
<1>1. /\ IsNodeMap(ns) /\ ids \in Seq(DOMAIN ns) /\ client \in Client /\ seq \in Nat
      /\ Len(ids) \in Nat /\ Len(new) \in Nat
  BY DEF Editable, Tree, Lists
<1>2. /\ old \in Seq(Value) /\ Len(old) = Len(ids)
      /\ \A i \in 1..Len(ids) : old[i] = ns[ids[i]].value
  BY <1>1, SpelledIs
<1> HIDE DEF old
<1>3. p \in Nat /\ p <= Min({Len(old), Len(new)}) /\ \A i \in 1..p : new[i] = old[i]
  BY <1>2, CommonPrefixIs
<1> HIDE DEF p
<1>4. /\ s \in Nat /\ p + s <= Len(old) /\ p + s <= Len(new)
      /\ \A i \in 1..s : new[Len(new) - s + i] = old[Len(old) - s + i]
  BY <1>2, <1>3, CommonSuffixIs
<1> HIDE DEF s
<1>5. t \in Nat /\ Len(new) = p + t + s /\ Len(new) - s = p + t
  BY <1>1, <1>3, <1>4
<1>6. DOMAIN typed = 1..t /\ \A i \in 1..t : typed[i] = new[p + i]
  <2>1. p + 1 \in Int /\ Len(new) - s \in Int /\ \A i \in (p + 1)..(Len(new) - s) : new[i] \in Value
    <3>1. \A i \in (p + 1)..(Len(new) - s) : i \in 1..Len(new)
      BY <1>1, <1>3, <1>4
    <3>2. \A i \in 1..Len(new) : new[i] \in Value
      OBVIOUS
    <3> QED BY <1>1, <1>3, <1>4, <3>1, <3>2
  <2>2. /\ typed \in Seq(Value)
        /\ Len(typed) = IF p + 1 <= Len(new) - s THEN (Len(new) - s) - (p + 1) + 1 ELSE 0
        /\ \A i \in 1..((Len(new) - s) - (p + 1) + 1) : typed[i] = new[(p + 1) + i - 1]
    BY <2>1, SubSeqProperties
  <2>3. (Len(new) - s) - (p + 1) + 1 = t /\ \A i \in 1..t : (p + 1) + i - 1 = p + i
    BY <1>1, <1>3, <1>4, <1>5
  <2> HIDE DEF typed
  <2>4. Len(typed) = t
    <3>1. p + 1 <= Len(new) - s => Len(typed) = t
      BY <2>2, <2>3
    <3>2. ~(p + 1 <= Len(new) - s) => Len(typed) = 0
      BY <2>2
    <3>3. ~(p + 1 <= Len(new) - s) => t = 0
      <4>1. p \in Nat /\ t \in Nat /\ Len(new) - s = p + t
        BY <1>3, <1>5
      <4> HIDE DEF t
      <4>2. ~(p + 1 <= p + t) => t = 0
        BY <4>1
      <4> QED BY <4>1, <4>2
    <3> QED BY <3>1, <3>2, <3>3
  <2>5. DOMAIN typed = 1..t
    BY <2>2, <2>4
  <2> QED BY <2>2, <2>3, <2>5
<1> HIDE DEF typed
<1>7. nn = [n \in DOMAIN ns \cup {<<client, seq + i>> : i \in DOMAIN typed} |->
              IF n \in DOMAIN ns
              THEN [ns[n] EXCEPT !.deleted = @ \/ n \in {ids[i] : i \in (p + 1)..(Len(old) - s)}]
              ELSE [previous_id |-> IF n[2] - seq > 1 THEN <<client, seq + (n[2] - seq - 1)>>
                                    ELSE TypedAfter(ids, p),
                    value |-> typed[n[2] - seq], deleted |-> FALSE]]
  BY Zenon DEF Edited, old, p, s, typed
<1> HIDE DEF nn
<1>8. Erased(ids, p, s) = {ids[i] : i \in (p + 1)..(Len(old) - s)}
  BY <1>2 DEF Erased
<1>9. DOMAIN nn = DOMAIN ns \cup F /\ nn = [n \in DOMAIN nn |-> nn[n]]
  BY <1>6, <1>7 DEF Run
<1>10. ASSUME NEW n \in DOMAIN ns
       PROVE  nn[n] = [ns[n] EXCEPT !.deleted = @ \/ n \in Erased(ids, p, s)]
  BY <1>7, <1>8
<1>11. ASSUME NEW i \in 1..t
       PROVE  nn[<<client, seq + i>>] = RunNode(ids, client, seq, new, p, i)
  <2> DEFINE n == <<client, seq + i>>
  <2>1. n \in F /\ n[1] = client /\ n[2] = seq + i /\ i \in Nat /\ i >= 1
    BY <1>5 DEF Run
  <2>2. n \notin DOMAIN ns
    <3>1. ~(n[2] <= seq)
      BY <1>1, <2>1
    <3> QED BY <2>1, <3>1 DEF Editable
  <2>3. n[2] - seq = i /\ n[2] - seq - 1 = i - 1
    BY <1>1, <2>1
  <2>4. n \in DOMAIN ns \cup {<<client, seq + k>> : k \in DOMAIN typed}
    BY <1>6, <2>1
  <2> HIDE DEF n
  <2>5. nn[n] = [previous_id |-> IF n[2] - seq > 1 THEN <<client, seq + (n[2] - seq - 1)>>
                                 ELSE TypedAfter(ids, p),
                 value |-> typed[n[2] - seq], deleted |-> FALSE]
    BY <1>7, <2>2, <2>4
  <2>6. typed[n[2] - seq] = new[p + i]
    BY <1>6, <2>3
  <2> QED BY <2>3, <2>5, <2>6 DEF RunNode, n
<1>12. \A i \in 1..p : new[i] = ns[ids[i]].value
  <2>1. \A i \in 1..p : i \in 1..Len(ids)
    BY <1>1, <1>2, <1>3, <1>4
  <2> QED BY <1>2, <1>3, <2>1
<1>13. \A i \in 1..s : new[p + t + i] = ns[ids[Len(ids) - s + i]].value
  <2>1. \A i \in 1..s : Len(ids) - s + i \in 1..Len(ids)
    BY <1>1, <1>2, <1>3, <1>4
  <2> QED BY <1>2, <1>4, <1>5, <2>1
<1>14. p + s <= Len(ids)
  BY <1>2, <1>4
<1> HIDE DEF t, F
<1>15. IsEdit(ns, ids, client, seq, new, nn, p, s, t)
  BY <1>3, <1>4, <1>5, <1>9, <1>10, <1>11, <1>12, <1>13, <1>14 DEF IsEdit, F
<1> QED BY <1>15 DEF EditExists, nn

\* What an edit does to the tree and to what is visible.
EditGrown(ns, nn, R, t, erased) ==
    /\ GrowsTo(ns, nn)
    /\ R \subseteq Id /\ R \cap DOMAIN ns = {}
    /\ DOMAIN nn = DOMAIN ns \cup R
    /\ IsFiniteSet(R) /\ Cardinality(R) = t
    /\ Visible(nn) = (Visible(ns) \ erased) \cup R

(* An edit is a tree again, with the run for new leaves.                       *)
LEMMA EditGrows ==
  ASSUME NEW ns, NEW ids, NEW client, NEW seq, Editable(ns, ids, client, seq),
         NEW new \in Seq(Value), NEW nn, NEW p, NEW s, NEW t,
         IsEdit(ns, ids, client, seq, new, nn, p, s, t)
  PROVE  EditGrown(ns, nn, Run(client, seq, t), t, Erased(ids, p, s))
<1> DEFINE R == Run(client, seq, t)
           id(i) == <<client, seq + i>>
           E == Erased(ids, p, s)
           anchor == TypedAfter(ids, p)
<1>1. /\ Tree(ns) /\ ids \in Seq(DOMAIN ns) /\ client \in Client /\ seq \in Nat
      /\ Len(ids) \in Nat /\ DOMAIN ids = 1..Len(ids) /\ Range(ids) = Visible(ns)
      /\ \A i \in 1..Len(ids) : ids[i] \in DOMAIN ns
      /\ \A n \in DOMAIN ns : n[1] = client => n[2] <= seq
  BY DEF Editable, Lists
<1>2. /\ DOMAIN ns \in SUBSET Id /\ IsFiniteSet(DOMAIN ns) /\ \A n \in DOMAIN ns : ns[n] \in Node
  <2>1. IsNodeMap(ns)
    BY <1>1 DEF Tree
  <2>2. DOMAIN ns \in SUBSET Id /\ IsFiniteSet(DOMAIN ns) /\ ns \in [DOMAIN ns -> Node]
    BY <2>1, Zenon DEF IsNodeMap
  <2> QED BY <2>2
<1>3. /\ p \in Nat /\ s \in Nat /\ t \in Nat /\ p + s <= Len(ids) /\ Len(new) = p + t + s
      /\ DOMAIN nn = DOMAIN ns \cup R /\ nn = [n \in DOMAIN nn |-> nn[n]]
      /\ \A n \in DOMAIN ns : nn[n] = [ns[n] EXCEPT !.deleted = @ \/ n \in E]
      /\ \A i \in 1..t : nn[id(i)] = RunNode(ids, client, seq, new, p, i)
  BY DEF IsEdit
<1>4. R \subseteq Id /\ \A i \in 1..t : id(i) \in R /\ id(i) \in Id /\ id(i) \notin DOMAIN ns
  <2>1. ASSUME NEW i \in 1..t PROVE id(i) \in Id /\ id(i) \notin DOMAIN ns
    <3>1. seq + i \in Nat \ {0} /\ ~(seq + i <= seq)
      BY <1>1, <1>3
    <3>2. id(i)[1] = client /\ id(i)[2] = seq + i
      OBVIOUS
    <3> QED BY <1>1, <3>1, <3>2 DEF Id
  <2> QED BY <2>1 DEF Run
<1>5. R \cap DOMAIN ns = {}
  BY <1>4 DEF Run
<1>6. anchor \in DOMAIN ns \cup {Head0}
  BY <1>1, <1>3 DEF TypedAfter
<1>7. IsFiniteSet(R) /\ Cardinality(R) = t
  <2> DEFINE f == [i \in 1..t |-> id(i)]
  <2>1. f \in [1..t -> R] /\ (\A i, j \in 1..t : f[i] = f[j] => i = j) /\ \A n \in R : \E i \in 1..t : f[i] = n
    <3>1. f \in [1..t -> R]
      BY <1>4
    <3>2. ASSUME NEW i \in 1..t, NEW j \in 1..t, f[i] = f[j] PROVE i = j
      <4>1. seq + i = seq + j
        BY <3>2
      <4> QED BY <1>1, <4>1
    <3>3. \A n \in R : \E i \in 1..t : f[i] = n
      BY DEF Run
    <3> QED BY <3>1, <3>2, <3>3
  <2> HIDE DEF f, R
  <2>2. ExistsBijection(1..t, R)
    BY <2>1 DEF ExistsBijection, Bijection, Injection, Surjection, IsInjective
  <2>3. IsFiniteSet(1..t) /\ Cardinality(1..t) = t
    <3>1. IsFiniteSet(1..t) /\ Cardinality(1..t) = IF 1 > t THEN 0 ELSE t - 1 + 1
      <4>1. 1 \in Int /\ t \in Int
        BY <1>3
      <4> QED BY <4>1, FS_Interval
    <3> QED BY <1>3, <3>1
  <2> QED BY <2>2, <2>3, FS_Bijection
<1>8. \A n \in DOMAIN ns : /\ nn[n] \in Node /\ nn[n].previous_id = ns[n].previous_id
                           /\ nn[n].deleted <=> (ns[n].deleted \/ n \in E)
  <2> TAKE n \in DOMAIN ns
  <2>1. nn[n] = [ns[n] EXCEPT !.deleted = @ \/ n \in E] /\ ns[n] \in Node
    BY <1>2, <1>3
  <2> HIDE DEF E
  <2> QED BY <2>1 DEF Node
<1>9. \A i \in 1..t : /\ nn[id(i)] \in Node /\ ~nn[id(i)].deleted
                      /\ nn[id(i)].previous_id = IF i > 1 THEN id(i - 1) ELSE anchor
  <2> TAKE i \in 1..t
  <2>1. i > 1 => id(i - 1) \in Id /\ i - 1 \in 1..t
    <3>1. i > 1 => i - 1 \in 1..t
      BY <1>3
    <3> QED BY <1>4, <3>1
  <2>2. anchor \in Place
    BY <1>2, <1>6 DEF Place
  <2>3. new[p + i] \in Value
    <3>1. p + i \in 1..Len(new)
      BY <1>3
    <3> QED BY <3>1
  <2>4. nn[id(i)] = [previous_id |-> IF i > 1 THEN id(i - 1) ELSE anchor,
                     value |-> new[p + i], deleted |-> FALSE]
    BY <1>3 DEF RunNode
  <2>5. (IF i > 1 THEN id(i - 1) ELSE anchor) \in Place
    BY <2>1, <2>2 DEF Place
  <2> HIDE DEF anchor, id
  <2> QED BY <2>3, <2>4, <2>5 DEF Node
<1>r. \A n \in R : \E i \in 1..t : n = id(i)
  BY DEF Run
<1>10. IsNodeMap(nn)
  <2>1. DOMAIN nn \in SUBSET Id
    BY <1>2, <1>3, <1>4
  <2>2. IsFiniteSet(DOMAIN nn)
    <3> HIDE DEF R
    <3>1. IsFiniteSet(DOMAIN ns \cup R)
      BY <1>2, <1>7, FS_Union
    <3> QED BY <1>3, <3>1
  <2>3. \A n \in DOMAIN nn : nn[n] \in Node
    BY <1>3, <1>8, <1>9, <1>r
  <2>4. nn \in [DOMAIN nn -> Node]
    <3>1. nn = [n \in DOMAIN nn |-> nn[n]]
      BY <1>3
    <3> QED BY <2>3, <3>1
  <2> QED BY <2>1, <2>2, <2>4, Zenon DEF IsNodeMap
<1>11. Whole(nn)
  <2> SUFFICES ASSUME NEW L \in SUBSET DOMAIN nn, Saturated(L, {}, nn)
               PROVE  DOMAIN nn \subseteq L
    BY DEF Whole, Landing
  <2>1. DOMAIN ns \subseteq L
    <3>1. Saturated(L \cap DOMAIN ns, {}, ns)
      <4> SUFFICES ASSUME NEW n \in DOMAIN ns, ns[n].previous_id \in {} \cup (L \cap DOMAIN ns) \cup {Head0}
                   PROVE  n \in L \cap DOMAIN ns
        BY DEF Saturated
      <4>1. n \in DOMAIN nn /\ nn[n].previous_id \in {} \cup L \cup {Head0}
        BY <1>3, <1>8
      <4> QED BY <4>1 DEF Saturated
    <3>2. Landing({}, ns) \subseteq L \cap DOMAIN ns
      <4>1. L \cap DOMAIN ns \in SUBSET DOMAIN ns
        OBVIOUS
      <4> QED BY <3>1, <4>1, LandingLeast
    <3> QED BY <1>1, <3>2 DEF Tree, Whole
  <2>2. R \subseteq L
    <3> DEFINE Bad == {i \in 1..t : id(i) \notin L}
    <3>1. Bad = {}
      <4> SUFFICES ASSUME Bad # {} PROVE FALSE
        OBVIOUS
      <4>1. Bad \subseteq Nat
        OBVIOUS
      <4>2. PICK i \in Bad : \A j \in Bad : i <= j
        BY <4>1, Least
      <4>3. i \in 1..t /\ id(i) \notin L /\ id(i) \in DOMAIN nn
        BY <1>3, <1>4, <4>2
      <4>4. i > 1 => id(i - 1) \in L
        <5> SUFFICES ASSUME i > 1 PROVE id(i - 1) \in L
          OBVIOUS
        <5>1. i - 1 \in 1..t /\ ~(i <= i - 1)
          BY <1>3, <4>3
        <5>2. i - 1 \notin Bad
          BY <4>2, <5>1
        <5> QED BY <5>1, <5>2
      <4>5. (IF i > 1 THEN id(i - 1) ELSE anchor) \in {} \cup L \cup {Head0}
        BY <1>6, <2>1, <4>4
      <4>6. nn[id(i)].previous_id \in {} \cup L \cup {Head0}
        <5> HIDE DEF anchor
        <5> QED BY <1>9, <4>3, <4>5
      <4> HIDE DEF id
      <4> QED BY <4>3, <4>6 DEF Saturated
    <3>2. \A i \in 1..t : id(i) \in L
      BY <3>1
    <3> QED BY <1>r, <3>2
  <2> QED BY <1>3, <2>1, <2>2
<1>12. GrowsTo(ns, nn)
  <2> HIDE DEF R
  <2> QED BY <1>1, <1>3, <1>8, <1>10, <1>11 DEF GrowsTo, Tree
<1>13. Visible(nn) = (Visible(ns) \ E) \cup R
  <2>1. ASSUME NEW n \in DOMAIN ns PROVE n \in Visible(nn) <=> n \in (Visible(ns) \ E) \cup R
    <3>1. n \in DOMAIN nn /\ n \notin R
      BY <1>3, <1>5
    <3> HIDE DEF R, E
    <3> QED BY <1>8, <3>1 DEF Visible
  <2>2. ASSUME NEW n \in R PROVE n \in Visible(nn)
    <3>1. PICK i \in 1..t : n = id(i)
      BY <1>r
    <3>2. n \in DOMAIN nn
      BY <1>3
    <3> QED BY <1>9, <3>1, <3>2 DEF Visible
  <2> HIDE DEF R, E
  <2>3. Visible(nn) \subseteq DOMAIN ns \cup R /\ Visible(ns) \subseteq DOMAIN ns
    BY <1>3 DEF Visible
  <2> QED BY <2>1, <2>2, <2>3
<1> HIDE DEF R, E
<1> QED BY <1>3, <1>4, <1>5, <1>7, <1>12, <1>13 DEF EditGrown, R, E

-----------------------------------------------------------------------------
(* Where a run of letters lands.                                               *)

\* x is stay with run put after its k-th element.
IsPutIn(x, S, stay, k, run) ==
    /\ x \in Seq(S) /\ Len(x) = Len(stay) + Len(run)
    /\ \A i \in 1..k : x[i] = stay[i]
    /\ \A i \in 1..Len(run) : x[k + i] = run[i]
    /\ \A i \in (k + 1)..Len(stay) : x[Len(run) + i] = stay[i]

(* A list with a run put into it.                                              *)
LEMMA PutInIs ==
  ASSUME NEW S, NEW stay \in Seq(S), NEW run \in Seq(S), NEW k \in 0..Len(stay)
  PROVE  IsPutIn(PutIn(stay, k, run), S, stay, k, run)
<1> DEFINE a == SubSeq(stay, 1, k)
           b == SubSeq(stay, k + 1, Len(stay))
           x == (a \o run) \o b
           n == Len(stay)
           m == Len(run)
<1>1. /\ n \in Nat /\ m \in Nat /\ k \in Nat /\ k <= n
      /\ \A i \in 1..n : stay[i] \in S
  OBVIOUS
<1>2. a \in Seq(S) /\ Len(a) = k /\ \A i \in 1..k : a[i] = stay[i]
  <2>1. 1 \in Int /\ k \in Int /\ \A i \in 1..k : stay[i] \in S
    BY <1>1
  <2>2. /\ a \in Seq(S) /\ Len(a) = IF 1 <= k THEN k - 1 + 1 ELSE 0
        /\ \A i \in 1..(k - 1 + 1) : a[i] = stay[1 + i - 1]
    BY <2>1, SubSeqProperties
  <2> HIDE DEF a
  <2>3. k - 1 + 1 = k /\ (~(1 <= k) => k = 0) /\ \A i \in 1..k : 1 + i - 1 = i
    BY <1>1
  <2> QED BY <2>2, <2>3
<1>3. b \in Seq(S) /\ Len(b) = n - k /\ \A i \in 1..(n - k) : b[i] = stay[k + i]
  <2>1. k + 1 \in Int /\ n \in Int /\ \A i \in (k + 1)..n : stay[i] \in S
    <3>1. \A i \in (k + 1)..n : i \in 1..n
      BY <1>1
    <3> QED BY <1>1, <3>1
  <2> HIDE DEF n
  <2> USE DEF n
  <2>2. /\ b \in Seq(S) /\ Len(b) = IF k + 1 <= n THEN n - (k + 1) + 1 ELSE 0
        /\ \A i \in 1..(n - (k + 1) + 1) : b[i] = stay[(k + 1) + i - 1]
    BY <2>1, SubSeqProperties
  <2> HIDE DEF b, n
  <2>3. n - (k + 1) + 1 = n - k /\ (~(k + 1 <= n) => n - k = 0) /\ \A i \in 1..(n - k) : (k + 1) + i - 1 = k + i
    BY <1>1
  <2> QED BY <2>2, <2>3
<1>4. PutIn(stay, k, run) = x
  <2>1. PutIn(stay, k, run) = a \o run \o b
    BY DEF PutIn
  <2> QED BY <2>1
<1> HIDE DEF a, b, n, m
<1>5. run \in Seq(S) /\ Len(run) = m
  BY DEF m
<1>6. /\ a \o run \in Seq(S) /\ Len(a \o run) = k + m
      /\ \A i \in 1..(k + m) : (a \o run)[i] = IF i <= k THEN a[i] ELSE run[i - k]
  BY <1>1, <1>2, <1>5, ConcatProperties
<1>7. /\ x \in Seq(S) /\ Len(x) = (k + m) + (n - k)
      /\ \A i \in 1..((k + m) + (n - k)) : x[i] = IF i <= k + m THEN (a \o run)[i] ELSE b[i - (k + m)]
  <2> DEFINE c == a \o run
  <2>1. c \in Seq(S) /\ b \in Seq(S) /\ Len(c) = k + m /\ Len(b) = n - k
    BY <1>3, <1>6
  <2> HIDE DEF c
  <2>2. /\ c \o b \in Seq(S) /\ Len(c \o b) = Len(c) + Len(b)
        /\ \A i \in 1..(Len(c) + Len(b)) : (c \o b)[i] = IF i <= Len(c) THEN c[i] ELSE b[i - Len(c)]
    BY <2>1, ConcatProperties
  <2> QED BY <2>1, <2>2 DEF c
<1> HIDE DEF x
<1>8. (k + m) + (n - k) = n + m
  BY <1>1
<1>9. ASSUME NEW i \in 1..k PROVE x[i] = stay[i]
  <2>1. i \in 1..((k + m) + (n - k)) /\ i <= k + m /\ i \in 1..(k + m) /\ i <= k
    BY <1>1
  <2> QED BY <1>2, <1>6, <1>7, <2>1
<1>10. ASSUME NEW i \in 1..m PROVE x[k + i] = run[i]
  <2>1. /\ k + i \in 1..((k + m) + (n - k)) /\ k + i <= k + m /\ k + i \in 1..(k + m)
        /\ ~(k + i <= k) /\ (k + i) - k = i
    BY <1>1
  <2> QED BY <1>6, <1>7, <2>1
<1>11. ASSUME NEW i \in (k + 1)..n PROVE x[m + i] = stay[i]
  <2>1. /\ m + i \in 1..((k + m) + (n - k)) /\ ~(m + i <= k + m)
        /\ (m + i) - (k + m) = i - k /\ i - k \in 1..(n - k) /\ k + (i - k) = i
    BY <1>1
  <2>2. x[m + i] = b[i - k]
    BY <1>7, <2>1
  <2>3. b[i - k] = stay[k + (i - k)]
    BY <1>3, <2>1
  <2> QED BY <2>1, <2>2, <2>3
<1>12. x \in Seq(S) /\ Len(x) = n + m
  BY <1>7, <1>8
<1> QED BY <1>4, <1>9, <1>10, <1>11, <1>12 DEF n, m, IsPutIn

(* A list in the order of the document names nothing twice.                    *)
LEMMA ListsOnce ==
  ASSUME NEW nodes0, Tree(nodes0), NEW D, NEW s, Lists(nodes0, s, D)
  PROVE  /\ s \in Seq(DOMAIN nodes0) /\ Len(s) \in Nat /\ DOMAIN s = 1..Len(s)
         /\ D = {s[i] : i \in 1..Len(s)}
         /\ \A i \in 1..Len(s) : s[i] \in DOMAIN nodes0 /\ s[i] \in D
         /\ \A i, j \in 1..Len(s) : i < j => Precedes(nodes0, s[i], s[j])
         /\ \A i, j \in 1..Len(s) : s[i] = s[j] => i = j
<1>1. /\ s \in Seq(DOMAIN nodes0) /\ Len(s) \in Nat /\ DOMAIN s = 1..Len(s)
      /\ Range(s) = D
      /\ \A i, j \in 1..Len(s) : i < j => Precedes(nodes0, s[i], s[j])
  BY DEF Lists
<1>2. \A i \in 1..Len(s) : s[i] \in DOMAIN nodes0
  BY <1>1
<1>3. D = {s[i] : i \in 1..Len(s)}
  BY <1>1 DEF Range
<1>4. ASSUME NEW i \in 1..Len(s), NEW j \in 1..Len(s), s[i] = s[j] PROVE i = j
  <2>1. ~Precedes(nodes0, s[i], s[j]) /\ ~Precedes(nodes0, s[j], s[i])
    BY <1>2, <1>4, PrecedesIsOrder
  <2>2. ~(i < j) /\ ~(j < i)
    BY <1>1, <2>1
  <2> QED BY <1>1, <2>2
<1> QED BY <1>1, <1>2, <1>3, <1>4

\* Those that stay are the first p and the last s.
Stayed(ns, ids, stay, p, s) ==
    /\ Lists(ns, stay, Visible(ns) \ Erased(ids, p, s))
    /\ Len(stay) = p + s
    /\ \A i \in 1..p : stay[i] = ids[i]
    /\ \A i \in 1..s : stay[p + i] = ids[Len(ids) - s + i]

(* The letters that stay after an edit.                                        *)
LEMMA StayIs ==
  ASSUME NEW ns, NEW ids, NEW client, NEW seq, Editable(ns, ids, client, seq),
         NEW new \in Seq(Value), NEW nn, NEW p, NEW s, NEW t,
         IsEdit(ns, ids, client, seq, new, nn, p, s, t)
  PROVE  Stayed(ns, ids, Within(ids, Visible(nn)), p, s)
<1> DEFINE V == Visible(ns)
           E == Erased(ids, p, s)
           L == Len(ids)
           stay == Within(ids, Visible(nn))
           Part(c, d) == SubSeq(ids, c + 1, d)
           Of(c, d) == {ids[i] : i \in (c + 1)..d}
           Is(c, d) == /\ Lists(ns, Part(c, d), Of(c, d))
                       /\ c <= d => Len(Part(c, d)) = d - c
                       /\ \A i \in 1..(d - c) : Part(c, d)[i] = ids[c + i]
           a == Part(0, p)
           b == Part(L - s, L)
           A == Of(0, p)
           B == Of(L - s, L)
<1>1. Tree(ns) /\ Lists(ns, ids, V)
  BY DEF Editable
<1>2. /\ L \in Nat /\ V = {ids[i] : i \in 1..L}
      /\ \A i, j \in 1..L : i < j => Precedes(ns, ids[i], ids[j])
      /\ \A i, j \in 1..L : ids[i] = ids[j] => i = j
  BY <1>1, ListsOnce
<1>3. p \in Nat /\ s \in Nat /\ p + s <= L
  BY DEF IsEdit
<1>4. Lists(ns, stay, V \cap Visible(nn))
  BY <1>1, WithinLists
<1>5. V \cap Visible(nn) = V \ E
  <2>1. EditGrown(ns, nn, Run(client, seq, t), t, E)
    BY EditGrows
  <2>2. V \subseteq DOMAIN ns
    BY DEF Visible
  <2> HIDE DEF V, E
  <2> QED BY <2>1, <2>2 DEF EditGrown, V
<1>l. L = Len(ids) /\ L - s \in Nat /\ p <= L /\ L <= L /\ 0 \in Nat
  BY <1>2, <1>3
<1>p. ASSUME NEW c \in Nat, NEW d \in Nat, d <= L PROVE Is(c, d)
  <2> HIDE DEF V
  <2> QED BY <1>1, <1>p, ListsPart
<1>a. Is(0, p) /\ Is(L - s, L)
  <2> HIDE DEF Is, L
  <2> QED BY <1>2, <1>3, <1>l, <1>p
<1>6. Lists(ns, a, A) /\ Len(a) = p /\ \A i \in 1..p : a[i] = ids[i]
  <2>1. 0 <= p /\ p - 0 = p /\ \A i \in 1..p : 0 + i = i
    BY <1>3
  <2> HIDE DEF L, Part, Of
  <2>2. /\ Lists(ns, a, A) /\ (0 <= p => Len(a) = p - 0)
        /\ \A i \in 1..(p - 0) : a[i] = ids[0 + i]
    BY <1>a
  <2> HIDE DEF a, A
  <2> QED BY <2>1, <2>2
<1>7. Lists(ns, b, B) /\ Len(b) = s /\ \A i \in 1..s : b[i] = ids[(L - s) + i]
  <2>1. L - s <= L /\ L - (L - s) = s
    BY <1>2, <1>3
  <2> HIDE DEF L, Part, Of
  <2>2. /\ Lists(ns, b, B) /\ (L - s <= L => Len(b) = L - (L - s))
        /\ \A i \in 1..(L - (L - s)) : b[i] = ids[(L - s) + i]
    BY <1>a
  <2> HIDE DEF b, B
  <2> QED BY <2>1, <2>2
<1> HIDE DEF a, b, stay, L, Part, Is
<1>8. \A x \in A, y \in B : Precedes(ns, x, y)
  <2> SUFFICES ASSUME NEW i \in (0 + 1)..p, NEW j \in ((L - s) + 1)..L
               PROVE  Precedes(ns, ids[i], ids[j])
    OBVIOUS
  <2>1. i \in 1..L /\ j \in 1..L /\ i < j
    BY <1>2, <1>3
  <2> QED BY <1>2, <2>1
<1>9. A \cup B = V \ E
  <2>0. E = {ids[i] : i \in (p + 1)..(L - s)}
    BY DEF Erased, L
  <2>1. ASSUME NEW i \in 1..L PROVE ids[i] \in A \cup B <=> ids[i] \notin E
    <3>1. CASE i \in (p + 1)..(L - s)
      <4>1. ids[i] \in E
        BY <2>0, <3>1
      <4>2. ASSUME NEW j \in (0 + 1)..p PROVE ids[j] # ids[i]
        <5>1. j \in 1..L /\ j # i
          BY <1>2, <1>3, <3>1
        <5> QED BY <1>2, <5>1
      <4>3. ASSUME NEW j \in ((L - s) + 1)..L PROVE ids[j] # ids[i]
        <5>1. j \in 1..L /\ j # i
          BY <1>2, <1>3, <3>1
        <5> QED BY <1>2, <5>1
      <4> QED BY <4>1, <4>2, <4>3
    <3>2. CASE i \notin (p + 1)..(L - s)
      <4>1. i \in (0 + 1)..p \/ i \in ((L - s) + 1)..L
        BY <1>2, <1>3, <3>2
      <4>2. ids[i] \in A \cup B
        BY <4>1
      <4>3. ASSUME NEW j \in (p + 1)..(L - s) PROVE ids[j] # ids[i]
        <5>1. j \in 1..L /\ j # i
          BY <1>2, <1>3, <3>2
        <5> QED BY <1>2, <5>1
      <4>4. ids[i] \notin E
        BY <2>0, <4>3
      <4> QED BY <4>2, <4>4
    <3> QED BY <3>1, <3>2
  <2>2. A \cup B \subseteq V
    <3>1. (\A i \in (0 + 1)..p : i \in 1..L) /\ \A i \in ((L - s) + 1)..L : i \in 1..L
      BY <1>2, <1>3
    <3> QED BY <1>2, <3>1
  <2> HIDE DEF A, B, E
  <2> QED BY <1>2, <2>1, <2>2
<1> HIDE DEF A, B, E, V
<1>10. stay = a \o b
  <2>1. Lists(ns, a \o b, V \ E)
    BY <1>6, <1>7, <1>8, <1>9, ListsConcat
  <2> QED BY <1>1, <1>4, <1>5, <2>1, ListsAgree
<1>11. /\ Len(a \o b) = p + s
       /\ \A i \in 1..(p + s) : (a \o b)[i] = IF i <= p THEN a[i] ELSE b[i - p]
  <2>1. a \in Seq(DOMAIN ns) /\ b \in Seq(DOMAIN ns)
    BY <1>6, <1>7 DEF Lists
  <2>2. /\ Len(a \o b) = Len(a) + Len(b)
        /\ \A i \in 1..(Len(a) + Len(b)) : (a \o b)[i] = IF i <= Len(a) THEN a[i] ELSE b[i - Len(a)]
    BY <2>1, ConcatProperties
  <2> QED BY <1>6, <1>7, <2>2
<1>12. \A i \in 1..p : stay[i] = ids[i]
  <2>1. \A i \in 1..p : i \in 1..(p + s) /\ i <= p
    BY <1>3
  <2> QED BY <1>6, <1>10, <1>11, <2>1
<1>13. \A i \in 1..s : stay[p + i] = ids[L - s + i]
  <2>1. \A i \in 1..s : p + i \in 1..(p + s) /\ ~(p + i <= p) /\ (p + i) - p = i
    BY <1>3
  <2> QED BY <1>7, <1>10, <1>11, <2>1
<1> QED BY <1>4, <1>5, <1>10, <1>11, <1>12, <1>13 DEF stay, L, V, E, Stayed

\* The id of the letter at place i of a run.
RunId(client, seq, i) == <<client, seq + i>>

(* A run hangs from the letter it was typed after, each of its letters from    *)
(* the one before.                                                             *)
LEMMA RunHangs ==
  ASSUME NEW ns, NEW ids, NEW client, NEW seq, Editable(ns, ids, client, seq),
         NEW new \in Seq(Value), NEW nn, NEW p, NEW s, NEW t,
         IsEdit(ns, ids, client, seq, new, nn, p, s, t),
         NEW j \in 1..t
  PROVE  /\ RunId(client, seq, j) \in DOMAIN nn
         /\ TypedAfter(ids, p) \in Up(nn, RunId(client, seq, j))
         /\ \A i \in 1..j : RunId(client, seq, i) \in Up(nn, RunId(client, seq, j))
<1> DEFINE id(i) == RunId(client, seq, i)
           anchor == TypedAfter(ids, p)
           Hangs(k) == anchor \in Up(nn, id(k)) /\ \A i \in 1..k : id(i) \in Up(nn, id(k))
           Bad == {k \in 1..t : ~Hangs(k)}
<1>1. /\ Tree(nn) /\ DOMAIN nn = DOMAIN ns \cup Run(client, seq, t)
      /\ DOMAIN ns \subseteq DOMAIN nn
  <2>1. EditGrown(ns, nn, Run(client, seq, t), t, Erased(ids, p, s))
    BY EditGrows
  <2> QED BY <2>1 DEF EditGrown, GrowsTo
<1>2. \A i \in 1..t : id(i) \in DOMAIN nn
  BY <1>1 DEF Run, RunId
<1>3. t \in Nat /\ \A i \in 1..t : nn[id(i)].previous_id = IF i > 1 THEN id(i - 1) ELSE anchor
  <2>1. t \in Nat /\ \A i \in 1..t : nn[id(i)] = RunNode(ids, client, seq, new, p, i)
    BY DEF IsEdit, RunId
  <2>2. ASSUME NEW i \in 1..t
        PROVE  nn[id(i)].previous_id = IF i > 1 THEN id(i - 1) ELSE anchor
    <3>1. RunNode(ids, client, seq, new, p, i).previous_id = IF i > 1 THEN id(i - 1) ELSE anchor
      BY DEF RunNode, RunId
    <3> QED BY <2>1, <3>1
  <2> QED BY <2>1, <2>2
<1>4. anchor \in DOMAIN nn \cup {Head0}
  <2>1. ids \in Seq(DOMAIN ns) /\ p \in Nat /\ p <= Len(ids)
    BY DEF Editable, Lists, IsEdit
  <2>2. p > 0 => ids[p] \in DOMAIN ns
    <3>1. p > 0 => p \in 1..Len(ids)
      BY <2>1
    <3> QED BY <2>1, <3>1
  <2> QED BY <1>1, <2>2 DEF TypedAfter
<1> HIDE DEF id, anchor
<1>5. \A k \in 1..t : Up(nn, id(k)) = Up(nn, IF k > 1 THEN id(k - 1) ELSE anchor) \cup {id(k)}
  BY <1>1, <1>2, <1>3, UpStep
<1>6. ASSUME NEW k \in 1..t, k > 1 => Hangs(k - 1) PROVE Hangs(k)
  <2>1. CASE k = 1
    <3>1. Up(nn, id(k)) = Up(nn, anchor) \cup {id(k)}
      BY <1>5, <2>1
    <3>2. anchor \in Up(nn, anchor)
      BY <1>1, <1>4, UpNests
    <3>3. \A i \in 1..k : i = k
      BY <2>1
    <3> QED BY <3>1, <3>2, <3>3
  <2>2. CASE k # 1
    <3>1. k > 1 /\ \A i \in 1..k : i = k \/ i \in 1..(k - 1)
      BY <1>3, <2>2
    <3>2. Up(nn, id(k)) = Up(nn, id(k - 1)) \cup {id(k)}
      BY <1>5, <3>1
    <3>3. Hangs(k - 1)
      BY <1>6, <3>1
    <3> QED BY <3>1, <3>2, <3>3
  <2> QED BY <2>1, <2>2
<1> HIDE DEF Hangs
<1>7. Bad = {}
  <2> SUFFICES ASSUME Bad # {} PROVE FALSE
    OBVIOUS
  <2>1. Bad \subseteq Nat
    OBVIOUS
  <2>2. PICK k \in Bad : \A l \in Bad : k <= l
    BY <2>1, Least
  <2>3. k \in 1..t /\ ~Hangs(k)
    BY <2>2
  <2>4. k > 1 => k - 1 \in 1..t /\ ~(k <= k - 1)
    BY <1>3, <2>3
  <2>5. k > 1 => k - 1 \notin Bad
    BY <2>2, <2>4
  <2>6. k > 1 => Hangs(k - 1)
    BY <2>4, <2>5
  <2> QED BY <1>6, <2>3, <2>6
<1>8. Hangs(j)
  BY <1>7
<1> QED BY <1>2, <1>8 DEF Hangs, id, anchor

\* The run as a list.
TheRun(client, seq, t) == [i \in 1..t |-> RunId(client, seq, i)]

\* The run is one chain after its anchor, and nothing that was there is below it.
RunIsChain(ns, nn, client, seq, t, anchor) ==
    /\ Lists(nn, TheRun(client, seq, t), Run(client, seq, t))
    /\ Len(TheRun(client, seq, t)) = t
    /\ \A j \in 1..t :
          /\ RunId(client, seq, j) \in DOMAIN nn
          /\ RunId(client, seq, j) \in Run(client, seq, t)
          /\ anchor # Head0 => RunId(client, seq, j) \in Sub(nn, anchor)
          /\ RunId(client, seq, j) \in Sub(nn, RunId(client, seq, 1))
    /\ t > 0 => \A n \in DOMAIN ns : n \notin Sub(nn, RunId(client, seq, 1))

(* In the document the run is in the order it was typed in.                    *)
LEMMA RunIsListed ==
  ASSUME NEW ns, NEW ids, NEW client, NEW seq, Editable(ns, ids, client, seq),
         NEW new \in Seq(Value), NEW nn, NEW p, NEW s, NEW t,
         IsEdit(ns, ids, client, seq, new, nn, p, s, t)
  PROVE  RunIsChain(ns, nn, client, seq, t, TypedAfter(ids, p))
<1> DEFINE id(i) == RunId(client, seq, i)
           R == Run(client, seq, t)
           r == TheRun(client, seq, t)
           anchor == TypedAfter(ids, p)
<1>1. /\ GrowsTo(ns, nn) /\ Tree(ns) /\ Tree(nn) /\ DOMAIN nn = DOMAIN ns \cup R
      /\ R \cap DOMAIN ns = {} /\ R \subseteq Id
  <2>1. EditGrown(ns, nn, Run(client, seq, t), t, Erased(ids, p, s))
    BY EditGrows
  <2> QED BY <2>1 DEF EditGrown, GrowsTo
<1>2. t \in Nat /\ seq \in Nat
  BY DEF IsEdit, Editable
<1>3. \A j \in 1..t : /\ id(j) \in DOMAIN nn /\ anchor \in Up(nn, id(j))
                      /\ \A i \in 1..j : id(i) \in Up(nn, id(j))
  BY RunHangs
<1>4. R = {id(i) : i \in 1..t} /\ \A i, j \in 1..t : id(i) = id(j) => i = j
  <2>1. \A i, j \in 1..t : <<client, seq + i>> = <<client, seq + j>> => i = j
    <3> SUFFICES ASSUME NEW i \in 1..t, NEW j \in 1..t, <<client, seq + i>> = <<client, seq + j>>
                 PROVE  i = j
      OBVIOUS
    <3>1. seq + i = seq + j
      OBVIOUS
    <3> QED BY <1>2, <3>1
  <2> QED BY <2>1 DEF Run, RunId
<1>5. r = [i \in 1..t |-> id(i)]
  BY DEF TheRun
<1> HIDE DEF id, R, r, anchor
<1>6. \A j \in 1..t : \A i \in 1..j : id(j) \in Sub(nn, id(i))
  <2> SUFFICES ASSUME NEW j \in 1..t, NEW i \in 1..j PROVE id(j) \in Sub(nn, id(i))
    OBVIOUS
  <2> QED BY <1>3 DEF Sub
<1>7. \A j \in 1..t : id(j) \in R /\ id(j) \in DOMAIN nn /\ id(j) \in Sub(nn, anchor)
                      /\ id(j) \in Sub(nn, id(1))
  <2> TAKE j \in 1..t
  <2>1. 1 \in 1..j
    BY <1>2
  <2>2. id(j) \in Sub(nn, id(1))
    BY <1>6, <2>1
  <2> QED BY <1>3, <1>4, <2>2 DEF Sub
<1>8. r \in Seq(DOMAIN nn) /\ Len(r) = t /\ DOMAIN r = 1..t /\ Range(r) = R
  <2>1. r \in [1..t -> DOMAIN nn]
    BY <1>5, <1>7
  <2>2. r \in Seq(DOMAIN nn)
    BY <1>2, <2>1
  <2>3. DOMAIN r = 1..t
    BY <1>5
  <2>4. Len(r) = t
    BY <1>2, <2>2, <2>3
  <2>5. Range(r) = R
    BY <1>4, <1>5 DEF Range
  <2> QED BY <2>2, <2>3, <2>4, <2>5
<1>9. ASSUME NEW i \in 1..t, NEW j \in 1..t, i < j PROVE Precedes(nn, id(i), id(j))
  <2>1. i \in 1..j /\ i # j
    BY <1>2, <1>9
  <2>2. id(j) \in Sub(nn, id(i)) /\ id(j) # id(i) /\ id(i) \in DOMAIN nn
    BY <1>4, <1>6, <1>7, <2>1
  <2> QED BY <1>1, <2>2, SubFollows
<1>10. Lists(nn, r, R)
  <2>1. \A i, j \in DOMAIN r : i < j => Precedes(nn, r[i], r[j])
    BY <1>5, <1>8, <1>9
  <2> QED BY <1>8, <2>1 DEF Lists
<1>11. ASSUME t > 0, NEW n \in DOMAIN ns PROVE n \notin Sub(nn, id(1))
  <2>1. id(1) \in R
    <3>1. 1 \in 1..t
      BY <1>2, <1>11
    <3> QED BY <1>7, <3>1
  <2>2. id(1) \notin DOMAIN ns /\ id(1) # Head0
    BY <1>1, <2>1, HeadIsNoId
  <2>3. Path(nn)[n] = Path(ns)[n]
    BY <1>1, PathGrows DEF GrowsTo
  <2>4. Up(nn, n) = Up(ns, n)
    BY <2>3 DEF Up
  <2>5. Up(ns, n) \subseteq DOMAIN ns \cup {Head0}
    BY <1>1, UpNests
  <2> QED BY <2>2, <2>4, <2>5 DEF Sub
<1> QED BY <1>7, <1>8, <1>10, <1>11 DEF RunIsChain, id, R, r, anchor

\* Up to place k the letters come before n, and from there on after it.
Splits(nodes0, stay, n, k) ==
    /\ k \in 0..Len(stay)
    /\ \A i \in 1..Len(stay) : i <= k <=> Precedes(nodes0, stay[i], n)

SplitExists(nodes0, stay, n) == \E k : Splits(nodes0, stay, n, k)

(* There is such a place.                                                      *)
LEMMA ListsSplit ==
  ASSUME NEW nodes0, Tree(nodes0), NEW D, NEW stay, Lists(nodes0, stay, D), NEW n \in DOMAIN nodes0
  PROVE  SplitExists(nodes0, stay, n)
<1> DEFINE m == Len(stay)
           Out == {i \in 1..m : ~Precedes(nodes0, stay[i], n)}
<1>1. /\ m \in Nat /\ \A i \in 1..m : stay[i] \in DOMAIN nodes0
      /\ \A i, j \in 1..m : i < j => Precedes(nodes0, stay[i], stay[j])
  BY ListsOnce
<1>2. CASE Out = {}
  <2>1. Splits(nodes0, stay, n, m)
    <3>1. \A i \in 1..m : Precedes(nodes0, stay[i], n) /\ i <= m
      BY <1>1, <1>2
    <3>2. m \in 0..m
      BY <1>1
    <3> QED BY <3>1, <3>2 DEF Splits
  <2> QED BY <2>1 DEF SplitExists
<1>3. CASE Out # {}
  <2>1. Out \subseteq Nat
    OBVIOUS
  <2>2. PICK l \in Out : \A i \in Out : l <= i
    BY <1>3, <2>1, Least
  <2>3. l \in 1..m /\ ~Precedes(nodes0, stay[l], n)
    BY <2>2
  <2>4. l - 1 \in 0..m
    BY <1>1, <2>3
  <2>5. ASSUME NEW i \in 1..m PROVE i <= l - 1 <=> Precedes(nodes0, stay[i], n)
    <3>1. CASE i < l
      <4>1. i <= l - 1 /\ ~(l <= i)
        BY <1>1, <2>3, <3>1
      <4>2. i \notin Out
        BY <2>2, <4>1
      <4> QED BY <4>1, <4>2
    <3>2. CASE i = l
      <4>1. ~(i <= l - 1)
        BY <1>1, <2>3, <3>2
      <4> QED BY <2>3, <3>2, <4>1
    <3>3. CASE l < i
      <4>1. ~(i <= l - 1)
        BY <1>1, <2>3, <3>3
      <4>2. Precedes(nodes0, stay[l], stay[i])
        BY <1>1, <2>3, <3>3
      <4>3. stay[l] \in DOMAIN nodes0 /\ stay[i] \in DOMAIN nodes0
        BY <1>1, <2>3
      <4>4. ~Precedes(nodes0, stay[i], n)
        BY <2>3, <4>2, <4>3, PrecedesIsOrder
      <4> QED BY <4>1, <4>4
    <3>4. i < l \/ i = l \/ l < i
      BY <1>1, <2>3
    <3> QED BY <3>1, <3>2, <3>3, <3>4
  <2>6. Splits(nodes0, stay, n, l - 1)
    BY <2>4, <2>5 DEF Splits
  <2> QED BY <2>6 DEF SplitExists
<1> QED BY <1>2, <1>3

\* The letters after the a-th of a list, up to the b-th.
IsPart(ns, s, a, b) ==
    /\ Lists(ns, SubSeq(s, a + 1, b), {s[i] : i \in (a + 1)..b})
    /\ a <= b => Len(SubSeq(s, a + 1, b)) = b - a
    /\ \A i \in 1..(b - a) : SubSeq(s, a + 1, b)[i] = s[a + i]

LEMMA PartIs ==
  ASSUME NEW ns, NEW D, NEW s, Lists(ns, s, D), NEW a \in Nat, NEW b \in Nat, b <= Len(s)
  PROVE  IsPart(ns, s, a, b)
<1> QED BY ListsPart DEF IsPart

(* A run put where all before it precede it and all after it follow.           *)
LEMMA PutInLists ==
  ASSUME NEW nodes0, Tree(nodes0), NEW D, NEW stay, Lists(nodes0, stay, D),
         NEW R, NEW run, Lists(nodes0, run, R), NEW k \in 0..Len(stay),
         \A i \in 1..k : \A n \in R : Precedes(nodes0, stay[i], n),
         \A i \in (k + 1)..Len(stay) : \A n \in R : Precedes(nodes0, n, stay[i])
  PROVE  Lists(nodes0, PutIn(stay, k, run), D \cup R)
<1> DEFINE m == Len(stay)
           Part(c, d) == SubSeq(stay, c + 1, d)
           Of(c, d) == {stay[i] : i \in (c + 1)..d}
           a == Part(0, k)
           b == Part(k, m)
           A == Of(0, k)
           B == Of(k, m)
<1>1. /\ m \in Nat /\ k \in Nat /\ k <= m /\ 0 \in Nat
      /\ D = {stay[i] : i \in 1..m}
      /\ \A i, j \in 1..m : i < j => Precedes(nodes0, stay[i], stay[j])
  BY ListsOnce
<1>2. IsPart(nodes0, stay, 0, k) /\ IsPart(nodes0, stay, k, m)
  BY <1>1, PartIs
<1>3. Lists(nodes0, a, A) /\ Lists(nodes0, b, B)
  <2> HIDE DEF m
  <2> QED BY <1>2 DEF IsPart
<1>4. \A x \in A : \E i \in 1..k : x = stay[i]
  <2>1. 0 + 1 = 1
    OBVIOUS
  <2> QED BY <2>1
<1>5. \A x \in B : \E i \in (k + 1)..m : x = stay[i]
  OBVIOUS
<1>6. D = A \cup B
  <2>1. \A i \in 1..m : i \in (0 + 1)..k \/ i \in (k + 1)..m
    BY <1>1
  <2>2. (\A i \in (0 + 1)..k : i \in 1..m) /\ \A i \in (k + 1)..m : i \in 1..m
    BY <1>1
  <2> QED BY <1>1, <2>1, <2>2
<1>7. \A x \in A, y \in B : Precedes(nodes0, x, y)
  <2>1. \A i \in 1..k, j \in (k + 1)..m : i \in 1..m /\ j \in 1..m /\ i < j
    BY <1>1
  <2> HIDE DEF A, B
  <2> QED BY <1>1, <1>4, <1>5, <2>1
<1>8. PutIn(stay, k, run) = (a \o run) \o b
  <2>1. PutIn(stay, k, run) = SubSeq(stay, 1, k) \o run \o SubSeq(stay, k + 1, m)
    BY DEF PutIn
  <2>2. SubSeq(stay, 1, k) = a
    <3>1. 0 + 1 = 1
      OBVIOUS
    <3> QED BY <3>1
  <2> QED BY <2>1, <2>2
<1> HIDE DEF a, b, A, B
<1>9. Lists(nodes0, a \o run, A \cup R)
  <2>1. \A x \in A, y \in R : Precedes(nodes0, x, y)
    BY <1>4
  <2> QED BY <1>3, <2>1, ListsConcat
<1>10. Lists(nodes0, (a \o run) \o b, (A \cup R) \cup B)
  <2>1. \A x \in R, y \in B : Precedes(nodes0, x, y)
    BY <1>5
  <2>2. \A x \in A \cup R, y \in B : Precedes(nodes0, x, y)
    BY <1>7, <2>1
  <2> QED BY <1>3, <1>9, <2>2, ListsConcat
<1>11. (A \cup R) \cup B = D \cup R
  BY <1>6
<1> QED BY <1>8, <1>10, <1>11

\* The text is the one typed, with the run after the p-th letter that stays; in the
\* document it comes after the k-th.
LandsAt(ns, nn, stay, run, ids2, new, p, k) ==
    /\ p \in 0..Len(stay) /\ k \in p..Len(stay)
    /\ Spelled(nn, PutIn(stay, p, run)) = new
    /\ ids2 = PutIn(stay, k, run)
    /\ \A i \in (p + 1)..k : p > 0 => stay[p] \in Range(Path(ns)[stay[i]])

Lands(ns, nn, stay, run, ids2, new) ==
    \E p, k : LandsAt(ns, nn, stay, run, ids2, new, p, k)

(* The run spells what was typed, where the user sees it.                      *)
LEMMA RunSpells ==
  ASSUME NEW ns, NEW ids, NEW client, NEW seq, Editable(ns, ids, client, seq),
         NEW new \in Seq(Value), NEW nn, NEW p, NEW s, NEW t,
         IsEdit(ns, ids, client, seq, new, nn, p, s, t)
  PROVE  /\ p \in 0..Len(Within(ids, Visible(nn)))
         /\ Spelled(nn, PutIn(Within(ids, Visible(nn)), p, TheRun(client, seq, t))) = new
<1> DEFINE stay == Within(ids, Visible(nn))
           run == TheRun(client, seq, t)
           x == PutIn(stay, p, run)
           L == Len(ids)
<1>1. /\ p \in Nat /\ s \in Nat /\ t \in Nat /\ p + s <= L /\ Len(new) = p + t + s
      /\ \A i \in 1..p : new[i] = ns[ids[i]].value
      /\ \A i \in 1..s : new[p + t + i] = ns[ids[L - s + i]].value
      /\ \A i \in 1..t : nn[RunId(client, seq, i)] = RunNode(ids, client, seq, new, p, i)
      /\ \A n \in DOMAIN ns : nn[n] = [ns[n] EXCEPT !.deleted = @ \/ n \in Erased(ids, p, s)]
  BY DEF IsEdit, RunId
<1>2. /\ Lists(ns, stay, Visible(ns) \ Erased(ids, p, s)) /\ Len(stay) = p + s
      /\ \A i \in 1..p : stay[i] = ids[i]
      /\ \A i \in 1..s : stay[p + i] = ids[L - s + i]
  <2>1. Stayed(ns, ids, stay, p, s)
    BY StayIs
  <2> QED BY <2>1 DEF Stayed
<1>3. GrowsTo(ns, nn) /\ IsNodeMap(nn)
  <2>1. EditGrown(ns, nn, Run(client, seq, t), t, Erased(ids, p, s))
    BY EditGrows
  <2> QED BY <2>1 DEF EditGrown, GrowsTo, Tree
<1>4. ids \in Seq(DOMAIN ns) /\ L \in Nat /\ \A i \in 1..L : ids[i] \in DOMAIN ns
  BY DEF Editable, Lists
<1>5. RunIsChain(ns, nn, client, seq, t, TypedAfter(ids, p))
  BY RunIsListed
<1>6. run \in Seq(DOMAIN nn) /\ Len(run) = t /\ \A i \in 1..t : run[i] = RunId(client, seq, i)
  <2>1. run \in Seq(DOMAIN nn) /\ Len(run) = t
    BY <1>5 DEF RunIsChain, Lists
  <2> QED BY <2>1 DEF TheRun
<1>7. stay \in Seq(DOMAIN nn)
  <2>1. Lists(nn, stay, Visible(ns) \ Erased(ids, p, s))
    BY <1>2, <1>3, ListsGrow
  <2> QED BY <2>1 DEF Lists
<1>8. \A n \in DOMAIN ns : nn[n].value = ns[n].value
  <2> TAKE n \in DOMAIN ns
  <2>1. nn[n] = [ns[n] EXCEPT !.deleted = @ \/ n \in Erased(ids, p, s)]
    BY <1>1
  <2>2. ns[n] \in Node
    <3>1. IsNodeMap(ns)
      BY DEF Editable, Tree
    <3> QED BY <3>1 DEF IsNodeMap
  <2> QED BY <2>1, <2>2 DEF Node
<1> HIDE DEF stay, run, x, L
<1>9. p \in 0..Len(stay)
  BY <1>1, <1>2
<1>10. /\ x \in Seq(DOMAIN nn) /\ Len(x) = (p + s) + t
       /\ \A i \in 1..p : x[i] = stay[i]
       /\ \A i \in 1..t : x[p + i] = run[i]
       /\ \A i \in (p + 1)..(p + s) : x[t + i] = stay[i]
  <2>1. IsPutIn(x, DOMAIN nn, stay, p, run)
    BY <1>6, <1>7, <1>9, PutInIs DEF x
  <2> QED BY <1>2, <1>6, <2>1 DEF IsPutIn
<1>11. /\ Spelled(nn, x) \in Seq(Value) /\ Len(Spelled(nn, x)) = Len(x)
       /\ \A i \in 1..Len(x) : Spelled(nn, x)[i] = nn[x[i]].value
  BY <1>3, <1>10, SpelledIs
<1>12. Len(new) = Len(x)
  BY <1>1, <1>10
<1>13. ASSUME NEW i \in 1..Len(x) PROVE Spelled(nn, x)[i] = new[i]
  <2>1. CASE i \in 1..p
    <3>1. i \in 1..L
      BY <1>1, <1>4, <2>1
    <3>2. x[i] = ids[i] /\ ids[i] \in DOMAIN ns
      BY <1>2, <1>4, <1>10, <2>1, <3>1
    <3> QED BY <1>1, <1>8, <1>11, <2>1, <3>2
  <2>2. CASE i \in (p + 1)..(p + t)
    <3>1. i - p \in 1..t /\ p + (i - p) = i
      BY <1>1, <2>2
    <3>2. x[i] = RunId(client, seq, i - p)
      BY <1>6, <1>10, <3>1
    <3>3. nn[x[i]].value = new[p + (i - p)]
      <4>1. nn[x[i]] = RunNode(ids, client, seq, new, p, i - p)
        BY <1>1, <3>1, <3>2
      <4>2. RunNode(ids, client, seq, new, p, i - p).value = new[p + (i - p)]
        BY DEF RunNode
      <4> QED BY <4>1, <4>2
    <3> QED BY <1>11, <3>1, <3>3
  <2>3. CASE i \in (p + t + 1)..(p + s + t)
    <3> DEFINE j == i - (p + t)
    <3>1. /\ j \in 1..s /\ p + j \in (p + 1)..(p + s) /\ t + (p + j) = i /\ p + t + j = i
          /\ L - s + j \in 1..L
      <4>1. p \in Nat /\ s \in Nat /\ t \in Nat /\ L \in Nat /\ p + s <= L
        BY <1>1, <1>4
      <4>2. i \in Int /\ p + t + 1 <= i /\ i <= p + s + t
        BY <2>3, <4>1
      <4> QED BY <4>1, <4>2
    <3> HIDE DEF j
    <3>2. x[i] = stay[p + j]
      BY <1>10, <3>1
    <3>3. x[i] = ids[L - s + j] /\ ids[L - s + j] \in DOMAIN ns
      BY <1>2, <1>4, <3>1, <3>2
    <3> QED BY <1>1, <1>8, <1>11, <3>1, <3>3
  <2>4. i \in 1..p \/ i \in (p + 1)..(p + t) \/ i \in (p + t + 1)..(p + s + t)
    BY <1>1, <1>10
  <2> QED BY <2>1, <2>2, <2>3, <2>4
<1>14. Spelled(nn, x) = new
  <2> DEFINE y == Spelled(nn, x)
  <2>1. y \in Seq(Value) /\ new \in Seq(Value) /\ Len(y) = Len(new) /\ \A i \in 1..Len(y) : y[i] = new[i]
    BY <1>11, <1>12, <1>13
  <2> HIDE DEF y
  <2>2. y = new
    BY <2>1, SeqEqual
  <2> QED BY <2>2 DEF y
<1> QED BY <1>9, <1>14 DEF x, stay, run

(* What an input event does to the replica's text.                             *)
LEMMA RunLands ==
  ASSUME NEW ns, NEW ids, NEW client, NEW seq, Editable(ns, ids, client, seq),
         NEW new \in Seq(Value), NEW nn, NEW p, NEW s, NEW t,
         IsEdit(ns, ids, client, seq, new, nn, p, s, t),
         NEW ids2, Lists(nn, ids2, Visible(nn))
  PROVE  Lands(ns, nn, Within(ids, Visible(nn)), Within(ids2, DOMAIN nn \ DOMAIN ns), ids2, new)
<1> DEFINE stay == Within(ids, Visible(nn))
           run == TheRun(client, seq, t)
           R == Run(client, seq, t)
           D == Visible(ns) \ Erased(ids, p, s)
           anchor == TypedAfter(ids, p)
           id(i) == RunId(client, seq, i)
           m == Len(stay)
<1>1. /\ GrowsTo(ns, nn) /\ Tree(ns) /\ Tree(nn) /\ DOMAIN nn = DOMAIN ns \cup R
      /\ R \cap DOMAIN ns = {} /\ Visible(nn) = D \cup R
  <2>1. EditGrown(ns, nn, Run(client, seq, t), t, Erased(ids, p, s))
    BY EditGrows
  <2> QED BY <2>1 DEF EditGrown, GrowsTo
<1>2. /\ Lists(ns, stay, D) /\ m = p + s /\ \A i \in 1..p : stay[i] = ids[i]
  <2>1. Stayed(ns, ids, stay, p, s)
    BY StayIs
  <2> QED BY <2>1 DEF Stayed
<1>3. p \in 0..m /\ Spelled(nn, PutIn(stay, p, run)) = new
  BY RunSpells
<1>4. RunIsChain(ns, nn, client, seq, t, anchor)
  BY RunIsListed
<1>5. /\ Lists(nn, run, R) /\ Len(run) = t
      /\ \A j \in 1..t : /\ id(j) \in DOMAIN nn /\ id(j) \in R
                         /\ anchor # Head0 => id(j) \in Sub(nn, anchor)
                         /\ id(j) \in Sub(nn, id(1))
      /\ t > 0 => \A n \in DOMAIN ns : n \notin Sub(nn, id(1))
  BY <1>4 DEF RunIsChain
<1>6. R = {id(i) : i \in 1..t} /\ t \in Nat /\ p \in Nat
  BY DEF Run, RunId, IsEdit
<1>a. anchor = IF p > 0 THEN ids[p] ELSE Head0
  BY DEF TypedAfter
<1>7. Within(ids2, DOMAIN nn \ DOMAIN ns) = run
  <2>1. DOMAIN nn \ DOMAIN ns = R /\ Visible(nn) \cap R = R
    <3> HIDE DEF R, D
    <3> QED BY <1>1
  <2>2. Lists(nn, Within(ids2, R), Visible(nn) \cap R)
    BY WithinLists
  <2>3. Lists(nn, Within(ids2, R), R)
    BY <2>1, <2>2
  <2> HIDE DEF R, run
  <2>4. Within(ids2, R) = run
    BY <1>1, <1>5, <2>3, ListsAgree
  <2> QED BY <2>1, <2>4
<1> HIDE DEF stay, run, R, D, anchor, id, m
<1>m. m = Len(stay)
  BY DEF m
<1>8. Lists(nn, stay, D)
  BY <1>1, <1>2, ListsGrow
<1>9. /\ m \in Nat /\ D = {stay[i] : i \in 1..m}
      /\ \A i \in 1..m : stay[i] \in DOMAIN ns /\ stay[i] \in DOMAIN nn
      /\ \A i, j \in 1..m : i < j => Precedes(ns, stay[i], stay[j]) /\ Precedes(nn, stay[i], stay[j])
  <2>1. /\ m \in Nat /\ D = {stay[i] : i \in 1..m}
        /\ \A i \in 1..m : stay[i] \in DOMAIN nn
        /\ \A i, j \in 1..m : i < j => Precedes(nn, stay[i], stay[j])
    <3>1. Tree(nn)
      BY <1>1
    <3>2. /\ Len(stay) \in Nat /\ D = {stay[i] : i \in 1..Len(stay)}
          /\ \A i \in 1..Len(stay) : stay[i] \in DOMAIN nn
          /\ \A i, j \in 1..Len(stay) : i < j => Precedes(nn, stay[i], stay[j])
      BY <1>8, <3>1, ListsOnce
    <3> QED BY <1>m, <3>2
  <2>2. /\ \A i \in 1..m : stay[i] \in DOMAIN ns
        /\ \A i, j \in 1..m : i < j => Precedes(ns, stay[i], stay[j])
    BY <1>1, <1>2, <1>m, ListsOnce
  <2> QED BY <2>1, <2>2
\* Wherever all before it precede it and all after it follow, there it is.
<1>10. ASSUME NEW k \in 0..m,
              \A i \in 1..k : \A n \in R : Precedes(nn, stay[i], n),
              \A i \in (k + 1)..m : \A n \in R : Precedes(nn, n, stay[i])
       PROVE  ids2 = PutIn(stay, k, run)
  <2>1. Lists(nn, PutIn(stay, k, run), D \cup R)
    BY <1>1, <1>5, <1>8, <1>10, <1>m, PutInLists
  <2>2. Lists(nn, ids2, D \cup R)
    BY <1>1
  <2> QED BY <1>1, <2>1, <2>2, ListsAgree
<1>11. CASE t = 0
  <2>1. R = {}
    BY <1>6, <1>11
  <2>2. ids2 = PutIn(stay, p, run)
    BY <1>3, <1>10, <2>1
  <2>3. p \in p..m /\ \A i \in (p + 1)..p : FALSE
    BY <1>3, <1>6
  <2>4. LandsAt(ns, nn, stay, run, ids2, new, p, p)
    BY <1>3, <1>m, <2>2, <2>3 DEF LandsAt
  <2> QED BY <1>7, <2>4 DEF Lands, stay
<1>12. CASE t # 0
  <2>1. t > 0 /\ 1 \in 1..t
    BY <1>6, <1>12
  <2>2. id(1) \in DOMAIN nn /\ id(1) \in R /\ id(1) \notin DOMAIN ns
    BY <1>1, <1>5, <2>1
  <2>3. SplitExists(nn, stay, id(1))
    BY <1>1, <1>8, <2>2, ListsSplit
  <2>4. PICK k : Splits(nn, stay, id(1), k)
    BY <2>3 DEF SplitExists
  <2>5. k \in 0..m /\ \A i \in 1..m : i <= k <=> Precedes(nn, stay[i], id(1))
    BY <2>4, <1>m DEF Splits
  <2>6. ASSUME NEW i \in 1..k, NEW n \in R PROVE Precedes(nn, stay[i], n)
    <3>1. i \in 1..m /\ i <= k
      BY <1>9, <2>5
    <3>2. Precedes(nn, stay[i], id(1)) /\ stay[i] \in DOMAIN nn
      BY <1>9, <2>5, <3>1
    <3>3. n \in DOMAIN nn /\ n \in Sub(nn, id(1))
      BY <1>5, <1>6
    <3>4. CASE n = id(1)
      BY <3>2, <3>4
    <3>5. CASE n # id(1)
      <4>1. Precedes(nn, id(1), n)
        BY <1>1, <2>2, <3>3, <3>5, SubFollows
      <4> QED BY <1>1, <2>2, <3>2, <3>3, <4>1, PrecedesIsOrder
    <3> QED BY <3>4, <3>5
  <2>7. ASSUME NEW i \in (k + 1)..m, NEW n \in R PROVE Precedes(nn, n, stay[i])
    <3>1. i \in 1..m /\ ~(i <= k)
      BY <1>9, <2>5
    <3>2. ~Precedes(nn, stay[i], id(1)) /\ stay[i] \in DOMAIN nn /\ stay[i] \in DOMAIN ns
      BY <1>9, <2>5, <3>1
    <3>3. Precedes(nn, id(1), stay[i])
      BY <1>1, <2>2, <3>2, PrecedesTotal
    <3>4. n \in Sub(nn, id(1)) /\ stay[i] \notin Sub(nn, id(1))
      BY <1>5, <1>6, <2>1, <3>2
    <3> QED BY <1>1, <2>2, <3>2, <3>3, <3>4, SubTogether
  <2>8. ids2 = PutIn(stay, k, run)
    BY <1>10, <2>5, <2>6, <2>7
  \* The anchor is the last letter of the common beginning.
  <2>9. p > 0 => /\ p \in 1..m /\ anchor = stay[p] /\ anchor # Head0
                 /\ anchor \in DOMAIN nn /\ anchor \in DOMAIN ns
                 /\ Precedes(nn, anchor, id(1))
    <3> SUFFICES ASSUME p > 0
                 PROVE  /\ p \in 1..m /\ anchor = stay[p] /\ anchor # Head0
                        /\ anchor \in DOMAIN nn /\ anchor \in DOMAIN ns
                        /\ Precedes(nn, anchor, id(1))
      OBVIOUS
    <3>1. p \in 1..m /\ p \in 1..p
      BY <1>3, <1>6
    <3>2. anchor = stay[p]
      BY <1>2, <1>a, <3>1
    <3>3. anchor \in DOMAIN nn /\ anchor \in DOMAIN ns
      BY <1>9, <3>1, <3>2
    <3>4. anchor # Head0
      <4>1. DOMAIN ns \subseteq Id
        BY <1>1 DEF Tree, IsNodeMap
      <4> QED BY <3>3, <4>1, HeadIsNoId
    <3>5. id(1) \in Sub(nn, anchor) /\ id(1) # anchor
      BY <1>5, <2>1, <2>2, <3>3, <3>4
    <3>6. Precedes(nn, anchor, id(1))
      BY <1>1, <3>3, <3>5, SubFollows
    <3> QED BY <3>1, <3>2, <3>3, <3>4, <3>6
  <2>10. k \in p..m
    <3>1. CASE p = 0
      BY <2>5, <3>1
    <3>2. CASE p # 0
      <4>1. p \in 1..m /\ Precedes(nn, stay[p], id(1))
        BY <1>6, <2>9, <3>2
      <4>2. p <= k
        BY <2>5, <4>1
      <4> QED BY <1>6, <2>5, <4>2
    <3> QED BY <3>1, <3>2
  <2>11. ASSUME NEW i \in (p + 1)..k, p > 0 PROVE stay[p] \in Range(Path(ns)[stay[i]])
    <3>1. i \in 1..m /\ i <= k /\ p < i
      BY <1>6, <1>9, <2>5
    <3>2. /\ p \in 1..m /\ anchor = stay[p] /\ anchor # Head0
          /\ anchor \in DOMAIN nn /\ anchor \in DOMAIN ns
          /\ Precedes(nn, anchor, id(1))
      BY <2>9, <2>11
    <3>3. /\ Precedes(nn, anchor, stay[i]) /\ Precedes(nn, stay[i], id(1))
          /\ stay[i] \in DOMAIN nn /\ stay[i] \in DOMAIN ns
      BY <1>9, <2>5, <3>1, <3>2
    <3>4. id(1) \in Sub(nn, anchor)
      BY <1>5, <2>1, <3>2
    <3>5. stay[i] \in Sub(nn, anchor)
      <4> SUFFICES ASSUME stay[i] \notin Sub(nn, anchor) PROVE FALSE
        OBVIOUS
      <4>1. Precedes(nn, id(1), stay[i])
        BY <1>1, <3>2, <3>3, <3>4, SubTogether
      <4> QED BY <1>1, <2>2, <3>3, <4>1, PrecedesIsOrder
    <3>6. anchor \in Up(nn, stay[i])
      BY <3>5 DEF Sub
    <3>7. stay[i] # Head0
      <4>1. DOMAIN ns \subseteq Id
        BY <1>1 DEF Tree, IsNodeMap
      <4> QED BY <3>3, <4>1, HeadIsNoId
    <3>8. anchor \in Range(Path(nn)[stay[i]])
      BY <3>2, <3>6, <3>7 DEF Up
    <3>9. Path(nn)[stay[i]] = Path(ns)[stay[i]]
      BY <1>1, <3>3, PathGrows DEF GrowsTo
    <3> QED BY <3>2, <3>8, <3>9
  <2>12. LandsAt(ns, nn, stay, run, ids2, new, p, k)
    BY <1>3, <1>m, <2>8, <2>10, <2>11 DEF LandsAt
  <2> QED BY <1>7, <2>12 DEF Lands, stay
<1> QED BY <1>11, <1>12

-----------------------------------------------------------------------------
(* Types.                                                                      *)

NodeMaps == UNION {[D -> Node] : D \in {E \in SUBSET Id : IsFiniteSet(E)}}

TreeMaps == {ns \in NodeMaps : Whole(ns)}

TextState == [type : {"text_state"}, nodes : TreeMaps]

Greeting == [type : {"auth"}, id : Client]

IsCounter(k) == \A side \in Side : k[side] \in [DOMAIN k[side] -> Nat]

\* The three masters; of the list and the text every chain of predecessors is there.
IsMasters(m) ==
    /\ m = [counter |-> m.counter, list |-> m.list, text |-> m.text]
    /\ IsCounter(m.counter) /\ {m.list, m.text} \subseteq TreeMaps

\* A page hears nothing before the connection is open, its id first, and a text next.
Phase(b) ==
    \/ /\ link[b] = "connecting" /\ clientId[b] = 0 /\ DOMAIN nodes[b] = {}
       /\ toBrowser[b] = << >> /\ toServer[b] = << >>
    \/ /\ link[b] = "open" /\ clientId[b] = 0 /\ DOMAIN nodes[b] = {}
       /\ toBrowser[b] # << >> /\ Head(toBrowser[b]) \in Greeting
       /\ Tail(toBrowser[b]) # << >> /\ Tail(toBrowser[b]) \in Seq(TextState)
    \/ /\ link[b] = "open" /\ clientId[b] \in Client
       /\ toBrowser[b] \in Seq(TextState)

\* No id of the page's own lies ahead of its sequence number.
Leads(b) == \A n \in DOMAIN nodes[b] : n[1] = clientId[b] => n[2] <= sequence[b]

\* TypeOK, with the messages under way, and the sibling lists a function of the nodes.
Typed ==
    /\ IsMasters(masters)
    /\ link \in [Browser -> {"connecting", "open"}]
    /\ clientId \in [Browser -> Client \cup {0}]
    /\ textarea \in [Browser -> Seq(Value)]
    /\ nodes \in [Browser -> TreeMaps]
    /\ children = [b \in Browser |-> SiblingLists(nodes[b])]
    /\ sequence \in [Browser -> Nat]
    /\ toServer \in [Browser -> Seq(TextState)]
    /\ toBrowser \in [Browser -> Seq(Greeting \cup TextState)]
    /\ \A b \in Browser : Phase(b) /\ Leads(b)

LEMMA NodeMapsAre == \A ns : ns \in NodeMaps <=> IsNodeMap(ns)
<1> QED BY DEF NodeMaps, IsNodeMap

LEMMA TreeMapsAre == \A ns : ns \in TreeMaps <=> Tree(ns)
<1> QED BY NodeMapsAre DEF TreeMaps, Tree

(* Of no nodes at all every chain is there.                                    *)
LEMMA EmptyTree == Tree([n \in {} |-> n]) /\ DOMAIN [n \in {} |-> n] = {}
<1> DEFINE e == [n \in {} |-> n]
<1>1. DOMAIN e = {} /\ e \in [{} -> Node]
  OBVIOUS
<1>2. IsNodeMap(e)
  BY <1>1, FS_EmptySet DEF IsNodeMap
<1>3. Landing({}, e) = {}
  BY <1>1 DEF Landing
<1> HIDE DEF e
<1>4. Tree(e) /\ DOMAIN e = {}
  BY <1>1, <1>2, <1>3 DEF Tree, Whole
<1> QED BY <1>4 DEF e

(* The sorted sibling lists mirror their nodes.                                *)
LEMMA SiblingsMirror ==
  ASSUME NEW ns, IsNodeMap(ns)
  PROVE  Mirrors(SiblingLists(ns), ns)
<1>1. \A p : Below(ns, p) \subseteq Id /\ IsFiniteSet(Below(ns, p))
  BY FS_Subset DEF IsNodeMap, Below
<1>2. \A p : IsSortedListOf(SortIds(Below(ns, p)), Below(ns, p))
  BY <1>1, SortIdsSorts
<1> QED BY <1>2 DEF Mirrors, SiblingLists

LEMMA TypedIsTypeOK == Typed => TypeOK
<1> SUFFICES ASSUME Typed PROVE TypeOK
  OBVIOUS
<1>1. IsNodeMap(masters.list) /\ IsNodeMap(masters.text)
  BY NodeMapsAre, TreeMapsAre DEF Typed, IsMasters, Tree
<1>2. \A side \in Side : masters.counter[side] \in [DOMAIN masters.counter[side] -> Nat]
  BY DEF Typed, IsMasters, IsCounter
<1>3. ASSUME NEW b \in Browser
      PROVE  /\ IsNodeMap(nodes[b]) /\ textarea[b] \in Seq(Value)
             /\ Mirrors(children[b], nodes[b])
  <2>1. nodes[b] \in TreeMaps /\ textarea[b] \in Seq(Value) /\ children[b] = SiblingLists(nodes[b])
    BY DEF Typed
  <2>2. IsNodeMap(nodes[b])
    BY <2>1, TreeMapsAre DEF Tree
  <2> QED BY <2>1, <2>2, SiblingsMirror
<1> QED BY <1>1, <1>2, <1>3 DEF Typed, TypeOK

LEMMA InitTyped == Init => Typed
<1> SUFFICES ASSUME Init PROVE Typed
  OBVIOUS
<1> DEFINE e == [n \in {} |-> n]
<1>1. e \in TreeMaps /\ DOMAIN e = {}
  BY EmptyTree, TreeMapsAre DEF TreeMaps
<1> HIDE DEF e
<1>2. IsMasters(masters)
  <2>1. masters = [counter |-> [side \in Side |-> [c \in {Server} |-> 0]], list |-> e, text |-> e]
    BY DEF Init, NewMasters, e
  <2>2. \A side \in Side : masters.counter[side] = [c \in {Server} |-> 0]
    BY <2>1
  <2>3. IsCounter(masters.counter)
    BY <2>2 DEF IsCounter
  <2> QED BY <1>1, <2>1, <2>3 DEF IsMasters
<1>3. nodes = [b \in Browser |-> e] /\ \A b \in Browser : nodes[b] = e
  BY DEF Init, e
<1>4. children = [b \in Browser |-> SiblingLists(nodes[b])]
  <2>1. \A p : Below(e, p) = {}
    BY <1>1 DEF Below
  <2>2. SiblingLists(e) = [p \in {Head0} |-> << >>]
    BY <1>1, <2>1, NoSiblings DEF SiblingLists
  <2> QED BY <1>3, <2>2 DEF Init
<1>5. \A b \in Browser : Phase(b)
  BY <1>1, <1>3 DEF Init, Phase
<1>6. \A b \in Browser : Leads(b)
  BY <1>1, <1>3 DEF Leads
<1>7. nodes \in [Browser -> TreeMaps]
  BY <1>1, <1>3
<1>8. /\ textarea \in [Browser -> Seq(Value)] /\ toServer \in [Browser -> Seq(TextState)]
      /\ toBrowser \in [Browser -> Seq(Greeting \cup TextState)]
  BY DEF Init
<1>9. /\ link \in [Browser -> {"connecting", "open"}] /\ sequence \in [Browser -> Nat]
      /\ clientId \in [Browser -> Client \cup {0}]
  BY DEF Init
<1> QED BY <1>2, <1>4, <1>5, <1>6, <1>7, <1>8, <1>9 DEF Typed

-----------------------------------------------------------------------------
(* The server.                                                                 *)

(* Every chain is there after any state was merged.                            *)
LEMMA MergedTree ==
  ASSUME NEW old, Tree(old), NEW incoming, IsNodeMap(incoming)
  PROVE  Tree(NodesMerged(old, incoming))
<1>1. IsNodeMap(old) /\ Whole(old)
  BY DEF Tree
<1>2. HasMerged(old, Landing(DOMAIN old, incoming), incoming, NodesMerged(old, incoming))
  BY <1>1, NodesMergedAre
<1> QED BY <1>1, <1>2, WholeMerged DEF Tree, HasMerged

(* The larger count of each client.                                            *)
LEMMA JoinedCounts ==
  ASSUME NEW bucket, bucket \in [DOMAIN bucket -> Nat],
         NEW incoming, incoming \in [DOMAIN incoming -> Nat]
  PROVE  JoinCounts(bucket, incoming) \in [DOMAIN JoinCounts(bucket, incoming) -> Nat]
<1> DEFINE D == DOMAIN bucket \cup DOMAIN incoming
           counts(c) == {b[c] : b \in {d \in {bucket, incoming} : c \in DOMAIN d}}
<1>1. ASSUME NEW c \in D PROVE Max(counts(c)) \in Nat
  <2>1. counts(c) \subseteq Nat /\ counts(c) # {}
    OBVIOUS
  <2>2. \E x \in counts(c) : \A y \in counts(c) : x >= y
    <3>1. CASE c \in DOMAIN bucket /\ c \in DOMAIN incoming
      <4>1. counts(c) = {bucket[c], incoming[c]} /\ bucket[c] \in Nat /\ incoming[c] \in Nat
        BY <3>1
      <4> HIDE DEF counts
      <4>2. bucket[c] >= incoming[c] \/ incoming[c] >= bucket[c]
        BY <4>1
      <4> QED BY <4>1, <4>2
    <3>2. CASE c \in DOMAIN bucket /\ c \notin DOMAIN incoming
      <4>1. counts(c) = {bucket[c]} /\ bucket[c] \in Nat
        BY <3>2
      <4> HIDE DEF counts
      <4> QED BY <4>1
    <3>3. CASE c \notin DOMAIN bucket /\ c \in DOMAIN incoming
      <4>1. counts(c) = {incoming[c]} /\ incoming[c] \in Nat
        BY <3>3
      <4> HIDE DEF counts
      <4> QED BY <4>1
    <3> QED BY <3>1, <3>2, <3>3
  <2> HIDE DEF counts
  <2>3. Max(counts(c)) \in counts(c)
    BY <2>2 DEF Max
  <2> QED BY <2>1, <2>3
<1>2. JoinCounts(bucket, incoming) = [c \in D |-> Max(counts(c))]
  BY DEF JoinCounts
<1> HIDE DEF counts, D
<1> QED BY <1>1, <1>2

(* A payload that is decoded to nodes is a state.                              *)
LEMMA DecodedNodes ==
  ASSUME NEW payload \in Stray, NEW type, DecodesNodes(payload, type)
  PROVE  IsNodeMap(payload.nodes)
<1> DEFINE ns == payload.nodes
<1>1. payload # Junk /\ Fits(payload, "nodes") /\ \A n \in DOMAIN ns : IsItem(n, ns[n])
  BY DEF DecodesNodes, IsEnvelope, Parses
<1>2. /\ ns = [n \in DOMAIN ns |-> ns[n]]
      /\ DOMAIN ns \subseteq Place \cup {Junk} /\ IsFiniteSet(DOMAIN ns)
      /\ \A n \in DOMAIN ns : IsItem(n, ns[n]) => ns[n] \in Node
  BY <1>1, StrayAssumption
<1> HIDE DEF ns
<1>3. DOMAIN ns \subseteq Id
  <2>1. \A n \in DOMAIN ns : n # Junk /\ n # Head0
    BY <1>1 DEF IsItem
  <2> QED BY <1>2, <2>1 DEF Place
<1>4. IsNodeMap(ns)
  BY <1>1, <1>2, <1>3 DEF IsNodeMap
<1> QED BY <1>4 DEF ns

(* A payload that is decoded to counts has counts.                             *)
LEMMA DecodedCounts ==
  ASSUME NEW payload \in Stray, DecodesCounter(payload), NEW side \in Side
  PROVE  payload[side] \in [DOMAIN payload[side] -> Nat]
<1>1. payload # Junk /\ Fits(payload, side) /\ IsCounts(payload[side])
  BY DEF DecodesCounter, IsEnvelope, Parses
<1> QED BY <1>1, StrayAssumption

(* The masters after one of them was merged into.                              *)
LEMMA CounterMerged ==
  ASSUME NEW m, IsMasters(m), NEW payload \in Stray, DecodesCounter(payload)
  PROVE  IsMasters([m EXCEPT !.counter = [side \in Side |-> JoinCounts(@[side], payload[side])]])
<1> DEFINE k == [side \in Side |-> JoinCounts(m.counter[side], payload[side])]
<1>1. \A side \in Side : k[side] \in [DOMAIN k[side] -> Nat]
  <2> TAKE side \in Side
  <2>1. m.counter[side] \in [DOMAIN m.counter[side] -> Nat]
    BY DEF IsMasters, IsCounter
  <2>2. payload[side] \in [DOMAIN payload[side] -> Nat]
    BY DecodedCounts
  <2>3. k[side] = JoinCounts(m.counter[side], payload[side])
    OBVIOUS
  <2> QED BY <2>1, <2>2, <2>3, JoinedCounts
<1> HIDE DEF k
<1>2. IsMasters([m EXCEPT !.counter = k])
  BY <1>1 DEF IsMasters, IsCounter
<1> QED BY <1>2 DEF k

LEMMA ListMerged ==
  ASSUME NEW m, IsMasters(m), NEW ns, IsNodeMap(ns)
  PROVE  IsMasters([m EXCEPT !.list = NodesMerged(@, ns)])
<1>1. Tree(m.list)
  BY TreeMapsAre DEF IsMasters
<1>2. NodesMerged(m.list, ns) \in TreeMaps
  BY <1>1, MergedTree, TreeMapsAre
<1> QED BY <1>2 DEF IsMasters

LEMMA TextMerged ==
  ASSUME NEW m, IsMasters(m), NEW ns, IsNodeMap(ns)
  PROVE  IsMasters([m EXCEPT !.text = NodesMerged(@, ns)])
<1>1. Tree(m.text)
  BY TreeMapsAre DEF IsMasters
<1>2. NodesMerged(m.text, ns) \in TreeMaps
  BY <1>1, MergedTree, TreeMapsAre
<1> QED BY <1>2 DEF IsMasters

(* Whatever the server is sent.                                                *)
LEMMA StrayProcessed ==
  ASSUME NEW m, IsMasters(m), NEW payload \in Stray
  PROVE  IsMasters(Processed(m, payload))
<1>1. CASE DecodesCounter(payload)
  BY <1>1, CounterMerged DEF Processed
<1>2. CASE ~DecodesCounter(payload) /\ DecodesNodes(payload, "list_state")
  BY <1>2, DecodedNodes, ListMerged DEF Processed
<1>3. CASE /\ ~DecodesCounter(payload) /\ ~DecodesNodes(payload, "list_state")
           /\ DecodesNodes(payload, "text_state")
  BY <1>3, DecodedNodes, TextMerged DEF Processed
<1>4. CASE /\ ~DecodesCounter(payload) /\ ~DecodesNodes(payload, "list_state")
           /\ ~DecodesNodes(payload, "text_state")
  BY <1>4 DEF Processed
<1> QED BY <1>1, <1>2, <1>3, <1>4

(* What a page sends is merged into the text and answered, or, if a text in it *)
(* is cut in the midst of a character, neither.                                *)
LEMMA StateProcessed ==
  ASSUME NEW m, IsMasters(m), NEW payload \in TextState, NEW after
  PROVE  /\ IsMasters(Processed(m, payload))
         /\ IsMasters(after) => Replies(after, payload) \in Seq(TextState)
<1>1. payload.type = "text_state" /\ IsNodeMap(payload.nodes)
  BY TreeMapsAre DEF TextState, Tree
<1>2. ~DecodesCounter(payload) /\ ~DecodesNodes(payload, "list_state")
  BY <1>1 DEF DecodesCounter, DecodesNodes, IsEnvelope
<1>3. IsMasters(Processed(m, payload))
  <2>1. CASE DecodesNodes(payload, "text_state")
    BY <1>1, <1>2, <2>1, TextMerged DEF Processed
  <2>2. CASE ~DecodesNodes(payload, "text_state")
    BY <1>2, <2>2 DEF Processed
  <2> QED BY <2>1, <2>2
<1>4. IsMasters(after) => Replies(after, payload) \in Seq(TextState)
  <2>1. IsMasters(after) => EncodeNodes("text_state", after.text) \in TextState
    BY DEF IsMasters, EncodeNodes, TextState
  <2> HIDE DEF TextState
  <2>2. CASE DecodesNodes(payload, "text_state")
    BY <1>2, <2>1, <2>2 DEF Replies
  <2>3. CASE ~DecodesNodes(payload, "text_state")
    BY <1>2, <2>3 DEF Replies
  <2> QED BY <2>2, <2>3
<1> QED BY <1>3, <1>4

(* What a queue of text states stays.                                          *)
LEMMA QueueTail ==
  ASSUME NEW S, NEW q \in Seq(S), q # << >>
  PROVE  Head(q) \in S /\ Tail(q) \in Seq(S)
<1> QED OBVIOUS

LEMMA QueueAppend ==
  ASSUME NEW q \in Seq(Greeting \cup TextState), NEW r \in Seq(TextState)
  PROVE  /\ q \o r \in Seq(Greeting \cup TextState)
         /\ q \in Seq(TextState) => q \o r \in Seq(TextState)
         /\ q # << >> => q \o r # << >> /\ Head(q \o r) = Head(q) /\ Tail(q \o r) = Tail(q) \o r
<1> DEFINE S == TextState
           T == Greeting \cup TextState
<1>1. r \in Seq(T) /\ S \subseteq T
  OBVIOUS
<1> HIDE DEF S, T
<1>2. q \in Seq(T) /\ r \in Seq(S) /\ r \in Seq(T)
  BY <1>1 DEF S, T
<1>3. q \o r \in Seq(T) /\ (q \in Seq(S) => q \o r \in Seq(S))
  BY <1>2
<1>4. ASSUME q # << >> PROVE q \o r # << >> /\ Head(q \o r) = Head(q) /\ Tail(q \o r) = Tail(q) \o r
  <2>1. /\ Len(q) \in Nat /\ Len(r) \in Nat /\ Len(q) >= 1
        /\ Tail(q) \in Seq(T) /\ Len(Tail(q)) = Len(q) - 1
        /\ \A i \in 1..(Len(q) - 1) : Tail(q)[i] = q[i + 1]
    BY <1>2, <1>4
  <2>2. /\ q \o r \in Seq(T) /\ Len(q \o r) = Len(q) + Len(r)
        /\ \A i \in 1..(Len(q) + Len(r)) : (q \o r)[i] = IF i <= Len(q) THEN q[i] ELSE r[i - Len(q)]
    BY <1>2, ConcatProperties
  <2> DEFINE x == q \o r
             y == Tail(q)
  <2>3. x # << >> /\ Head(x) = q[1] /\ Head(q) = q[1]
    <3>1. Len(x) # 0 /\ x[1] = q[1]
      BY <2>1, <2>2
    <3> HIDE DEF x
    <3> QED BY <2>2, <3>1, <1>2
  <2>4. /\ Tail(x) \in Seq(T) /\ Len(Tail(x)) = Len(x) - 1
        /\ \A i \in 1..(Len(x) - 1) : Tail(x)[i] = x[i + 1]
    <3>1. x \in Seq(T)
      BY <2>2
    <3> HIDE DEF x
    <3> QED BY <2>3, <3>1
  <2>5. /\ y \o r \in Seq(T) /\ Len(y \o r) = Len(y) + Len(r)
        /\ \A i \in 1..(Len(y) + Len(r)) : (y \o r)[i] = IF i <= Len(y) THEN y[i] ELSE r[i - Len(y)]
    <3>1. y \in Seq(T)
      BY <2>1
    <3> HIDE DEF y
    <3> QED BY <1>2, <3>1, ConcatProperties
  <2>6. Len(Tail(x)) = Len(y \o r)
    <3>1. Len(y) = Len(q) - 1 /\ Len(x) = Len(q) + Len(r)
      BY <2>1, <2>2
    <3> HIDE DEF x, y
    <3> QED BY <2>1, <2>4, <2>5, <3>1
  <2>7. ASSUME NEW i \in 1..Len(y \o r) PROVE Tail(x)[i] = (y \o r)[i]
    <3>1. /\ Len(y) = Len(q) - 1 /\ Len(x) = Len(q) + Len(r)
          /\ \A j \in 1..(Len(q) - 1) : y[j] = q[j + 1]
          /\ \A j \in 1..(Len(q) + Len(r)) : x[j] = IF j <= Len(q) THEN q[j] ELSE r[j - Len(q)]
      BY <2>1, <2>2
    <3> HIDE DEF x, y
    <3>2. /\ i \in 1..(Len(x) - 1) /\ i + 1 \in 1..(Len(q) + Len(r)) /\ i \in 1..(Len(y) + Len(r))
          /\ (i <= Len(y) <=> i + 1 <= Len(q)) /\ (i + 1) - Len(q) = i - Len(y)
          /\ (i <= Len(y) => i \in 1..(Len(q) - 1))
      BY <2>1, <2>5, <3>1
    <3> QED BY <2>4, <2>5, <3>1, <3>2
  <2>8. Tail(x) = y \o r
    <3> HIDE DEF x, y
    <3> DEFINE u == Tail(x)
               v == y \o r
    <3>1. u \in Seq(T) /\ v \in Seq(T) /\ Len(u) = Len(v) /\ \A i \in 1..Len(u) : u[i] = v[i]
      BY <2>4, <2>5, <2>6, <2>7
    <3> HIDE DEF u, v
    <3>2. u = v
      BY <3>1, SeqEqual
    <3> QED BY <3>2 DEF u, v
  <2> QED BY <2>3, <2>8 DEF x, y
<1> QED BY <1>3, <1>4 DEF S, T

(* The next id is there to be drawn.                                           *)
LEMMA DrawnIds ==
  ASSUME Typed, NEW b \in Browser, link[b] = "connecting"
  PROVE  /\ Drawn[Cardinality(Opened) + 1] \in Client
         /\ Cardinality(Opened) \in Nat /\ Cardinality(Opened) + 1 \in 1..Cardinality(Browser)
<1>1. Opened \subseteq Browser \ {b} /\ IsFiniteSet(Browser \ {b})
  BY BrowserAssumption, FS_Subset DEF Opened
<1>2. /\ Cardinality(Browser \ {b}) = Cardinality(Browser) - 1
      /\ Cardinality(Browser) \in Nat /\ Cardinality(Browser \ {b}) \in Nat
  BY <1>1, BrowserAssumption, FS_RemoveElement, FS_CardinalityType
<1>3. Cardinality(Opened) \in Nat /\ Cardinality(Opened) <= Cardinality(Browser \ {b})
  BY <1>1, FS_Subset, FS_CardinalityType
<1>4. Cardinality(Opened) + 1 \in 1..Cardinality(Browser)
  BY <1>2, <1>3
<1> QED BY <1>3, <1>4, DrawnAssumption

LEMMA OpenTyped ==
  ASSUME Typed, NEW b \in Browser, OnOpen(b)
  PROVE  Typed'
<1> DEFINE q == <<Auth(Drawn[Cardinality(Opened) + 1]), EncodeNodes("text_state", masters.text)>>
<1>1. /\ link[b] = "connecting" /\ link' = [link EXCEPT ![b] = "open"]
      /\ toBrowser' = [toBrowser EXCEPT ![b] = q]
      /\ UNCHANGED <<masters, clientId, textarea, nodes, children, sequence, toServer>>
  BY DEF OnOpen, page
<1>2. Auth(Drawn[Cardinality(Opened) + 1]) \in Greeting
  BY <1>1, DrawnIds DEF Auth, Greeting
<1>3. EncodeNodes("text_state", masters.text) \in TextState
  BY DEF EncodeNodes, TextState, Typed, IsMasters
<1>4. /\ q \in Seq(Greeting \cup TextState) /\ q # << >> /\ Head(q) \in Greeting
      /\ Tail(q) # << >> /\ Tail(q) \in Seq(TextState)
  <2> DEFINE a == Auth(Drawn[Cardinality(Opened) + 1])
             t == EncodeNodes("text_state", masters.text)
  <2>1. a \in Greeting /\ t \in TextState
    BY <1>2, <1>3
  <2> HIDE DEF a, t
  <2> QED BY <2>1 DEF a, t
<1> HIDE DEF q
<1>5. /\ link' \in [Browser -> {"connecting", "open"}]
      /\ toBrowser' \in [Browser -> Seq(Greeting \cup TextState)]
  BY <1>1, <1>4 DEF Typed
<1>6. ASSUME NEW d \in Browser PROVE Phase(d)'
  <2>1. Phase(d) /\ Phase(b)
    BY DEF Typed
  <2>2. CASE d # b
    <3>1. link'[d] = link[d] /\ toBrowser'[d] = toBrowser[d]
      BY <1>1, <2>2 DEF Typed
    <3> QED BY <1>1, <2>1, <3>1 DEF Phase
  <2>3. CASE d = b
    <3>1. link'[b] = "open" /\ toBrowser'[b] = q
      BY <1>1 DEF Typed
    <3>2. clientId[b] = 0 /\ DOMAIN nodes[b] = {}
      BY <1>1, <2>1 DEF Phase
    <3> QED BY <1>1, <1>4, <2>3, <3>1, <3>2 DEF Phase
  <2> QED BY <2>2, <2>3
<1>7. ASSUME NEW d \in Browser PROVE Leads(d)'
  BY <1>1 DEF Typed, Leads
<1> QED BY <1>1, <1>5, <1>6, <1>7 DEF Typed

LEMMA MessageTyped ==
  ASSUME Typed, NEW b \in Browser, OnMessage(b)
  PROVE  Typed'
<1> DEFINE payload == Head(toServer[b])
           r == Replies(masters', payload)
<1>1. /\ toServer[b] # << >> /\ toServer' = [toServer EXCEPT ![b] = Tail(@)]
      /\ masters' = Processed(masters, payload)
      /\ toBrowser' = [toBrowser EXCEPT ![b] = @ \o r]
      /\ UNCHANGED <<link, clientId, textarea, nodes, children, sequence>>
  BY DEF OnMessage, page
<1>2. toServer[b] \in Seq(TextState) /\ toBrowser[b] \in Seq(Greeting \cup TextState)
  BY DEF Typed
<1>3. payload \in TextState /\ Tail(toServer[b]) \in Seq(TextState)
  BY <1>1, <1>2, QueueTail
<1>4. IsMasters(masters') /\ r \in Seq(TextState)
  <2>1. IsMasters(masters)
    BY DEF Typed
  <2>2. IsMasters(masters')
    BY <1>1, <1>3, <2>1, StateProcessed
  <2> QED BY <1>3, <2>1, <2>2, StateProcessed
<1> HIDE DEF r, payload
<1>5. /\ toBrowser[b] \o r \in Seq(Greeting \cup TextState)
      /\ toBrowser[b] \in Seq(TextState) => toBrowser[b] \o r \in Seq(TextState)
      /\ toBrowser[b] # << >> => /\ toBrowser[b] \o r # << >>
                                 /\ Head(toBrowser[b] \o r) = Head(toBrowser[b])
                                 /\ Tail(toBrowser[b] \o r) = Tail(toBrowser[b]) \o r
  BY <1>2, <1>4, QueueAppend
<1>6. /\ toServer' \in [Browser -> Seq(TextState)]
      /\ toBrowser' \in [Browser -> Seq(Greeting \cup TextState)]
  BY <1>1, <1>3, <1>5 DEF Typed
<1>7. ASSUME NEW d \in Browser PROVE Phase(d)'
  <2>1. Phase(d)
    BY DEF Typed
  <2>2. CASE d # b
    <3>1. toBrowser'[d] = toBrowser[d] /\ toServer'[d] = toServer[d]
      BY <1>1, <2>2 DEF Typed
    <3> QED BY <1>1, <2>1, <3>1 DEF Phase
  <2>3. CASE d = b
    <3>1. toBrowser'[b] = toBrowser[b] \o r
      BY <1>1 DEF Typed
    <3>2. CASE link[b] = "connecting"
      \* A page sends nothing before its connection is open.
      BY <1>1, <2>1, <2>3, <3>2 DEF Phase
    <3>3. CASE link[b] = "open" /\ clientId[b] = 0
      <4>1. /\ DOMAIN nodes[b] = {} /\ toBrowser[b] # << >> /\ Head(toBrowser[b]) \in Greeting
            /\ Tail(toBrowser[b]) # << >> /\ Tail(toBrowser[b]) \in Seq(TextState)
        BY <2>1, <2>3, <3>3, ClientAssumption DEF Phase
      <4>2. Tail(toBrowser[b]) \o r # << >> /\ Tail(toBrowser[b]) \o r \in Seq(TextState)
        BY <1>4, <4>1, QueueAppend
      <4> QED BY <1>1, <1>5, <2>3, <3>1, <3>3, <4>1, <4>2 DEF Phase
    <3>4. CASE link[b] = "open" /\ clientId[b] \in Client
      BY <1>1, <1>5, <2>1, <2>3, <3>1, <3>4, ClientAssumption DEF Phase
    <3> QED BY <2>1, <2>3, <3>2, <3>3, <3>4 DEF Phase
  <2> QED BY <2>2, <2>3
<1>8. ASSUME NEW d \in Browser PROVE Leads(d)'
  BY <1>1 DEF Typed, Leads
<1> QED BY <1>1, <1>4, <1>6, <1>7, <1>8 DEF Typed

LEMMA StrayTyped ==
  ASSUME Typed, NEW payload \in Stray, OnStray(payload)
  PROVE  Typed'
<1>1. /\ masters' = Processed(masters, payload)
      /\ UNCHANGED <<link, clientId, textarea, nodes, children, sequence, toServer, toBrowser>>
  BY DEF OnStray, page, wire
<1>2. IsMasters(masters')
  BY <1>1, StrayProcessed DEF Typed
<1>3. \A d \in Browser : Phase(d)' /\ Leads(d)'
  BY <1>1 DEF Typed, Phase, Leads
<1> QED BY <1>1, <1>2, <1>3 DEF Typed

-----------------------------------------------------------------------------
(* The page.                                                                   *)

(* advanceSequenceFromNodes() never steps back, and passes every id of its own. *)
LEMMA AdvancedIs ==
  ASSUME NEW seq \in Nat, NEW c, NEW ns, IsNodeMap(ns)
  PROVE  /\ Advanced(seq, c, ns) \in Nat /\ seq <= Advanced(seq, c, ns)
         /\ \A n \in DOMAIN ns : n[1] = c => n[2] <= Advanced(seq, c, ns)
<1> DEFINE mine == {m \in DOMAIN ns : m[1] = c}
           S == {n[2] : n \in mine}
           T == {seq} \cup S
<1>1. mine \subseteq Id /\ IsFiniteSet(mine)
  BY FS_Subset DEF IsNodeMap
<1>2. \A n \in mine : n[2] \in Nat
  BY <1>1 DEF Id
<1>3. S \subseteq Nat /\ IsFiniteSet(S)
  <2>1. S \subseteq Nat
    BY <1>2
  <2> DEFINE f == [n \in mine |-> n[2]]
  <2>2. f \in Surjection(mine, S)
    BY DEF Surjection
  <2> HIDE DEF f, S, mine
  <2> QED BY <1>1, <2>1, <2>2, FS_Surjection
<1>4. T \subseteq Nat /\ T # {} /\ IsFiniteSet(T)
  <2> HIDE DEF S
  <2> QED BY <1>3, FS_AddElement
<1>5. PICK m \in Nat : T \subseteq 0..m
  <2> HIDE DEF T
  <2> QED BY <1>4, NumbersBounded
<1>6. Max(T) \in T /\ \A y \in T : y <= Max(T)
  <2> HIDE DEF T
  <2> QED BY <1>4, <1>5, MaxUpTo
<1>7. Advanced(seq, c, ns) = Max(T)
  BY DEF Advanced
<1>8. \A n \in DOMAIN ns : n[1] = c => n[2] \in T
  OBVIOUS
<1>9. seq \in T
  OBVIOUS
<1> HIDE DEF T
<1> QED BY <1>4, <1>6, <1>7, <1>8, <1>9

(* What a page renders.                                                        *)
LEMMA RenderedTyped ==
  ASSUME NEW ns, Tree(ns)
  PROVE  RenderedText(ns, SiblingLists(ns)) \in Seq(Value)
<1> DEFINE ids == RenderedIds(ns, SiblingLists(ns))
<1>1. ids \in Seq(DOMAIN ns)
  BY RenderedLists DEF Lists
<1>2. Spelled(ns, ids) \in Seq(Value)
  <2>1. IsNodeMap(ns)
    BY DEF Tree
  <2> HIDE DEF ids
  <2> QED BY <1>1, <2>1, SpelledIs
<1> QED BY <1>2 DEF RenderedText

(* The sibling lists follow the nodes.                                         *)
LEMMA PlacedIs ==
  ASSUME NEW old, NEW new, GrowsTo(old, new)
  PROVE  ChildrenWith(SiblingLists(old), NewNodes(old, new)) = SiblingLists(new)
<1>1. IsNodeMap(old) /\ Whole(old) /\ Whole(new)
  BY DEF GrowsTo, Tree
<1>2. Closed(old)
  BY <1>1, TreeIsClosed DEF Closed
<1>3. Closed(new)
  BY <1>1, TreeIsClosed DEF Closed
<1> QED BY <1>1, <1>2, <1>3, SiblingListsGrow DEF GrowsTo

LEMMA MergedGrows ==
  ASSUME NEW old, Tree(old), NEW incoming, IsNodeMap(incoming)
  PROVE  /\ GrowsTo(old, NodesMerged(old, incoming))
         /\ DOMAIN NodesMerged(old, incoming) \subseteq DOMAIN old \cup DOMAIN incoming
<1>1. HasMerged(old, Landing(DOMAIN old, incoming), incoming, NodesMerged(old, incoming))
  BY NodesMergedAre DEF Tree
<1>2. Landing(DOMAIN old, incoming) \subseteq DOMAIN incoming
  BY DEF Landing
<1>3. Tree(NodesMerged(old, incoming))
  BY MergedTree
<1> HIDE DEF HasMerged
<1> QED BY <1>1, <1>2, <1>3 DEF GrowsTo, HasMerged

\* What an event or an input makes of a page: its text grows, or stays.
Becomes(b, nn) ==
    /\ GrowsTo(nodes[b], nn) /\ nodes' = [nodes EXCEPT ![b] = nn]
    /\ Placed(b)

LEMMA BecomesTyped ==
  ASSUME Typed, NEW b \in Browser, NEW nn, Becomes(b, nn)
  PROVE  /\ nodes' \in [Browser -> TreeMaps] /\ nodes'[b] = nn /\ nn \in TreeMaps
         /\ children' = [d \in Browser |-> SiblingLists(nodes'[d])]
         /\ children'[b] = SiblingLists(nn)
         /\ \A d \in Browser \ {b} : nodes'[d] = nodes[d] /\ children'[d] = children[d]
<1>1. nodes' = [nodes EXCEPT ![b] = nn] /\ GrowsTo(nodes[b], nn)
  BY DEF Becomes
<1>2. nn \in TreeMaps /\ nodes \in [Browser -> TreeMaps]
  BY <1>1, TreeMapsAre DEF GrowsTo, Typed
<1>3. /\ nodes' \in [Browser -> TreeMaps] /\ nodes'[b] = nn
      /\ \A d \in Browser \ {b} : nodes'[d] = nodes[d]
  BY <1>1, <1>2
<1>4. children = [d \in Browser |-> SiblingLists(nodes[d])]
  BY DEF Typed
<1>5. children' = [children EXCEPT ![b] = ChildrenWith(@, NewNodes(nodes[b], nodes'[b]))]
  BY DEF Becomes, Placed
<1>6. ChildrenWith(SiblingLists(nodes[b]), NewNodes(nodes[b], nn)) = SiblingLists(nn)
  BY <1>1, PlacedIs
<1>7. children' = [children EXCEPT ![b] = SiblingLists(nn)]
  BY <1>3, <1>4, <1>5, <1>6
<1>8. children' = [d \in Browser |-> SiblingLists(nodes'[d])]
  BY <1>3, <1>4, <1>7
<1> QED BY <1>2, <1>3, <1>4, <1>8

LEMMA AuthTyped ==
  ASSUME Typed, NEW b \in Browser, OnEvent(b), OnAuth(b)
  PROVE  Typed' /\ toBrowser'[b] # << >> /\ DOMAIN nodes'[b] = {}
<1>1. /\ toBrowser[b] # << >> /\ toBrowser' = [toBrowser EXCEPT ![b] = Tail(@)]
      /\ clientId' = [clientId EXCEPT ![b] = Head(toBrowser[b]).id]
      /\ Head(toBrowser[b]).type = "auth"
      /\ UNCHANGED <<masters, link, toServer, textarea, nodes, children, sequence>>
  BY DEF OnEvent, OnAuth
<1>2. /\ link[b] = "open" /\ clientId[b] = 0 /\ DOMAIN nodes[b] = {}
      /\ Head(toBrowser[b]) \in Greeting
      /\ Tail(toBrowser[b]) # << >> /\ Tail(toBrowser[b]) \in Seq(TextState)
  <2>1. Phase(b)
    BY DEF Typed
  <2>2. toBrowser[b] \notin Seq(TextState)
    <3> SUFFICES ASSUME toBrowser[b] \in Seq(TextState) PROVE FALSE
      OBVIOUS
    <3>1. Head(toBrowser[b]) \in TextState
      BY <1>1, QueueTail
    <3> QED BY <1>1, <3>1 DEF TextState
  <2> QED BY <1>1, <2>1, <2>2 DEF Phase
<1>3. Head(toBrowser[b]).id \in Client
  BY <1>2 DEF Greeting
<1>4. toBrowser[b] \in Seq(Greeting \cup TextState) /\ clientId \in [Browser -> Client \cup {0}]
  BY DEF Typed
<1>5. Tail(toBrowser[b]) \in Seq(Greeting \cup TextState)
  BY <1>1, <1>4, QueueTail
<1>6. /\ toBrowser' \in [Browser -> Seq(Greeting \cup TextState)]
      /\ clientId' \in [Browser -> Client \cup {0}]
      /\ toBrowser'[b] = Tail(toBrowser[b]) /\ clientId'[b] \in Client
      /\ \A d \in Browser \ {b} : toBrowser'[d] = toBrowser[d] /\ clientId'[d] = clientId[d]
  BY <1>1, <1>3, <1>4, <1>5 DEF Typed
<1>7. ASSUME NEW d \in Browser PROVE Phase(d)' /\ Leads(d)'
  <2>1. Phase(d) /\ Leads(d)
    BY DEF Typed
  <2>2. CASE d # b
    <3>1. toBrowser'[d] = toBrowser[d] /\ clientId'[d] = clientId[d]
      BY <1>6, <2>2
    <3> QED BY <1>1, <2>1, <3>1 DEF Phase, Leads
  <2>3. CASE d = b
    BY <1>1, <1>2, <1>6, <2>3 DEF Phase, Leads
  <2> QED BY <2>2, <2>3
<1> QED BY <1>1, <1>2, <1>6, <1>7 DEF Typed

LEMMA TextStateTyped ==
  ASSUME Typed, NEW b \in Browser, OnEvent(b), OnTextState(b)
  PROVE  /\ Typed' /\ textarea'[b] = RenderedText(nodes'[b], children'[b])
         /\ \A d \in Browser \ {b} : /\ nodes'[d] = nodes[d] /\ children'[d] = children[d]
                                     /\ toBrowser'[d] = toBrowser[d]
                                     /\ textarea'[d] = textarea[d]
<1> DEFINE s == Head(toBrowser[b])
           nn == NodesMerged(nodes[b], s.nodes)
           seq == Advanced(sequence[b], clientId[b], s.nodes)
           text == RenderedText(nodes'[b], children'[b])
<1>1. /\ toBrowser[b] # << >> /\ toBrowser' = [toBrowser EXCEPT ![b] = Tail(@)]
      /\ s.type = "text_state"
      /\ nodes' = [nodes EXCEPT ![b] = nn] /\ Placed(b)
      /\ sequence' = [sequence EXCEPT ![b] = seq]
      /\ textarea' = [textarea EXCEPT ![b] = text]
      /\ UNCHANGED <<masters, link, toServer, clientId>>
  <2>1. nodes' = [nodes EXCEPT ![b] = nn]
    BY DEF OnTextState, Typed
  <2>2. sequence' = [sequence EXCEPT ![b] = seq]
    BY DEF OnTextState, Typed
  <2> QED BY <2>1, <2>2 DEF OnEvent, OnTextState
<1>2. link[b] = "open" /\ clientId[b] \in Client /\ toBrowser[b] \in Seq(TextState)
  <2>1. Phase(b)
    BY DEF Typed
  <2>2. s \notin Greeting
    BY <1>1 DEF Greeting
  <2> QED BY <1>1, <2>1, <2>2 DEF Phase
<1>3. s \in TextState /\ Tail(toBrowser[b]) \in Seq(TextState)
  BY <1>1, <1>2, QueueTail
<1>4. IsNodeMap(s.nodes) /\ Tree(nodes[b])
  BY <1>3, TreeMapsAre DEF TextState, Tree, Typed
<1>5. GrowsTo(nodes[b], nn) /\ DOMAIN nn \subseteq DOMAIN nodes[b] \cup DOMAIN s.nodes
  BY <1>4, MergedGrows
<1>6. /\ seq \in Nat /\ sequence[b] <= seq /\ sequence[b] \in Nat
      /\ \A n \in DOMAIN s.nodes : n[1] = clientId[b] => n[2] <= seq
  BY <1>4, AdvancedIs DEF Typed
<1> HIDE DEF nn, seq
<1>7. Becomes(b, nn)
  BY <1>1, <1>5 DEF Becomes
<1>8. /\ nodes' \in [Browser -> TreeMaps] /\ nodes'[b] = nn /\ nn \in TreeMaps
      /\ children' = [d \in Browser |-> SiblingLists(nodes'[d])]
      /\ children'[b] = SiblingLists(nn)
      /\ \A d \in Browser \ {b} : nodes'[d] = nodes[d] /\ children'[d] = children[d]
  BY <1>7, BecomesTyped
<1>9. text \in Seq(Value)
  BY <1>8, TreeMapsAre, RenderedTyped
<1> HIDE DEF s, text
<1>10. Tail(toBrowser[b]) \in Seq(Greeting \cup TextState)
  <2>1. toBrowser[b] \in Seq(Greeting \cup TextState)
    BY DEF Typed
  <2> QED BY <1>1, <2>1, QueueTail
<1>11. /\ toBrowser' \in [Browser -> Seq(Greeting \cup TextState)]
       /\ sequence' \in [Browser -> Nat] /\ textarea' \in [Browser -> Seq(Value)]
       /\ toBrowser'[b] = Tail(toBrowser[b]) /\ sequence'[b] = seq /\ textarea'[b] = text
       /\ \A d \in Browser \ {b} : /\ toBrowser'[d] = toBrowser[d] /\ sequence'[d] = sequence[d]
                                   /\ textarea'[d] = textarea[d]
  BY <1>1, <1>6, <1>9, <1>10 DEF Typed
<1>12. ASSUME NEW d \in Browser PROVE Phase(d)' /\ Leads(d)'
  <2>1. Phase(d) /\ Leads(d)
    BY DEF Typed
  <2>2. CASE d # b
    <3>1. toBrowser'[d] = toBrowser[d] /\ nodes'[d] = nodes[d] /\ sequence'[d] = sequence[d]
      BY <1>8, <1>11, <2>2
    <3> QED BY <1>1, <2>1, <3>1 DEF Phase, Leads
  <2>3. CASE d = b
    <3>1. Phase(b)'
      BY <1>1, <1>2, <1>3, <1>11 DEF Phase
    <3>2. ASSUME NEW n \in DOMAIN nn, n[1] = clientId[b] PROVE n[2] <= seq
      <4>1. CASE n \in DOMAIN s.nodes
        BY <1>6, <3>2, <4>1 DEF s
      <4>2. CASE n \in DOMAIN nodes[b]
        <5>1. n[2] <= sequence[b]
          BY <2>1, <2>3, <3>2, <4>2 DEF Leads
        <5>2. n[2] \in Nat
          <6>1. n \in Id
            BY <1>4, <4>2 DEF Tree, IsNodeMap
          <6> QED BY <6>1 DEF Id
        <5> QED BY <1>6, <5>1, <5>2
      <4> QED BY <1>5, <4>1, <4>2 DEF s
    <3>3. Leads(b)'
      BY <1>1, <1>8, <1>11, <3>2 DEF Leads
    <3> QED BY <2>3, <3>1, <3>3
  <2> QED BY <2>2, <2>3
<1> QED BY <1>1, <1>8, <1>11, <1>12 DEF Typed, text

-----------------------------------------------------------------------------
(* The user.                                                                   *)

EditLands(ns, kids, nn, kids2, new) ==
    Lands(ns, nn, Within(RenderedIds(ns, kids), Visible(nn)),
          Within(RenderedIds(nn, kids2), DOMAIN nn \ DOMAIN ns), RenderedIds(nn, kids2), new)

\* What is added bears the page's next ids, and what was there its value.
AddsOwn(b) ==
    /\ \A n \in DOMAIN nodes[b] : nodes'[b][n].value = nodes[b][n].value
    /\ \A n \in DOMAIN nodes'[b] \ DOMAIN nodes[b] :
          n[1] = clientId[b] /\ ~(n[2] <= sequence[b]) /\ n[2] <= sequence'[b]
    /\ sequence[b] <= sequence'[b] /\ \A d \in Browser \ {b} : sequence'[d] = sequence[d]

LEMMA InputTyped ==
  ASSUME Typed, NEW b \in Browser, NEW new \in Texts, Input(b, new)
  PROVE  /\ Typed' /\ textarea'[b] = new
         /\ clientId[b] # 0 => /\ GrowsTo(nodes[b], nodes'[b]) /\ AddsOwn(b)
                               /\ EditLands(nodes[b], children[b], nodes'[b], children'[b], new)
         /\ \A d \in Browser \ {b} : /\ nodes'[d] = nodes[d] /\ children'[d] = children[d]
                                     /\ textarea'[d] = textarea[d]
<1> DEFINE ids == RenderedIds(nodes[b], children[b])
           ns == nodes[b]
           nn == Edited(ns, ids, clientId[b], sequence[b], new)
<1>1. /\ textarea' = [textarea EXCEPT ![b] = new]
      /\ UNCHANGED <<masters, link, toServer, toBrowser, clientId>>
  BY DEF Input, wire
<1>2. new \in Seq(Value)
  BY TextsAssumption
<1>3. /\ textarea' \in [Browser -> Seq(Value)] /\ textarea'[b] = new
      /\ \A d \in Browser \ {b} : textarea'[d] = textarea[d]
  BY <1>1, <1>2 DEF Typed
<1>4. CASE clientId[b] = 0
  <2>1. UNCHANGED <<nodes, children, sequence>>
    BY <1>4 DEF Input
  <2>2. \A d \in Browser : Phase(d)' /\ Leads(d)'
    BY <1>1, <2>1 DEF Typed, Phase, Leads
  <2> QED BY <1>1, <1>3, <1>4, <2>1, <2>2 DEF Typed
<1>5. CASE clientId[b] # 0
  <2>1. /\ nodes' = [nodes EXCEPT ![b] = nn] /\ Placed(b)
        /\ sequence' = [sequence EXCEPT ![b] = @ + Cardinality(DOMAIN nodes'[b] \ DOMAIN nodes[b])]
    <3>1. nodes' = [nodes EXCEPT ![b] = nn]
      BY <1>5 DEF Input, Typed
    <3> QED BY <1>5, <3>1 DEF Input
  <2>2. /\ Tree(ns) /\ children[b] = SiblingLists(ns) /\ sequence[b] \in Nat
        /\ clientId[b] \in Client /\ Leads(b) /\ Phase(b)
    BY <1>5, TreeMapsAre DEF Typed
  <2>3. Editable(ns, ids, clientId[b], sequence[b])
    BY <2>2, RenderedLists DEF Editable, Leads
  <2>4. EditExists(ns, ids, clientId[b], sequence[b], new, nn)
    BY <1>2, <2>3, EditedIs
  <2> HIDE DEF nn
  <2>5. PICK p, s, t : IsEdit(ns, ids, clientId[b], sequence[b], new, nn, p, s, t)
    BY <2>4 DEF EditExists
  <2> DEFINE R == Run(clientId[b], sequence[b], t)
  <2>6. /\ GrowsTo(ns, nn) /\ DOMAIN nn = DOMAIN ns \cup R /\ R \cap DOMAIN ns = {}
        /\ IsFiniteSet(R) /\ Cardinality(R) = t /\ t \in Nat
    <3>1. EditGrown(ns, nn, R, t, Erased(ids, p, s))
      BY <1>2, <2>3, <2>5, EditGrows
    <3> QED BY <2>5, <3>1 DEF EditGrown, IsEdit
  <2>7. Becomes(b, nn)
    BY <2>1, <2>6 DEF Becomes
  <2>8. /\ nodes' \in [Browser -> TreeMaps] /\ nodes'[b] = nn /\ nn \in TreeMaps
        /\ children' = [d \in Browser |-> SiblingLists(nodes'[d])]
        /\ children'[b] = SiblingLists(nn)
        /\ \A d \in Browser \ {b} : nodes'[d] = nodes[d] /\ children'[d] = children[d]
    BY <2>7, BecomesTyped
  <2>9. /\ sequence' \in [Browser -> Nat] /\ sequence'[b] = sequence[b] + t
        /\ \A d \in Browser \ {b} : sequence'[d] = sequence[d]
    <3>1. DOMAIN nodes'[b] \ DOMAIN nodes[b] = R
      BY <2>6, <2>8
    <3> HIDE DEF R
    <3>2. sequence' = [sequence EXCEPT ![b] = @ + t]
      BY <2>1, <2>6, <3>1
    <3>3. sequence \in [Browser -> Nat] /\ t \in Nat
      BY <2>6 DEF Typed
    <3> QED BY <3>2, <3>3
  <2>10. ASSUME NEW d \in Browser PROVE Phase(d)' /\ Leads(d)'
    <3>1. Phase(d) /\ Leads(d)
      BY DEF Typed
    <3>2. CASE d # b
      <4>1. nodes'[d] = nodes[d] /\ sequence'[d] = sequence[d]
        BY <2>8, <2>9, <3>2
      <4> QED BY <1>1, <3>1, <4>1 DEF Phase, Leads
    <3>3. CASE d = b
      <4>1. Phase(b)'
        BY <1>1, <1>5, <2>2 DEF Phase
      <4>2. ASSUME NEW n \in DOMAIN nn, n[1] = clientId[b] PROVE n[2] <= sequence[b] + t
        <5>1. CASE n \in DOMAIN ns
          <6>1. n[2] <= sequence[b]
            BY <2>2, <4>2, <5>1 DEF Leads
          <6>2. n[2] \in Nat
            <7>1. n \in Id
              BY <2>2, <5>1 DEF Tree, IsNodeMap
            <7> QED BY <7>1 DEF Id
          <6> QED BY <2>2, <2>6, <6>1, <6>2
        <5>2. CASE n \in R
          <6>1. PICK i \in 1..t : n = <<clientId[b], sequence[b] + i>>
            BY <5>2 DEF Run
          <6>2. n[2] = sequence[b] + i
            BY <6>1
          <6> QED BY <2>2, <2>6, <6>2
        <5> QED BY <2>6, <5>1, <5>2
      <4>3. Leads(b)'
        BY <1>1, <2>8, <2>9, <4>2 DEF Leads
      <4> QED BY <3>3, <4>1, <4>3
    <3> QED BY <3>2, <3>3
  <2>11. EditLands(ns, children[b], nodes'[b], children'[b], new)
    <3> DEFINE ids2 == RenderedIds(nn, SiblingLists(nn))
    <3>1. Lists(nn, ids2, Visible(nn))
      BY <2>8, TreeMapsAre, RenderedLists
    <3>2. Lands(ns, nn, Within(ids, Visible(nn)), Within(ids2, DOMAIN nn \ DOMAIN ns), ids2, new)
      <4> HIDE DEF ids2, ids, ns
      <4> QED BY <1>2, <2>3, <2>5, <3>1, RunLands
    <3> QED BY <2>8, <3>2 DEF EditLands
  <2>12. Typed'
    BY <1>1, <1>3, <2>8, <2>9, <2>10 DEF Typed
  <2>13. AddsOwn(b)
    <3>1. ASSUME NEW n \in DOMAIN ns PROVE nn[n].value = ns[n].value
      <4>1. ns[n] \in Node
        BY <2>2 DEF Tree, IsNodeMap
      <4>2. nn[n] = [ns[n] EXCEPT !.deleted = @ \/ n \in Erased(ids, p, s)]
        BY <2>5 DEF IsEdit
      <4> QED BY <4>1, <4>2 DEF Node
    <3>2. ASSUME NEW n \in R
          PROVE  n[1] = clientId[b] /\ ~(n[2] <= sequence[b]) /\ n[2] <= sequence[b] + t
      <4>1. PICK i \in 1..t : n = <<clientId[b], sequence[b] + i>>
        BY <3>2 DEF Run
      <4>2. n[1] = clientId[b] /\ n[2] = sequence[b] + i
        BY <4>1
      <4> QED BY <2>2, <2>6, <4>2
    <3>3. sequence[b] <= sequence[b] + t
      BY <2>2, <2>6
    <3> HIDE DEF R, ns
    <3> QED BY <2>6, <2>8, <2>9, <3>1, <3>2, <3>3 DEF AddsOwn, ns
  <2> QED BY <1>3, <2>6, <2>8, <2>11, <2>12, <2>13
<1> QED BY <1>4, <1>5

LEMMA SyncTyped ==
  ASSUME Typed, NEW b \in Browser, Sync(b)
  PROVE  Typed'
<1> DEFINE q == <<EncodeNodes("text_state", nodes[b])>>
<1>1. /\ link[b] = "open" /\ toServer' = [toServer EXCEPT ![b] = q]
      /\ UNCHANGED <<masters, link, toBrowser, clientId, textarea, nodes, children, sequence>>
  BY DEF Sync, page
<1>2. EncodeNodes("text_state", nodes[b]) \in TextState
  BY DEF EncodeNodes, TextState, Typed
<1>3. q \in Seq(TextState)
  <2> DEFINE t == EncodeNodes("text_state", nodes[b])
  <2>1. t \in TextState
    BY <1>2
  <2> HIDE DEF t, TextState
  <2> QED BY <2>1 DEF t
<1> HIDE DEF q
<1>4. toServer' \in [Browser -> Seq(TextState)]
  BY <1>1, <1>3 DEF Typed
<1>5. ASSUME NEW d \in Browser PROVE Phase(d)' /\ Leads(d)'
  <2>1. Phase(d) /\ Leads(d)
    BY DEF Typed
  <2>2. link[d] # "open" => toServer'[d] = toServer[d]
    BY <1>1 DEF Typed
  <2> QED BY <1>1, <2>1, <2>2 DEF Phase, Leads
<1> QED BY <1>1, <1>4, <1>5 DEF Typed

LEMMA NextTyped == Typed /\ [Next]_vars => Typed'
<1> SUFFICES ASSUME Typed, [Next]_vars PROVE Typed'
  OBVIOUS
<1>1. CASE UNCHANGED vars
  BY <1>1 DEF vars, page, wire, Typed, Phase, Leads
<1>2. ASSUME NEW b \in Browser, Serve(b) PROVE Typed'
  BY <1>2, OpenTyped, MessageTyped DEF Serve
<1>3. ASSUME NEW b \in Browser, OnEvent(b) PROVE Typed'
  <2>1. OnAuth(b) \/ OnTextState(b)
    BY <1>3 DEF OnEvent
  <2> QED BY <1>3, <2>1, AuthTyped, TextStateTyped
<1>4. ASSUME NEW b \in Browser, Sync(b) PROVE Typed'
  BY <1>4, SyncTyped
<1>5. ASSUME NEW b \in Browser, NEW new \in Texts, Input(b, new) PROVE Typed'
  BY <1>5, InputTyped
<1>6. ASSUME NEW payload \in Stray, OnStray(payload) PROVE Typed'
  BY <1>6, StrayTyped
<1> QED BY <1>1, <1>2, <1>3, <1>4, <1>5, <1>6 DEF Next

(* Whatever the server is sent and the users type, the masters and every       *)
(* page's replica stay well formed, and each page's sibling lists the sorted   *)
(* tree of its nodes.                                                          *)
THEOREM TextTypeCorrect == Spec => []TypeOK
<1>1. Spec => []Typed
  BY InitTyped, NextTyped, PTL DEF Spec
<1> QED BY <1>1, TypedIsTypeOK, PTL

-----------------------------------------------------------------------------
(* What the user sees.                                                         *)

LEMMA NextLands ==
  ASSUME Typed, [Next]_vars, NEW b \in Browser, Types(b)
  PROVE  InputLands(b)
<1>1. inputs' # inputs /\ textarea'[b] # textarea[b] /\ clientId[b] # 0
  BY DEF Types
<1>2. PICK d \in Browser, new \in Texts : Input(d, new)
  <2>1. ASSUME NEW d \in Browser, Serve(d) \/ OnEvent(d) \/ Sync(d) PROVE FALSE
    BY <1>1, <2>1 DEF Serve, OnOpen, OnMessage, OnEvent, Sync
  <2>2. ASSUME NEW payload \in Stray, OnStray(payload) PROVE FALSE
    BY <1>1, <2>2 DEF OnStray, page
  <2>3. ~UNCHANGED vars
    BY <1>1 DEF vars
  <2> QED BY <2>1, <2>2, <2>3 DEF Next
<1>3. d = b
  BY <1>1, <1>2, InputTyped
<1>4. /\ textarea'[b] = new
      /\ EditLands(nodes[b], children[b], nodes'[b], children'[b], new)
  BY <1>1, <1>2, <1>3, InputTyped
<1> DEFINE ids2 == RenderedIds(nodes'[b], children'[b])
           stay == Within(RenderedIds(nodes[b], children[b]), Visible(nodes'[b]))
           run == Within(ids2, DOMAIN nodes'[b] \ DOMAIN nodes[b])
<1>5. PICK p, k : LandsAt(nodes[b], nodes'[b], stay, run, ids2, new, p, k)
  BY <1>4 DEF EditLands, Lands
<1> HIDE DEF ids2, stay, run
<1>6. /\ p \in 0..Len(stay) /\ k \in p..Len(stay)
      /\ Spelled(nodes'[b], PutIn(stay, p, run)) = textarea'[b]
      /\ ids2 = PutIn(stay, k, run)
      /\ \A i \in (p + 1)..k : p > 0 => stay[p] \in Range(Path(nodes[b])[stay[i]])
  BY <1>4, <1>5 DEF LandsAt
<1> QED BY <1>6, Zenon DEF InputLands, ids2, stay, run

(* Whatever a user does to the text, the page's diff takes out of the replica  *)
(* what the user took out, and puts in what the user put in as one run, in its *)
(* order; that run is where the user sees it unless letters inserted after the *)
(* same letter earlier come first.                                             *)
THEOREM TypedTextLands == Spec => EditsLand
<1>1. Typed /\ [Next]_vars => [\A b \in Browser : Types(b) => InputLands(b)]_vars
  BY NextLands
<1> QED BY InitTyped, NextTyped, <1>1, PTL DEF Spec, EditsLand

\* How often each value occurs among the letters R.
BagOf(ns, R) == [v \in {ns[n].value : n \in R} |-> Cardinality({n \in R : ns[n].value = v})]

(* A list of letters, none of them twice, spells as many of each value.        *)
LEMMA BagIs ==
  ASSUME NEW ns, NEW x, NEW R, x \in Seq(R), Range(x) = R,
         \A i, j \in 1..Len(x) : x[i] = x[j] => i = j
  PROVE  ToBag(Spelled(ns, x)) = BagOf(ns, R)
<1> DEFINE y == Spelled(ns, x)
<1>1. DOMAIN x = 1..Len(x) /\ Len(x) \in Nat /\ \A i \in 1..Len(x) : x[i] \in R
  OBVIOUS
<1>2. y = [i \in 1..Len(x) |-> ns[x[i]].value]
  BY <1>1 DEF Spelled
<1>3. Range(y) = {ns[n].value : n \in R}
  <2>1. R = {x[i] : i \in 1..Len(x)}
    BY <1>1 DEF Range
  <2> QED BY <1>2, <2>1 DEF Range
<1>4. ASSUME NEW v PROVE Cardinality({i \in DOMAIN y : y[i] = v}) = Cardinality({n \in R : ns[n].value = v})
  <2> DEFINE I == {i \in 1..Len(x) : ns[x[i]].value = v}
             N == {n \in R : ns[n].value = v}
             f == [i \in I |-> x[i]]
  <2>1. {i \in DOMAIN y : y[i] = v} = I
    BY <1>2
  <2>2. \A n \in N : \E i \in I : f[i] = n
    <3>1. \A n \in R : \E i \in 1..Len(x) : x[i] = n
      BY <1>1 DEF Range
    <3> QED BY <3>1
  <2>3. f \in Bijection(I, N)
    <3>1. f \in [I -> N]
      BY <1>1
    <3>2. \A i, j \in I : f[i] = f[j] => i = j
      OBVIOUS
    <3> HIDE DEF f, I, N
    <3> QED BY <2>2, <3>1, <3>2 DEF Bijection, Injection, Surjection, IsInjective
  <2>4. IsFiniteSet(I)
    <3>1. IsFiniteSet(1..Len(x))
      BY <1>1, FS_Interval
    <3> QED BY <3>1, FS_Subset
  <2> HIDE DEF f, I, N
  <2>5. ExistsBijection(I, N)
    BY <2>3 DEF ExistsBijection
  <2>6. Cardinality(I) = Cardinality(N)
    BY <2>4, <2>5, FS_Bijection
  <2> QED BY <2>1, <2>6 DEF N
<1>5. ToBag(y) = [v \in Range(y) |-> Cardinality({i \in DOMAIN y : y[i] = v})]
  BY DEF ToBag
<1> HIDE DEF y
<1>6. ToBag(y) = BagOf(ns, R)
  BY <1>3, <1>4, <1>5 DEF BagOf
<1> QED BY <1>6 DEF y

\* x lists the elements of R, none of them twice.
HoldsOnce(x, R) ==
    /\ x \in Seq(R) /\ Range(x) = R
    /\ \A i, j \in 1..Len(x) : x[i] = x[j] => i = j

(* A run put into a list anywhere: the same letters, none of them twice.       *)
LEMMA PutInOnce ==
  ASSUME NEW S, NEW stay \in Seq(S), NEW run \in Seq(S), NEW k \in 0..Len(stay),
         \A i, j \in 1..Len(stay) : stay[i] = stay[j] => i = j,
         \A i, j \in 1..Len(run) : run[i] = run[j] => i = j,
         Range(stay) \cap Range(run) = {}
  PROVE  HoldsOnce(PutIn(stay, k, run), Range(stay) \cup Range(run))
<1> DEFINE x == PutIn(stay, k, run)
           R == Range(stay) \cup Range(run)
           n == Len(stay)
           m == Len(run)
<1>1. /\ n \in Nat /\ m \in Nat /\ k \in Nat /\ k <= n /\ DOMAIN stay = 1..n /\ DOMAIN run = 1..m
  OBVIOUS
<1>2. /\ x \in Seq(S) /\ Len(x) = n + m
      /\ \A i \in 1..k : x[i] = stay[i]
      /\ \A i \in 1..m : x[k + i] = run[i]
      /\ \A i \in (k + 1)..n : x[m + i] = stay[i]
  <2>1. IsPutIn(x, S, stay, k, run)
    BY PutInIs
  <2> QED BY <2>1 DEF IsPutIn
<1>3. (\A i \in 1..n : stay[i] \in Range(stay)) /\ \A i \in 1..m : run[i] \in Range(run)
  BY <1>1 DEF Range
<1>a. (\A e \in Range(stay) : \E i \in 1..n : stay[i] = e) /\ \A e \in Range(run) : \E i \in 1..m : run[i] = e
  BY <1>1 DEF Range
<1>b. Len(stay) = n /\ Len(run) = m
  OBVIOUS
<1> HIDE DEF x, n, m
\* What each place holds.
<1>4. ASSUME NEW i \in 1..(n + m)
      PROVE  \/ i \in 1..k /\ x[i] = stay[i] /\ i \in 1..n
             \/ i \in (k + 1)..(k + m) /\ x[i] = run[i - k] /\ i - k \in 1..m
             \/ i \in (k + m + 1)..(n + m) /\ x[i] = stay[i - m] /\ i - m \in 1..n /\ i - m > k
  <2>1. CASE i \in 1..k
    BY <1>1, <1>2, <2>1
  <2>2. CASE i \in (k + 1)..(k + m)
    <3>1. i - k \in 1..m /\ k + (i - k) = i
      BY <1>1, <2>2
    <3>2. x[k + (i - k)] = run[i - k]
      BY <1>2, <3>1
    <3> QED BY <2>2, <3>1, <3>2
  <2>3. CASE i \in (k + m + 1)..(n + m)
    <3>1. i - m \in (k + 1)..n /\ m + (i - m) = i /\ i - m \in 1..n /\ i - m > k
      BY <1>1, <2>3
    <3>2. x[m + (i - m)] = stay[i - m]
      BY <1>2, <3>1
    <3> QED BY <2>3, <3>1, <3>2
  <2>4. i \in 1..k \/ i \in (k + 1)..(k + m) \/ i \in (k + m + 1)..(n + m)
    BY <1>1
  <2> QED BY <2>1, <2>2, <2>3, <2>4
<1>5. \A i \in 1..(n + m) : x[i] \in R
  <2> TAKE i \in 1..(n + m)
  <2> QED BY <1>3, <1>4
<1>6. DOMAIN x = 1..(n + m)
  BY <1>2
<1>7. x \in Seq(R)
  <2> HIDE DEF R
  <2>1. x = [i \in 1..(n + m) |-> x[i]]
    BY <1>2, <1>6
  <2>2. n + m \in Nat
    BY <1>1
  <2>3. x \in [1..(n + m) -> R]
    BY <1>5, <2>1
  <2> QED BY <2>2, <2>3
<1>8. ASSUME NEW e \in R PROVE \E i \in 1..(n + m) : x[i] = e
  <2>1. CASE e \in Range(run)
    <3>1. PICK i \in 1..m : run[i] = e
      BY <1>a, <2>1
    <3>2. k + i \in 1..(n + m)
      BY <1>1
    <3> QED BY <1>2, <3>1, <3>2
  <2>2. CASE e \in Range(stay)
    <3>1. PICK i \in 1..n : stay[i] = e
      BY <1>a, <2>2
    <3>2. CASE i <= k
      <4>1. i \in 1..k /\ i \in 1..(n + m)
        BY <1>1, <3>2
      <4> QED BY <1>2, <3>1, <4>1
    <3>3. CASE ~(i <= k)
      <4>1. i \in (k + 1)..n /\ m + i \in 1..(n + m)
        BY <1>1, <3>3
      <4> QED BY <1>2, <3>1, <4>1
    <3> QED BY <3>2, <3>3
  <2> QED BY <2>1, <2>2
<1>9. Range(x) = R
  <2>1. Range(x) = {x[i] : i \in 1..(n + m)}
    BY <1>6 DEF Range
  <2> HIDE DEF R
  <2> QED BY <1>5, <1>8, <2>1
<1>10. ASSUME NEW i \in 1..(n + m), NEW j \in 1..(n + m), x[i] = x[j] PROVE i = j
  <2> DEFINE InRun(l) == l \in (k + 1)..(k + m) /\ x[l] = run[l - k] /\ l - k \in 1..m
             From(l) == IF l <= k THEN l ELSE l - m
             InStay(l) == /\ l \in 1..k \/ l \in (k + m + 1)..(n + m)
                          /\ x[l] = stay[From(l)] /\ From(l) \in 1..n
  <2>1. ASSUME NEW l \in 1..(n + m) PROVE InRun(l) \/ InStay(l)
    <3>1. CASE l \in 1..k /\ x[l] = stay[l] /\ l \in 1..n
      <4>1. l <= k
        BY <1>1, <3>1
      <4> QED BY <3>1, <4>1
    <3>2. CASE l \in (k + m + 1)..(n + m) /\ x[l] = stay[l - m] /\ l - m \in 1..n /\ l - m > k
      <4>1. ~(l <= k)
        BY <1>1, <3>2
      <4> QED BY <3>2, <4>1
    <3> QED BY <1>4, <3>1, <3>2
  <2>2. ASSUME NEW l \in 1..(n + m), InRun(l), NEW o \in 1..(n + m), InStay(o) PROVE x[l] # x[o]
    <3>1. x[l] \in Range(run) /\ x[o] \in Range(stay)
      BY <1>3, <2>2
    <3> QED BY <3>1
  <2>3. CASE InRun(i) /\ InRun(j)
    <3>1. i - k = j - k
      BY <1>10, <1>b, <2>3
    <3> QED BY <1>1, <3>1
  <2>4. CASE InStay(i) /\ InStay(j)
    <3>1. From(i) = From(j)
      <4> HIDE DEF From
      <4> QED BY <1>10, <1>b, <2>4
    <3>2. (i <= k => i \in 1..k) /\ (j <= k => j \in 1..k) /\ (~(i <= k) => i \in (k + m + 1)..(n + m))
          /\ (~(j <= k) => j \in (k + m + 1)..(n + m))
      BY <1>1, <2>4
    <3> QED BY <1>1, <3>1, <3>2
  <2> HIDE DEF InRun, InStay
  <2> QED BY <1>10, <2>1, <2>2, <2>3, <2>4
<1>11. \A i, j \in 1..Len(x) : x[i] = x[j] => i = j
  BY <1>2, <1>10
<1> HIDE DEF R
<1>12. HoldsOnce(x, R)
  BY <1>7, <1>9, <1>11 DEF HoldsOnce
<1> QED BY <1>12 DEF x, R

(* After an input event the textarea and the replica have the same letters.    *)
LEMMA InputLetters ==
  ASSUME NEW ns, NEW kids, NEW nn, NEW kids2, NEW new, GrowsTo(ns, nn),
         kids = SiblingLists(ns), kids2 = SiblingLists(nn), EditLands(ns, kids, nn, kids2, new)
  PROVE  ToBag(new) = ToBag(RenderedText(nn, kids2))
<1> DEFINE ids == RenderedIds(ns, kids)
           ids2 == RenderedIds(nn, kids2)
           W == DOMAIN nn \ DOMAIN ns
           stay == Within(ids, Visible(nn))
           run == Within(ids2, W)
<1>1. Tree(ns) /\ Tree(nn) /\ DOMAIN ns \subseteq DOMAIN nn
  BY DEF GrowsTo
<1>2. Lists(ns, ids, Visible(ns)) /\ Lists(nn, ids2, Visible(nn))
  BY <1>1, RenderedLists
<1>3. PICK p, k : LandsAt(ns, nn, stay, run, ids2, new, p, k)
  BY DEF EditLands, Lands
<1> HIDE DEF ids, ids2
<1>4. Lists(ns, stay, Visible(ns) \cap Visible(nn)) /\ Lists(nn, run, Visible(nn) \cap W)
  BY <1>2, WithinLists
<1>5. /\ stay \in Seq(DOMAIN ns) /\ Range(stay) = Visible(ns) \cap Visible(nn)
      /\ run \in Seq(DOMAIN nn) /\ Range(run) = Visible(nn) \cap W
  BY <1>4 DEF Lists
<1>6. /\ \A i, j \in 1..Len(stay) : stay[i] = stay[j] => i = j
      /\ \A i, j \in 1..Len(run) : run[i] = run[j] => i = j
  <2> HIDE DEF stay, run
  <2>1. \A i, j \in 1..Len(stay) : stay[i] = stay[j] => i = j
    BY <1>1, <1>4, ListsOnce
  <2>2. \A i, j \in 1..Len(run) : run[i] = run[j] => i = j
    BY <1>1, <1>4, ListsOnce
  <2> QED BY <2>1, <2>2
<1>7. Range(stay) \cap Range(run) = {}
  BY <1>5 DEF Visible
<1>8. /\ p \in 0..Len(stay) /\ k \in p..Len(stay) /\ new = Spelled(nn, PutIn(stay, p, run))
      /\ ids2 = PutIn(stay, k, run)
  BY <1>3 DEF LandsAt
<1> HIDE DEF stay, run, W
<1>9. k \in 0..Len(stay)
  BY <1>5, <1>8
<1>10. stay \in Seq(DOMAIN nn)
  BY <1>1, <1>5
<1> DEFINE R == Range(stay) \cup Range(run)
<1>11. HoldsOnce(PutIn(stay, p, run), R) /\ HoldsOnce(PutIn(stay, k, run), R)
  <2>1. HoldsOnce(PutIn(stay, p, run), R)
    BY <1>5, <1>6, <1>7, <1>8, <1>10, PutInOnce
  <2>2. HoldsOnce(PutIn(stay, k, run), R)
    BY <1>5, <1>6, <1>7, <1>9, <1>10, PutInOnce
  <2> QED BY <2>1, <2>2
<1> HIDE DEF R
<1>12. ASSUME NEW x, HoldsOnce(x, R) PROVE ToBag(Spelled(nn, x)) = BagOf(nn, R)
  BY <1>12, BagIs DEF HoldsOnce
<1>13. ToBag(Spelled(nn, PutIn(stay, p, run))) = ToBag(Spelled(nn, PutIn(stay, k, run)))
  BY <1>11, <1>12
<1> QED BY <1>8, <1>13 DEF RenderedText, ids2

LEMMA NextLetters == Typed /\ SameLetters /\ [Next]_vars => SameLetters'
<1> SUFFICES ASSUME Typed, SameLetters, [Next]_vars, NEW b \in Browser,
                    clientId'[b] # 0, toBrowser'[b] = << >> \/ DOMAIN nodes'[b] # {}
             PROVE  ToBag(textarea'[b]) = ToBag(RenderedText(nodes'[b], children'[b]))
  BY DEF SameLetters
<1>0. clientId[b] # 0 /\ (toBrowser[b] = << >> \/ DOMAIN nodes[b] # {}) =>
         ToBag(textarea[b]) = ToBag(RenderedText(nodes[b], children[b]))
  BY DEF SameLetters
<1>1. CASE UNCHANGED vars
  BY <1>0, <1>1 DEF vars, page, wire
<1>2. ASSUME NEW d \in Browser, OnOpen(d)
      PROVE  ToBag(textarea'[b]) = ToBag(RenderedText(nodes'[b], children'[b]))
  <2>1. d # b
    <3> SUFFICES ASSUME d = b PROVE FALSE
      OBVIOUS
    <3>1. link[b] = "connecting" /\ clientId[b] # 0
      BY <1>2 DEF OnOpen, page
    <3>2. Phase(b)
      BY DEF Typed
    <3> QED BY <3>1, <3>2 DEF Phase
  <2>2. toBrowser'[b] = toBrowser[b]
    BY <1>2, <2>1 DEF OnOpen, Typed
  <2> QED BY <1>0, <1>2, <2>2 DEF OnOpen, page
<1>3. ASSUME NEW d \in Browser, OnMessage(d)
      PROVE  ToBag(textarea'[b]) = ToBag(RenderedText(nodes'[b], children'[b]))
  <2>1. toBrowser'[b] = << >> => toBrowser[b] = << >>
    <3>1. CASE d # b
      BY <1>3, <3>1 DEF OnMessage, Typed
    <3>2. CASE d = b
      <4> DEFINE r == Replies(masters', Head(toServer[b]))
      <4>1. toBrowser'[b] = toBrowser[b] \o r
        BY <1>3, <3>2 DEF OnMessage, Typed
      <4>2. r \in Seq(TextState)
        <5>1. toServer[b] \in Seq(TextState) /\ toServer[b] # << >>
          BY <1>3, <3>2 DEF OnMessage, Typed
        <5>2. Head(toServer[b]) \in TextState
          BY <5>1, QueueTail
        <5>3. masters' = Processed(masters, Head(toServer[b])) /\ IsMasters(masters)
          BY <1>3, <3>2 DEF OnMessage, Typed
        <5>4. IsMasters(masters')
          BY <5>2, <5>3, StateProcessed
        <5> QED BY <5>2, <5>3, <5>4, StateProcessed
      <4>3. toBrowser[b] \in Seq(Greeting \cup TextState)
        BY DEF Typed
      <4> HIDE DEF r
      <4>4. toBrowser[b] # << >> => toBrowser[b] \o r # << >>
        BY <4>2, <4>3, QueueAppend
      <4> QED BY <4>1, <4>4
    <3> QED BY <3>1, <3>2
  <2> QED BY <1>0, <1>3, <2>1 DEF OnMessage, page
<1>4. ASSUME NEW d \in Browser, OnEvent(d), OnAuth(d)
      PROVE  ToBag(textarea'[b]) = ToBag(RenderedText(nodes'[b], children'[b]))
  <2>1. d # b
    BY <1>4, AuthTyped
  <2>2. toBrowser'[b] = toBrowser[b] /\ clientId'[b] = clientId[b] /\ nodes'[b] = nodes[b]
    BY <1>4, <2>1 DEF OnEvent, OnAuth, Typed
  <2> QED BY <1>0, <1>4, <2>2 DEF OnAuth
<1>5. ASSUME NEW d \in Browser, OnEvent(d), OnTextState(d)
      PROVE  ToBag(textarea'[b]) = ToBag(RenderedText(nodes'[b], children'[b]))
  <2>1. CASE d = b
    <3>1. textarea'[b] = RenderedText(nodes'[b], children'[b])
      BY <1>5, <2>1, TextStateTyped
    <3> QED BY <3>1
  <2>2. CASE d # b
    <3>1. /\ toBrowser'[b] = toBrowser[b] /\ nodes'[b] = nodes[b] /\ children'[b] = children[b]
          /\ textarea'[b] = textarea[b]
      BY <1>5, <2>2, TextStateTyped
    <3> QED BY <1>0, <1>5, <3>1 DEF OnTextState
  <2> QED BY <2>1, <2>2
<1>6. ASSUME NEW d \in Browser, NEW new \in Texts, Input(d, new)
      PROVE  ToBag(textarea'[b]) = ToBag(RenderedText(nodes'[b], children'[b]))
  <2>0. UNCHANGED <<toBrowser, clientId>>
    BY <1>6 DEF Input, wire
  <2>1. CASE d = b
    <3>1. /\ textarea'[b] = new /\ GrowsTo(nodes[b], nodes'[b])
          /\ EditLands(nodes[b], children[b], nodes'[b], children'[b], new)
      BY <1>6, <2>0, <2>1, InputTyped
    <3>2. children[b] = SiblingLists(nodes[b]) /\ children'[b] = SiblingLists(nodes'[b])
      <4>1. Typed'
        BY <1>6, InputTyped
      <4> QED BY <4>1 DEF Typed
    <3> QED BY <3>1, <3>2, InputLetters
  <2>2. CASE d # b
    <3>1. nodes'[b] = nodes[b] /\ children'[b] = children[b] /\ textarea'[b] = textarea[b]
      BY <1>6, <2>2, InputTyped
    <3> QED BY <1>0, <2>0, <3>1
  <2> QED BY <2>1, <2>2
<1>7. ASSUME NEW d \in Browser, Sync(d)
      PROVE  ToBag(textarea'[b]) = ToBag(RenderedText(nodes'[b], children'[b]))
  BY <1>0, <1>7 DEF Sync, page
<1>8. ASSUME NEW payload \in Stray, OnStray(payload)
      PROVE  ToBag(textarea'[b]) = ToBag(RenderedText(nodes'[b], children'[b]))
  BY <1>0, <1>8 DEF OnStray, page, wire
<1>9. ASSUME NEW d \in Browser, OnEvent(d)
      PROVE  ToBag(textarea'[b]) = ToBag(RenderedText(nodes'[b], children'[b]))
  BY <1>4, <1>5, <1>9 DEF OnEvent
<1> QED BY <1>1, <1>2, <1>3, <1>6, <1>7, <1>8, <1>9 DEF Next, Serve

(* A page that has its id, and has read all it was sent or has any letter in    *)
(* its replica, shows in its textarea the letters of its replica, each as often. *)
THEOREM TextareaHoldsReplica == Spec => []SameLetters
<1>1. Init => SameLetters
  BY DEF Init, SameLetters
<1> QED BY InitTyped, NextTyped, NextLetters, <1>1, PTL DEF Spec

LEMMA EventKeeps ==
  ASSUME Typed, NEW b \in Browser, OnEvent(b), OnTextState(b)
  PROVE  KeepsTyping(b)
<1> DEFINE s == Head(toBrowser[b])
           told == s.nodes
           before == Range(RenderedIds(nodes[b], children[b]))
           after == Range(RenderedIds(nodes'[b], children'[b]))
           arrived == Landing(DOMAIN nodes[b], told)
<1>1. toBrowser[b] # << >> /\ s.type = "text_state" /\ nodes'[b] = NodesMerged(nodes[b], told)
  BY DEF OnEvent, OnTextState, Typed
<1>2. s \in TextState
  <2>1. toBrowser[b] \in Seq(Greeting \cup TextState)
    BY DEF Typed
  <2>2. s \in Greeting \cup TextState
    BY <1>1, <2>1, QueueTail
  <2> QED BY <1>1, <2>2 DEF Greeting
<1>3. IsNodeMap(told) /\ IsNodeMap(nodes[b]) /\ Tree(nodes[b])
  BY <1>2, TreeMapsAre DEF TextState, Tree, Typed
<1>4. HasMerged(nodes[b], arrived, told, nodes'[b]) /\ arrived \subseteq DOMAIN told
  BY <1>1, <1>3, NodesMergedAre DEF Landing
<1>5. before = Visible(nodes[b]) /\ after = Visible(nodes'[b])
  <2>1. Typed'
    BY TextStateTyped
  <2>2. Tree(nodes'[b]) /\ children'[b] = SiblingLists(nodes'[b])
    BY <2>1, TreeMapsAre DEF Typed
  <2>3. children[b] = SiblingLists(nodes[b])
    BY DEF Typed
  <2> QED BY <1>3, <2>2, <2>3, RenderedLists DEF Lists
<1> HIDE DEF arrived, before, after, told, s
<1>6. ASSUME NEW n \in before \ after PROVE n \in DOMAIN told /\ told[n].deleted
  BY <1>4, <1>5, <1>6 DEF HasMerged, Visible
<1>7. ASSUME NEW n \in after \ before PROVE n \in Visible(told) \ DOMAIN nodes[b]
  <2>1. n \in DOMAIN nodes'[b] /\ ~nodes'[b][n].deleted /\ n \notin Visible(nodes[b])
    BY <1>5, <1>7 DEF Visible
  <2>2. n \notin DOMAIN nodes[b]
    BY <1>4, <2>1 DEF HasMerged, Visible
  <2> QED BY <1>4, <2>1, <2>2 DEF HasMerged, Visible
<1> QED BY <1>6, <1>7 DEF KeepsTyping, before, after, told, s

(* A render takes no letter from a user that the state did not delete, and      *)
(* brings none back that the user erased, however old the state is.            *)
THEOREM RendersKeepTyping == Spec => RenderKeeps
<1>1. Typed /\ [Next]_vars =>
         [\A b \in Browser : OnEvent(b) /\ OnTextState(b) => KeepsTyping(b)]_vars
  BY EventKeeps
<1> QED BY InitTyped, NextTyped, <1>1, PTL DEF Spec, RenderKeeps

-----------------------------------------------------------------------------
(* Payloads.                                                                   *)

(* The decoders take just the payloads every entry of which can be read.       *)
LEMMA ReadableDecodes ==
  ASSUME NEW payload,
         payload # Junk /\ Fits(payload, "nodes") => DOMAIN payload.nodes \subseteq Place \cup {Junk}
  PROVE  /\ DecodesCounter(payload) <=> Readable(payload) /\ payload.type = "counter_state"
         /\ \A type \in {"list_state", "text_state"} :
               DecodesNodes(payload, type) <=> Readable(payload) /\ payload.type = type
         /\ Readable(payload) => payload.type \in {"counter_state", "list_state", "text_state"}
<1>1. Parses(payload) <=> payload # Junk /\ ~HoldsHalf(payload)
  BY DEF Parses, HoldsHalf
<1> HIDE DEF HoldsHalf
<1>2. DecodesCounter(payload) <=> Readable(payload) /\ payload.type = "counter_state"
  BY <1>1 DEF DecodesCounter, IsEnvelope, IsCounts, Readable
<1>3. ASSUME payload # Junk, Fits(payload, "nodes")
      PROVE  (\A n \in DOMAIN payload.nodes : IsItem(n, payload.nodes[n])) <=>
             (\A n \in DOMAIN payload.nodes :
                 /\ n \in Id /\ payload.nodes[n] # Junk
                 /\ {f \in ItemFields : Fits(payload.nodes[n], f)} = ItemFields)
  <2>1. DOMAIN payload.nodes \subseteq Place \cup {Junk}
    BY <1>3
  <2>2. \A n \in DOMAIN payload.nodes : n \notin {Junk, Head0} <=> n \in Id
    BY <2>1, HeadIsNoId, JunkAssumption DEF Place
  <2>3. \A n \in DOMAIN payload.nodes :
           ({f \in ItemFields : Fits(payload.nodes[n], f)} = ItemFields)
             <=> \A f \in ItemFields : Fits(payload.nodes[n], f)
    OBVIOUS
  <2> QED BY <2>2, <2>3 DEF IsItem
<1>4. ASSUME NEW type \in {"list_state", "text_state"}
      PROVE  DecodesNodes(payload, type) <=> Readable(payload) /\ payload.type = type
  <2>1. DecodesNodes(payload, type) <=>
           /\ payload # Junk /\ ~HoldsHalf(payload) /\ Fits(payload, "type") /\ payload.type = type
           /\ Fits(payload, "nodes")
           /\ \A n \in DOMAIN payload.nodes : IsItem(n, payload.nodes[n])
    BY <1>1 DEF DecodesNodes, IsEnvelope
  <2>2. Readable(payload) /\ payload.type = type <=>
           /\ payload # Junk /\ ~HoldsHalf(payload) /\ Fits(payload, "type") /\ payload.type = type
           /\ Fits(payload, "nodes")
           /\ \A n \in DOMAIN payload.nodes :
                 /\ n \in Id /\ payload.nodes[n] # Junk
                 /\ {f \in ItemFields : Fits(payload.nodes[n], f)} = ItemFields
    BY DEF Readable
  <2> QED BY <1>3, <2>1, <2>2
<1>5. Readable(payload) => payload.type \in {"counter_state", "list_state", "text_state"}
  BY DEF Readable
<1> QED BY <1>2, <1>4, <1>5

(* The larger count of each client, and no client is forgotten.                *)
LEMMA JoinedCountsLead ==
  ASSUME NEW bucket, bucket \in [DOMAIN bucket -> Nat],
         NEW incoming, incoming \in [DOMAIN incoming -> Nat]
  PROVE  /\ DOMAIN JoinCounts(bucket, incoming) = DOMAIN bucket \cup DOMAIN incoming
         /\ \A c \in DOMAIN bucket : bucket[c] <= JoinCounts(bucket, incoming)[c]
         /\ \A c \in DOMAIN incoming : incoming[c] <= JoinCounts(bucket, incoming)[c]
<1> DEFINE D == DOMAIN bucket \cup DOMAIN incoming
           counts(c) == {b[c] : b \in {d \in {bucket, incoming} : c \in DOMAIN d}}
           after == JoinCounts(bucket, incoming)
<1>1. /\ DOMAIN after = D
      /\ \A c \in D : after[c] = Max(counts(c))
  BY DEF JoinCounts
<1>2. ASSUME NEW c \in D PROVE \A x \in counts(c) : x <= Max(counts(c))
  <2>1. counts(c) \subseteq Nat
    OBVIOUS
  <2>2. \E x \in counts(c) : \A y \in counts(c) : x >= y
    <3>1. CASE c \in DOMAIN bucket /\ c \in DOMAIN incoming
      <4>1. counts(c) = {bucket[c], incoming[c]} /\ bucket[c] \in Nat /\ incoming[c] \in Nat
        BY <3>1
      <4> HIDE DEF counts
      <4>2. bucket[c] >= incoming[c] \/ incoming[c] >= bucket[c]
        BY <4>1
      <4> QED BY <4>1, <4>2
    <3>2. CASE c \in DOMAIN bucket /\ c \notin DOMAIN incoming
      <4>1. counts(c) = {bucket[c]} /\ bucket[c] \in Nat
        BY <3>2
      <4> HIDE DEF counts
      <4> QED BY <4>1
    <3>3. CASE c \notin DOMAIN bucket /\ c \in DOMAIN incoming
      <4>1. counts(c) = {incoming[c]} /\ incoming[c] \in Nat
        BY <3>3
      <4> HIDE DEF counts
      <4> QED BY <4>1
    <3> QED BY <3>1, <3>2, <3>3
  <2> HIDE DEF counts
  <2>3. Max(counts(c)) \in counts(c) /\ \A y \in counts(c) : Max(counts(c)) >= y
    BY <2>2 DEF Max
  <2> QED BY <2>1, <2>3
<1>3. /\ \A c \in DOMAIN bucket : bucket[c] \in counts(c)
      /\ \A c \in DOMAIN incoming : incoming[c] \in counts(c)
  OBVIOUS
<1> HIDE DEF counts, after
<1> QED BY <1>1, <1>2, <1>3 DEF after

(* What the server makes of a payload it can read.                             *)
LEMMA CountsTaken ==
  ASSUME NEW m, IsMasters(m), NEW payload \in Stray, DecodesCounter(payload)
  PROVE  /\ Counted(m.counter, Processed(m, payload).counter, payload)
         /\ Processed(m, payload).list = m.list /\ Processed(m, payload).text = m.text
<1> DEFINE k == [side \in Side |-> JoinCounts(m.counter[side], payload[side])]
           after == Processed(m, payload)
<1>1. after = [m EXCEPT !.counter = k]
  BY DEF Processed
<1>2. after.counter = k /\ after.list = m.list /\ after.text = m.text
  <2> HIDE DEF k
  <2> QED BY <1>1 DEF IsMasters
<1>3. ASSUME NEW side \in Side
      PROVE  /\ DOMAIN k[side] = DOMAIN m.counter[side] \cup DOMAIN payload[side]
             /\ \A c \in DOMAIN m.counter[side] : m.counter[side][c] <= k[side][c]
             /\ \A c \in DOMAIN payload[side] : payload[side][c] <= k[side][c]
  <2>1. m.counter[side] \in [DOMAIN m.counter[side] -> Nat]
    BY DEF IsMasters, IsCounter
  <2>2. payload[side] \in [DOMAIN payload[side] -> Nat]
    BY DecodedCounts
  <2>3. k[side] = JoinCounts(m.counter[side], payload[side])
    OBVIOUS
  <2> HIDE DEF k
  <2> QED BY <2>1, <2>2, <2>3, JoinedCountsLead
<1> HIDE DEF k
<1>4. Counted(m.counter, k, payload)
  BY <1>3 DEF Counted
<1> HIDE DEF after
<1> QED BY <1>2, <1>4 DEF after

LEMMA NodesTaken ==
  ASSUME NEW m, IsMasters(m), NEW payload, NEW type, DecodesNodes(payload, type),
         type \in {"list_state", "text_state"}, IsNodeMap(payload.nodes),
         Consistent(m.list, payload.nodes) \/ type # "list_state",
         Consistent(m.text, payload.nodes) \/ type # "text_state"
  PROVE  /\ Processed(m, payload).counter = m.counter
         /\ Processed(m, payload).list =
               IF type = "list_state" THEN ToldBy(m.list, payload) ELSE m.list
         /\ Processed(m, payload).text =
               IF type = "text_state" THEN ToldBy(m.text, payload) ELSE m.text
<1>1. IsNodeMap(payload.nodes) /\ payload.type = type
  BY DEF DecodesNodes, IsEnvelope
<1>2. Tree(m.list) /\ Tree(m.text)
  BY TreeMapsAre DEF IsMasters
<1>3. ~DecodesCounter(payload)
  BY <1>1 DEF DecodesCounter, IsEnvelope
<1>4. CASE type = "list_state"
  <2>1. Processed(m, payload) = [m EXCEPT !.list = NodesMerged(@, payload.nodes)]
    BY <1>3, <1>4 DEF Processed
  <2>2. NodesMerged(m.list, payload.nodes) = ToldBy(m.list, payload)
    BY <1>1, <1>2, <1>4, MergedIsTold DEF ToldBy, Tree
  <2> QED BY <1>4, <2>1, <2>2 DEF IsMasters
<1>5. CASE type = "text_state"
  <2>1. ~DecodesNodes(payload, "list_state")
    BY <1>1, <1>5 DEF DecodesNodes, IsEnvelope
  <2>2. Processed(m, payload) = [m EXCEPT !.text = NodesMerged(@, payload.nodes)]
    BY <1>3, <1>5, <2>1 DEF Processed
  <2>3. NodesMerged(m.text, payload.nodes) = ToldBy(m.text, payload)
    BY <1>1, <1>2, <1>5, MergedIsTold DEF ToldBy, Tree
  <2> QED BY <1>5, <2>2, <2>3 DEF IsMasters
<1> QED BY <1>4, <1>5

-----------------------------------------------------------------------------
(* One element, one place and one value.  A book of all elements that are      *)
(* anywhere is kept in the proof: what a state says of an element is what the   *)
(* book has.                                                                   *)

InBook(ns, book) ==
    \A n \in DOMAIN ns : /\ n \in DOMAIN book
                         /\ ns[n].previous_id = book[n].previous_id
                         /\ ns[n].value = book[n].value

BookStates(book) == {s \in TextState : InBook(s.nodes, book)}

\* The book of states that agree.
BookOf(S) ==
    [n \in UNION {DOMAIN ns : ns \in S} |-> (CHOOSE ns \in S : n \in DOMAIN ns)[n]]

ListBook == BookOf(StrayNodes("list_state"))

\* What other clients' texts say of letters of their own.
Foreign(ns) == Restrict(ns, {n \in DOMAIN ns : ~OfPages(n)})
ForeignTexts == {Foreign(ns) : ns \in StrayNodes("text_state")}

\* The id of a page, or the one on its way to it.
ClientOf(b) ==
    IF clientId[b] # 0 THEN clientId[b]
    ELSE IF link[b] = "open" THEN Head(toBrowser[b]).id ELSE 0

\* No two pages have one id, and each was drawn.
Distinct ==
    /\ \A b \in Opened : \E i \in 1..Cardinality(Opened) : ClientOf(b) = Drawn[i]
    /\ \A b, d \in Opened : ClientOf(b) = ClientOf(d) => b = d

\* An element that bears an id drawn is of a page, which has counted past it.
Issued(book) ==
    /\ DOMAIN book \subseteq Id
    /\ \A n \in DOMAIN book : n[1] \in Range(Drawn) =>
          \E b \in Opened : ClientOf(b) = n[1] /\ n[2] <= sequence[b]

\* What is under way.
QueuesInBook(book) ==
    /\ \A b \in Browser : toServer[b] \in Seq(BookStates(book))
    /\ \A b \in Browser : toBrowser[b] \in Seq(Greeting \cup BookStates(book))

Booked(book) ==
    /\ \A ns \in ForeignTexts : InBook(ns, book)
    /\ InBook(masters.text, book)
    /\ \A b \in Browser : InBook(nodes[b], book)
    /\ QueuesInBook(book)
    /\ Issued(book)

SomeBook == \E book : Booked(book)

Agreed == Distinct /\ InBook(masters.list, ListBook) /\ SomeBook

LEMMA InBookConsistent ==
  ASSUME NEW book, NEW a, InBook(a, book), NEW b, InBook(b, book)
  PROVE  Consistent(a, b)
<1> QED BY DEF InBook, Consistent

LEMMA InBookMerged ==
  ASSUME NEW book, NEW old, IsNodeMap(old), InBook(old, book),
         NEW incoming, IsNodeMap(incoming), InBook(incoming, book)
  PROVE  InBook(NodesMerged(old, incoming), book)
<1> DEFINE arrived == Landing(DOMAIN old, incoming)
           after == NodesMerged(old, incoming)
<1>1. HasMerged(old, arrived, incoming, after)
  BY NodesMergedAre
<1>2. arrived \subseteq DOMAIN incoming
  BY DEF Landing
<1> HIDE DEF arrived, after
<1>3. ASSUME NEW n \in DOMAIN after
      PROVE  /\ n \in DOMAIN book
             /\ after[n].previous_id = book[n].previous_id /\ after[n].value = book[n].value
  <2>1. CASE n \in DOMAIN old
    BY <1>1, <2>1 DEF HasMerged, InBook
  <2>2. CASE n \in arrived \ DOMAIN old
    BY <1>1, <1>2, <2>2 DEF HasMerged, InBook
  <2> QED BY <1>1, <2>1, <2>2 DEF HasMerged
<1>4. InBook(after, book)
  BY <1>3 DEF InBook
<1> QED BY <1>4 DEF after

(* States that agree with each other have a book.                              *)
LEMMA AgreeInBook ==
  ASSUME NEW S, \A a, b \in S : Consistent(a, b)
  PROVE  \A ns \in S : InBook(ns, BookOf(S))
<1>1. \A a, b \in S : \A n \in DOMAIN a \cap DOMAIN b :
         a[n].previous_id = b[n].previous_id /\ a[n].value = b[n].value
  BY DEF Consistent
<1>2. ASSUME NEW ns \in S, NEW n \in DOMAIN ns
      PROVE  /\ n \in DOMAIN BookOf(S)
             /\ ns[n].previous_id = BookOf(S)[n].previous_id
             /\ ns[n].value = BookOf(S)[n].value
  <2> DEFINE other == CHOOSE x \in S : n \in DOMAIN x
  <2>1. other \in S /\ n \in DOMAIN other
    OBVIOUS
  <2>2. n \in DOMAIN BookOf(S) /\ BookOf(S)[n] = other[n]
    BY DEF BookOf
  <2> HIDE DEF other
  <2> QED BY <1>1, <2>1, <2>2
<1> QED BY <1>2 DEF InBook

(* Other clients' lists agree with each other, and so do their texts on what    *)
(* the pages did not type.                                                     *)
LEMMA StraysInBook ==
  /\ \A ns \in StrayNodes("list_state") : InBook(ns, ListBook)
  /\ \A ns \in ForeignTexts : InBook(ns, BookOf(ForeignTexts))
<1>1. \A a, b \in StrayNodes("list_state") : Consistent(a, b)
  BY StrayIdsAssumption DEF Consistent
<1>2. ASSUME NEW a \in ForeignTexts, NEW b \in ForeignTexts PROVE Consistent(a, b)
  <2>1. PICK x \in StrayNodes("text_state") : a = Foreign(x)
    BY DEF ForeignTexts
  <2>2. PICK y \in StrayNodes("text_state") : b = Foreign(y)
    BY DEF ForeignTexts
  <2>3. \A n \in DOMAIN a \cap DOMAIN b :
           /\ n \in DOMAIN x \cap DOMAIN y /\ ~OfPages(n)
           /\ a[n] = x[n] /\ b[n] = y[n]
    BY <2>1, <2>2 DEF Foreign, Restrict
  <2> QED BY <2>3, StrayIdsAssumption DEF Consistent
<1> HIDE DEF ForeignTexts
<1> QED BY <1>1, <1>2, AgreeInBook DEF ListBook

(* What another client says of the text is in the book: of its own letters as   *)
(* the book has them, of the pages' as the master has them.                    *)
LEMMA KnownInBook ==
  ASSUME NEW book, Booked(book), NEW payload \in Stray, DecodesNodes(payload, "text_state"),
         Knows(payload)
  PROVE  InBook(payload.nodes, book)
<1> DEFINE ns == payload.nodes
<1>1. InBook(Foreign(ns), book) /\ InBook(masters.text, book)
  BY DEF Booked, ForeignTexts, StrayNodes
<1>2. ASSUME NEW n \in DOMAIN ns
      PROVE  /\ n \in DOMAIN book
             /\ ns[n].previous_id = book[n].previous_id /\ ns[n].value = book[n].value
  <2>1. CASE OfPages(n)
    BY <1>1, <2>1 DEF Knows, InBook
  <2>2. CASE ~OfPages(n)
    <3>1. n \in DOMAIN Foreign(ns) /\ Foreign(ns)[n] = ns[n]
      BY <2>2 DEF Foreign, Restrict
    <3> QED BY <1>1, <3>1 DEF InBook
  <2> QED BY <2>1, <2>2
<1> QED BY <1>2 DEF InBook

(* A book with more in it.                                                     *)
LEMMA BookGrows ==
  ASSUME NEW book, NEW more, InBook(book, more)
  PROVE  /\ \A ns : InBook(ns, book) => InBook(ns, more)
         /\ BookStates(book) \subseteq BookStates(more)
         /\ \A q \in Seq(BookStates(book)) : q \in Seq(BookStates(more))
         /\ \A q \in Seq(Greeting \cup BookStates(book)) : q \in Seq(Greeting \cup BookStates(more))
<1>1. \A ns : InBook(ns, book) => InBook(ns, more)
  BY DEF InBook
<1>2. BookStates(book) \subseteq BookStates(more)
  BY <1>1 DEF BookStates
<1> DEFINE S == BookStates(book)
           T == BookStates(more)
<1> HIDE DEF S, T
<1>3. S \subseteq T
  BY <1>2 DEF S, T
<1>4. \A q \in Seq(S) : q \in Seq(T)
  BY <1>3
<1>5. \A q \in Seq(Greeting \cup S) : q \in Seq(Greeting \cup T)
  BY <1>3
<1> QED BY <1>1, <1>2, <1>4, <1>5 DEF S, T

LEMMA BookQueueTail ==
  ASSUME NEW book, NEW q \in Seq(Greeting \cup BookStates(book)), q # << >>
  PROVE  /\ Head(q) \in TextState => Head(q) \in BookStates(book)
         /\ Tail(q) \in Seq(Greeting \cup BookStates(book))
<1> DEFINE S == Greeting \cup BookStates(book)
<1>1. Head(q) \in S /\ Tail(q) \in Seq(S)
  <2>1. q \in Seq(S)
    OBVIOUS
  <2> HIDE DEF S
  <2> QED BY <2>1, QueueTail
<1>2. \A x \in TextState : x \notin Greeting
  BY DEF TextState, Greeting
<1> QED BY <1>1, <1>2

LEMMA BookQueueAppend ==
  ASSUME NEW book, NEW q \in Seq(Greeting \cup BookStates(book)), NEW r \in Seq(BookStates(book))
  PROVE  q \o r \in Seq(Greeting \cup BookStates(book))
<1> DEFINE S == BookStates(book)
           T == Greeting \cup S
<1>1. S \subseteq T /\ q \in Seq(T) /\ r \in Seq(S)
  OBVIOUS
<1> HIDE DEF S, T
<1>2. r \in Seq(T)
  BY <1>1
<1>3. q \o r \in Seq(T)
  BY <1>1, <1>2
<1> QED BY <1>3 DEF S, T

(* Nobody's id changes, nobody counts back.                                    *)
LEMMA DistinctStays ==
  ASSUME Distinct, UNCHANGED link, \A d \in Opened : ClientOf(d)' = ClientOf(d)
  PROVE  Distinct' /\ Opened' = Opened
<1>1. Opened' = Opened
  BY DEF Opened
<1>2. \A d \in Opened' : ClientOf(d)' = ClientOf(d)
  BY <1>1
<1> HIDE DEF ClientOf
<1> QED BY <1>1, <1>2 DEF Distinct

LEMMA IssuedStays ==
  ASSUME Typed, NEW book, Issued(book), Opened \subseteq Opened',
         \A d \in Opened : ClientOf(d)' = ClientOf(d),
         sequence' \in [Browser -> Nat], \A d \in Browser : sequence[d] <= sequence'[d]
  PROVE  Issued(book)'
<1>1. ASSUME NEW n \in DOMAIN book, n[1] \in Range(Drawn)
      PROVE  \E d \in Opened' : ClientOf(d)' = n[1] /\ n[2] <= sequence'[d]
  <2>1. PICK d \in Opened : ClientOf(d) = n[1] /\ n[2] <= sequence[d]
    BY <1>1 DEF Issued
  <2>2. d \in Browser
    BY DEF Opened
  <2>3. n[2] \in Nat
    <3>1. n \in Id
      BY DEF Issued
    <3> QED BY <3>1 DEF Id
  <2>4. sequence[d] \in Nat /\ sequence'[d] \in Nat /\ sequence[d] <= sequence'[d]
    BY <2>2 DEF Typed
  <2>5. n[2] <= sequence'[d]
    BY <2>1, <2>3, <2>4
  <2> QED BY <2>1, <2>5
<1> QED BY <1>1 DEF Issued

LEMMA InitAgreed == Init => Agreed
<1> SUFFICES ASSUME Init PROVE Agreed
  OBVIOUS
<1> DEFINE book == BookOf(ForeignTexts)
           e == [n \in {} |-> n]
<1>1. DOMAIN e = {} /\ \A any : InBook(e, any)
  BY DEF InBook
<1>2. masters.list = e /\ masters.text = e /\ \A b \in Browser : nodes[b] = e
  BY DEF Init, NewMasters
<1> HIDE DEF e
<1>3. Opened = {} /\ Distinct
  BY DEF Init, Opened, Distinct
<1>4. InBook(masters.list, ListBook)
  BY <1>1, <1>2
<1>5. Booked(book)
  <2>1. \A ns \in ForeignTexts : InBook(ns, book)
    BY StraysInBook
  <2>2. Issued(book)
    <3>1. ASSUME NEW n \in DOMAIN book PROVE n \in Id /\ n[1] \notin Range(Drawn)
      <4>1. PICK fs \in ForeignTexts : n \in DOMAIN fs
        BY DEF BookOf
      <4>a. PICK ns \in StrayNodes("text_state") : fs = Foreign(ns)
        BY DEF ForeignTexts
      <4>2. n \in DOMAIN ns /\ n[1] \notin Range(Drawn)
        BY <4>1, <4>a DEF Foreign, Restrict, OfPages
      <4>3. PICK payload \in Stray : DecodesNodes(payload, "text_state") /\ ns = payload.nodes
        BY DEF StrayNodes
      <4>4. IsNodeMap(ns)
        BY <4>3, DecodedNodes
      <4> QED BY <4>2, <4>4 DEF IsNodeMap
    <3> QED BY <3>1 DEF Issued
  <2> HIDE DEF book
  <2>3. QueuesInBook(book)
    BY DEF Init, QueuesInBook
  <2> QED BY <1>1, <1>2, <2>1, <2>2, <2>3 DEF Booked
<1>6. SomeBook
  BY <1>5 DEF SomeBook
<1> QED BY <1>3, <1>4, <1>6 DEF Agreed

LEMMA OpenAgreed ==
  ASSUME Typed, Distinct, NEW book, Booked(book), NEW b \in Browser, OnOpen(b)
  PROVE  Distinct' /\ Booked(book)' /\ UNCHANGED masters
<1> DEFINE c == Drawn[Cardinality(Opened) + 1]
           k == Cardinality(Opened)
           text == EncodeNodes("text_state", masters.text)
           q == <<Auth(c), text>>
<1>1. /\ link[b] = "connecting" /\ link' = [link EXCEPT ![b] = "open"]
      /\ toBrowser' = [toBrowser EXCEPT ![b] = q]
      /\ UNCHANGED <<masters, clientId, textarea, nodes, children, sequence, toServer>>
  BY DEF OnOpen, page
<1>2. c \in Client /\ k \in Nat /\ k + 1 \in 1..Cardinality(Browser)
  BY <1>1, DrawnIds
<1>3. clientId[b] = 0
  <2>1. Phase(b)
    BY DEF Typed
  <2> QED BY <1>1, <2>1 DEF Phase
<1>4. b \notin Opened /\ Opened' = Opened \cup {b} /\ Opened \subseteq Browser
  <2>1. \A d \in Browser : link'[d] = IF d = b THEN "open" ELSE link[d]
    BY <1>1 DEF Typed
  <2> QED BY <1>1, <2>1 DEF Opened
<1>5. Cardinality(Opened') = k + 1
  <2>1. IsFiniteSet(Opened)
    BY <1>4, BrowserAssumption, FS_Subset
  <2> QED BY <1>4, <2>1, FS_AddElement
<1>6. text \in BookStates(book)
  <2>1. text \in TextState /\ text.nodes = masters.text
    BY DEF EncodeNodes, TextState, Typed, IsMasters
  <2>2. InBook(masters.text, book)
    BY DEF Booked
  <2> QED BY <2>1, <2>2 DEF BookStates
<1>7. q \in Seq(Greeting \cup BookStates(book)) /\ Head(q) = Auth(c)
  <2> DEFINE a == Auth(c)
  <2>1. a \in Greeting
    BY <1>2 DEF Auth, Greeting
  <2> HIDE DEF a, text
  <2> QED BY <1>6, <2>1 DEF a
<1> HIDE DEF q, text
<1>8. \A d \in Opened : d # b /\ ClientOf(d)' = ClientOf(d)
  <2> TAKE d \in Opened
  <2>1. d # b /\ d \in Browser
    BY <1>4
  <2>2. link'[d] = link[d] /\ toBrowser'[d] = toBrowser[d] /\ clientId'[d] = clientId[d]
    BY <1>1, <2>1 DEF Typed
  <2> QED BY <2>1, <2>2 DEF ClientOf
<1>9. ClientOf(b)' = c
  <2>1. link'[b] = "open" /\ toBrowser'[b] = q /\ clientId'[b] = 0
    BY <1>1, <1>3 DEF Typed
  <2> QED BY <1>7, <2>1 DEF ClientOf, Auth
<1> HIDE DEF c, k
<1>10. Distinct'
  <2>1. ASSUME NEW d \in Opened PROVE \E i \in 1..(k + 1) : ClientOf(d)' = Drawn[i] /\ i # k + 1
    <3>1. PICK i \in 1..k : ClientOf(d) = Drawn[i]
      BY DEF Distinct, k
    <3>2. i \in 1..(k + 1) /\ i # k + 1
      BY <1>2
    <3> QED BY <1>8, <3>1, <3>2
  <2>2. \A i \in 1..(k + 1) : i # k + 1 => Drawn[i] # c
    <3> TAKE i \in 1..(k + 1)
    <3>1. i \in 1..Cardinality(Browser) /\ Cardinality(Browser) \in Nat
      <4>1. Cardinality(Browser) \in Nat
        BY BrowserAssumption, FS_CardinalityType
      <4> QED BY <1>2, <4>1
    <3> QED BY <1>2, <3>1, DrawnAssumption DEF c, k
  <2>3. k + 1 \in 1..(k + 1) /\ c = Drawn[k + 1]
    BY <1>2 DEF c, k
  <2>4. \A d \in Opened' : \E i \in 1..(k + 1) : ClientOf(d)' = Drawn[i]
    BY <1>4, <1>9, <2>1, <2>3
  <2>5. \A d \in Opened : ClientOf(d)' # c
    BY <2>1, <2>2
  <2>6. \A d, f \in Opened : ClientOf(d)' = ClientOf(f)' => d = f
    BY <1>8 DEF Distinct
  <2>7. \A d, f \in Opened' : ClientOf(d)' = ClientOf(f)' => d = f
    BY <1>4, <1>9, <2>5, <2>6
  <2> QED BY <1>5, <2>4, <2>7 DEF Distinct
<1>11. Issued(book)'
  <2>1. sequence' \in [Browser -> Nat] /\ \A d \in Browser : sequence[d] <= sequence'[d]
    BY <1>1 DEF Typed
  <2> QED BY <1>4, <1>8, <2>1, IssuedStays DEF Booked
<1>12. QueuesInBook(book)'
  BY <1>1, <1>7 DEF Typed, Booked, QueuesInBook
<1> QED BY <1>1, <1>10, <1>11, <1>12 DEF Booked

(* What the server is told of a text, and what it answers, is in the book.     *)
LEMMA StateAgreed ==
  ASSUME NEW m, IsMasters(m), NEW book, InBook(m.text, book), NEW payload \in BookStates(book)
  PROVE  /\ InBook(Processed(m, payload).text, book)
         /\ Processed(m, payload).list = m.list
         /\ Replies(Processed(m, payload), payload) \in Seq(BookStates(book))
<1> DEFINE after == Processed(m, payload)
<1>1. /\ payload \in TextState /\ payload.type = "text_state" /\ IsNodeMap(payload.nodes)
      /\ InBook(payload.nodes, book) /\ IsNodeMap(m.text)
  BY TreeMapsAre DEF BookStates, TextState, Tree, IsMasters
<1>2. ~DecodesCounter(payload) /\ ~DecodesNodes(payload, "list_state")
  BY <1>1 DEF DecodesCounter, DecodesNodes, IsEnvelope
<1>3. after.list = m.list /\ InBook(after.text, book)
  <2>1. CASE DecodesNodes(payload, "text_state")
    <3>1. after = [m EXCEPT !.text = NodesMerged(@, payload.nodes)]
      BY <1>2, <2>1 DEF Processed
    <3>2. after.list = m.list /\ after.text = NodesMerged(m.text, payload.nodes)
      BY <3>1 DEF IsMasters
    <3> HIDE DEF after
    <3> QED BY <1>1, <3>2, InBookMerged
  <2>2. CASE ~DecodesNodes(payload, "text_state")
    BY <1>2, <2>2 DEF Processed
  <2> QED BY <2>1, <2>2
<1>4. IsMasters(after)
  BY <1>1, StateProcessed
<1> HIDE DEF after
<1>5. Replies(after, payload) \in Seq(BookStates(book))
  <2> DEFINE reply == EncodeNodes("text_state", after.text)
  <2>1. reply \in TextState /\ reply.nodes = after.text
    BY <1>4 DEF IsMasters, EncodeNodes, TextState
  <2>2. reply \in BookStates(book)
    BY <1>3, <2>1 DEF BookStates
  <2>3. Replies(after, payload) = << >> \/ Replies(after, payload) = <<reply>>
    BY <1>2 DEF Replies
  <2> DEFINE S == BookStates(book)
  <2>4. reply \in S
    BY <2>2
  <2> HIDE DEF reply, S
  <2>5. << >> \in Seq(S) /\ <<reply>> \in Seq(S)
    BY <2>4
  <2>6. Replies(after, payload) \in Seq(S)
    BY <2>3, <2>5
  <2> QED BY <2>6 DEF S
<1> QED BY <1>3, <1>5 DEF after

LEMMA MessageAgreed ==
  ASSUME Typed, Distinct, NEW book, Booked(book), NEW b \in Browser, OnMessage(b)
  PROVE  Distinct' /\ Booked(book)' /\ masters'.list = masters.list
<1> DEFINE payload == Head(toServer[b])
           r == Replies(masters', payload)
<1>1. /\ toServer[b] # << >> /\ toServer' = [toServer EXCEPT ![b] = Tail(@)]
      /\ masters' = Processed(masters, payload)
      /\ toBrowser' = [toBrowser EXCEPT ![b] = @ \o r]
      /\ UNCHANGED <<link, clientId, textarea, nodes, children, sequence>>
  BY DEF OnMessage, page
<1>2. toServer[b] \in Seq(BookStates(book)) /\ toBrowser[b] \in Seq(Greeting \cup BookStates(book))
  BY DEF Booked, QueuesInBook
<1>3. payload \in BookStates(book) /\ Tail(toServer[b]) \in Seq(BookStates(book))
  BY <1>1, <1>2, QueueTail
<1>4. /\ InBook(masters'.text, book) /\ masters'.list = masters.list
      /\ r \in Seq(BookStates(book))
  <2>1. IsMasters(masters) /\ InBook(masters.text, book)
    BY DEF Typed, Booked
  <2> QED BY <1>1, <1>3, <2>1, StateAgreed
<1> HIDE DEF r, payload
<1>5. toBrowser[b] \o r \in Seq(Greeting \cup BookStates(book))
  BY <1>2, <1>4, BookQueueAppend
<1>6. toBrowser[b] # << >> => Head(toBrowser[b] \o r) = Head(toBrowser[b])
  <2>1. r \in Seq(TextState)
    <3> DEFINE S == BookStates(book)
    <3>1. S \subseteq TextState /\ r \in Seq(S)
      BY <1>4 DEF BookStates
    <3> HIDE DEF S
    <3> QED BY <3>1
  <2> QED BY <2>1, QueueAppend DEF Typed
<1>7. \A d \in Opened : ClientOf(d)' = ClientOf(d)
  <2> TAKE d \in Opened
  <2>1. d \in Browser /\ link[d] = "open" /\ link'[d] = link[d] /\ clientId'[d] = clientId[d]
    BY <1>1 DEF Opened
  <2>2. clientId[d] = 0 => Head(toBrowser'[d]) = Head(toBrowser[d])
    <3>1. CASE d # b
      BY <1>1, <2>1, <3>1 DEF Typed
    <3>2. CASE d = b
      <4>1. clientId[b] = 0 => toBrowser[b] # << >>
        <5>1. Phase(b)
          BY DEF Typed
        <5> QED BY <2>1, <3>2, <5>1, ClientAssumption DEF Phase
      <4>2. toBrowser'[b] = toBrowser[b] \o r
        BY <1>1 DEF Typed
      <4> QED BY <1>6, <3>2, <4>1, <4>2
    <3> QED BY <3>1, <3>2
  <2> QED BY <2>1, <2>2 DEF ClientOf
<1>8. Distinct' /\ Opened' = Opened
  BY <1>1, <1>7, DistinctStays
<1>9. Issued(book)'
  <2>1. sequence' \in [Browser -> Nat] /\ \A d \in Browser : sequence[d] <= sequence'[d]
    BY <1>1 DEF Typed
  <2> QED BY <1>7, <1>8, <2>1, IssuedStays DEF Booked
<1>10. QueuesInBook(book)'
  BY <1>1, <1>3, <1>5 DEF Typed, Booked, QueuesInBook
<1> QED BY <1>1, <1>4, <1>8, <1>9, <1>10 DEF Booked

LEMMA SyncAgreed ==
  ASSUME Typed, Distinct, NEW book, Booked(book), NEW b \in Browser, Sync(b)
  PROVE  Distinct' /\ Booked(book)' /\ UNCHANGED masters
<1> DEFINE s == EncodeNodes("text_state", nodes[b])
<1>1. /\ toServer' = [toServer EXCEPT ![b] = <<s>>]
      /\ UNCHANGED <<masters, link, toBrowser, clientId, textarea, nodes, children, sequence>>
  BY DEF Sync, page
<1>2. s \in BookStates(book)
  <2>1. s \in TextState /\ s.nodes = nodes[b]
    BY DEF EncodeNodes, TextState, Typed
  <2> QED BY <2>1 DEF Booked, BookStates
<1>3. <<s>> \in Seq(BookStates(book))
  <2> DEFINE S == BookStates(book)
  <2>1. s \in S
    BY <1>2
  <2> HIDE DEF s, S
  <2>2. <<s>> \in Seq(S)
    BY <2>1
  <2> QED BY <2>2 DEF S
<1> HIDE DEF s
<1>4. \A d \in Opened : ClientOf(d)' = ClientOf(d)
  BY <1>1 DEF ClientOf
<1>5. Distinct' /\ Opened' = Opened
  BY <1>1, <1>4, DistinctStays
<1>6. Issued(book)'
  <2>1. sequence' \in [Browser -> Nat] /\ \A d \in Browser : sequence[d] <= sequence'[d]
    BY <1>1 DEF Typed
  <2> QED BY <1>4, <1>5, <2>1, IssuedStays DEF Booked
<1>7. QueuesInBook(book)'
  BY <1>1, <1>3 DEF Typed, Booked, QueuesInBook
<1> QED BY <1>1, <1>5, <1>6, <1>7 DEF Booked

LEMMA AuthAgreed ==
  ASSUME Typed, Distinct, NEW book, Booked(book), NEW b \in Browser, OnEvent(b), OnAuth(b)
  PROVE  Distinct' /\ Booked(book)' /\ UNCHANGED masters
<1>1. /\ toBrowser[b] # << >> /\ toBrowser' = [toBrowser EXCEPT ![b] = Tail(@)]
      /\ clientId' = [clientId EXCEPT ![b] = Head(toBrowser[b]).id]
      /\ Head(toBrowser[b]).type = "auth"
      /\ UNCHANGED <<masters, link, toServer, textarea, nodes, children, sequence>>
  BY DEF OnEvent, OnAuth
<1>2. link[b] = "open" /\ clientId[b] = 0 /\ Head(toBrowser[b]) \in Greeting
  <2>1. Phase(b)
    BY DEF Typed
  <2>2. toBrowser[b] \notin Seq(TextState)
    <3> SUFFICES ASSUME toBrowser[b] \in Seq(TextState) PROVE FALSE
      OBVIOUS
    <3>1. Head(toBrowser[b]) \in TextState
      BY <1>1, QueueTail
    <3> QED BY <1>1, <3>1 DEF TextState
  <2> QED BY <1>1, <2>1, <2>2 DEF Phase
<1>3. Head(toBrowser[b]).id # 0
  BY <1>2, ClientAssumption DEF Greeting
<1>4. \A d \in Opened : ClientOf(d)' = ClientOf(d)
  <2> TAKE d \in Opened
  <2>1. d \in Browser
    BY DEF Opened
  <2>2. CASE d # b
    <3>1. link'[d] = link[d] /\ toBrowser'[d] = toBrowser[d] /\ clientId'[d] = clientId[d]
      BY <1>1, <2>1, <2>2 DEF Typed
    <3> QED BY <3>1 DEF ClientOf
  <2>3. CASE d = b
    <3>1. clientId'[b] = Head(toBrowser[b]).id
      BY <1>1 DEF Typed
    <3> QED BY <1>2, <1>3, <2>3, <3>1 DEF ClientOf
  <2> QED BY <2>2, <2>3
<1>5. Distinct' /\ Opened' = Opened
  BY <1>1, <1>4, DistinctStays
<1>6. Issued(book)'
  <2>1. sequence' \in [Browser -> Nat] /\ \A d \in Browser : sequence[d] <= sequence'[d]
    BY <1>1 DEF Typed
  <2> QED BY <1>4, <1>5, <2>1, IssuedStays DEF Booked
<1>7. QueuesInBook(book)'
  <2>1. Tail(toBrowser[b]) \in Seq(Greeting \cup BookStates(book))
    BY <1>1, BookQueueTail DEF Booked, QueuesInBook
  <2> QED BY <1>1, <2>1 DEF Typed, Booked, QueuesInBook
<1> QED BY <1>1, <1>5, <1>6, <1>7 DEF Booked

LEMMA TextStateAgreed ==
  ASSUME Typed, Distinct, NEW book, Booked(book), NEW b \in Browser, OnEvent(b), OnTextState(b)
  PROVE  Distinct' /\ Booked(book)' /\ UNCHANGED masters
<1> DEFINE s == Head(toBrowser[b])
           nn == NodesMerged(nodes[b], s.nodes)
           seq == Advanced(sequence[b], clientId[b], s.nodes)
<1>1. /\ toBrowser[b] # << >> /\ toBrowser' = [toBrowser EXCEPT ![b] = Tail(@)]
      /\ s.type = "text_state"
      /\ nodes' = [nodes EXCEPT ![b] = nn]
      /\ sequence' = [sequence EXCEPT ![b] = seq]
      /\ UNCHANGED <<masters, link, toServer, clientId>>
  <2>1. nodes' = [nodes EXCEPT ![b] = nn]
    BY DEF OnTextState, Typed
  <2>2. sequence' = [sequence EXCEPT ![b] = seq]
    BY DEF OnTextState, Typed
  <2> QED BY <2>1, <2>2 DEF OnEvent, OnTextState
<1>2. clientId[b] \in Client /\ s \in TextState
  <2>1. Phase(b)
    BY DEF Typed
  <2>2. s \notin Greeting
    BY <1>1 DEF Greeting
  <2>3. clientId[b] \in Client /\ toBrowser[b] \in Seq(TextState)
    BY <1>1, <2>1, <2>2 DEF Phase
  <2>4. s \in TextState
    BY <1>1, <2>3, QueueTail
  <2> QED BY <2>3, <2>4
<1>3. s \in BookStates(book) /\ Tail(toBrowser[b]) \in Seq(Greeting \cup BookStates(book))
  BY <1>1, <1>2, BookQueueTail DEF Booked, QueuesInBook
<1>4. IsNodeMap(s.nodes) /\ IsNodeMap(nodes[b]) /\ InBook(s.nodes, book) /\ InBook(nodes[b], book)
  BY <1>2, <1>3, TreeMapsAre DEF TextState, Tree, Typed, BookStates, Booked
<1>5. InBook(nn, book)
  BY <1>4, InBookMerged
<1>6. seq \in Nat /\ sequence[b] <= seq
  BY <1>4, AdvancedIs DEF Typed
<1> HIDE DEF nn, seq, s
<1>7. \A d \in Browser : InBook(nodes'[d], book)
  BY <1>1, <1>5 DEF Typed, Booked
<1>8. sequence' \in [Browser -> Nat] /\ \A d \in Browser : sequence[d] <= sequence'[d]
  BY <1>1, <1>6 DEF Typed
<1>9. \A d \in Opened : ClientOf(d)' = ClientOf(d)
  <2> TAKE d \in Opened
  <2>1. d \in Browser /\ clientId'[d] = clientId[d] /\ link'[d] = link[d]
    BY <1>1 DEF Opened
  <2>2. clientId[d] = 0 => toBrowser'[d] = toBrowser[d]
    BY <1>1, <1>2, <2>1, ClientAssumption DEF Typed
  <2> QED BY <2>1, <2>2 DEF ClientOf
<1>10. Distinct' /\ Opened' = Opened
  BY <1>1, <1>9, DistinctStays
<1>11. Issued(book)'
  BY <1>8, <1>9, <1>10, IssuedStays DEF Booked
<1>12. QueuesInBook(book)'
  BY <1>1, <1>3 DEF Typed, Booked, QueuesInBook
<1> QED BY <1>1, <1>7, <1>10, <1>11, <1>12 DEF Booked

(* A payload of another client.                                                *)
LEMMA StrayAgreed ==
  ASSUME Typed, Distinct, InBook(masters.list, ListBook), NEW book, Booked(book),
         NEW payload \in Stray, OnStray(payload)
  PROVE  Distinct' /\ Booked(book)' /\ InBook(masters'.list, ListBook)
<1> DEFINE after == Processed(masters, payload)
<1>1. /\ masters' = after
      /\ UNCHANGED <<link, clientId, textarea, nodes, children, sequence, toServer, toBrowser>>
  BY DEF OnStray, page, wire
<1>2. IsMasters(masters) /\ IsNodeMap(masters.list) /\ IsNodeMap(masters.text)
  BY TreeMapsAre DEF Typed, IsMasters, Tree
<1>3. InBook(after.list, ListBook) /\ InBook(after.text, book)
  <2>0. InBook(masters.list, ListBook) /\ InBook(masters.text, book)
    BY DEF Booked
  <2>1. CASE DecodesCounter(payload)
    <3>1. after.list = masters.list /\ after.text = masters.text
      BY <1>2, <2>1, CountsTaken
    <3> QED BY <2>0, <3>1
  <2>2. CASE ~DecodesCounter(payload) /\ DecodesNodes(payload, "list_state")
    <3>1. after = [masters EXCEPT !.list = NodesMerged(@, payload.nodes)]
      BY <2>2 DEF Processed
    <3>2. after.list = NodesMerged(masters.list, payload.nodes) /\ after.text = masters.text
      BY <1>2, <3>1 DEF IsMasters
    <3>3. IsNodeMap(payload.nodes)
      BY <2>2, DecodedNodes
    <3>4. payload.nodes \in StrayNodes("list_state")
      BY <2>2 DEF StrayNodes
    <3>5. InBook(payload.nodes, ListBook)
      BY <3>4, StraysInBook
    <3> HIDE DEF after
    <3> QED BY <1>2, <2>0, <3>2, <3>3, <3>5, InBookMerged
  <2>3. CASE /\ ~DecodesCounter(payload) /\ ~DecodesNodes(payload, "list_state")
             /\ DecodesNodes(payload, "text_state")
    <3>1. after = [masters EXCEPT !.text = NodesMerged(@, payload.nodes)]
      BY <2>3 DEF Processed
    <3>2. after.text = NodesMerged(masters.text, payload.nodes) /\ after.list = masters.list
      BY <1>2, <3>1 DEF IsMasters
    <3>3. IsNodeMap(payload.nodes)
      BY <2>3, DecodedNodes
    <3>4. Knows(payload)
      BY DEF OnStray
    <3>5. InBook(payload.nodes, book)
      BY <2>3, <3>4, KnownInBook
    <3> HIDE DEF after
    <3> QED BY <1>2, <2>0, <3>2, <3>3, <3>5, InBookMerged
  <2>4. CASE /\ ~DecodesCounter(payload) /\ ~DecodesNodes(payload, "list_state")
             /\ ~DecodesNodes(payload, "text_state")
    <3>1. after = masters
      BY <2>4 DEF Processed
    <3> QED BY <2>0, <3>1
  <2> QED BY <2>1, <2>2, <2>3, <2>4
<1> HIDE DEF after
<1>4. \A d \in Opened : ClientOf(d)' = ClientOf(d)
  BY <1>1 DEF ClientOf
<1>5. Distinct' /\ Opened' = Opened
  BY <1>1, <1>4, DistinctStays
<1>6. Issued(book)'
  <2>1. sequence' \in [Browser -> Nat] /\ \A d \in Browser : sequence[d] <= sequence'[d]
    BY <1>1 DEF Typed
  <2> QED BY <1>4, <1>5, <2>1, IssuedStays DEF Booked
<1>7. QueuesInBook(book)'
  BY <1>1 DEF Booked, QueuesInBook
<1> QED BY <1>1, <1>3, <1>5, <1>6, <1>7 DEF Booked

(* What is typed is new to everybody: its ids are the page's, and ahead of its *)
(* sequence number.                                                            *)
LEMMA InputAgreed ==
  ASSUME Typed, Distinct, NEW book, Booked(book),
         NEW b \in Browser, NEW new \in Texts, Input(b, new)
  PROVE  Distinct' /\ SomeBook' /\ UNCHANGED masters
<1>1. UNCHANGED <<masters, link, toServer, toBrowser, clientId>>
  BY DEF Input, wire
<1>2. \A d \in Opened : ClientOf(d)' = ClientOf(d)
  BY <1>1 DEF ClientOf
<1>3. Distinct' /\ Opened' = Opened
  BY <1>1, <1>2, DistinctStays
<1>4. CASE clientId[b] = 0
  <2>1. UNCHANGED <<nodes, sequence>>
    BY <1>4 DEF Input
  <2>2. Issued(book)'
    <3>1. sequence' \in [Browser -> Nat] /\ \A d \in Browser : sequence[d] <= sequence'[d]
      BY <2>1 DEF Typed
    <3> QED BY <1>2, <1>3, <3>1, IssuedStays DEF Booked
  <2>3. Booked(book)'
    BY <1>1, <2>1, <2>2 DEF Booked, QueuesInBook
  <2> QED BY <1>1, <1>3, <2>3 DEF SomeBook
<1>5. CASE clientId[b] # 0
  <2> DEFINE ns == nodes[b]
             nn == nodes'[b]
  <2>1. /\ GrowsTo(ns, nn) /\ AddsOwn(b) /\ Typed'
        /\ \A d \in Browser \ {b} : nodes'[d] = nodes[d]
    BY <1>5, InputTyped
  <2>2. InBook(ns, book)
    BY DEF Booked
  <2>3. b \in Opened /\ ClientOf(b) = clientId[b]
    <3>1. Phase(b)
      BY DEF Typed
    <3>2. link[b] = "open"
      BY <1>5, <3>1 DEF Phase
    <3> QED BY <1>5, <3>2 DEF Opened, ClientOf
  <2>4. clientId[b] \in Range(Drawn)
    <3>1. PICK i \in 1..Cardinality(Opened) : ClientOf(b) = Drawn[i]
      BY <2>3 DEF Distinct
    <3>2. i \in DOMAIN Drawn
      <4>1. Cardinality(Opened) <= Cardinality(Browser)
        <5>1. Opened \subseteq Browser
          BY DEF Opened
        <5> QED BY <5>1, BrowserAssumption, FS_Subset
      <4>2. Cardinality(Opened) \in Nat /\ Cardinality(Browser) \in Nat
        <5>1. Opened \subseteq Browser
          BY DEF Opened
        <5> QED BY <5>1, BrowserAssumption, FS_Subset, FS_CardinalityType
      <4>3. i \in 1..Cardinality(Browser)
        BY <4>1, <4>2
      <4> QED BY <4>3, DrawnAssumption
    <3> QED BY <2>3, <3>1, <3>2 DEF Range
  <2>5. ASSUME NEW n \in DOMAIN nn \ DOMAIN ns
        PROVE  n \notin DOMAIN book /\ n \in Id /\ n[1] = clientId[b] /\ n[2] <= sequence'[b]
    <3>1. n[1] = clientId[b] /\ ~(n[2] <= sequence[b]) /\ n[2] <= sequence'[b]
      BY <2>1 DEF AddsOwn
    <3>2. n \in Id
      BY <2>1 DEF GrowsTo, Tree, IsNodeMap
    <3>3. n \notin DOMAIN book
      <4> SUFFICES ASSUME n \in DOMAIN book PROVE FALSE
        OBVIOUS
      <4>1. PICK d \in Opened : ClientOf(d) = n[1] /\ n[2] <= sequence[d]
        BY <2>4, <3>1 DEF Booked, Issued
      <4>2. d = b
        BY <2>3, <3>1, <4>1 DEF Distinct
      <4> QED BY <3>1, <4>1, <4>2
    <3> QED BY <3>1, <3>2, <3>3
  <2>6. PICK more : /\ DOMAIN more = DOMAIN book \cup DOMAIN nn
                    /\ \A n \in DOMAIN book : more[n] = book[n]
                    /\ \A n \in DOMAIN nn \ DOMAIN book : more[n] = nn[n]
    <3> DEFINE m == [n \in DOMAIN book \cup DOMAIN nn |->
                        IF n \in DOMAIN book THEN book[n] ELSE nn[n]]
    <3>1. /\ DOMAIN m = DOMAIN book \cup DOMAIN nn
          /\ \A n \in DOMAIN book : m[n] = book[n]
          /\ \A n \in DOMAIN nn \ DOMAIN book : m[n] = nn[n]
      OBVIOUS
    <3> HIDE DEF m
    <3> QED BY <3>1
  <2>7. InBook(book, more)
    BY <2>6 DEF InBook
  <2>8. InBook(nn, more)
    <3>1. ASSUME NEW n \in DOMAIN ns
          PROVE  /\ n \in DOMAIN more
                 /\ nn[n].previous_id = more[n].previous_id /\ nn[n].value = more[n].value
      <4>1. nn[n].previous_id = ns[n].previous_id /\ nn[n].value = ns[n].value
        BY <2>1 DEF GrowsTo, AddsOwn
      <4> QED BY <2>2, <2>6, <4>1 DEF InBook
    <3>2. ASSUME NEW n \in DOMAIN nn \ DOMAIN ns
          PROVE  /\ n \in DOMAIN more
                 /\ nn[n].previous_id = more[n].previous_id /\ nn[n].value = more[n].value
      BY <2>5, <2>6, <3>2
    <3> QED BY <3>1, <3>2 DEF InBook
  <2>9. /\ \A x : InBook(x, book) => InBook(x, more)
        /\ \A q \in Seq(BookStates(book)) : q \in Seq(BookStates(more))
        /\ \A q \in Seq(Greeting \cup BookStates(book)) : q \in Seq(Greeting \cup BookStates(more))
    BY <2>7, BookGrows
  <2>10. sequence' \in [Browser -> Nat] /\ \A d \in Browser : sequence[d] <= sequence'[d]
    <3>1. sequence' \in [Browser -> Nat] /\ sequence \in [Browser -> Nat]
      BY <2>1 DEF Typed
    <3>2. sequence[b] <= sequence'[b] /\ \A d \in Browser \ {b} : sequence'[d] = sequence[d]
      BY <2>1 DEF AddsOwn
    <3> QED BY <3>1, <3>2
  <2>11. Issued(book)'
    BY <1>2, <1>3, <2>10, IssuedStays DEF Booked
  <2>12. Issued(more)'
    <3>1. DOMAIN more \subseteq Id
      BY <2>1, <2>6 DEF Booked, Issued, GrowsTo, Tree, IsNodeMap
    <3>2. ASSUME NEW n \in DOMAIN more, n[1] \in Range(Drawn)
          PROVE  \E d \in Opened' : ClientOf(d)' = n[1] /\ n[2] <= sequence'[d]
      <4>1. CASE n \in DOMAIN book
        BY <2>11, <3>2, <4>1 DEF Issued
      <4>2. CASE n \in DOMAIN nn \ DOMAIN book
        <5>1. n \notin DOMAIN ns
          BY <2>2, <4>2 DEF InBook
        <5>2. n[1] = clientId[b] /\ n[2] <= sequence'[b]
          BY <2>5, <4>2, <5>1
        <5>3. b \in Opened' /\ ClientOf(b)' = clientId[b]
          BY <1>2, <1>3, <2>3
        <5> QED BY <5>2, <5>3
      <4> QED BY <2>6, <4>1, <4>2
    <3> QED BY <3>1, <3>2 DEF Issued
  <2>13. QueuesInBook(more)'
    <3>1. QueuesInBook(book)
      BY DEF Booked
    <3>2. QueuesInBook(more)
      BY <2>9, <3>1 DEF QueuesInBook
    <3> QED BY <1>1, <3>2 DEF QueuesInBook
  <2>14. /\ \A x \in ForeignTexts : InBook(x, more)
         /\ InBook(masters'.text, more)
    BY <1>1, <2>9 DEF Booked
  <2>15. \A d \in Browser : InBook(nodes'[d], more)
    <3> TAKE d \in Browser
    <3>1. CASE d = b
      BY <2>8, <3>1
    <3>2. CASE d # b
      BY <2>1, <2>9, <3>2 DEF Booked
    <3> QED BY <3>1, <3>2
  <2>16. Booked(more)'
    BY <2>12, <2>13, <2>14, <2>15 DEF Booked
  <2> QED BY <1>1, <1>3, <2>16 DEF SomeBook
<1> QED BY <1>4, <1>5

LEMMA NextAgreed == Typed /\ Agreed /\ [Next]_vars => Agreed'
<1> SUFFICES ASSUME Typed, Agreed, [Next]_vars PROVE Agreed'
  OBVIOUS
<1>1. Distinct /\ InBook(masters.list, ListBook) /\ SomeBook
  BY DEF Agreed
<1>2. PICK book : Booked(book)
  BY <1>1 DEF SomeBook
<1>3. ASSUME Distinct', Booked(book)', InBook(masters'.list, ListBook) PROVE Agreed'
  <2>1. SomeBook'
    BY <1>3 DEF SomeBook
  <2>2. InBook(masters.list, ListBook)'
    BY <1>3 DEF InBook, ListBook
  <2> QED BY <1>3, <2>1, <2>2 DEF Agreed
<1>4. CASE UNCHANGED vars
  <2>1. UNCHANGED <<masters, link, clientId, textarea, nodes, children, sequence, toServer, toBrowser>>
    BY <1>4 DEF vars, page, wire
  <2>2. \A d \in Opened : ClientOf(d)' = ClientOf(d)
    BY <2>1 DEF ClientOf
  <2>3. Distinct' /\ Opened' = Opened
    BY <1>1, <2>1, <2>2, DistinctStays
  <2>4. Issued(book)'
    <3>1. sequence' \in [Browser -> Nat] /\ \A d \in Browser : sequence[d] <= sequence'[d]
      BY <2>1 DEF Typed
    <3> QED BY <1>2, <2>2, <2>3, <3>1, IssuedStays DEF Booked
  <2>5. Booked(book)'
    BY <1>2, <2>1, <2>4 DEF Booked, QueuesInBook
  <2> QED BY <1>1, <1>3, <2>1, <2>3, <2>5
<1>5. ASSUME NEW b \in Browser, Serve(b) PROVE Agreed'
  <2>1. CASE OnOpen(b)
    BY <1>1, <1>2, <1>3, <2>1, OpenAgreed
  <2>2. CASE OnMessage(b)
    BY <1>1, <1>2, <1>3, <2>2, MessageAgreed
  <2> QED BY <1>5, <2>1, <2>2 DEF Serve
<1>6. ASSUME NEW b \in Browser, OnEvent(b) PROVE Agreed'
  <2>1. OnAuth(b) \/ OnTextState(b)
    BY <1>6 DEF OnEvent
  <2>2. CASE OnAuth(b)
    BY <1>1, <1>2, <1>3, <1>6, <2>2, AuthAgreed
  <2>3. CASE OnTextState(b)
    BY <1>1, <1>2, <1>3, <1>6, <2>3, TextStateAgreed
  <2> QED BY <2>1, <2>2, <2>3
<1>7. ASSUME NEW b \in Browser, Sync(b) PROVE Agreed'
  BY <1>1, <1>2, <1>3, <1>7, SyncAgreed
<1>8. ASSUME NEW b \in Browser, NEW new \in Texts, Input(b, new) PROVE Agreed'
  <2>1. Distinct' /\ SomeBook' /\ UNCHANGED masters
    BY <1>1, <1>2, <1>8, InputAgreed
  <2>2. InBook(masters.list, ListBook)'
    BY <1>1, <2>1 DEF InBook, ListBook
  <2> QED BY <2>1, <2>2 DEF Agreed
<1>9. ASSUME NEW payload \in Stray, OnStray(payload) PROVE Agreed'
  BY <1>1, <1>2, <1>3, <1>9, StrayAgreed
<1> QED BY <1>4, <1>5, <1>6, <1>7, <1>8, <1>9 DEF Next

LEMMA StrayTaken ==
  ASSUME Typed, Agreed, NEW payload \in Stray, OnStray(payload)
  PROVE  WholeOrNot(payload)
<1>1. masters' = Processed(masters, payload) /\ IsMasters(masters) /\ Knows(payload)
  BY DEF OnStray, Typed
<1>2. InBook(masters.list, ListBook) /\ SomeBook
  BY DEF Agreed
<1>3. /\ DecodesCounter(payload) <=> Readable(payload) /\ payload.type = "counter_state"
      /\ \A type \in {"list_state", "text_state"} :
            DecodesNodes(payload, type) <=> Readable(payload) /\ payload.type = type
      /\ Readable(payload) => payload.type \in {"counter_state", "list_state", "text_state"}
  BY ReadableDecodes, StrayAssumption
<1>4. CASE ~Readable(payload)
  <2>1. masters' = masters
    BY <1>1, <1>3, <1>4 DEF Processed
  <2> QED BY <1>4, <2>1 DEF WholeOrNot
<1>5. CASE Readable(payload) /\ payload.type = "counter_state"
  <2>1. DecodesCounter(payload)
    BY <1>3, <1>5
  <2>2. /\ Counted(masters.counter, masters'.counter, payload)
        /\ masters'.list = masters.list /\ masters'.text = masters.text
    BY <1>1, <2>1, CountsTaken
  <2> QED BY <1>5, <2>2 DEF WholeOrNot
<1>6. CASE Readable(payload) /\ payload.type = "list_state"
  <2>1. DecodesNodes(payload, "list_state")
    BY <1>3, <1>6
  <2>2. payload.nodes \in StrayNodes("list_state")
    BY <2>1 DEF StrayNodes
  <2>3. Consistent(masters.list, payload.nodes)
    BY <1>2, <2>2, StraysInBook, InBookConsistent
  <2>a. IsNodeMap(payload.nodes)
    BY <2>1, DecodedNodes
  <2>4. /\ masters'.counter = masters.counter /\ masters'.text = masters.text
        /\ masters'.list = ToldBy(masters.list, payload)
    BY <1>1, <2>1, <2>3, <2>a, NodesTaken
  <2> QED BY <1>6, <2>4 DEF WholeOrNot
<1>7. CASE Readable(payload) /\ payload.type = "text_state"
  <2>1. DecodesNodes(payload, "text_state")
    BY <1>3, <1>7
  <2>2. IsNodeMap(payload.nodes)
    BY <2>1, DecodedNodes
  <2>3. PICK book : Booked(book)
    BY <1>2 DEF SomeBook
  <2>4. InBook(masters.text, book) /\ InBook(payload.nodes, book)
    BY <1>1, <2>1, <2>3, KnownInBook DEF Booked
  <2>5. Consistent(masters.text, payload.nodes)
    BY <2>4, InBookConsistent
  <2>6. /\ masters'.counter = masters.counter /\ masters'.list = masters.list
        /\ masters'.text = ToldBy(masters.text, payload)
    BY <1>1, <2>1, <2>2, <2>5, NodesTaken
  <2> QED BY <1>7, <2>6 DEF WholeOrNot
<1> QED BY <1>3, <1>4, <1>5, <1>6, <1>7

(* A page's own text, with whatever letters of its own and of others.          *)
LEMMA MessageTaken ==
  ASSUME Typed, Agreed, NEW b \in Browser, OnMessage(b)
  PROVE  WholeOrNot(Head(toServer[b]))
<1> DEFINE payload == Head(toServer[b])
<1>1. masters' = Processed(masters, payload) /\ IsMasters(masters) /\ toServer[b] # << >>
  BY DEF OnMessage, Typed
<1>2. PICK book : Booked(book)
  BY DEF Agreed, SomeBook
<1>3. payload \in BookStates(book)
  <2>1. toServer[b] \in Seq(BookStates(book))
    BY <1>2 DEF Booked, QueuesInBook
  <2> QED BY <1>1, <2>1, QueueTail
<1> HIDE DEF payload
<1>4. /\ payload.type = "text_state" /\ IsNodeMap(payload.nodes)
      /\ InBook(payload.nodes, book) /\ InBook(masters.text, book)
  BY <1>2, <1>3, TreeMapsAre DEF BookStates, TextState, Tree, Booked
<1>5. DOMAIN payload.nodes \subseteq Place \cup {Junk}
  BY <1>4 DEF IsNodeMap, Place
<1>6. /\ DecodesCounter(payload) <=> Readable(payload) /\ payload.type = "counter_state"
      /\ \A type \in {"list_state", "text_state"} :
            DecodesNodes(payload, type) <=> Readable(payload) /\ payload.type = type
  BY <1>5, ReadableDecodes
<1>7. ASSUME ~Readable(payload) PROVE WholeOrNot(payload)
  <2>1. masters' = masters
    BY <1>1, <1>6, <1>7 DEF Processed
  <2> QED BY <1>7, <2>1 DEF WholeOrNot
<1>8. ASSUME Readable(payload) PROVE WholeOrNot(payload)
  <2>1. DecodesNodes(payload, "text_state")
    BY <1>4, <1>6, <1>8
  <2>2. Consistent(masters.text, payload.nodes)
    BY <1>4, InBookConsistent
  <2>3. /\ masters'.counter = masters.counter /\ masters'.list = masters.list
        /\ masters'.text = ToldBy(masters.text, payload)
    BY <1>1, <1>4, <2>1, <2>2, NodesTaken
  <2> QED BY <1>4, <1>8, <2>3 DEF WholeOrNot
<1> QED BY <1>7, <1>8 DEF payload

(* Whatever was typed, merged and sent before, by the pages or by others, a     *)
(* page's text and any payload of another client, which may hold what the pages *)
(* typed too, are refused whole or taken whole, by the one master the type      *)
(* names: then the counter is nowhere below what it counts, and a list or a     *)
(* text shows what somebody who was told all of it would.                       *)
THEOREM PayloadsWholeOrNot == Spec => AllOrNothing
<1>1. Init => Typed /\ Agreed
  BY InitTyped, InitAgreed
<1>2. Typed /\ Agreed /\ [Next]_vars => Typed' /\ Agreed'
  BY NextTyped, NextAgreed
<1>3. Typed /\ Agreed /\ [Next]_vars =>
         [/\ \A payload \in Stray : OnStray(payload) => WholeOrNot(payload)
          /\ \A b \in Browser : OnMessage(b) => WholeOrNot(Head(toServer[b]))]_vars
  BY StrayTaken, MessageTaken
<1> QED BY <1>1, <1>2, <1>3, PTL DEF Spec, AllOrNothing

================================================================================

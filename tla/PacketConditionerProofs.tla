----------------------- MODULE PacketConditionerProofs -----------------------
(***************************************************************************)
(* Lemmas about the impairment engine (PacketConditioner), for all         *)
(* configurations, delays and limits, which the proofs about the client's  *)
(* and about the server's conditioner share.                               *)
(***************************************************************************)
EXTENDS PacketConditioner, TLAPS, FiniteSetTheorems, WellFoundedInduction

-----------------------------------------------------------------------------
(* Sequences: a part of one, one behind the other, and when two are equal. *)
LEMMA SubSeqIs ==
  ASSUME NEW S, NEW s, NEW m \in Int, NEW n \in Int, \A i \in m..n : s[i] \in S
  PROVE  /\ SubSeq(s, m, n) \in Seq(S)
         /\ Len(SubSeq(s, m, n)) = IF m <= n THEN n - m + 1 ELSE 0
         /\ \A i \in 1..(n - m + 1) : SubSeq(s, m, n)[i] = s[m + i - 1]
  OBVIOUS

(* One behind the other.                                                   *)
LEMMA ConcatIs ==
  ASSUME NEW S, NEW a \in Seq(S), NEW b \in Seq(S)
  PROVE  /\ a \o b \in Seq(S) /\ Len(a \o b) = Len(a) + Len(b)
         /\ \A i \in 1..(Len(a) + Len(b)) :
               (a \o b)[i] = IF i <= Len(a) THEN a[i] ELSE b[i - Len(a)]
  OBVIOUS

(* Equality of sequences.                                                  *)
LEMMA SameSequence ==
  ASSUME NEW S, NEW a \in Seq(S), NEW b \in Seq(S), Len(a) = Len(b),
         \A i \in 1..Len(a) : a[i] = b[i]
  PROVE  a = b
  OBVIOUS

(* The least element of a set of natural numbers exists, so that the first *)
(* index SelectInSeq returns is the first one.                             *)
LEMMA LeastElement ==
  ASSUME NEW S \in SUBSET Nat, S # {}
  PROVE  Min(S) \in S /\ \A y \in S : Min(S) <= y
<1> DEFINE R == {ss \in Nat \X Nat : ss[1] < ss[2]}
<1>1. OpToRel(<, Nat) = R
  BY Zenon DEF OpToRel
<1>2. PICK x \in S : \A y \in S : ~ (<<y, x>> \in R)
  <2>1. IsWellFoundedOn(R, Nat)
    BY <1>1, NatLessThanWellFounded
  <2>2. S \subseteq Nat
    OBVIOUS
  <2> HIDE DEF R
  <2> QED
    BY <2>1, <2>2, WFMin, Zenon
<1>3. \A a, b \in Nat : a < b => <<a, b>> \in R
  OBVIOUS
<1> HIDE DEF R
<1>4. ASSUME NEW y \in S PROVE x <= y
  <2>1. ~ (y < x)
    BY <1>2, <1>3, Zenon
  <2> QED
    BY <2>1
<1> QED
  BY <1>4, Zenon DEF Min

-----------------------------------------------------------------------------
(* Sums over finite sets.  Induction over a finite set is the choice of a  *)
(* smallest counterexample.                                                *)
LEMMA SmallestSet ==
  ASSUME NEW C, C # {}, \A s \in C : IsFiniteSet(s)
  PROVE  \E s \in C : \A x \in s : IsFiniteSet(s \ {x}) /\ s \ {x} \notin C
<1> DEFINE N == {Cardinality(s) : s \in C}
<1>1. N \in SUBSET Nat /\ N # {}
  BY FS_CardinalityType
<1>2. Min(N) \in N /\ \A y \in N : Min(N) <= y
  BY <1>1, LeastElement, Zenon
<1>3. PICK s \in C : \A t \in C : Cardinality(s) <= Cardinality(t)
  BY <1>2, Zenon
<1>4. ASSUME NEW x \in s PROVE IsFiniteSet(s \ {x}) /\ s \ {x} \notin C
  BY <1>3, FS_RemoveElement, FS_CardinalityType
<1> QED
  BY <1>3, <1>4

(* The function a sum over S recurses through, and the choices it makes.   *)
Pick(s) == CHOOSE x \in s : TRUE

IsSums(h, f, C) ==
    h = [s \in C |-> IF s = {} THEN 0 ELSE f[Pick(s)] + h[s \ {Pick(s)}]]

Sums(f, S) == CHOOSE h : IsSums(h, f, SUBSET S)

(* The library's sum over a set is the last value of that function.        *)
LEMMA SumIs ==
  ASSUME NEW f, NEW S
  PROVE  SumFunctionOnSet(f, S) = Sums(f, S)[S]
  BY Zenon DEF SumFunctionOnSet, FoldFunctionOnSet, MapThenFoldSet, Sums, IsSums, Pick

(* The element that is taken out first is one of the set.                  *)
LEMMA PickIs ==
  ASSUME NEW s, s # {}
  PROVE  Pick(s) \in s
  BY DEF Pick

(* The subsets of up to n elements: the function exists for every n.       *)
UpTo(S, n) == {s \in SUBSET S : Cardinality(s) <= n}

(* Induction over the size: one more element is one more term.             *)
LEMMA SumsUpTo ==
  ASSUME NEW f, NEW S, IsFiniteSet(S), NEW n \in Nat
  PROVE  \E h : IsSums(h, f, UpTo(S, n))
<1> DEFINE C(k) == {s \in SUBSET S : Cardinality(s) <= k}
           Bad == {k \in Nat : ~ \E h : IsSums(h, f, C(k))}
<1> SUFFICES ASSUME Bad # {} PROVE FALSE
  BY Zenon DEF UpTo
<1>1. PICK k \in Bad : \A j \in Bad : k <= j
  BY LeastElement, Zenon
<1>2. \A s \in SUBSET S : /\ IsFiniteSet(s) /\ Cardinality(s) \in Nat
                          /\ Cardinality(s) = 0 <=> s = {}
  BY FS_Subset, FS_CardinalityType, FS_EmptySet
<1>3. CASE k = 0
  <2>1. C(k) = {{}}
    BY <1>2, <1>3
  <2> DEFINE h == [s \in C(k) |-> 0]
  <2>2. IsSums(h, f, C(k))
    BY <2>1 DEF IsSums
  <2> QED
    BY <1>1, <2>2, Zenon
<1>4. CASE k # 0
  <2>1. k \in Nat /\ k - 1 \in Nat /\ k - 1 \notin Bad
    <3>1. k \in Nat
      OBVIOUS
    <3> HIDE DEF Bad
    <3> QED
      BY <1>1, <1>4, <3>1
  <2>2. PICK g : IsSums(g, f, C(k - 1))
    BY <2>1, Zenon
  <2> DEFINE h == [s \in C(k) |-> IF Cardinality(s) <= k - 1 THEN g[s]
                                 ELSE f[Pick(s)] + g[s \ {Pick(s)}]]
  <2>3. ASSUME NEW s \in C(k), s # {}
        PROVE  s \ {Pick(s)} \in C(k - 1) /\ s \ {Pick(s)} \in C(k)
               /\ Cardinality(s \ {Pick(s)}) <= k - 1
    BY <1>2, <2>1, <2>3, PickIs, FS_RemoveElement
  <2>4. ASSUME NEW s \in C(k)
        PROVE  h[s] = IF s = {} THEN 0 ELSE f[Pick(s)] + h[s \ {Pick(s)}]
    <3>1. CASE s = {}
      <4>1. s \in C(k - 1) /\ Cardinality(s) <= k - 1
        BY <1>2, <2>1, <3>1
      <4>2. g[s] = 0
        BY <2>2, <3>1, <4>1 DEF IsSums
      <4> QED
        BY <3>1, <4>1, <4>2
    <3>2. CASE s # {} /\ Cardinality(s) <= k - 1
      <4>1. s \in C(k - 1)
        BY <3>2
      <4>2. g[s] = f[Pick(s)] + g[s \ {Pick(s)}]
        BY <2>2, <3>2, <4>1, Zenon DEF IsSums
      <4>3. h[s] = g[s] /\ h[s \ {Pick(s)}] = g[s \ {Pick(s)}]
        BY <2>3, <3>2
      <4> QED
        BY <3>2, <4>2, <4>3
    <3>3. CASE s # {} /\ ~ (Cardinality(s) <= k - 1)
      BY <2>3, <3>3
    <3> QED
      BY <3>1, <3>2, <3>3
  <2>5. IsSums(h, f, C(k))
    BY <2>4, Zenon DEF IsSums
  <2> QED
    BY <1>1, <2>5, Zenon
<1> QED
  BY <1>3, <1>4

(* There is one such function for all the subsets of a finite set.         *)
LEMMA SumsExist ==
  ASSUME NEW f, NEW S, IsFiniteSet(S)
  PROVE  IsSums(Sums(f, S), f, SUBSET S)
<1> DEFINE n == Cardinality(S)
<1>1. UpTo(S, n) = SUBSET S
  BY FS_Subset DEF UpTo
<1>2. n \in Nat
  BY FS_CardinalityType
<1>3. \E h : IsSums(h, f, UpTo(S, n))
  BY <1>2, SumsUpTo
<1>4. \E h : IsSums(h, f, SUBSET S)
  BY <1>1, <1>3, Zenon
<1> QED
  BY <1>4, Zenon DEF Sums

(* And two of them agree on the sets they have in common.                  *)
LEMMA SumsAgree ==
  ASSUME NEW f, NEW S, IsFiniteSet(S), NEW T \in SUBSET S, NEW s \in SUBSET T
  PROVE  Sums(f, S)[s] = Sums(f, T)[s]
<1> DEFINE g == Sums(f, S)
           h == Sums(f, T)
           C == {t \in SUBSET T : g[t] # h[t]}
<1> SUFFICES ASSUME C # {} PROVE FALSE
  OBVIOUS
<1>1. IsFiniteSet(T) /\ \A t \in C : IsFiniteSet(t)
  BY FS_Subset
<1>2. PICK t \in C : \A x \in t : t \ {x} \notin C
  BY <1>1, SmallestSet, Zenon
<1>3. IsSums(g, f, SUBSET S) /\ IsSums(h, f, SUBSET T)
  BY <1>1, SumsExist
<1> HIDE DEF g, h
<1>4. t \in SUBSET T /\ t \in SUBSET S
  OBVIOUS
<1>5. /\ g[t] = IF t = {} THEN 0 ELSE f[Pick(t)] + g[t \ {Pick(t)}]
      /\ h[t] = IF t = {} THEN 0 ELSE f[Pick(t)] + h[t \ {Pick(t)}]
  BY <1>3, <1>4, Zenon DEF IsSums
<1>6. t # {} => g[t \ {Pick(t)}] = h[t \ {Pick(t)}]
  BY <1>2, <1>4, PickIs
<1> QED
  BY <1>5, <1>6

(* A sum, by the element it takes first.                                   *)
LEMMA SumPick ==
  ASSUME NEW f, NEW S, IsFiniteSet(S)
  PROVE  SumFunctionOnSet(f, S) =
            IF S = {} THEN 0 ELSE f[Pick(S)] + SumFunctionOnSet(f, S \ {Pick(S)})
<1> DEFINE h == Sums(f, S)
<1>1. IsSums(h, f, SUBSET S)
  BY SumsExist
<1> HIDE DEF h
<1>2. h[S] = IF S = {} THEN 0 ELSE f[Pick(S)] + h[S \ {Pick(S)}]
  BY <1>1, Zenon DEF IsSums
<1>3. h[S \ {Pick(S)}] = Sums(f, S \ {Pick(S)})[S \ {Pick(S)}]
  BY SumsAgree DEF h
<1>4. SumFunctionOnSet(f, S) = h[S]
  BY SumIs DEF h
<1>5. SumFunctionOnSet(f, S \ {Pick(S)}) = Sums(f, S \ {Pick(S)})[S \ {Pick(S)}]
  BY SumIs
<1> QED
  BY <1>2, <1>3, <1>4, <1>5

(* A sum of numbers is a number.                                           *)
LEMMA SumTyped ==
  ASSUME NEW f, NEW S, IsFiniteSet(S), \A x \in S : f[x] \in Nat
  PROVE  SumFunctionOnSet(f, S) \in Nat
<1> DEFINE C == {t \in SUBSET S : SumFunctionOnSet(f, t) \notin Nat}
<1> SUFFICES ASSUME C # {} PROVE FALSE
  OBVIOUS
<1>1. \A t \in C : IsFiniteSet(t)
  BY FS_Subset
<1>2. PICK t \in C : \A x \in t : t \ {x} \notin C
  BY <1>1, SmallestSet, Zenon
<1>3. t # {} => Pick(t) \in t /\ SumFunctionOnSet(f, t \ {Pick(t)}) \in Nat
  BY <1>2, PickIs
<1> QED
  BY <1>1, <1>3, SumPick

(* Any element may be taken first.                                         *)
LEMMA SumRemove ==
  ASSUME NEW f, NEW S, IsFiniteSet(S), \A x \in S : f[x] \in Nat, NEW a \in S
  PROVE  SumFunctionOnSet(f, S) = f[a] + SumFunctionOnSet(f, S \ {a})
<1> DEFINE Sum(t) == SumFunctionOnSet(f, t)
           C == {t \in SUBSET S : \E x \in t : Sum(t) # f[x] + Sum(t \ {x})}
<1> SUFFICES ASSUME C # {} PROVE FALSE
  BY Zenon
<1>1. \A t \in C : IsFiniteSet(t)
  BY FS_Subset
<1>2. PICK t \in C : \A x \in t : t \ {x} \notin C
  BY <1>1, SmallestSet, Zenon
<1>3. PICK x \in t : Sum(t) # f[x] + Sum(t \ {x})
  OBVIOUS
<1> DEFINE p == Pick(t)
<1>4. t \in SUBSET S /\ IsFiniteSet(t) /\ p \in t
  BY <1>1, <1>3, PickIs
<1>5. Sum(t) = f[p] + Sum(t \ {p})
  BY <1>4, SumPick
<1>6. x # p
  BY <1>3, <1>5
<1>7. Sum(t \ {p}) = f[x] + Sum((t \ {p}) \ {x})
  BY <1>2, <1>4, <1>6, Zenon
<1>8. Sum(t \ {x}) = f[p] + Sum((t \ {x}) \ {p})
  BY <1>2, <1>4, <1>6, Zenon
<1>9. (t \ {x}) \ {p} = (t \ {p}) \ {x}
  OBVIOUS
<1>10. f[x] \in Nat /\ f[p] \in Nat /\ Sum((t \ {p}) \ {x}) \in Nat
  BY <1>4, SumTyped, FS_Subset
<1>11. Sum(t) = f[x] + Sum(t \ {x})
  <2> DEFINE rest == Sum((t \ {p}) \ {x})
  <2>1. Sum(t) = f[p] + (f[x] + rest) /\ Sum(t \ {x}) = f[p] + rest
    BY <1>5, <1>7, <1>8, <1>9, Zenon
  <2> HIDE DEF rest, Sum, p
  <2> QED
    BY <2>1, <1>10 DEF rest
<1> QED
  BY <1>3, <1>11

(* Functions that agree on a set have the same sum over it.                *)
LEMMA SumSame ==
  ASSUME NEW f, NEW g, NEW S, IsFiniteSet(S), \A x \in S : f[x] = g[x]
  PROVE  SumFunctionOnSet(f, S) = SumFunctionOnSet(g, S)
<1> DEFINE C == {t \in SUBSET S : SumFunctionOnSet(f, t) # SumFunctionOnSet(g, t)}
<1> SUFFICES ASSUME C # {} PROVE FALSE
  OBVIOUS
<1>1. \A t \in C : IsFiniteSet(t)
  BY FS_Subset
<1>2. PICK t \in C : \A x \in t : t \ {x} \notin C
  BY <1>1, SmallestSet, Zenon
<1>3. t # {} => /\ Pick(t) \in t
                /\ SumFunctionOnSet(f, t \ {Pick(t)}) = SumFunctionOnSet(g, t \ {Pick(t)})
  BY <1>2, PickIs
<1> QED
  BY <1>1, <1>3, SumPick

-----------------------------------------------------------------------------
(* wrapping_add(1).                                                        *)
LEMMA SuccessorIs ==
  ASSUME NEW r \in 0..(Revisions - 1)
  PROVE  /\ Successor(r) = IF r = Revisions - 1 THEN 0 ELSE r + 1
         /\ Successor(r) \in 0..(Revisions - 1)
  BY RevisionsAssumption DEF Successor

(* A revision that k changes have led to from another one.                 *)
After(revision, k) ==
    IF revision + k >= Revisions THEN revision + k - Revisions ELSE revision + k

(* Fewer changes than revisions never lead back to a revision.             *)
LEMMA NeverRound ==
  ASSUME NEW r \in 0..(Revisions - 1), NEW k \in 0..(Revisions - 1)
  PROVE  /\ After(r, k) \in 0..(Revisions - 1)
         /\ After(r, k) = r <=> k = 0
         /\ Successor(After(r, k)) = After(r, k + 1)
         /\ k # Revisions - 1 => Successor(After(r, k)) # r
<1>1. After(r, k) \in 0..(Revisions - 1) /\ (After(r, k) = r <=> k = 0)
  BY RevisionsAssumption DEF After
<1>2. Successor(After(r, k)) =
         IF After(r, k) = Revisions - 1 THEN 0 ELSE After(r, k) + 1
  BY <1>1, SuccessorIs
<1>3. Successor(After(r, k)) = After(r, k + 1)
  BY <1>1, <1>2, RevisionsAssumption DEF After
<1>4. k # Revisions - 1 => After(r, k + 1) # r
  BY RevisionsAssumption DEF After
<1> QED
  BY <1>1, <1>3, <1>4

(* The first index of a set, or the one after the last.                    *)
LEMMA FirstIndex ==
  ASSUME NEW n \in Nat, NEW I \in SUBSET (1..n)
  PROVE  LET m == Min(I \cup {n + 1})
         IN  /\ m \in 1..(n + 1)
             /\ \A i \in 1..(m - 1) : i \notin I
             /\ m <= n => m \in I
<1> DEFINE J == I \cup {n + 1}
           m == Min(J)
<1>1. J \in SUBSET Nat /\ J # {} /\ J \subseteq 1..(n + 1) /\ I \subseteq J
  OBVIOUS
<1>2. m \in J /\ \A y \in J : m <= y
  BY <1>1, LeastElement, Zenon
<1>3. m <= n => m \in I
  BY <1>2
<1> HIDE DEF J, m
<1>4. m \in 1..(n + 1) /\ \A i \in 1..(m - 1) : i \notin I
  BY <1>1, <1>2
<1> QED
  BY <1>3, <1>4 DEF J, m

(* drain_ready takes a prefix of the queue in which every packet is due.   *)
LEMMA ReadyIsDue ==
  ASSUME NEW x, NEW d, NEW S, x.engine.queues[d] \in Seq(S),
         x.engine.last_now \in Nat, \A p \in S : p.due \in Nat
  PROVE  \E n \in 0..Len(x.engine.queues[d]) :
            /\ Ready(x, d) = SubSeq(x.engine.queues[d], 1, n)
            /\ \A i \in 1..n : x.engine.queues[d][i].due <= x.engine.last_now
<1> DEFINE q == x.engine.queues[d]
           I == {i \in 1..Len(q) : q[i].due > x.engine.last_now}
           m == Min(I \cup {Len(q) + 1})
<1>1. Ready(x, d) = SubSeq(q, 1, m - 1)
  BY DEF Ready
<1>2. Len(q) \in Nat /\ I \in SUBSET (1..Len(q))
  OBVIOUS
<1>3. \A i \in 1..Len(q) : i \notin I => q[i].due <= x.engine.last_now
  OBVIOUS
<1> HIDE DEF I
<1>4. m \in 1..(Len(q) + 1) /\ \A i \in 1..(m - 1) : i \notin I
  BY <1>2, FirstIndex, Zenon
<1> HIDE DEF m, q
<1>5. m - 1 \in 0..Len(q) /\ \A i \in 1..(m - 1) : i \in 1..Len(q)
  BY <1>2, <1>4
<1> QED
  BY <1>1, <1>3, <1>4, <1>5 DEF q

(* enqueue puts the packet between two parts of the queue: the packets     *)
(* before it are due no later, and the one after it is due later.          *)
LEMMA InsertedBetween ==
  ASSUME NEW S, NEW q \in Seq(S), NEW p \in S, \A e \in S : e.due \in Nat
  PROVE  \E m \in 1..(Len(q) + 1) :
            /\ Inserted(q, p) = SubSeq(q, 1, m - 1) \o <<p>> \o SubSeq(q, m, Len(q))
            /\ \A i \in 1..(m - 1) : q[i].due <= p.due
            /\ m <= Len(q) => q[m].due > p.due
<1> DEFINE I == {i \in 1..Len(q) : q[i].due > p.due}
           m == Min(I \cup {Len(q) + 1})
<1>1. Inserted(q, p) = SubSeq(q, 1, m - 1) \o <<p>> \o SubSeq(q, m, Len(q))
  BY DEF Inserted
<1>2. Len(q) \in Nat /\ I \in SUBSET (1..Len(q))
  OBVIOUS
<1>3. \A i \in 1..Len(q) : i \notin I => q[i].due <= p.due
  OBVIOUS
<1>4. \A i \in I : q[i].due > p.due
  OBVIOUS
<1> HIDE DEF I
<1>5. /\ m \in 1..(Len(q) + 1) /\ \A i \in 1..(m - 1) : i \notin I
      /\ m <= Len(q) => m \in I
  BY <1>2, FirstIndex, Zenon
<1> HIDE DEF m
<1>6. \A i \in 1..(m - 1) : i \in 1..Len(q)
  BY <1>2, <1>5
<1> QED
  BY <1>1, <1>3, <1>4, <1>5, <1>6, Zenon

(* A queue keeps what is true of its packets.                              *)
LEMMA InsertedTyped ==
  ASSUME NEW S, NEW q \in Seq(S), NEW p \in S, \A e \in S : e.due \in Nat
  PROVE  Inserted(q, p) \in Seq(S)
<1>1. PICK m \in 1..(Len(q) + 1) :
         Inserted(q, p) = SubSeq(q, 1, m - 1) \o <<p>> \o SubSeq(q, m, Len(q))
  BY InsertedBetween, Zenon
<1>2. SubSeq(q, 1, m - 1) \in Seq(S) /\ SubSeq(q, m, Len(q)) \in Seq(S)
  BY <1>1, SubSeqIs
<1> QED
  BY <1>1, <1>2, ConcatIs

-----------------------------------------------------------------------------
(* The bytes of a queue, packet by packet.                                 *)
SizesOf(q) == [i \in DOMAIN q |-> q[i].bytes]
Prefix(q, n) == SumFunctionOnSet(SizesOf(q), 1..n)

(* A sum over the first n numbers, by its last summand.                    *)
LEMMA SumInterval ==
  ASSUME NEW N \in Nat, NEW f, \A i \in 1..N : f[i] \in Nat, NEW n \in 0..N
  PROVE  /\ SumFunctionOnSet(f, 1..n) \in Nat
         /\ n = 0 => SumFunctionOnSet(f, 1..n) = 0
         /\ n # 0 => SumFunctionOnSet(f, 1..n) = SumFunctionOnSet(f, 1..(n - 1)) + f[n]
<1>1. n \in Nat /\ n - 1 \in Int /\ \A i \in 1..n : f[i] \in Nat
  OBVIOUS
<1>2. IsFiniteSet(1..n) /\ IsFiniteSet(1..(n - 1))
  BY <1>1, FS_Interval
<1>3. SumFunctionOnSet(f, 1..n) \in Nat
  BY <1>1, <1>2, SumTyped
<1>4. ASSUME n = 0 PROVE SumFunctionOnSet(f, 1..n) = 0
  <2>1. 1..n = {}
    BY <1>4
  <2> QED
    BY <1>2, <2>1, SumPick, Zenon
<1>5. ASSUME n # 0 PROVE SumFunctionOnSet(f, 1..n) = SumFunctionOnSet(f, 1..(n - 1)) + f[n]
  <2>1. n \in 1..n /\ (1..n) \ {n} = 1..(n - 1) /\ \A i \in 1..(n - 1) : f[i] \in Nat
    BY <1>1, <1>5
  <2>2. SumFunctionOnSet(f, 1..n) = f[n] + SumFunctionOnSet(f, (1..n) \ {n})
    BY <1>1, <1>2, <2>1, SumRemove
  <2>3. SumFunctionOnSet(f, 1..(n - 1)) \in Nat
    BY <1>2, <2>1, SumTyped
  <2>4. f[n] \in Nat
    BY <1>1, <2>1
  <2> DEFINE m == SumFunctionOnSet(f, 1..(n - 1))
  <2>5. SumFunctionOnSet(f, 1..n) = f[n] + m
    BY <2>1, <2>2, Zenon
  <2> HIDE DEF m
  <2>6. f[n] + m = m + f[n]
    BY <2>3, <2>4 DEF m
  <2> QED
    BY <2>5, <2>6 DEF m
<1> QED
  BY <1>3, <1>4, <1>5

(* The sum over a prefix that is longer by one packet.                     *)
LEMMA PrefixIs ==
  ASSUME NEW S, \A p \in S : p.bytes \in Nat, NEW q \in Seq(S)
  PROVE  /\ Bytes(q) = Prefix(q, Len(q))
         /\ Prefix(q, 0) = 0
         /\ \A n \in 0..Len(q) : Prefix(q, n) \in Nat
         /\ \A n \in 0..Len(q) : n # 0 => Prefix(q, n) = Prefix(q, n - 1) + q[n].bytes
<1> DEFINE f == SizesOf(q)
           N == Len(q)
<1>1. N \in Nat /\ DOMAIN f = 1..N /\ \A i \in 1..N : f[i] = q[i].bytes
  BY DEF SizesOf
<1>2. \A i \in 1..N : f[i] \in Nat
  BY <1>1
<1>3. Bytes(q) = Prefix(q, N)
  BY <1>1 DEF Bytes, Prefix, SumFunction, SizesOf
<1> HIDE DEF f, N
<1>4. ASSUME NEW n \in 0..N
      PROVE  /\ SumFunctionOnSet(f, 1..n) \in Nat
             /\ n = 0 => SumFunctionOnSet(f, 1..n) = 0
             /\ n # 0 => SumFunctionOnSet(f, 1..n) = SumFunctionOnSet(f, 1..(n - 1)) + f[n]
  BY <1>1, <1>2, SumInterval, Zenon
<1>5. SumFunctionOnSet(f, 1..0) = 0
  BY <1>1, <1>4
<1>6. \A n \in 0..N : n # 0 => n \in 1..N
  BY <1>1
<1>7. \A n \in 0..N : n # 0 => f[n] = q[n].bytes
  BY <1>1, <1>6
<1> QED
  BY <1>3, <1>4, <1>5, <1>7 DEF f, N, Prefix

(* The bytes of two queues, one behind the other.                          *)
LEMMA BytesConcat ==
  ASSUME NEW S, \A p \in S : p.bytes \in Nat, NEW q \in Seq(S), NEW r \in Seq(S)
  PROVE  Bytes(q \o r) = Bytes(q) + Bytes(r)
<1> DEFINE qr == q \o r
           A == {n \in Nat : n <= Len(q) /\ Prefix(qr, n) # Prefix(q, n)}
           B == {n \in Nat : n <= Len(r) /\ Prefix(qr, Len(q) + n) # Bytes(q) + Prefix(r, n)}
<1>1. /\ qr \in Seq(S) /\ Len(qr) = Len(q) + Len(r) /\ Len(q) \in Nat /\ Len(r) \in Nat
      /\ \A i \in 1..Len(q) : qr[i] = q[i]
      /\ \A i \in 1..Len(r) : qr[Len(q) + i] = r[i]
  BY ConcatIs
<1>2. /\ Bytes(qr) = Prefix(qr, Len(qr)) /\ Bytes(q) = Prefix(q, Len(q))
      /\ Bytes(r) = Prefix(r, Len(r))
      /\ Prefix(qr, 0) = 0 /\ Prefix(q, 0) = 0 /\ Prefix(r, 0) = 0
  BY <1>1, PrefixIs, Zenon
<1> HIDE DEF qr
<1>3. A = {}
  <2> SUFFICES ASSUME A # {} PROVE FALSE
    OBVIOUS
  <2>1. PICK n \in A : \A m \in A : n <= m
    BY LeastElement, Zenon
  <2>2. n \in Nat /\ n <= Len(q) /\ Prefix(qr, n) # Prefix(q, n)
    OBVIOUS
  <2>3. n # 0
    BY <1>2, <2>2
  <2>4. n - 1 \in Nat /\ n - 1 <= Len(q) /\ n - 1 \notin A
    <3> HIDE DEF A
    <3> QED
      BY <1>1, <2>1, <2>2, <2>3
  <2>5. Prefix(qr, n - 1) = Prefix(q, n - 1)
    BY <2>4
  <2>6. /\ Prefix(qr, n) = Prefix(qr, n - 1) + qr[n].bytes
        /\ Prefix(q, n) = Prefix(q, n - 1) + q[n].bytes
    <3>1. n \in 0..Len(qr) /\ n \in 0..Len(q)
      BY <1>1, <2>2
    <3> QED
      BY <1>1, <2>3, <3>1, PrefixIs, Zenon
  <2> QED
    BY <1>1, <2>2, <2>3, <2>5, <2>6
<1>4. B = {}
  <2> SUFFICES ASSUME B # {} PROVE FALSE
    OBVIOUS
  <2>1. PICK n \in B : \A m \in B : n <= m
    BY LeastElement, Zenon
  <2>2. n \in Nat /\ n <= Len(r) /\ Prefix(qr, Len(q) + n) # Bytes(q) + Prefix(r, n)
    OBVIOUS
  <2>3. Prefix(q, Len(q)) \in Nat /\ Prefix(r, n) \in Nat
    <3>1. n \in 0..Len(r) /\ Len(q) \in 0..Len(q)
      BY <1>1, <2>2
    <3> QED
      BY <3>1, PrefixIs
  <2>4. n # 0
    <3>1. Prefix(qr, Len(q)) = Prefix(q, Len(q))
      BY <1>1, <1>3
    <3> QED
      BY <1>1, <1>2, <2>2, <2>3, <3>1
  <2>5. n - 1 \in Nat /\ n - 1 <= Len(r) /\ n - 1 \notin B
    <3> HIDE DEF B
    <3> QED
      BY <1>1, <2>1, <2>2, <2>4
  <2>6. Prefix(qr, Len(q) + (n - 1)) = Bytes(q) + Prefix(r, n - 1)
    BY <2>5
  <2>7. /\ Prefix(qr, Len(q) + n) = Prefix(qr, Len(q) + (n - 1)) + r[n].bytes
        /\ Prefix(r, n) = Prefix(r, n - 1) + r[n].bytes
    <3>1. /\ Len(q) + n \in 0..Len(qr) /\ Len(q) + n # 0 /\ n \in 0..Len(r)
          /\ (Len(q) + n) - 1 = Len(q) + (n - 1) /\ n \in 1..Len(r)
      BY <1>1, <2>2, <2>4
    <3>2. Prefix(qr, Len(q) + n) = Prefix(qr, (Len(q) + n) - 1) + qr[Len(q) + n].bytes
      BY <1>1, <3>1, PrefixIs, Zenon
    <3>3. Prefix(r, n) = Prefix(r, n - 1) + r[n].bytes
      BY <2>4, <3>1, PrefixIs, Zenon
    <3> QED
      BY <1>1, <3>1, <3>2, <3>3
  <2>8. Prefix(r, n - 1) \in Nat /\ r[n].bytes \in Nat
    <3>1. n - 1 \in 0..Len(r) /\ n \in 1..Len(r)
      BY <1>1, <2>2, <2>4
    <3>2. r[n] \in S
      BY <3>1
    <3> QED
      BY <3>1, <3>2, PrefixIs
  <2>9. Bytes(q) \in Nat
    BY <1>2, <2>3
  <2>10. Prefix(qr, Len(q) + n) = Bytes(q) + Prefix(r, n)
    BY <2>6, <2>7, <2>8, <2>9
  <2> QED
    BY <2>2, <2>10, Zenon
<1>5. Prefix(qr, Len(q) + Len(r)) = Bytes(q) + Prefix(r, Len(r))
  BY <1>1, <1>4
<1> QED
  BY <1>1, <1>2, <1>5 DEF qr

(* Two queues one behind the other.                                        *)
LEMMA JoinQueues ==
  ASSUME NEW S, NEW a \in Seq(S), NEW b \in Seq(S)
  PROVE  /\ a \o b \in Seq(S) /\ Len(a) \in Nat /\ Len(b) \in Nat
         /\ Len(a \o b) = Len(a) + Len(b)
         /\ \A i \in 1..Len(a) : (a \o b)[i] = a[i]
         /\ \A i \in 1..Len(b) : (a \o b)[Len(a) + i] = b[i]
  BY ConcatIs

(* The two parts of a queue that is cut before its m-th packet.            *)
IsCut(S, q, m, a, b) ==
    /\ a \in Seq(S) /\ Len(a) = m - 1 /\ \A i \in 1..(m - 1) : a[i] = q[i]
    /\ b \in Seq(S) /\ Len(b) = Len(q) + 1 - m
    /\ \A i \in 1..(Len(q) + 1 - m) : b[i] = q[m + i - 1]
    /\ q = a \o b

(* A queue can be cut before any of its packets, and at its end.           *)
LEMMA CutQueue ==
  ASSUME NEW S, NEW q \in Seq(S), NEW m \in 1..(Len(q) + 1)
  PROVE  IsCut(S, q, m, SubSeq(q, 1, m - 1), SubSeq(q, m, Len(q)))
<1> DEFINE a == SubSeq(q, 1, m - 1)
           b == SubSeq(q, m, Len(q))
<1>1. a \in Seq(S) /\ Len(a) = m - 1 /\ \A i \in 1..(m - 1) : a[i] = q[i]
  BY SubSeqIs
<1>2. /\ b \in Seq(S) /\ Len(b) = Len(q) + 1 - m
      /\ \A i \in 1..(Len(q) + 1 - m) : b[i] = q[m + i - 1]
  BY SubSeqIs
<1> HIDE DEF a, b
<1>3. /\ a \o b \in Seq(S) /\ Len(a \o b) = Len(a) + Len(b)
      /\ \A i \in 1..Len(a) : (a \o b)[i] = a[i]
      /\ \A i \in 1..Len(b) : (a \o b)[Len(a) + i] = b[i]
  <2>1. a \in Seq(S) /\ b \in Seq(S)
    BY <1>1, <1>2
  <2> QED
    BY <2>1, JoinQueues
<1>4. Len(a \o b) = Len(q)
  BY <1>1, <1>2, <1>3
<1>5. ASSUME NEW i \in 1..Len(q) PROVE (a \o b)[i] = q[i]
  <2>1. CASE i < m
    BY <1>1, <1>3, <2>1
  <2>2. CASE i >= m
    <3> DEFINE k == i - (m - 1)
    <3>1. /\ k \in 1..Len(b) /\ k \in 1..(Len(q) + 1 - m)
          /\ Len(a) + k = i /\ m + k - 1 = i
      BY <1>1, <1>2, <2>2
    <3> HIDE DEF k
    <3>2. (a \o b)[Len(a) + k] = b[k] /\ b[k] = q[m + k - 1]
      BY <1>2, <1>3, <3>1, Zenon
    <3> QED
      BY <3>1, <3>2, Zenon
  <2>3. i < m \/ i >= m
    OBVIOUS
  <2> QED
    BY <2>1, <2>2, <2>3, Zenon DEF a, b
<1>6. q = a \o b
  BY <1>3, <1>4, <1>5, SameSequence, Zenon
<1> QED
  BY <1>1, <1>2, <1>6, Zenon DEF a, b, IsCut

(* What enqueue makes of a queue, packet by packet.                        *)
LEMMA InsertedOps ==
  ASSUME NEW S, NEW q \in Seq(S), NEW p \in S,
         \A e \in S : e.due \in Nat /\ e.bytes \in Nat
  PROVE  /\ Inserted(q, p) \in Seq(S) /\ Len(Inserted(q, p)) = Len(q) + 1
         /\ Bytes(Inserted(q, p)) = Bytes(q) + p.bytes
         /\ \E m \in 1..(Len(q) + 1) :
               /\ \A i \in 1..(m - 1) : Inserted(q, p)[i] = q[i] /\ q[i].due <= p.due
               /\ Inserted(q, p)[m] = p
               /\ \A i \in (m + 1)..(Len(q) + 1) : Inserted(q, p)[i] = q[i - 1]
               /\ m <= Len(q) => q[m].due > p.due
<1>1. PICK m \in 1..(Len(q) + 1) :
         /\ Inserted(q, p) = SubSeq(q, 1, m - 1) \o <<p>> \o SubSeq(q, m, Len(q))
         /\ \A i \in 1..(m - 1) : q[i].due <= p.due
         /\ m <= Len(q) => q[m].due > p.due
  BY InsertedBetween, Zenon
<1> DEFINE a == SubSeq(q, 1, m - 1)
           b == SubSeq(q, m, Len(q))
           o == <<p>>
           c == a \o o
           r == Inserted(q, p)
<1>2. /\ a \in Seq(S) /\ Len(a) = m - 1 /\ \A i \in 1..(m - 1) : a[i] = q[i]
      /\ b \in Seq(S) /\ Len(b) = Len(q) + 1 - m
      /\ \A i \in 1..(Len(q) + 1 - m) : b[i] = q[m + i - 1]
      /\ q = a \o b
  BY CutQueue, Zenon DEF IsCut
<1>3. r = c \o b
  BY <1>1
<1> HIDE DEF a, b, r
<1>4. o \in Seq(S) /\ Len(o) = 1 /\ o[1] = p
  OBVIOUS
<1> HIDE DEF o
<1>5. /\ c \in Seq(S) /\ Len(c) = m /\ c[m] = p
      /\ \A i \in 1..(m - 1) : c[i] = q[i]
  <2>1. /\ c \in Seq(S) /\ Len(c) = Len(a) + 1
        /\ \A i \in 1..Len(a) : c[i] = a[i]
        /\ c[Len(a) + 1] = o[1]
    <3>1. a \in Seq(S) /\ o \in Seq(S)
      BY <1>2, <1>4
    <3>2. /\ a \o o \in Seq(S) /\ Len(a \o o) = Len(a) + Len(o)
          /\ \A i \in 1..Len(a) : (a \o o)[i] = a[i]
          /\ \A i \in 1..Len(o) : (a \o o)[Len(a) + i] = o[i]
      BY <3>1, JoinQueues
    <3> QED
      BY <1>4, <3>2
  <2>2. Len(a) = m - 1 /\ Len(a) + 1 = m
    BY <1>2
  <2> QED
    BY <1>2, <1>4, <2>1, <2>2, Zenon
<1>6. Bytes(r) = Bytes(q) + p.bytes
  <2>1. Bytes(o) = p.bytes
    <3>1. /\ Bytes(o) = Prefix(o, 1) /\ Prefix(o, 0) = 0
          /\ Prefix(o, 1) = Prefix(o, 1 - 1) + o[1].bytes
      <4>1. \A e \in S : e.bytes \in Nat
        OBVIOUS
      <4>2. /\ Bytes(o) = Prefix(o, Len(o)) /\ Prefix(o, 0) = 0
            /\ \A n \in 0..Len(o) : n # 0 => Prefix(o, n) = Prefix(o, n - 1) + o[n].bytes
        BY <1>4, <4>1, PrefixIs, Zenon
      <4> QED
        BY <1>4, <4>2
    <3> QED
      BY <1>4, <3>1
  <2>2. Bytes(c) = Bytes(a) + Bytes(o) /\ Bytes(q) = Bytes(a) + Bytes(b)
    BY <1>2, <1>4, BytesConcat
  <2>3. Bytes(r) = Bytes(c) + Bytes(b)
    BY <1>2, <1>3, <1>5, BytesConcat, Zenon
  <2>4. Bytes(a) \in Nat /\ Bytes(b) \in Nat /\ p.bytes \in Nat
    <3>1. Len(a) \in 0..Len(a) /\ Len(b) \in 0..Len(b)
      BY <1>2
    <3> QED
      BY <1>2, <3>1, PrefixIs
  <2> QED
    BY <2>1, <2>2, <2>3, <2>4
<1> HIDE DEF c
<1>7. /\ r \in Seq(S) /\ Len(r) = Len(q) + 1
      /\ \A i \in 1..m : r[i] = c[i]
      /\ \A i \in 1..Len(b) : r[m + i] = b[i]
  <2>1. /\ r \in Seq(S) /\ Len(r) = Len(c) + Len(b) /\ Len(c) \in Nat /\ Len(b) \in Nat
        /\ \A i \in 1..Len(c) : r[i] = c[i]
        /\ \A i \in 1..Len(b) : r[Len(c) + i] = b[i]
    <3>1. c \in Seq(S) /\ b \in Seq(S)
      BY <1>2, <1>5
    <3>2. /\ c \o b \in Seq(S) /\ Len(c \o b) = Len(c) + Len(b)
          /\ Len(c) \in Nat /\ Len(b) \in Nat
          /\ \A i \in 1..Len(c) : (c \o b)[i] = c[i]
          /\ \A i \in 1..Len(b) : (c \o b)[Len(c) + i] = b[i]
      BY <3>1, JoinQueues
    <3>3. r = c \o b
      BY <1>3 DEF c
    <3> QED
      BY <3>2, <3>3
  <2>2. Len(r) = Len(q) + 1
    <3>1. Len(r) = m + (Len(q) + 1 - m)
      BY <1>2, <1>5, <2>1
    <3>2. \A k \in Nat : m + (k + 1 - m) = k + 1
      OBVIOUS
    <3> QED
      BY <3>1, <3>2
  <2> QED
    BY <1>5, <2>1, <2>2, Zenon
<1>8. ASSUME NEW i \in (m + 1)..(Len(q) + 1) PROVE r[i] = q[i - 1]
  <2>1. i - m \in 1..Len(b) /\ m + (i - m) = i /\ m + (i - m) - 1 = i - 1
    BY <1>2
  <2>2. i - m \in 1..(Len(q) + 1 - m)
    OBVIOUS
  <2>3. b[i - m] = q[m + (i - m) - 1] /\ r[m + (i - m)] = b[i - m]
    BY <1>2, <1>7, <2>1, <2>2, Zenon
  <2> QED
    BY <2>1, <2>3, Zenon
<1>9. m \in 1..m /\ \A i \in 1..(m - 1) : i \in 1..m
  OBVIOUS
<1>10. r[m] = p /\ \A i \in 1..(m - 1) : r[i] = q[i]
  BY <1>5, <1>7, <1>9
<1> QED
  BY <1>1, <1>6, <1>7, <1>8, <1>10, Zenon DEF r

(* Nothing but the new packet comes in.                                    *)
LEMMA InsertedElements ==
  ASSUME NEW S, NEW q \in Seq(S), NEW p \in S, NEW k \in 1..Len(Inserted(q, p)),
         \A e \in S : e.due \in Nat /\ e.bytes \in Nat
  PROVE  Inserted(q, p)[k] = p \/ \E j \in 1..Len(q) : Inserted(q, p)[k] = q[j]
<1> DEFINE r == Inserted(q, p)
<1>1. /\ r \in Seq(S) /\ Len(r) = Len(q) + 1
      /\ \E m \in 1..(Len(q) + 1) :
            /\ \A i \in 1..(m - 1) : r[i] = q[i] /\ q[i].due <= p.due
            /\ r[m] = p
            /\ \A i \in (m + 1)..(Len(q) + 1) : r[i] = q[i - 1]
            /\ m <= Len(q) => q[m].due > p.due
  BY InsertedOps, Zenon
<1> HIDE DEF r
<1>2. PICK m \in 1..(Len(q) + 1) :
            /\ \A i \in 1..(m - 1) : r[i] = q[i] /\ q[i].due <= p.due
            /\ r[m] = p
            /\ \A i \in (m + 1)..(Len(q) + 1) : r[i] = q[i - 1]
            /\ m <= Len(q) => q[m].due > p.due
  BY <1>1, Zenon
<1>3. k \in 1..(Len(q) + 1)
  BY <1>1 DEF r
<1>4. CASE k < m
  <2>1. k \in 1..(m - 1) /\ k \in 1..Len(q)
    BY <1>3, <1>4
  <2> QED
    BY <1>2, <2>1 DEF r
<1>5. CASE k = m
  BY <1>2, <1>5 DEF r
<1>6. CASE k > m
  <2>1. k \in (m + 1)..(Len(q) + 1) /\ k - 1 \in 1..Len(q)
    BY <1>3, <1>6
  <2> QED
    BY <1>2, <2>1 DEF r
<1> QED
  BY <1>3, <1>4, <1>5, <1>6

(* A newer packet keeps a queue in order.                                  *)
LEMMA InsertedOrdered ==
  ASSUME NEW S, NEW q \in Seq(S), NEW p \in S,
         \A e \in S : e.due \in Nat /\ e.bytes \in Nat /\ e.payload.seq \in Nat,
         Ordered(q), \A i \in 1..Len(q) : q[i].payload.seq < p.payload.seq
  PROVE  Ordered(Inserted(q, p))
<1> DEFINE r == Inserted(q, p)
<1>1. \A e \in S : e.due \in Nat /\ e.bytes \in Nat
  OBVIOUS
<1>2. /\ r \in Seq(S) /\ Len(r) = Len(q) + 1
      /\ \E m \in 1..(Len(q) + 1) :
            /\ \A i \in 1..(m - 1) : r[i] = q[i] /\ q[i].due <= p.due
            /\ r[m] = p
            /\ \A i \in (m + 1)..(Len(q) + 1) : r[i] = q[i - 1]
            /\ m <= Len(q) => q[m].due > p.due
  BY <1>1, InsertedOps, Zenon
<1> HIDE DEF r
<1>3. PICK m \in 1..(Len(q) + 1) :
            /\ \A i \in 1..(m - 1) : r[i] = q[i] /\ q[i].due <= p.due
            /\ r[m] = p
            /\ \A i \in (m + 1)..(Len(q) + 1) : r[i] = q[i - 1]
            /\ m <= Len(q) => q[m].due > p.due
  BY <1>2
<1> DEFINE Before(a, b) == a.due < b.due \/ (a.due = b.due /\ a.payload.seq < b.payload.seq)
<1>4. \A i \in 1..Len(q) : q[i] \in S /\ q[i].due \in Nat
  OBVIOUS
<1>5. \A i, j \in 1..Len(q) : i < j => Before(q[i], q[j])
  BY DEF Ordered
<1>6. \A i \in 1..(m - 1) : r[i] = q[i] /\ i \in 1..Len(q) /\ Before(q[i], p)
  BY <1>3, <1>4
<1>7. \A i \in (m + 1)..(Len(q) + 1) : r[i] = q[i - 1] /\ i - 1 \in 1..Len(q) /\ m <= i - 1
  BY <1>3
<1>8. \A j \in 1..Len(q) : m <= j => Before(p, q[j])
  <2> TAKE j \in 1..Len(q)
  <2> HAVE m <= j
  <2>1. m \in 1..Len(q) /\ q[m].due > p.due
    BY <1>3
  <2>2. CASE m = j
    BY <2>1, <2>2
  <2>3. CASE m < j
    <3>1. q[m].due <= q[j].due
      BY <1>4, <1>5, <2>1, <2>3
    <3> QED
      BY <1>4, <2>1, <3>1
  <2> QED
    BY <2>2, <2>3
<1> HIDE DEF Before
<1>9. ASSUME NEW i \in 1..Len(r), NEW j \in 1..Len(r), i < j
      PROVE  Before(r[i], r[j])
  <2>1. i \in 1..(Len(q) + 1) /\ j \in 1..(Len(q) + 1)
    BY <1>2
  <2>2. CASE i < m /\ j < m
    BY <1>5, <1>6, <1>9, <2>1, <2>2
  <2>3. CASE i < m /\ j = m
    BY <1>3, <1>6, <2>1, <2>3
  <2>4. CASE i < m /\ j > m
    <3>1. /\ i \in 1..(m - 1) /\ j \in (m + 1)..(Len(q) + 1)
      BY <2>1, <2>4
    <3>2. /\ r[i] = q[i] /\ r[j] = q[j - 1] /\ i \in 1..Len(q) /\ j - 1 \in 1..Len(q)
          /\ i < j - 1
      BY <1>6, <1>7, <3>1
    <3> QED
      BY <1>5, <3>2
  <2>5. CASE i = m
    <3>1. j \in (m + 1)..(Len(q) + 1)
      BY <1>9, <2>1, <2>5
    <3>2. r[j] = q[j - 1] /\ j - 1 \in 1..Len(q) /\ m <= j - 1
      BY <1>7, <3>1
    <3> QED
      BY <1>3, <1>8, <2>5, <3>2
  <2>6. CASE i > m
    <3>1. i \in (m + 1)..(Len(q) + 1) /\ j \in (m + 1)..(Len(q) + 1)
      BY <1>9, <2>1, <2>6
    <3>2. /\ r[i] = q[i - 1] /\ r[j] = q[j - 1]
          /\ i - 1 \in 1..Len(q) /\ j - 1 \in 1..Len(q) /\ i - 1 < j - 1
      BY <1>7, <1>9, <3>1
    <3> QED
      BY <1>5, <3>2
  <2> QED
    BY <1>9, <2>1, <2>2, <2>3, <2>4, <2>5, <2>6
<1> QED
  BY <1>9 DEF Ordered, Before, r

(* A queue's bytes are a natural number.                                   *)
LEMMA BytesTyped ==
  ASSUME NEW S, NEW q \in Seq(S), \A e \in S : e.bytes \in Nat
  PROVE  Bytes(q) \in Nat
<1>1. Bytes(q) = Prefix(q, Len(q)) /\ \A n \in 0..Len(q) : Prefix(q, n) \in Nat
  BY PrefixIs
<1>2. Len(q) \in 0..Len(q)
  OBVIOUS
<1> QED
  BY <1>1, <1>2

(* What is left behind a prefix is in order, and its bytes are the rest.   *)
LEMMA RestOps ==
  ASSUME NEW S, NEW q \in Seq(S), NEW n \in 0..Len(q),
         \A e \in S : e.bytes \in Nat
  PROVE  LET a == SubSeq(q, 1, n)
             b == SubSeq(q, n + 1, Len(q))
         IN  /\ b \in Seq(S) /\ Len(b) = Len(q) - n /\ Bytes(b) \in Nat /\ Bytes(a) \in Nat
             /\ Bytes(q) = Bytes(a) + Bytes(b)
             /\ \A i \in 1..Len(b) : n + i \in 1..Len(q) /\ b[i] = q[n + i]
             /\ Ordered(q) => Ordered(b)
<1> DEFINE m == n + 1
           a == SubSeq(q, 1, m - 1)
           b == SubSeq(q, m, Len(q))
<1>1. m \in 1..(Len(q) + 1) /\ m - 1 = n
  OBVIOUS
<1> HIDE DEF m
<1>2. /\ a \in Seq(S)
      /\ b \in Seq(S) /\ Len(b) = Len(q) + 1 - m
      /\ \A i \in 1..(Len(q) + 1 - m) : b[i] = q[m + i - 1]
      /\ q = a \o b
  <2>1. IsCut(S, q, m, a, b)
    BY <1>1, CutQueue, Zenon
  <2> HIDE DEF a, b
  <2> QED
    BY <2>1, Zenon DEF IsCut
<1> HIDE DEF a, b
<1>3. Bytes(q) = Bytes(a) + Bytes(b)
  <2>1. a \in Seq(S) /\ b \in Seq(S)
    BY <1>2
  <2>2. Bytes(a \o b) = Bytes(a) + Bytes(b)
    BY <2>1, BytesConcat
  <2> QED
    BY <1>2, <2>2
<1>4. Bytes(a) \in Nat /\ Bytes(b) \in Nat
  <2>1. a \in Seq(S) /\ b \in Seq(S)
    BY <1>2
  <2> QED
    BY <2>1, BytesTyped
<1>5. Len(b) = Len(q) - n /\ \A i \in 1..Len(b) : n + i \in 1..Len(q) /\ b[i] = q[n + i]
  <2>1. Len(q) \in Nat
    OBVIOUS
  <2> QED
    BY <1>1, <1>2, <2>1
<1>6. ASSUME Ordered(q) PROVE Ordered(b)
  <2> SUFFICES ASSUME NEW i \in 1..Len(b), NEW j \in 1..Len(b), i < j
               PROVE  \/ b[i].due < b[j].due
                      \/ b[i].due = b[j].due /\ b[i].payload.seq < b[j].payload.seq
    BY DEF Ordered
  <2>1. n + i \in 1..Len(q) /\ n + j \in 1..Len(q) /\ n + i < n + j
    BY <1>5
  <2>2. \/ q[n + i].due < q[n + j].due
        \/ q[n + i].due = q[n + j].due /\ q[n + i].payload.seq < q[n + j].payload.seq
    BY <1>6, <2>1 DEF Ordered
  <2>3. b[i] = q[n + i] /\ b[j] = q[n + j]
    BY <1>5
  <2> QED
    BY <2>2, <2>3
<1>7. a = SubSeq(q, 1, n) /\ b = SubSeq(q, n + 1, Len(q))
  BY <1>1 DEF a, b, m
<1> QED
  BY <1>2, <1>3, <1>4, <1>5, <1>6, <1>7, Zenon

-----------------------------------------------------------------------------
(* The shape of a control block and of an engine.                          *)
IsControl(c) ==
    c \in [config : {c.config}, stats : {c.stats}, outage_active : {c.outage_active},
           revision : {c.revision}, pending_outage : {c.pending_outage}]

IsEngine(e) ==
    e \in [queues : {e.queues}, revision : {e.revision}, last_now : {e.last_now},
           outage_until : {e.outage_until}]

IsPair(x) ==
    /\ x \in [control : {x.control}, engine : {x.engine}]
    /\ IsControl(x.control) /\ IsEngine(x.engine)

(* What the calls of a handle change.                                      *)
LEMMA ConfiguredOps ==
  ASSUME NEW c, IsControl(c), NEW config
  PROVE  /\ IsControl(Configured(c, config))
         /\ Configured(c, config).config = config
         /\ Configured(c, config).stats = DiscardQueues(c.stats)
         /\ Configured(c, config).outage_active = FALSE
         /\ Configured(c, config).pending_outage = 0
         /\ Configured(c, config).revision = Successor(c.revision)
  BY Zenon DEF IsControl, Configured

(* start_outage and stop_outage: a pending outage under a new revision.    *)
LEMMA OutagedOps ==
  ASSUME NEW c, IsControl(c), NEW duration
  PROVE  /\ IsControl(Outaged(c, duration))
         /\ Outaged(c, duration).config = c.config
         /\ Outaged(c, duration).stats = DiscardQueues(c.stats)
         /\ Outaged(c, duration).outage_active = (duration # 0)
         /\ Outaged(c, duration).pending_outage = duration
         /\ Outaged(c, duration).revision = Successor(c.revision)
  BY Zenon DEF IsControl, Outaged

(* clear_session keeps the configuration and forgets the rest.             *)
LEMMA SessionResetOps ==
  ASSUME NEW c, IsControl(c)
  PROVE  /\ IsControl(SessionReset(c))
         /\ SessionReset(c).config = c.config
         /\ SessionReset(c).stats = FreshStats
         /\ SessionReset(c).outage_active = FALSE
         /\ SessionReset(c).pending_outage = 0
         /\ SessionReset(c).revision = Successor(c.revision)
  BY Zenon DEF IsControl, SessionReset

(* A new handle has nothing counted and no outage.                         *)
LEMMA NewHandleOps ==
  ASSUME NEW config
  PROVE  /\ IsControl(NewHandle(config))
         /\ NewHandle(config).config = config
         /\ NewHandle(config).stats = FreshStats
         /\ NewHandle(config).outage_active = FALSE
         /\ NewHandle(config).pending_outage = 0
         /\ NewHandle(config).revision = 0
  BY DEF IsControl, NewHandle

(* A new engine is empty and has synchronised with no handle yet.          *)
LEMMA NewEngineOps ==
  /\ IsEngine(NewEngine) /\ NewEngine.queues = EmptyQueues
  /\ NewEngine.revision = Revisions - 1
  /\ NewEngine.last_now = 0 /\ NewEngine.outage_until = 0
  BY DEF IsEngine, NewEngine, Unsynced

(* sync: afterwards the engine is in step, and a change has emptied the    *)
(* queues.                                                                 *)
LEMMA SyncedOps ==
  ASSUME NEW x, IsPair(x), NEW t
  PROVE  LET now == Later(t, x.engine.last_now)
             y == Synced(x, t)
         IN  /\ IsPair(y)
             /\ y.control.config = x.control.config
             /\ y.control.stats = x.control.stats
             /\ y.control.revision = x.control.revision
             /\ y.control.pending_outage =
                   IF x.engine.revision = x.control.revision
                   THEN x.control.pending_outage ELSE 0
             /\ y.control.outage_active = (SyncedOutage(x, now) # 0)
             /\ y.engine.queues = SyncedQueues(x)
             /\ y.engine.revision = x.control.revision
             /\ y.engine.last_now = now
             /\ y.engine.outage_until = SyncedOutage(x, now)
  BY Zenon DEF IsPair, IsControl, IsEngine, Synced

(* What enqueue and drain_ready leave alone: all but counters and queues.  *)
Untouched(x, y) ==
    /\ IsPair(y)
    /\ y.control.config = x.control.config
    /\ y.control.revision = x.control.revision
    /\ y.control.pending_outage = x.control.pending_outage
    /\ y.control.outage_active = x.control.outage_active
    /\ y.engine.revision = x.engine.revision
    /\ y.engine.last_now = x.engine.last_now
    /\ y.engine.outage_until = x.engine.outage_until

(* enqueue on a synchronised pair touches counters and one queue.          *)
LEMMA EnqueuedOps ==
  ASSUME NEW x, IsPair(x), NEW d, NEW bytes, NEW payload, NEW verdict, NEW delay
  PROVE  Untouched(x, Enqueued(x, d, bytes, payload, verdict, delay))
<1> USE DEF Untouched
<1>1. CASE verdict = "bypass"
  BY <1>1 DEF Enqueued
<1>2. CASE verdict = "queue"
  BY <1>2, Zenon DEF Enqueued, IsPair, IsControl, IsEngine
<1>3. CASE verdict \notin {"bypass", "queue"}
  <2> DEFINE y == Enqueued(x, d, bytes, payload, verdict, delay)
  <2>1. PICK stats : y = [x EXCEPT !.control = [@ EXCEPT !.stats = stats]]
    BY <1>3, Zenon DEF Enqueued
  <2>2. /\ y.engine = x.engine /\ y.control = [x.control EXCEPT !.stats = stats]
        /\ y \in [control : {y.control}, engine : {y.engine}]
    BY <2>1 DEF IsPair
  <2> HIDE DEF y
  <2>3. /\ IsControl(y.control) /\ y.control.config = x.control.config
        /\ y.control.revision = x.control.revision
        /\ y.control.pending_outage = x.control.pending_outage
        /\ y.control.outage_active = x.control.outage_active
    BY <2>2 DEF IsPair, IsControl
  <2> QED
    BY <1>3, <2>2, <2>3 DEF IsPair, y
<1> QED
  BY <1>1, <1>2, <1>3

(* drain_ready on a synchronised pair touches counters and one queue.      *)
LEMMA DrainedOps ==
  ASSUME NEW x, IsPair(x), NEW d
  PROVE  LET y == Drained(x, d)
         IN  /\ Untouched(x, y)
             /\ y.engine.queues = [x.engine.queues EXCEPT ![d] =
                                     SubSeq(@, Len(Ready(x, d)) + 1, Len(@))]
<1> DEFINE y == Drained(x, d)
           rest == [x.engine.queues EXCEPT ![d] = SubSeq(@, Len(Ready(x, d)) + 1, Len(@))]
           stats == [x.control.stats EXCEPT ![d].queued_packets = @ - Len(Ready(x, d)),
                                            ![d].queued_bytes = @ - Bytes(Ready(x, d))]
<1>1. y = [control |-> [x.control EXCEPT !.stats = stats],
           engine |-> [x.engine EXCEPT !.queues = rest]]
  BY Zenon DEF Drained
<1> HIDE DEF y, rest, stats
<1>2. /\ y.control = [x.control EXCEPT !.stats = stats]
      /\ y.engine = [x.engine EXCEPT !.queues = rest]
      /\ y \in [control : {y.control}, engine : {y.engine}]
  BY <1>1
<1>3. /\ IsControl(y.control) /\ y.control.config = x.control.config
      /\ y.control.revision = x.control.revision
      /\ y.control.pending_outage = x.control.pending_outage
      /\ y.control.outage_active = x.control.outage_active
  BY <1>2 DEF IsPair, IsControl
<1>4. /\ IsEngine(y.engine) /\ y.engine.queues = rest
      /\ y.engine.revision = x.engine.revision
      /\ y.engine.last_now = x.engine.last_now
      /\ y.engine.outage_until = x.engine.outage_until
  BY <1>2 DEF IsPair, IsEngine
<1> QED
  BY <1>2, <1>3, <1>4 DEF IsPair, Untouched, y, rest

(* The queues keep what is true of their packets, and a drain returns only *)
(* packets that were queued and that are due.                              *)
LEMMA EnqueuedTyped ==
  ASSUME NEW x, IsPair(x), NEW d \in Direction, NEW bytes, NEW payload, NEW verdict,
         NEW delay, NEW S, \A e \in S : e.due \in Nat,
         x.engine.queues \in [Direction -> Seq(S)],
         [due |-> x.engine.last_now + delay, bytes |-> bytes, payload |-> payload] \in S
  PROVE  Enqueued(x, d, bytes, payload, verdict, delay).engine.queues
            \in [Direction -> Seq(S)]
<1> DEFINE p == [due |-> x.engine.last_now + delay, bytes |-> bytes, payload |-> payload]
           qs == x.engine.queues
<1>1. Inserted(qs[d], p) \in Seq(S)
  BY InsertedTyped
<1>2. CASE verdict = "queue"
  <2>1. Enqueued(x, d, bytes, payload, verdict, delay).engine.queues =
           [qs EXCEPT ![d] = Inserted(qs[d], p)]
    BY <1>2 DEF Enqueued, IsPair, IsEngine
  <2> HIDE DEF p
  <2> QED
    BY <1>1, <2>1
<1>3. CASE verdict # "queue"
  <2>1. Enqueued(x, d, bytes, payload, verdict, delay).engine = x.engine
    BY <1>3 DEF Enqueued, IsPair
  <2> QED
    BY <2>1
<1> QED
  BY <1>2, <1>3, Zenon

(* What stays and what comes out of a drain, in the same way.              *)
LEMMA DrainedTyped ==
  ASSUME NEW x, IsPair(x), NEW d \in Direction, NEW S, \A e \in S : e.due \in Nat,
         x.engine.queues \in [Direction -> Seq(S)], x.engine.last_now \in Nat
  PROVE  /\ Drained(x, d).engine.queues \in [Direction -> Seq(S)]
         /\ Range(Ready(x, d)) \subseteq {p \in S : p.due <= x.engine.last_now}
<1> DEFINE q == x.engine.queues[d]
<1>1. PICK n \in 0..Len(q) : /\ Ready(x, d) = SubSeq(q, 1, n)
                             /\ \A i \in 1..n : q[i].due <= x.engine.last_now
  BY ReadyIsDue, Zenon
<1>2. /\ Ready(x, d) \in Seq(S) /\ Len(Ready(x, d)) = n
      /\ \A i \in 1..n : Ready(x, d)[i] = q[i]
  BY <1>1, SubSeqIs
<1>3. SubSeq(q, n + 1, Len(q)) \in Seq(S)
  BY <1>1, SubSeqIs
<1>4. Drained(x, d).engine.queues \in [Direction -> Seq(S)]
  <2>1. Drained(x, d).engine.queues =
           [x.engine.queues EXCEPT ![d] = SubSeq(@, Len(Ready(x, d)) + 1, Len(@))]
    BY DrainedOps, Zenon
  <2> QED
    BY <1>2, <1>3, <2>1
<1>5. Range(Ready(x, d)) \subseteq {p \in S : p.due <= x.engine.last_now}
  BY <1>1, <1>2 DEF Range
<1> QED
  BY <1>4, <1>5
-----------------------------------------------------------------------------
(* The statistics of one direction.                                        *)
Stats == [queued_packets : Nat, queued_bytes : Nat, loss_drops : Nat,
          outage_drops : Nat, overflow_drops : Nat, transition_drops : Nat]

(* The limits of a configuration are counts (usize).                       *)
Limited(config) == config.max_queue_packets \in Nat /\ config.max_queue_bytes \in Nat

(* What an engine may hold, by the size of the packets.                    *)
Sized(S) == \A e \in S : e.due \in Nat /\ e.bytes \in Nat

(* An empty queue holds no bytes.                                          *)
LEMMA BytesEmpty == Bytes(<<>>) = 0
<1>1. <<>> \in Seq({}) /\ Len(<<>>) = 0
  OBVIOUS
<1>2. Bytes(<<>>) = Prefix(<<>>, Len(<<>>)) /\ Prefix(<<>>, 0) = 0
  BY <1>1, PrefixIs, Zenon
<1> QED
  BY <1>1, <1>2

(* discard_queues loses no packet from the accounts.                       *)
LEMMA DiscardQueuesOps ==
  ASSUME NEW stats \in [Direction -> Stats]
  PROVE  /\ DiscardQueues(stats) \in [Direction -> Stats]
         /\ \A d \in Direction :
               /\ DiscardQueues(stats)[d].queued_packets = 0
               /\ DiscardQueues(stats)[d].queued_bytes = 0
               /\ Accounted(DiscardQueues(stats), d) = Accounted(stats, d)
<1> SUFFICES ASSUME NEW d \in Direction
             PROVE  /\ DiscardQueues(stats)[d] \in Stats
                    /\ DiscardQueues(stats)[d].queued_packets = 0
                    /\ DiscardQueues(stats)[d].queued_bytes = 0
                    /\ Accounted(DiscardQueues(stats), d) = Accounted(stats, d)
  BY Zenon DEF DiscardQueues
<1> DEFINE s == stats[d]
           z == DiscardQueues(stats)[d]
           n == s.transition_drops + s.queued_packets
<1>1. s \in Stats
  OBVIOUS
<1>2. z = [s EXCEPT !.transition_drops = n, !.queued_packets = 0, !.queued_bytes = 0]
  BY DEF DiscardQueues
<1>3. /\ s.queued_packets \in Nat /\ s.loss_drops \in Nat /\ s.outage_drops \in Nat
      /\ s.overflow_drops \in Nat /\ s.transition_drops \in Nat /\ n \in Nat
  BY <1>1 DEF Stats
<1> HIDE DEF s, z
<1>4. z.loss_drops + z.outage_drops + z.overflow_drops + z.transition_drops
         = s.loss_drops + s.outage_drops + s.overflow_drops + n
  <2> HIDE DEF n
  <2> QED
    BY <1>1, <1>2 DEF Stats
<1>5. z \in Stats /\ z.queued_packets = 0 /\ z.queued_bytes = 0
  <2> HIDE DEF n
  <2> QED
    BY <1>1, <1>2, <1>3, Zenon DEF Stats
<1>6. /\ Accounted(DiscardQueues(stats), d) = z.queued_packets + z.loss_drops
            + z.outage_drops + z.overflow_drops + z.transition_drops
      /\ Accounted(stats, d) = s.queued_packets + s.loss_drops + s.outage_drops
            + s.overflow_drops + s.transition_drops
  BY DEF Accounted, z, s
<1>7. /\ z.loss_drops \in Nat /\ z.outage_drops \in Nat /\ z.overflow_drops \in Nat
      /\ z.transition_drops \in Nat
  BY <1>5 DEF Stats
<1> QED
  BY <1>3, <1>4, <1>5, <1>6, <1>7 DEF z

(* A fresh session has seen no packet.                                     *)
LEMMA FreshStatsOps ==
  /\ FreshStats \in [Direction -> Stats]
  /\ \A d \in Direction : /\ FreshStats[d].queued_packets = 0
                          /\ FreshStats[d].queued_bytes = 0
                          /\ Accounted(FreshStats, d) = 0
  BY DEF FreshStats, NoStats, Stats, Accounted

(* Counters that were emptied match the queues the next poll will leave.   *)
LEMMA EmptiedCounts ==
  ASSUME NEW x, ~InStep(x),
         \A d \in Direction : /\ x.control.stats[d].queued_packets = 0
                              /\ x.control.stats[d].queued_bytes = 0
  PROVE  CountersMatch(x) /\ WithinLimits(x)
  BY BytesEmpty DEF CountersMatch, WithinLimits

(* sync: the counters match the queues that are left.                      *)
LEMMA SyncedCounts ==
  ASSUME NEW x, IsPair(x), NEW t, CountersMatch(x), WithinLimits(x),
         Limited(x.control.config)
  PROVE  InStep(Synced(x, t)) /\ CountersMatch(Synced(x, t)) /\ WithinLimits(Synced(x, t))
<1> DEFINE y == Synced(x, t)
<1>1. /\ y.control.config = x.control.config /\ y.control.stats = x.control.stats
      /\ y.engine.queues = SyncedQueues(x)
      /\ y.engine.revision = x.control.revision
      /\ y.control.revision = x.control.revision
  BY SyncedOps, Zenon
<1> HIDE DEF y
<1>2. InStep(y)
  BY <1>1 DEF InStep
<1>3. ASSUME NEW d \in Direction
      PROVE  /\ y.control.stats[d].queued_packets = Len(y.engine.queues[d])
             /\ y.control.stats[d].queued_bytes = Bytes(y.engine.queues[d])
             /\ Len(y.engine.queues[d]) <= y.control.config.max_queue_packets
             /\ Bytes(y.engine.queues[d]) <= y.control.config.max_queue_bytes
  <2>1. CASE InStep(x)
    <3>1. y.engine.queues = x.engine.queues
      BY <1>1, <2>1 DEF SyncedQueues, InStep
    <3> QED
      BY <1>1, <2>1, <3>1 DEF CountersMatch, WithinLimits
  <2>2. CASE ~InStep(x)
    <3>1. y.engine.queues[d] = <<>>
      BY <1>1, <2>2 DEF SyncedQueues, InStep, EmptyQueues
    <3>2. Len(<<>>) = 0 /\ Bytes(<<>>) = 0
      BY BytesEmpty
    <3> QED
      BY <1>1, <2>2, <3>1, <3>2 DEF CountersMatch, Limited
  <2> QED
    BY <2>1, <2>2
<1> QED
  BY <1>2, <1>3 DEF CountersMatch, WithinLimits, y

(* A step that touches one direction only has to be right there.           *)
LEMMA OneDirection ==
  ASSUME NEW x, NEW y, NEW d, InStep(x), InStep(y), CountersMatch(x), WithinLimits(x),
         y.control.config = x.control.config,
         \A e \in Direction \ {d} : /\ y.control.stats[e] = x.control.stats[e]
                                    /\ y.engine.queues[e] = x.engine.queues[e],
         y.control.stats[d].queued_packets = Len(y.engine.queues[d]),
         y.control.stats[d].queued_bytes = Bytes(y.engine.queues[d]),
         Len(y.engine.queues[d]) <= x.control.config.max_queue_packets,
         Bytes(y.engine.queues[d]) <= x.control.config.max_queue_bytes
  PROVE  CountersMatch(y) /\ WithinLimits(y)
<1> SUFFICES ASSUME NEW e \in Direction
             PROVE  /\ y.control.stats[e].queued_packets = Len(y.engine.queues[e])
                    /\ y.control.stats[e].queued_bytes = Bytes(y.engine.queues[e])
                    /\ Len(y.engine.queues[e]) <= x.control.config.max_queue_packets
                    /\ Bytes(y.engine.queues[e]) <= x.control.config.max_queue_bytes
  BY DEF CountersMatch, WithinLimits
<1>1. CASE e = d
  BY <1>1
<1>2. CASE e # d
  BY <1>2 DEF CountersMatch, WithinLimits
<1> QED
  BY <1>1, <1>2

(* A sum of counters is a natural number.                                  *)
LEMMA AccountedTyped ==
  ASSUME NEW stats \in [Direction -> Stats], NEW d \in Direction
  PROVE  Accounted(stats, d) \in Nat
<1> DEFINE s == stats[d]
<1>1. s \in Stats
  OBVIOUS
<1> HIDE DEF s
<1>2. /\ s.queued_packets \in Nat /\ s.loss_drops \in Nat /\ s.outage_drops \in Nat
      /\ s.overflow_drops \in Nat /\ s.transition_drops \in Nat
  BY <1>1 DEF Stats
<1> QED
  BY <1>2 DEF Accounted, s

Bumped(stats, d, f) == [stats EXCEPT ![d][f] = @ + 1]

WithQueue(stats, d, n, b) ==
    [stats EXCEPT ![d].queued_packets = n, ![d].queued_bytes = b]

(* One counter of one direction goes up.                                   *)
LEMMA CountUp ==
  ASSUME NEW stats \in [Direction -> Stats], NEW d \in Direction,
         NEW f \in {"loss_drops", "outage_drops", "overflow_drops"}
  PROVE  LET z == Bumped(stats, d, f)
         IN  /\ z \in [Direction -> Stats]
             /\ Accounted(z, d) = Accounted(stats, d) + 1
             /\ z[d].queued_packets = stats[d].queued_packets
             /\ z[d].queued_bytes = stats[d].queued_bytes
             /\ \A e \in Direction \ {d} : z[e] = stats[e]
<1> DEFINE s == stats[d]
           n == s[f] + 1
           u == [s EXCEPT ![f] = n]
           z == [stats EXCEPT ![d] = u]
<1>1. s \in Stats
  OBVIOUS
<1>2. Bumped(stats, d, f) = z
  BY DEF Bumped
<1>3. /\ s.queued_packets \in Nat /\ s.loss_drops \in Nat /\ s.outage_drops \in Nat
      /\ s.overflow_drops \in Nat /\ s.transition_drops \in Nat /\ n \in Nat
  BY <1>1 DEF Stats
<1> HIDE DEF s
<1>4. /\ u \in Stats /\ u.queued_packets = s.queued_packets
      /\ u.queued_bytes = s.queued_bytes /\ u.transition_drops = s.transition_drops
      /\ \A g \in {"loss_drops", "outage_drops", "overflow_drops"} :
            u[g] = IF g = f THEN n ELSE s[g]
  <2> HIDE DEF n
  <2> QED
    BY <1>1, <1>3 DEF Stats
<1>5. u.loss_drops + u.outage_drops + u.overflow_drops
         = s.loss_drops + s.outage_drops + s.overflow_drops + 1
  <2> HIDE DEF u
  <2>1. CASE f = "loss_drops"
    BY <1>3, <1>4, <2>1
  <2>2. CASE f = "outage_drops"
    BY <1>3, <1>4, <2>2
  <2>3. CASE f = "overflow_drops"
    BY <1>3, <1>4, <2>3
  <2> QED
    BY <2>1, <2>2, <2>3
<1> HIDE DEF u
<1>6. z \in [Direction -> Stats] /\ z[d] = u /\ \A e \in Direction \ {d} : z[e] = stats[e]
  BY <1>4
<1>7. u.loss_drops \in Nat /\ u.outage_drops \in Nat /\ u.overflow_drops \in Nat
  BY <1>4 DEF Stats
<1> HIDE DEF z
<1>8. Accounted(z, d) = Accounted(stats, d) + 1
  <2>1. /\ Accounted(z, d) = s.queued_packets + u.loss_drops + u.outage_drops
                                + u.overflow_drops + s.transition_drops
        /\ Accounted(stats, d) = s.queued_packets + s.loss_drops + s.outage_drops
                                + s.overflow_drops + s.transition_drops
    BY <1>4, <1>6 DEF Accounted, s
  <2> QED
    BY <1>3, <1>5, <1>7, <2>1
<1> QED
  BY <1>2, <1>4, <1>6, <1>8 DEF s

(* The counters of one queue move with it.                                 *)
LEMMA CountQueue ==
  ASSUME NEW stats \in [Direction -> Stats], NEW d \in Direction,
         NEW n \in Nat, NEW b \in Nat
  PROVE  LET z == WithQueue(stats, d, n, b)
         IN  /\ z \in [Direction -> Stats]
             /\ Accounted(z, d) + stats[d].queued_packets = Accounted(stats, d) + n
             /\ z[d].queued_packets = n /\ z[d].queued_bytes = b
             /\ \A e \in Direction \ {d} : z[e] = stats[e]
<1> DEFINE s == stats[d]
           u == [s EXCEPT !.queued_packets = n, !.queued_bytes = b]
           z == [stats EXCEPT ![d] = u]
<1>1. s \in Stats
  OBVIOUS
<1>2. WithQueue(stats, d, n, b) = z
  BY Zenon DEF WithQueue
<1>3. /\ s.queued_packets \in Nat /\ s.loss_drops \in Nat /\ s.outage_drops \in Nat
      /\ s.overflow_drops \in Nat /\ s.transition_drops \in Nat
  BY <1>1 DEF Stats
<1> HIDE DEF s
<1>4. /\ u \in Stats /\ u.queued_packets = n /\ u.queued_bytes = b
      /\ u.loss_drops = s.loss_drops /\ u.outage_drops = s.outage_drops
      /\ u.overflow_drops = s.overflow_drops /\ u.transition_drops = s.transition_drops
  BY <1>1, Zenon DEF Stats
<1> HIDE DEF u
<1>5. z \in [Direction -> Stats] /\ z[d] = u /\ \A e \in Direction \ {d} : z[e] = stats[e]
  BY <1>4
<1> HIDE DEF z
<1>6. Accounted(z, d) + s.queued_packets = Accounted(stats, d) + n
  BY <1>3, <1>4, <1>5 DEF Accounted, s
<1> QED
  BY <1>2, <1>4, <1>5, <1>6 DEF s

CountsInserted(stats, d, q, p) ==
    LET z == WithQueue(stats, d, Len(q) + 1, Bytes(q) + p.bytes)
        r == Inserted(q, p)
    IN  /\ z \in [Direction -> Stats]
        /\ Accounted(z, d) = Accounted(stats, d) + 1
        /\ z[d].queued_packets = Len(r) /\ z[d].queued_bytes = Bytes(r)
        /\ Len(r) = Len(q) + 1 /\ Bytes(r) = Bytes(q) + p.bytes
        /\ \A e \in Direction \ {d} : z[e] = stats[e]

(* A queued packet is counted in its queue and nowhere else.               *)
LEMMA CountInserted ==
  ASSUME NEW stats \in [Direction -> Stats], NEW d \in Direction, NEW S, Sized(S),
         NEW q \in Seq(S), NEW p \in S,
         stats[d].queued_packets = Len(q), stats[d].queued_bytes = Bytes(q)
  PROVE  CountsInserted(stats, d, q, p)
<1> DEFINE n == Len(q) + 1
           b == Bytes(q) + p.bytes
           z == WithQueue(stats, d, n, b)
<1>1. \A e \in S : e.due \in Nat /\ e.bytes \in Nat
  BY DEF Sized
<1>2. Bytes(q) \in Nat
  BY <1>1, BytesTyped
<1>3. n \in Nat /\ b \in Nat
  BY <1>1, <1>2
<1>4. Len(Inserted(q, p)) = n /\ Bytes(Inserted(q, p)) = b
  BY <1>1, InsertedOps
<1>5. /\ z \in [Direction -> Stats]
      /\ Accounted(z, d) + stats[d].queued_packets = Accounted(stats, d) + n
      /\ z[d].queued_packets = n /\ z[d].queued_bytes = b
      /\ \A e \in Direction \ {d} : z[e] = stats[e]
  <2> HIDE DEF n, b
  <2> QED
    BY <1>3, CountQueue
<1> HIDE DEF z
<1>6. Accounted(z, d) \in Nat /\ Accounted(stats, d) \in Nat
  BY <1>5, AccountedTyped
<1>7. Accounted(z, d) = Accounted(stats, d) + 1
  BY <1>5, <1>6
<1> QED
  BY <1>4, <1>5, <1>7 DEF z, CountsInserted

EnqueueCounted(x, y, d, verdict) ==
    /\ y.control.stats \in [Direction -> Stats]
    /\ CountersMatch(y) /\ WithinLimits(y)
    /\ \A e \in Direction \ {d} : /\ y.control.stats[e] = x.control.stats[e]
                                  /\ y.engine.queues[e] = x.engine.queues[e]
    /\ Accounted(y.control.stats, d) =
          Accounted(x.control.stats, d) + (IF verdict = "bypass" THEN 0 ELSE 1)

(* enqueue counts the packet exactly once, unless it passes by, and stays  *)
(* within the limits.                                                      *)
LEMMA EnqueuedCounts ==
  ASSUME NEW x, IsPair(x), NEW d \in Direction, NEW bytes \in Nat, NEW payload,
         NEW verdict, NEW lost, NEW delay, NEW S, Sized(S),
         InStep(x), CountersMatch(x), WithinLimits(x),
         x.control.stats \in [Direction -> Stats], Limited(x.control.config),
         x.engine.queues \in [Direction -> Seq(S)],
         [due |-> x.engine.last_now + delay, bytes |-> bytes, payload |-> payload] \in S,
         verdict = Verdict(x, d, bytes, lost)
  PROVE  EnqueueCounted(x, Enqueued(x, d, bytes, payload, verdict, delay), d, verdict)
<1> DEFINE y == Enqueued(x, d, bytes, payload, verdict, delay)
           p == [due |-> x.engine.last_now + delay, bytes |-> bytes, payload |-> payload]
           stats == x.control.stats
           qs == x.engine.queues
           q == qs[d]
           config == x.control.config
<1>1. /\ y.control.config = config /\ y.control.revision = x.control.revision
      /\ y.engine.revision = x.engine.revision
  <2>1. Untouched(x, y)
    BY EnqueuedOps
  <2> QED
    BY <2>1 DEF Untouched
<1>2. InStep(y)
  BY <1>1, Zenon DEF InStep
<1>3. /\ stats[d].queued_packets = Len(q) /\ stats[d].queued_bytes = Bytes(q)
      /\ Len(q) <= config.max_queue_packets /\ Bytes(q) <= config.max_queue_bytes
  BY DEF CountersMatch, WithinLimits
<1>4. Len(q) \in Nat /\ Bytes(q) \in Nat
  BY BytesTyped DEF Sized
<1>5. Accounted(stats, d) \in Nat
  BY AccountedTyped, Zenon
<1>6. CASE verdict = "bypass"
  <2>1. y = x
    BY <1>6 DEF Enqueued
  <2> QED
    BY <1>5, <1>6, <2>1 DEF EnqueueCounted
<1>7. CASE verdict = "queue"
  <2> DEFINE z == WithQueue(stats, d, Len(q) + 1, Bytes(q) + p.bytes)
             r == Inserted(q, p)
  <2>1. ~Full(x, d, bytes)
    BY <1>7, Zenon DEF Verdict
  <2>2. Len(q) + 1 <= config.max_queue_packets /\ Bytes(q) + bytes <= config.max_queue_bytes
    <3>1. /\ ~(Len(q) >= config.max_queue_packets)
          /\ ~(bytes > Later(0, config.max_queue_bytes - Bytes(q)))
      BY <1>3, <2>1, Zenon DEF Full
    <3>2. config.max_queue_packets \in Nat /\ config.max_queue_bytes \in Nat
      BY Zenon DEF Limited
    <3>3. Bytes(q) <= config.max_queue_bytes
      BY <1>3, Zenon
    <3> HIDE DEF config, q
    <3> QED
      BY <1>4, <3>1, <3>2, <3>3 DEF Later
  <2>3. y.control.stats = z
    BY <1>3, <1>7, Zenon DEF Enqueued, IsPair, IsControl, WithQueue
  <2>4. y.engine.queues = [qs EXCEPT ![d] = r]
    BY <1>7 DEF Enqueued, IsPair, IsEngine
  <2>5. /\ p \in S /\ p.bytes = bytes /\ q \in Seq(S)
        /\ stats \in [Direction -> Stats] /\ qs \in [Direction -> Seq(S)]
    OBVIOUS
  <2> HIDE DEF y, p, stats, q
  <2>6. /\ z \in [Direction -> Stats]
        /\ Accounted(z, d) = Accounted(stats, d) + 1
        /\ z[d].queued_packets = Len(r) /\ z[d].queued_bytes = Bytes(r)
        /\ Len(r) = Len(q) + 1 /\ Bytes(r) = Bytes(q) + p.bytes
        /\ \A e \in Direction \ {d} : z[e] = stats[e]
    <3>1. stats[d].queued_packets = Len(q) /\ stats[d].queued_bytes = Bytes(q)
      BY <1>3
    <3>2. p \in S /\ q \in Seq(S) /\ stats \in [Direction -> Stats]
      BY <2>5
    <3>3. CountsInserted(stats, d, q, p)
      BY <3>1, <3>2, CountInserted
    <3> QED
      BY <3>3, Zenon DEF CountsInserted
  <2> HIDE DEF r, z, qs
  <2>7. y.engine.queues[d] = r /\ \A e \in Direction \ {d} : y.engine.queues[e] = qs[e]
    BY <2>4, <2>5
  <2>8. CountersMatch(y) /\ WithinLimits(y)
    <3>1. /\ y.control.stats[d].queued_packets = Len(y.engine.queues[d])
          /\ y.control.stats[d].queued_bytes = Bytes(y.engine.queues[d])
          /\ Len(y.engine.queues[d]) <= config.max_queue_packets
          /\ Bytes(y.engine.queues[d]) <= config.max_queue_bytes
          /\ \A e \in Direction \ {d} : /\ y.control.stats[e] = x.control.stats[e]
                                        /\ y.engine.queues[e] = x.engine.queues[e]
      BY <2>2, <2>3, <2>5, <2>6, <2>7, Zenon DEF stats, qs
    <3> QED
      BY <1>1, <1>2, <3>1, OneDirection, Zenon
  <2> QED
    BY <1>7, <2>3, <2>6, <2>7, <2>8, Zenon DEF y, stats, qs, EnqueueCounted
<1>8. CASE verdict \notin {"bypass", "queue"}
  <2>1. verdict \in {"loss_drops", "outage_drops", "overflow_drops"}
    BY <1>8 DEF Verdict
  <2> DEFINE z == Bumped(stats, d, verdict)
  <2>2. y = [x EXCEPT !.control.stats[d][verdict] = @ + 1]
    BY <1>8, Zenon DEF Enqueued
  <2>3. y.control.stats = z /\ y.engine.queues = qs
    BY <2>2, Zenon DEF IsPair, IsControl, Bumped
  <2>4. /\ z \in [Direction -> Stats]
        /\ Accounted(z, d) = Accounted(stats, d) + 1
        /\ z[d].queued_packets = stats[d].queued_packets
        /\ z[d].queued_bytes = stats[d].queued_bytes
        /\ \A e \in Direction \ {d} : z[e] = stats[e]
    BY <2>1, CountUp, Zenon
  <2> HIDE DEF y, z
  <2>5. CountersMatch(y) /\ WithinLimits(y)
    <3>1. /\ y.control.stats[d].queued_packets = Len(y.engine.queues[d])
          /\ y.control.stats[d].queued_bytes = Bytes(y.engine.queues[d])
          /\ Len(y.engine.queues[d]) <= config.max_queue_packets
          /\ Bytes(y.engine.queues[d]) <= config.max_queue_bytes
          /\ \A e \in Direction \ {d} : /\ y.control.stats[e] = stats[e]
                                        /\ y.engine.queues[e] = qs[e]
      BY <1>3, <2>3, <2>4, Zenon
    <3> QED
      BY <1>1, <1>2, <3>1, OneDirection, Zenon
  <2> QED
    BY <1>8, <2>3, <2>4, <2>5, Zenon DEF y, EnqueueCounted
<1> QED
  BY <1>6, <1>7, <1>8

CountsRest(stats, d, q, n) ==
    LET z == WithQueue(stats, d, Len(q) - n, Bytes(q) - Bytes(SubSeq(q, 1, n)))
        r == SubSeq(q, n + 1, Len(q))
    IN  /\ z \in [Direction -> Stats]
        /\ Accounted(z, d) + n = Accounted(stats, d)
        /\ z[d].queued_packets = Len(r) /\ z[d].queued_bytes = Bytes(r)
        /\ Len(r) <= Len(q) /\ Bytes(r) <= Bytes(q)
        /\ \A e \in Direction \ {d} : z[e] = stats[e]

(* Packets that leave a queue leave its counters.                          *)
LEMMA CountRest ==
  ASSUME NEW stats \in [Direction -> Stats], NEW d \in Direction, NEW S, Sized(S),
         NEW q \in Seq(S), NEW n \in 0..Len(q),
         stats[d].queued_packets = Len(q), stats[d].queued_bytes = Bytes(q)
  PROVE  CountsRest(stats, d, q, n)
<1> DEFINE m == Len(q) - n
           b == Bytes(q) - Bytes(SubSeq(q, 1, n))
           z == WithQueue(stats, d, m, b)
           r == SubSeq(q, n + 1, Len(q))
<1>1. \A e \in S : e.due \in Nat /\ e.bytes \in Nat
  BY DEF Sized
<1>2. /\ Len(r) = Len(q) - n /\ Bytes(r) \in Nat /\ Bytes(SubSeq(q, 1, n)) \in Nat
      /\ Bytes(q) = Bytes(SubSeq(q, 1, n)) + Bytes(r)
  BY <1>1, RestOps
<1>3. m \in Nat /\ b \in Nat /\ Len(r) = m /\ Bytes(r) = b /\ m <= Len(q) /\ b <= Bytes(q)
  BY <1>2
<1>4. /\ z \in [Direction -> Stats]
      /\ Accounted(z, d) + stats[d].queued_packets = Accounted(stats, d) + m
      /\ z[d].queued_packets = m /\ z[d].queued_bytes = b
      /\ \A e \in Direction \ {d} : z[e] = stats[e]
  <2> HIDE DEF m, b
  <2> QED
    BY <1>3, CountQueue
<1> HIDE DEF z
<1>5. Accounted(z, d) \in Nat /\ Accounted(stats, d) \in Nat
  BY <1>4, AccountedTyped
<1>6. Accounted(z, d) + n = Accounted(stats, d)
  <2>1. Accounted(z, d) + Len(q) = Accounted(stats, d) + (Len(q) - n)
    BY <1>4, Zenon
  <2>2. \A a, c, k \in Nat : a + k = c + (k - n) => a + n = c
    OBVIOUS
  <2>3. Len(q) \in Nat
    OBVIOUS
  <2> QED
    BY <1>5, <2>1, <2>2, <2>3, Zenon
<1> QED
  BY <1>3, <1>4, <1>6 DEF z, CountsRest

DrainCounted(x, y, d, n) ==
    /\ y.control.stats \in [Direction -> Stats]
    /\ CountersMatch(y) /\ WithinLimits(y)
    /\ \A e \in Direction \ {d} : /\ y.control.stats[e] = x.control.stats[e]
                                  /\ y.engine.queues[e] = x.engine.queues[e]
    /\ n \in 0..Len(x.engine.queues[d])
    /\ \A i \in 1..n : x.engine.queues[d][i].due <= x.engine.last_now
    /\ y.engine.queues[d] = SubSeq(x.engine.queues[d], n + 1, Len(x.engine.queues[d]))
    /\ Accounted(y.control.stats, d) + n = Accounted(x.control.stats, d)

(* drain_ready takes what it pops out of the counters of its queue, the    *)
(* packets at the front, which are due.                                    *)
LEMMA DrainedCounts ==
  ASSUME NEW x, IsPair(x), NEW d \in Direction, NEW S, Sized(S),
         InStep(x), CountersMatch(x), WithinLimits(x), x.engine.last_now \in Nat,
         x.control.stats \in [Direction -> Stats], Limited(x.control.config),
         x.engine.queues \in [Direction -> Seq(S)]
  PROVE  DrainCounted(x, Drained(x, d), d, Len(Ready(x, d)))
<1> DEFINE y == Drained(x, d)
           stats == x.control.stats
           qs == x.engine.queues
           q == qs[d]
           config == x.control.config
<1>1. /\ y.control.config = config /\ y.control.revision = x.control.revision
      /\ y.engine.revision = x.engine.revision
      /\ y.engine.queues = [qs EXCEPT ![d] = SubSeq(@, Len(Ready(x, d)) + 1, Len(@))]
  <2>1. Untouched(x, y) /\ y.engine.queues =
           [qs EXCEPT ![d] = SubSeq(@, Len(Ready(x, d)) + 1, Len(@))]
    BY DrainedOps, Zenon
  <2> HIDE DEF y
  <2> QED
    BY <2>1, Zenon DEF Untouched
<1>2. InStep(y)
  BY <1>1 DEF InStep
<1>3. /\ stats[d].queued_packets = Len(q) /\ stats[d].queued_bytes = Bytes(q)
      /\ Len(q) <= config.max_queue_packets /\ Bytes(q) <= config.max_queue_bytes
  BY DEF CountersMatch, WithinLimits
<1>4. q \in Seq(S) /\ \A e \in S : e.due \in Nat /\ e.bytes \in Nat
  BY DEF Sized
<1>5. PICK n \in 0..Len(q) : /\ Ready(x, d) = SubSeq(q, 1, n)
                             /\ \A i \in 1..n : q[i].due <= x.engine.last_now
  BY <1>4, ReadyIsDue, Zenon
<1>6. Len(Ready(x, d)) = n
  BY <1>4, <1>5, SubSeqIs
<1> DEFINE z == WithQueue(stats, d, Len(q) - n, Bytes(q) - Bytes(SubSeq(q, 1, n)))
           r == SubSeq(q, n + 1, Len(q))
<1>7. y.control.stats = z
  <2>1. y.control.stats = [stats EXCEPT ![d].queued_packets = @ - Len(Ready(x, d)),
                                        ![d].queued_bytes = @ - Bytes(Ready(x, d))]
    BY Zenon DEF Drained, IsPair, IsControl
  <2> QED
    BY <1>3, <1>5, <1>6, <2>1 DEF WithQueue
<1>8. y.engine.queues[d] = r /\ \A e \in Direction \ {d} : y.engine.queues[e] = qs[e]
  BY <1>1, <1>6
<1>9. stats \in [Direction -> Stats]
  OBVIOUS
<1> HIDE DEF y, stats, q
<1>10. CountsRest(stats, d, q, n)
  <2>1. stats[d].queued_packets = Len(q) /\ stats[d].queued_bytes = Bytes(q)
    BY <1>3
  <2>2. q \in Seq(S)
    BY <1>4
  <2> QED
    BY <1>9, <2>1, <2>2, CountRest, Zenon
<1>11. /\ z \in [Direction -> Stats] /\ Accounted(z, d) + n = Accounted(stats, d)
       /\ z[d].queued_packets = Len(r) /\ z[d].queued_bytes = Bytes(r)
       /\ Len(r) <= Len(q) /\ Bytes(r) <= Bytes(q)
       /\ \A e \in Direction \ {d} : z[e] = stats[e]
  BY <1>10 DEF CountsRest
<1>12. Len(r) \in Nat /\ Bytes(r) \in Nat /\ Len(q) \in Nat /\ Bytes(q) \in Nat
  BY <1>4, RestOps, BytesTyped
<1> HIDE DEF r, z
<1>13. CountersMatch(y) /\ WithinLimits(y)
  <2>1. Len(r) <= config.max_queue_packets /\ Bytes(r) <= config.max_queue_bytes
    <3>1. \A i, j, k \in Nat : i <= j /\ j <= k => i <= k
      OBVIOUS
    <3>2. config.max_queue_packets \in Nat /\ config.max_queue_bytes \in Nat
      BY DEF Limited
    <3> HIDE DEF config
    <3> QED
      BY <1>3, <1>11, <1>12, <3>1, <3>2, Zenon
  <2>2. /\ y.control.stats[d].queued_packets = Len(y.engine.queues[d])
        /\ y.control.stats[d].queued_bytes = Bytes(y.engine.queues[d])
        /\ Len(y.engine.queues[d]) <= config.max_queue_packets
        /\ Bytes(y.engine.queues[d]) <= config.max_queue_bytes
        /\ \A e \in Direction \ {d} : /\ y.control.stats[e] = x.control.stats[e]
                                      /\ y.engine.queues[e] = x.engine.queues[e]
    BY <1>7, <1>8, <1>11, <2>1 DEF stats
  <2> QED
    BY <1>1, <1>2, <2>2, OneDirection, Zenon
<1> QED
  BY <1>5, <1>6, <1>7, <1>8, <1>11, <1>13, Zenon DEF y, stats, q, r, DrainCounted

=============================================================================

-------------------------- MODULE AuthoringProofs --------------------------
(***************************************************************************)
(* Proofs about module Authoring, for all files, codes and bounds: what is *)
(* recorded is what was played, every edit and every recording keeps the   *)
(* macro in the shape a file can give back, and the banner warns of every  *)
(* macro that goes wrong when it is played.                                *)
(***************************************************************************)
EXTENDS Authoring, SequenceTheorems, FunctionTheorems, FiniteSetTheorems,
        WellFoundedInduction, TLAPS

-----------------------------------------------------------------------------
(* The elements that are kept of a sequence. *)

LEMMA PlacesAreFinite ==
    ASSUME NEW m \in Nat
    PROVE  IsFiniteSet(1 .. m) /\ Cardinality(1 .. m) = m
  <1>1. 1 \in Int /\ m \in Int
    OBVIOUS
  <1>2. IsFiniteSet(1 .. m) /\ Cardinality(1 .. m) = IF 1 > m THEN 0 ELSE m - 1 + 1
    BY <1>1, FS_Interval
  <1> DEFINE c == Cardinality(1 .. m)
  <1>3. c = IF 1 > m THEN 0 ELSE m - 1 + 1
    BY <1>2
  <1> HIDE DEF c
  <1>4. c = m
    BY <1>3
  <1> QED
    BY <1>2, <1>4 DEF c

LEMMA SomePlaces ==
    ASSUME NEW m \in Nat, NEW P \in SUBSET (1 .. m)
    PROVE  IsFiniteSet(P) /\ Cardinality(P) \in Nat
  <1>1. IsFiniteSet(1 .. m)
    BY PlacesAreFinite
  <1>2. IsFiniteSet(P)
    BY <1>1, FS_Subset
  <1> QED
    BY <1>2, FS_CardinalityType

\* Every rank up to their number is the rank of one of the places.
LEMMA HasRank ==
    ASSUME NEW m \in Nat, NEW P \in SUBSET (1 .. m), NEW n \in 1 .. Cardinality(P)
    PROVE  \E i \in P : Cardinality({j \in P : j <= i}) = n
  <1> DEFINE U(i) == {j \in P : j <= i}
             N == Cardinality(P)
             r == [i \in P |-> Cardinality(U(i))]
  <1>1. IsFiniteSet(P) /\ N \in Nat
    BY SomePlaces
  <1>2. ASSUME NEW i \in P
        PROVE  /\ IsFiniteSet(U(i)) /\ Cardinality(U(i)) \in 1 .. N
    <2>1. U(i) \in SUBSET P /\ U(i) # {}
      <3>1. i \in Nat
        OBVIOUS
      <3>2. i <= i
        BY <3>1
      <3> QED
        BY <3>2
    <2> DEFINE V == U(i)
    <2> HIDE DEF U
    <2>2. IsFiniteSet(V) /\ Cardinality(V) <= Cardinality(P)
      <3>1. IsFiniteSet(P) /\ V \in SUBSET P
        BY <1>1, <2>1
      <3> HIDE DEF V
      <3> QED
        BY <3>1, FS_Subset
    <2>3. Cardinality(V) \in Nat /\ Cardinality(V) # 0
      <3>1. IsFiniteSet(V) /\ V # {}
        BY <2>1, <2>2
      <3> HIDE DEF V
      <3> QED
        BY <3>1, FS_CardinalityType, FS_EmptySet
    <2> DEFINE c == Cardinality(V)
    <2>4. c \in Nat /\ c # 0 /\ c <= N
      BY <2>2, <2>3
    <2>5. c \in 1 .. N
      <3> HIDE DEF c, N
      <3> QED
        BY <1>1, <2>4
    <2> QED
      BY <2>2, <2>5
  <1>3. ASSUME NEW i \in P, NEW k \in P, i < k
        PROVE  Cardinality(U(i)) # Cardinality(U(k))
    <2>1. i \in Nat /\ k \in Nat /\ \A j \in P : j \in Nat
      OBVIOUS
    <2>2. \A j \in P : j <= i => j <= k
      BY <1>3, <2>1
    <2>3. k <= k /\ ~(k <= i)
      BY <1>3, <2>1
    <2>4. U(i) \in SUBSET U(k) /\ k \in U(k) /\ k \notin U(i)
      BY <2>2, <2>3
    <2> DEFINE V == U(i)
               W == U(k)
    <2>5. IsFiniteSet(W) /\ V \in SUBSET W /\ V # W
      BY <1>2, <2>4
    <2> HIDE DEF V, W
    <2>6. Cardinality(W) # Cardinality(V)
      BY <2>5, FS_Subset
    <2> QED
      BY <2>6 DEF V, W
  <1> HIDE DEF U, N
  <1>4. r \in [P -> 1 .. N] /\ \A i \in P : r[i] = Cardinality(U(i))
    BY <1>2
  <1>5. ASSUME NEW i \in P, NEW k \in P, r[i] = r[k] PROVE i = k
    <2>1. Cardinality(U(i)) = Cardinality(U(k))
      BY <1>4, <1>5
    <2>2. ~(i < k) /\ ~(k < i)
      BY <1>3, <2>1
    <2>3. i \in Nat /\ k \in Nat
      OBVIOUS
    <2> QED
      BY <2>2, <2>3
  <1> HIDE DEF r
  <1>6. r \in Injection(P, 1 .. N)
    BY <1>4, <1>5 DEF Injection, IsInjective
  <1>7. IsFiniteSet(1 .. N) /\ Cardinality(1 .. N) = Cardinality(P)
    BY <1>1, PlacesAreFinite DEF N
  <1>8. r \in Surjection(P, 1 .. N)
    <2> DEFINE T == 1 .. N
    <2>1. r \in Injection(P, T) /\ IsFiniteSet(T) /\ Cardinality(P) = Cardinality(T)
      BY <1>6, <1>7
    <2> HIDE DEF T
    <2>2. r \in Surjection(P, T)
      BY <2>1, FS_Injection
    <2> QED
      BY <2>2 DEF T
  <1>9. \E i \in P : r[i] = n
    BY <1>8 DEF Surjection, N
  <1> QED
    BY <1>4, <1>9 DEF U

\* What is kept are elements of the sequence, and all of it if every place is.
LEMMA KeptIs ==
    ASSUME NEW S, NEW s \in Seq(S), NEW P \in SUBSET DOMAIN s
    PROVE  /\ Kept(s, P) \in Seq(S)
           /\ DOMAIN Kept(s, P) = 1 .. Cardinality(P)
           /\ \A n \in 1 .. Cardinality(P) : \E i \in P : Kept(s, P)[n] = s[i]
           /\ P = DOMAIN s => Kept(s, P) = s
  <1> DEFINE c(n) == CHOOSE i \in P : Cardinality({j \in P : j <= i}) = n
             N == Cardinality(P)
  <1>1. Len(s) \in Nat /\ DOMAIN s = 1 .. Len(s) /\ s = [i \in 1 .. Len(s) |-> s[i]]
        /\ \A i \in 1 .. Len(s) : s[i] \in S
    OBVIOUS
  <1>2. N \in Nat
    <2>1. Len(s) \in Nat /\ P \in SUBSET (1 .. Len(s))
      BY <1>1
    <2> QED
      BY <2>1, SomePlaces
  <1>3. ASSUME NEW n \in 1 .. N
        PROVE  c(n) \in P /\ Cardinality({j \in P : j <= c(n)}) = n
    <2>1. Len(s) \in Nat /\ P \in SUBSET (1 .. Len(s))
      BY <1>1
    <2>2. \E i \in P : Cardinality({j \in P : j <= i}) = n
      BY <2>1, HasRank
    <2> QED
      BY <2>2
  <1>4. Kept(s, P) = [n \in 1 .. N |-> s[c(n)]]
    BY DEF Kept
  <1>5. P = DOMAIN s => N = Len(s)
    BY <1>1, PlacesAreFinite
  <1>6. ASSUME P = DOMAIN s, NEW n \in 1 .. N PROVE c(n) = n
    <2> DEFINE k == c(n)
    <2>1. k \in 1 .. Len(s) /\ Cardinality({j \in P : j <= k}) = n
      BY <1>1, <1>3, <1>6
    <2> HIDE DEF k
    <2>2. k \in Nat /\ k <= Len(s)
      BY <1>1, <2>1
    <2>3. {j \in 1 .. Len(s) : j <= k} = 1 .. k
      <3>1. \A j : j \in 1 .. Len(s) /\ j <= k <=> j \in 1 .. k
        BY <1>1, <2>2
      <3> QED
        BY <3>1
    <2>4. {j \in P : j <= k} = 1 .. k
      BY <1>1, <1>6, <2>3
    <2>5. Cardinality(1 .. k) = k
      BY <2>2, PlacesAreFinite
    <2> QED
      BY <2>1, <2>4, <2>5 DEF k
  <1> HIDE DEF c, N
  <1>7. \A n \in 1 .. N : s[c(n)] \in S
    BY <1>1, <1>3
  <1>8. Kept(s, P) \in Seq(S)
    BY <1>2, <1>4, <1>7, IsASeq
  <1>9. P = DOMAIN s => Kept(s, P) = s
    <2> SUFFICES ASSUME P = DOMAIN s PROVE [n \in 1 .. N |-> s[c(n)]] = s
      BY <1>4
    <2>1. \A n \in 1 .. N : s[c(n)] = s[n]
      BY <1>6
    <2> QED
      BY <1>1, <1>5, <2>1
  <1>10. DOMAIN Kept(s, P) = 1 .. N /\ \A n \in 1 .. N : Kept(s, P)[n] = s[c(n)]
    BY <1>4
  <1>11. \A n \in 1 .. N : \E i \in P : Kept(s, P)[n] = s[i]
    BY <1>3, <1>10
  <1> QED
    BY <1>8, <1>9, <1>10, <1>11 DEF N

-----------------------------------------------------------------------------
(* Induction, from the well-foundedness of the natural numbers, and what is  *)
(* defined by recursion along a sequence.                                    *)

\* Every set of natural numbers that is not empty has a smallest.
LEMMA Smallest ==
    ASSUME NEW T \in SUBSET Nat, T # {}
    PROVE  \E n \in T : \A m \in T : n <= m
  <1> DEFINE R == OpToRel(<, Nat)
  <1>1. IsWellFoundedOn(R, Nat)
    BY NatLessThanWellFounded
  <1>2. \A m, n \in Nat : m < n => <<m, n>> \in R
    BY DEF OpToRel
  <1> HIDE DEF R
  <1>3. \E n \in T : \A m \in T : <<m, n>> \notin R
    BY <1>1, WFMin
  <1>4. PICK n \in T : \A m \in T : <<m, n>> \notin R
    BY <1>3
  <1>5. \A m \in T : m \in Nat /\ n \in Nat /\ ~(m < n)
    BY <1>2, <1>4
  <1>6. \A m \in T : n <= m
    BY <1>5
  <1> QED
    BY <1>6

\* What holds at the first place and from each place to the next one holds at
\* all of them.
LEMMA Induction ==
    ASSUME NEW n \in Nat, NEW S, 0 \in S, \A i \in 1 .. n : i - 1 \in S => i \in S
    PROVE  \A i \in 0 .. n : i \in S
  <1> DEFINE T == (0 .. n) \ S
  <1> SUFFICES ASSUME T # {} PROVE FALSE
    OBVIOUS
  <1>1. T \in SUBSET Nat
    OBVIOUS
  <1>2. PICK k \in T : \A m \in T : k <= m
    <2> HIDE DEF T
    <2> QED
      BY <1>1, Smallest
  <1>3. k \in 1 .. n /\ k - 1 \in 0 .. n /\ ~(k <= k - 1)
    BY <1>2
  <1>4. k - 1 \in S
    BY <1>2, <1>3
  <1> QED
    BY <1>2, <1>3, <1>4

\* g takes each of its values from the one before.
Follows(g, n, V, base, next) ==
    /\ g \in [0 .. n -> V] /\ g[0] = base
    /\ \A i \in 1 .. n : g[i] = next[<<g[i - 1], i>>]

\* What is defined by recursion along a sequence exists.
LEMMA Recursion ==
    ASSUME NEW n \in Nat, NEW V, NEW base \in V, NEW next \in [V \X (1 .. n) -> V]
    PROVE  \E g : Follows(g, n, V, base, next)
  <1> DEFINE Is(g, m) == /\ g \in [0 .. m -> V] /\ g[0] = base
                         /\ \A i \in 1 .. m : g[i] = next[<<g[i - 1], i>>]
             S == {m \in 0 .. n : \E g : Is(g, m)}
  <1>1. 0 \in S
    <2> DEFINE g == [i \in 0 .. 0 |-> base]
    <2>1. Is(g, 0) /\ 0 \in 0 .. n
      OBVIOUS
    <2> HIDE DEF g
    <2> QED
      BY <2>1
  <1>2. ASSUME NEW m \in 1 .. n, m - 1 \in S PROVE m \in S
    <2>1. PICK g : Is(g, m - 1)
      BY <1>2
    <2> DEFINE h == [i \in 0 .. m |-> IF i = m THEN next[<<g[m - 1], m>>] ELSE g[i]]
    <2>2. g[m - 1] \in V /\ next[<<g[m - 1], m>>] \in V
      BY <2>1
    <2>3. \A i \in 0 .. m : h[i] = IF i = m THEN next[<<g[m - 1], m>>] ELSE g[i]
      OBVIOUS
    <2>4. h \in [0 .. m -> V]
      BY <2>1, <2>2
    <2> HIDE DEF h
    <2>5. \A i \in 1 .. m : h[i] = next[<<h[i - 1], i>>]
      <3> SUFFICES ASSUME NEW i \in 1 .. m PROVE h[i] = next[<<h[i - 1], i>>]
        OBVIOUS
      <3>1. h[i - 1] = g[i - 1]
        BY <2>3
      <3>2. CASE i = m
        BY <2>3, <3>1, <3>2
      <3>3. CASE i # m
        <4>1. i \in 1 .. m - 1
          BY <3>3
        <4> QED
          BY <2>1, <2>3, <3>1, <3>3, <4>1
      <3> QED
        BY <3>2, <3>3
    <2>6. Is(h, m)
      BY <2>1, <2>3, <2>4, <2>5
    <2> QED
      BY <2>6
  <1>3. n \in S
    <2> HIDE DEF S
    <2>1. \A m \in 0 .. n : m \in S
      BY <1>1, <1>2, Induction
    <2> QED
      BY <2>1
  <1> QED
    BY <1>3 DEF Follows

\* The states of the dictionary along the actions.
LEMMA HeldInIs ==
    ASSUME NEW s, Len(s) \in Nat, NEW X, \A i \in 1 .. Len(s) : ToSet(Codes(s[i])) \subseteq X
    PROVE  /\ HeldIn(s) \in [0 .. Len(s) -> SUBSET X]
           /\ HeldIn(s)[0] = {}
           /\ \A i \in 1 .. Len(s) : HeldIn(s)[i] = HeldAfter(HeldIn(s)[i - 1], s[i])
  <1> DEFINE n == Len(s)
             V == SUBSET X
             next == [x \in V \X (1 .. n) |-> HeldAfter(x[1], s[x[2]])]
             e(g) == [i \in 0 .. n |-> IF i = 0 THEN {} ELSE HeldAfter(g[i - 1], s[i])]
             P(g) == g = e(g)
  <1>1. \A x \in V, i \in 1 .. n : HeldAfter(x, s[i]) \in V
    BY DEF HeldAfter
  <1>2. next \in [V \X (1 .. n) -> V]
    <2>1. \A x \in V \X (1 .. n) : x[1] \in V /\ x[2] \in 1 .. n
      OBVIOUS
    <2> HIDE DEF V, n
    <2> QED
      BY <1>1, <2>1
  <1>3. \A x \in V, i \in 1 .. n : next[<<x, i>>] = HeldAfter(x, s[i])
    <2> HIDE DEF V, n
    <2> QED
      OBVIOUS
  <1>4. {} \in V /\ n \in Nat
    OBVIOUS
  <1> HIDE DEF next, V, n
  <1>5. PICK g : /\ g \in [0 .. n -> V] /\ g[0] = {}
                 /\ \A i \in 1 .. n : g[i] = next[<<g[i - 1], i>>]
    <2>1. n \in Nat /\ {} \in V /\ next \in [V \X (1 .. n) -> V]
      BY <1>2, <1>4
    <2>2. \E g : Follows(g, n, V, {}, next)
      BY <2>1, Recursion
    <2> QED
      BY <2>2 DEF Follows
  <1>6. \A i \in 1 .. n : i - 1 \in 0 .. n /\ i # 0
    BY <1>4
  <1>7. \A i \in 1 .. n : g[i] = HeldAfter(g[i - 1], s[i])
    BY <1>3, <1>5, <1>6
  <1>8. \A f, i : i \in 0 .. n => e(f)[i] = IF i = 0 THEN {} ELSE HeldAfter(f[i - 1], s[i])
    OBVIOUS
  <1>9. P(g)
    <2>1. \A i \in 0 .. n : e(g)[i] = g[i]
      <3>1. \A i \in 0 .. n : i = 0 \/ i \in 1 .. n
        BY <1>4
      <3> HIDE DEF e
      <3> QED
        BY <1>5, <1>6, <1>7, <1>8, <3>1
    <2>2. g = [i \in 0 .. n |-> g[i]] /\ e(g) = [i \in 0 .. n |-> e(g)[i]]
      BY <1>5
    <2> HIDE DEF e
    <2> QED
      BY <2>1, <2>2
  <1>10. HeldIn(s) = CHOOSE f : P(f)
    BY DEF HeldIn, n
  <1> DEFINE f == HeldIn(s)
  <1>11. P(f)
    <2> HIDE DEF P
    <2> QED
      BY <1>9, <1>10
  <1>12. /\ f = e(f) /\ DOMAIN e(f) = 0 .. n /\ e(f)[0] = {}
         /\ \A i \in 1 .. n : e(f)[i] = HeldAfter(f[i - 1], s[i])
    <2>1. \A i \in 1 .. n : i \in 0 .. n
      BY <1>4
    <2>2. 0 \in 0 .. n
      BY <1>4
    <2> HIDE DEF f
    <2> QED
      BY <1>6, <1>8, <1>11, <2>1, <2>2
  <1> HIDE DEF e, f
  <1>13. /\ f = [i \in 0 .. n |-> f[i]] /\ f[0] = {}
         /\ \A i \in 1 .. n : f[i] = HeldAfter(f[i - 1], s[i])
    <2>1. f = [i \in 0 .. n |-> e(f)[i]]
      BY <1>12 DEF e
    <2> QED
      BY <1>12, <2>1
  <1> DEFINE T == {i \in 0 .. n : f[i] \in V}
  <1>14. \A i \in 0 .. n : i \in T
    <2>1. 0 \in T /\ \A i \in 1 .. n : i - 1 \in T => i \in T
      <3>1. \A i \in 1 .. n : f[i - 1] \in V => f[i] \in V
        BY <1>1, <1>13
      <3>2. \A i \in 1 .. n : i \in 0 .. n
        BY <1>4
      <3>3. 0 \in 0 .. n
        BY <1>4
      <3> QED
        BY <1>4, <1>13, <3>1, <3>2, <3>3
    <2> HIDE DEF T
    <2> QED
      BY <1>4, <2>1, Induction
  <1>15. f \in [0 .. n -> V]
    BY <1>13, <1>14
  <1> QED
    BY <1>13, <1>15 DEF f, n, V


\* What is down along the actions.
LEMMA DownInIs ==
    ASSUME NEW s, Len(s) \in Nat
    PROVE  /\ DownIn(s) \in [0 .. Len(s) -> SUBSET Known]
           /\ DownIn(s)[0] = {}
           /\ \A i \in 1 .. Len(s) : DownIn(s)[i] = DownAfter(DownIn(s)[i - 1], s[i])
  <1> DEFINE n == Len(s)
             V == SUBSET Known
             next == [x \in V \X (1 .. n) |-> DownAfter(x[1], s[x[2]])]
             e(g) == [i \in 0 .. n |-> IF i = 0 THEN {} ELSE DownAfter(g[i - 1], s[i])]
             P(g) == g = e(g)
  <1>1. \A x \in V, i \in 1 .. n : DownAfter(x, s[i]) \in V
    BY DEF DownAfter, Emitted
  <1>2. next \in [V \X (1 .. n) -> V]
    <2>1. \A x \in V \X (1 .. n) : x[1] \in V /\ x[2] \in 1 .. n
      OBVIOUS
    <2> HIDE DEF V, n
    <2> QED
      BY <1>1, <2>1
  <1>3. \A x \in V, i \in 1 .. n : next[<<x, i>>] = DownAfter(x, s[i])
    <2> HIDE DEF V, n
    <2> QED
      OBVIOUS
  <1>4. {} \in V /\ n \in Nat
    OBVIOUS
  <1> HIDE DEF next, V, n
  <1>5. PICK g : /\ g \in [0 .. n -> V] /\ g[0] = {}
                 /\ \A i \in 1 .. n : g[i] = next[<<g[i - 1], i>>]
    <2>1. n \in Nat /\ {} \in V /\ next \in [V \X (1 .. n) -> V]
      BY <1>2, <1>4
    <2>2. \E g : Follows(g, n, V, {}, next)
      BY <2>1, Recursion
    <2> QED
      BY <2>2 DEF Follows
  <1>6. \A i \in 1 .. n : i - 1 \in 0 .. n /\ i # 0
    BY <1>4
  <1>7. \A i \in 1 .. n : g[i] = DownAfter(g[i - 1], s[i])
    BY <1>3, <1>5, <1>6
  <1>8. \A f, i : i \in 0 .. n => e(f)[i] = IF i = 0 THEN {} ELSE DownAfter(f[i - 1], s[i])
    OBVIOUS
  <1>9. P(g)
    <2>1. \A i \in 0 .. n : e(g)[i] = g[i]
      <3>1. \A i \in 0 .. n : i = 0 \/ i \in 1 .. n
        BY <1>4
      <3> HIDE DEF e
      <3> QED
        BY <1>5, <1>6, <1>7, <1>8, <3>1
    <2>2. g = [i \in 0 .. n |-> g[i]] /\ e(g) = [i \in 0 .. n |-> e(g)[i]]
      BY <1>5
    <2> HIDE DEF e
    <2> QED
      BY <2>1, <2>2
  <1>10. DownIn(s) = CHOOSE f : P(f)
    BY DEF DownIn, n
  <1> DEFINE f == DownIn(s)
  <1>11. P(f)
    <2> HIDE DEF P
    <2> QED
      BY <1>9, <1>10
  <1>12. /\ f = e(f) /\ DOMAIN e(f) = 0 .. n /\ e(f)[0] = {}
         /\ \A i \in 1 .. n : e(f)[i] = DownAfter(f[i - 1], s[i])
    <2>1. \A i \in 1 .. n : i \in 0 .. n
      BY <1>4
    <2>2. 0 \in 0 .. n
      BY <1>4
    <2> HIDE DEF f
    <2> QED
      BY <1>6, <1>8, <1>11, <2>1, <2>2
  <1> HIDE DEF e, f
  <1>13. /\ f = [i \in 0 .. n |-> f[i]] /\ f[0] = {}
         /\ \A i \in 1 .. n : f[i] = DownAfter(f[i - 1], s[i])
    <2>1. f = [i \in 0 .. n |-> e(f)[i]]
      BY <1>12 DEF e
    <2> QED
      BY <1>12, <2>1
  <1> DEFINE T == {i \in 0 .. n : f[i] \in V}
  <1>14. \A i \in 0 .. n : i \in T
    <2>1. 0 \in T /\ \A i \in 1 .. n : i - 1 \in T => i \in T
      <3>1. \A i \in 1 .. n : f[i - 1] \in V => f[i] \in V
        BY <1>1, <1>13
      <3>2. \A i \in 1 .. n : i \in 0 .. n
        BY <1>4
      <3>3. 0 \in 0 .. n
        BY <1>4
      <3> QED
        BY <1>4, <1>13, <3>1, <3>2, <3>3
    <2> HIDE DEF T
    <2> QED
      BY <1>4, <2>1, Induction
  <1>15. f \in [0 .. n -> V]
    BY <1>13, <1>14
  <1> QED
    BY <1>13, <1>15 DEF f, n, V


\* The time that passes along them.
LEMMA TimeInIs ==
    ASSUME NEW s, Len(s) \in Nat, \A i \in 1 .. Len(s) : SleepOf(s[i]) \in Nat
    PROVE  /\ TimeIn(s) \in [0 .. Len(s) -> Nat]
           /\ TimeIn(s)[0] = 0
           /\ \A i \in 1 .. Len(s) : TimeIn(s)[i] = TimeIn(s)[i - 1] + SleepOf(s[i])
  <1> DEFINE n == Len(s)
             V == Nat
             next == [x \in V \X (1 .. n) |-> x[1] + SleepOf(s[x[2]])]
             e(g) == [i \in 0 .. n |-> IF i = 0 THEN 0 ELSE g[i - 1] + SleepOf(s[i])]
             P(g) == g = e(g)
  <1>1. \A x \in V, i \in 1 .. n : x + SleepOf(s[i]) \in V
    OBVIOUS
  <1>2. next \in [V \X (1 .. n) -> V]
    <2>1. \A x \in V \X (1 .. n) : x[1] \in V /\ x[2] \in 1 .. n
      OBVIOUS
    <2> HIDE DEF V, n
    <2> QED
      BY <1>1, <2>1
  <1>3. \A x \in V, i \in 1 .. n : next[<<x, i>>] = x + SleepOf(s[i])
    <2> HIDE DEF V, n
    <2> QED
      OBVIOUS
  <1>4. 0 \in V /\ n \in Nat
    OBVIOUS
  <1> HIDE DEF next, V, n
  <1>5. PICK g : /\ g \in [0 .. n -> V] /\ g[0] = 0
                 /\ \A i \in 1 .. n : g[i] = next[<<g[i - 1], i>>]
    <2>1. n \in Nat /\ 0 \in V /\ next \in [V \X (1 .. n) -> V]
      BY <1>2, <1>4
    <2>2. \E g : Follows(g, n, V, 0, next)
      BY <2>1, Recursion
    <2> QED
      BY <2>2 DEF Follows
  <1>6. \A i \in 1 .. n : i - 1 \in 0 .. n /\ i # 0
    BY <1>4
  <1>7. \A i \in 1 .. n : g[i] = g[i - 1] + SleepOf(s[i])
    BY <1>3, <1>5, <1>6
  <1>8. \A f, i : i \in 0 .. n => e(f)[i] = IF i = 0 THEN 0 ELSE f[i - 1] + SleepOf(s[i])
    OBVIOUS
  <1>9. P(g)
    <2>1. \A i \in 0 .. n : e(g)[i] = g[i]
      <3>1. \A i \in 0 .. n : i = 0 \/ i \in 1 .. n
        BY <1>4
      <3> HIDE DEF e
      <3> QED
        BY <1>5, <1>6, <1>7, <1>8, <3>1
    <2>2. g = [i \in 0 .. n |-> g[i]] /\ e(g) = [i \in 0 .. n |-> e(g)[i]]
      BY <1>5
    <2> HIDE DEF e
    <2> QED
      BY <2>1, <2>2
  <1>10. TimeIn(s) = CHOOSE f : P(f)
    BY DEF TimeIn, n
  <1> DEFINE f == TimeIn(s)
  <1>11. P(f)
    <2> HIDE DEF P
    <2> QED
      BY <1>9, <1>10
  <1>12. /\ f = e(f) /\ DOMAIN e(f) = 0 .. n /\ e(f)[0] = 0
         /\ \A i \in 1 .. n : e(f)[i] = f[i - 1] + SleepOf(s[i])
    <2>1. \A i \in 1 .. n : i \in 0 .. n
      BY <1>4
    <2>2. 0 \in 0 .. n
      BY <1>4
    <2> HIDE DEF f
    <2> QED
      BY <1>6, <1>8, <1>11, <2>1, <2>2
  <1> HIDE DEF e, f
  <1>13. /\ f = [i \in 0 .. n |-> f[i]] /\ f[0] = 0
         /\ \A i \in 1 .. n : f[i] = f[i - 1] + SleepOf(s[i])
    <2>1. f = [i \in 0 .. n |-> e(f)[i]]
      BY <1>12 DEF e
    <2> QED
      BY <1>12, <2>1
  <1> DEFINE T == {i \in 0 .. n : f[i] \in V}
  <1>14. \A i \in 0 .. n : i \in T
    <2>1. 0 \in T /\ \A i \in 1 .. n : i - 1 \in T => i \in T
      <3>1. \A i \in 1 .. n : f[i - 1] \in V => f[i] \in V
        BY <1>1, <1>13
      <3>2. \A i \in 1 .. n : i \in 0 .. n
        BY <1>4
      <3>3. 0 \in 0 .. n
        BY <1>4
      <3> QED
        BY <1>4, <1>13, <3>1, <3>2, <3>3
    <2> HIDE DEF T
    <2> QED
      BY <1>4, <2>1, Induction
  <1>15. f \in [0 .. n -> V]
    BY <1>13, <1>14
  <1> QED
    BY <1>13, <1>15 DEF f, n, V

\* One element more.
LEMMA Longer ==
    ASSUME NEW S, NEW s \in Seq(S), NEW a
    PROVE  /\ Len(s) \in Nat /\ Len(s \o <<a>>) = Len(s) + 1
           /\ s \o <<a>> \in Seq(S \cup {a})
           /\ \A i \in 1 .. Len(s) : (s \o <<a>>)[i] = s[i]
           /\ (s \o <<a>>)[Len(s) + 1] = a
  <1> DEFINE T == S \cup {a}
             one == <<a>>
  <1>1. s \in Seq(T) /\ one \in Seq(T) /\ Len(one) = 1 /\ one[1] = a
    OBVIOUS
  <1> HIDE DEF T, one
  <1>2. /\ s \o one \in Seq(T) /\ Len(s \o one) = Len(s) + Len(one)
        /\ \A i \in 1 .. Len(s) + Len(one) :
              (s \o one)[i] = IF i <= Len(s) THEN s[i] ELSE one[i - Len(s)]
    BY <1>1, ConcatProperties
  <1> DEFINE n == Len(s)
             t == s \o one
  <1>3. n \in Nat
    OBVIOUS
  <1>4. /\ t \in Seq(T) /\ Len(t) = n + 1
        /\ \A i \in 1 .. n + 1 : t[i] = IF i <= n THEN s[i] ELSE one[i - n]
    BY <1>1, <1>2
  <1> HIDE DEF n, t
  <1>5. n + 1 \in 1 .. n + 1 /\ ~(n + 1 <= n) /\ n + 1 - n = 1
    BY <1>3
  <1>6. \A i \in 1 .. n : i \in 1 .. n + 1 /\ i <= n
    BY <1>3
  <1>7. t[n + 1] = a /\ \A i \in 1 .. n : t[i] = s[i]
    <2>1. ASSUME NEW i \in 1 .. n + 1, i = n + 1 PROVE t[i] = one[1]
      <3>1. ~(i <= n) /\ i - n = 1
        BY <1>3, <2>1
      <3>2. t[i] = one[i - n]
        BY <1>4, <3>1
      <3> QED
        BY <3>1, <3>2
    <2>2. t[n + 1] = one[1]
      BY <1>5, <2>1
    <2>3. \A i \in 1 .. n : t[i] = s[i]
      BY <1>4, <1>6
    <2> QED
      BY <1>1, <2>2, <2>3
  <1> QED
    BY <1>3, <1>4, <1>7 DEF n, t, one, T

\* One more action changes what is unreleased as _check_balance does.
LEMMA UnreleasedLonger ==
    ASSUME NEW S, NEW s \in Seq(S), NEW a, NEW X,
           \A b \in S \cup {a} : ToSet(Codes(b)) \subseteq X
    PROVE  /\ Unreleased(s) \subseteq X
           /\ Unreleased(s \o <<a>>) = HeldAfter(Unreleased(s), a)
  <1> DEFINE n == Len(s)
             t == s \o <<a>>
             f == HeldIn(s)
             g == HeldIn(t)
             T == {i \in 0 .. n : g[i] = f[i]}
  <1>1. /\ n \in Nat /\ Len(t) = n + 1 /\ t[n + 1] = a
        /\ \A i \in 1 .. n : t[i] = s[i]
    BY Longer
  <1> HIDE DEF t
  <1>2. f \in [0 .. n -> SUBSET X] /\ f[0] = {} /\ \A i \in 1 .. n : f[i] = HeldAfter(f[i - 1], s[i])
    <2>1. \A i \in 1 .. Len(s) : ToSet(Codes(s[i])) \subseteq X
      OBVIOUS
    <2> QED
      BY <1>1, <2>1, HeldInIs
  <1>3. g[0] = {} /\ \A i \in 1 .. n + 1 : g[i] = HeldAfter(g[i - 1], t[i])
    <2>1. \A i \in 1 .. n : s[i] \in S
      OBVIOUS
    <2>2. \A i \in 1 .. n + 1 : t[i] \in S \cup {a}
      <3> HIDE DEF n
      <3>1. \A i \in 1 .. n + 1 : i \in 1 .. n \/ i = n + 1
        BY <1>1
      <3> QED
        BY <1>1, <2>1, <3>1
    <2>3. \A i \in 1 .. Len(t) : ToSet(Codes(t[i])) \subseteq X
      <3> HIDE DEF n
      <3> QED
        BY <1>1, <2>2
    <2>4. Len(t) \in Nat
      BY <1>1
    <2>5. g[0] = {} /\ \A i \in 1 .. Len(t) : g[i] = HeldAfter(g[i - 1], t[i])
      BY <2>3, <2>4, HeldInIs
    <2> QED
      BY <1>1, <2>5
  <1> HIDE DEF f, g, n
  <1>4. 0 \in T /\ \A i \in 1 .. n : i - 1 \in T => i \in T
    <2>1. \A i \in 1 .. n : i \in 1 .. n + 1 /\ i \in 0 .. n
      BY <1>1
    <2>2. 0 \in 0 .. n
      BY <1>1
    <2> QED
      BY <1>1, <1>2, <1>3, <2>1, <2>2
  <1>5. g[n] = f[n]
    <2> HIDE DEF T
    <2>1. \A i \in 0 .. n : i \in T
      BY <1>1, <1>4, Induction
    <2>2. n \in 0 .. n
      BY <1>1
    <2> QED
      BY <2>1, <2>2 DEF T
  <1>6. g[n + 1] = HeldAfter(f[n], a)
    <2>1. n + 1 \in 1 .. n + 1 /\ n + 1 - 1 = n
      BY <1>1
    <2> QED
      BY <1>1, <1>3, <1>5, <2>1
  <1>7. f[n] \in SUBSET X
    BY <1>1, <1>2
  <1>8. Unreleased(s) = f[n] /\ Unreleased(t) = g[n + 1]
    BY <1>1 DEF Unreleased, f, g, n
  <1> QED
    BY <1>6, <1>7, <1>8 DEF t

\* One more action adds what it sleeps.
LEMMA DurationLonger ==
    ASSUME NEW S, NEW s \in Seq(S), NEW a,
           \A b \in S \cup {a} : SleepOf(b) \in Nat
    PROVE  /\ Duration(s) \in Nat
           /\ Duration(s \o <<a>>) = Duration(s) + SleepOf(a)
  <1> DEFINE n == Len(s)
             t == s \o <<a>>
             f == TimeIn(s)
             g == TimeIn(t)
             T == {i \in 0 .. n : g[i] = f[i]}
  <1>1. /\ n \in Nat /\ Len(t) = n + 1 /\ t[n + 1] = a
        /\ \A i \in 1 .. n : t[i] = s[i]
    BY Longer
  <1> HIDE DEF t
  <1>2. f \in [0 .. n -> Nat] /\ f[0] = 0 /\ \A i \in 1 .. n : f[i] = f[i - 1] + SleepOf(s[i])
    <2>1. \A i \in 1 .. Len(s) : SleepOf(s[i]) \in Nat
      OBVIOUS
    <2> QED
      BY <1>1, <2>1, TimeInIs
  <1>3. g[0] = 0 /\ \A i \in 1 .. n + 1 : g[i] = g[i - 1] + SleepOf(t[i])
    <2>1. \A i \in 1 .. n : s[i] \in S
      OBVIOUS
    <2>2. \A i \in 1 .. n + 1 : t[i] \in S \cup {a}
      <3> HIDE DEF n
      <3>1. \A i \in 1 .. n + 1 : i \in 1 .. n \/ i = n + 1
        BY <1>1
      <3> QED
        BY <1>1, <2>1, <3>1
    <2>3. \A i \in 1 .. Len(t) : SleepOf(t[i]) \in Nat
      <3> HIDE DEF n
      <3> QED
        BY <1>1, <2>2
    <2>4. Len(t) \in Nat
      BY <1>1
    <2>5. g[0] = 0 /\ \A i \in 1 .. Len(t) : g[i] = g[i - 1] + SleepOf(t[i])
      BY <2>3, <2>4, TimeInIs
    <2> QED
      BY <1>1, <2>5
  <1> HIDE DEF f, g, n
  <1>4. 0 \in T /\ \A i \in 1 .. n : i - 1 \in T => i \in T
    <2>1. \A i \in 1 .. n : i \in 1 .. n + 1 /\ i \in 0 .. n
      BY <1>1
    <2>2. 0 \in 0 .. n
      BY <1>1
    <2> QED
      BY <1>1, <1>2, <1>3, <2>1, <2>2
  <1>5. g[n] = f[n]
    <2> HIDE DEF T
    <2>1. \A i \in 0 .. n : i \in T
      BY <1>1, <1>4, Induction
    <2>2. n \in 0 .. n
      BY <1>1
    <2> QED
      BY <2>1, <2>2 DEF T
  <1>6. g[n + 1] = f[n] + SleepOf(a)
    <2>1. n + 1 \in 1 .. n + 1 /\ n + 1 - 1 = n
      BY <1>1
    <2> QED
      BY <1>1, <1>3, <1>5, <2>1
  <1>7. f[n] \in Nat
    BY <1>1, <1>2
  <1>8. Duration(s) = f[n] /\ Duration(t) = g[n + 1]
    BY <1>1 DEF Duration, f, g, n
  <1> QED
    BY <1>6, <1>7, <1>8 DEF t

-----------------------------------------------------------------------------
(* What is recorded.                                                         *)

\* The events of s.
Count(s) == Cardinality({i \in DOMAIN s : s[i].type # "wait"})

Waiting(t) == Create("wait", [duration_ms |-> t])

Recorded == {Event(c, pressed) : c \in Known, pressed \in BOOLEAN} \cup {Waiting(t) : t \in Nat}

\* One more action counts, if it is an event.
LEMMA CountLonger ==
    ASSUME NEW S, NEW s \in Seq(S), NEW a
    PROVE  /\ Count(s) \in Nat
           /\ Count(s \o <<a>>) = IF a.type = "wait" THEN Count(s) ELSE Count(s) + 1
  <1> DEFINE n == Len(s)
             t == s \o <<a>>
             P == {i \in DOMAIN s : s[i].type # "wait"}
             Q == {i \in DOMAIN t : t[i].type # "wait"}
  <1>1. /\ n \in Nat /\ Len(t) = n + 1 /\ t[n + 1] = a
        /\ \A i \in 1 .. n : t[i] = s[i]
        /\ DOMAIN s = 1 .. n /\ DOMAIN t = 1 .. Len(t)
    <2>1. /\ Len(s) \in Nat /\ Len(t) = Len(s) + 1 /\ t[Len(s) + 1] = a
          /\ \A i \in 1 .. Len(s) : t[i] = s[i]
          /\ t \in Seq(S \cup {a})
      BY Longer
    <2> HIDE DEF t
    <2> QED
      BY <2>1
  <1>2. P \in SUBSET (1 .. n)
    BY <1>1
  <1> HIDE DEF t, n
  <1>3. IsFiniteSet(P) /\ Cardinality(P) \in Nat /\ n + 1 \notin P
    <2>1. n + 1 \notin 1 .. n
      BY <1>1
    <2> HIDE DEF P
    <2> QED
      BY <1>1, <1>2, <2>1, SomePlaces
  <1>4. Q = IF a.type = "wait" THEN P ELSE P \cup {n + 1}
    <2>1. \A i : i \in 1 .. n + 1 <=> i \in 1 .. n \/ i = n + 1
      BY <1>1
    <2>2. \A i : i \in Q <=> (i \in P \/ (i = n + 1 /\ a.type # "wait"))
      <3>1. \A i : i \in Q <=> i \in 1 .. n + 1 /\ t[i].type # "wait"
        BY <1>1
      <3>2. \A i : i \in P <=> i \in 1 .. n /\ t[i].type # "wait"
        BY <1>1
      <3> HIDE DEF P, Q
      <3> QED
        BY <1>1, <2>1, <3>1, <3>2
    <2> HIDE DEF P, Q
    <2> QED
      BY <2>2
  <1>5. Count(s) = Cardinality(P) /\ Count(t) = Cardinality(Q)
    BY DEF Count
  <1> HIDE DEF P, Q
  <1>6. Cardinality(P \cup {n + 1}) = Cardinality(P) + 1
    <2> DEFINE x == n + 1
    <2> HIDE DEF x
    <2>1. x \notin P => Cardinality(P \cup {x}) = Cardinality(P) + 1
      BY <1>3, FS_AddElement
    <2> QED
      BY <1>3, <2>1 DEF x
  <1> QED
    BY <1>3, <1>4, <1>5, <1>6 DEF t

\* A recorded event does not sleep, and presses or releases its code.
LEMMA EventFacts ==
    ASSUME NEW c \in Known, NEW pressed \in BOOLEAN
    PROVE  LET e == Event(c, pressed) IN
           /\ Codes(e) = <<c>> /\ SleepOf(e) = 0 /\ e.type # "wait"
           /\ \A held : HeldAfter(held, e) = IF pressed THEN held \cup {c} ELSE held \ {c}
  <1> DEFINE e == Event(c, pressed)
  <1>5. c # None
    BY MacroModelAssumption
  <1>1. /\ Codes(e) = <<c>>
        /\ e.type = IF c \in Buttons THEN IF pressed THEN "button_press" ELSE "button_release"
                    ELSE IF pressed THEN "key_press" ELSE "key_release"
    <2>1. CASE c \in Buttons
      <3>1. ASSUME NEW type \in {"button_press", "button_release"}
            PROVE  LET a == Create(type, [button |-> c]) IN a.type = type /\ Codes(a) = <<c>>
        <4> DEFINE a == Create(type, [button |-> c])
        <4>1. a.type = type /\ a.params = Updated(Defaults[type], [button |-> c])
          BY DEF Create
        <4>2. DOMAIN Defaults[type] = {"button"}
          BY DEF Defaults
        <4>3. DOMAIN a.params = {"button"} /\ a.params.button = c
          BY <4>1, <4>2 DEF Updated
        <4> HIDE DEF a
        <4>4. Codes(a) = <<a.params.button>>
          BY <1>5, <4>3 DEF Codes
        <4> QED
          BY <4>1, <4>3, <4>4 DEF a
      <3> QED
        BY <2>1, <3>1 DEF Event
    <2>2. CASE c \notin Buttons
      <3>1. ASSUME NEW type \in {"key_press", "key_release"}
            PROVE  LET a == Create(type, [key |-> c]) IN a.type = type /\ Codes(a) = <<c>>
        <4> DEFINE a == Create(type, [key |-> c])
        <4>1. a.type = type /\ a.params = Updated(Defaults[type], [key |-> c])
          BY DEF Create
        <4>2. DOMAIN Defaults[type] = {"key"}
          BY DEF Defaults
        <4>3. DOMAIN a.params = {"key"} /\ a.params.key = c
          BY <4>1, <4>2 DEF Updated
        <4> HIDE DEF a
        <4>4. Codes(a) = <<a.params.key>>
          BY <1>5, <4>3 DEF Codes
        <4> QED
          BY <4>1, <4>3, <4>4 DEF a
      <3> QED
        BY <2>2, <3>1 DEF Event
    <2> QED
      BY <2>1, <2>2
  <1> HIDE DEF e
  <1>2. ToSet(<<c>>) = {c}
    <2> DEFINE one == <<c>>
    <2>1. DOMAIN one = {1} /\ one[1] = c
      OBVIOUS
    <2> HIDE DEF one
    <2>2. ToSet(one) = {c}
      BY <2>1 DEF ToSet
    <2> QED
      BY <2>2 DEF one
  <1>3. SleepOf(e) = 0 /\ e.type # "wait"
    BY <1>1 DEF SleepOf
  <1>4. \A held : HeldAfter(held, e) = IF pressed THEN held \cup {c} ELSE held \ {c}
    BY <1>1, <1>2 DEF HeldAfter, Presses, Releases
  <1> QED
    BY <1>1, <1>3, <1>4 DEF e

\* A recorded wait sleeps, and neither presses nor releases.
LEMMA WaitingFacts ==
    ASSUME NEW t \in Nat
    PROVE  LET w == Waiting(t) IN
           /\ Codes(w) = <<>> /\ SleepOf(w) = t /\ w.type = "wait"
           /\ \A held : HeldAfter(held, w) = held
  <1> DEFINE w == Waiting(t)
  <1>1. w.type = "wait" /\ w.params = Updated(Defaults["wait"], [duration_ms |-> t])
    BY DEF Waiting, Create
  <1>2. DOMAIN Defaults["wait"] = {"duration_ms"}
    BY DEF Defaults
  <1>3. DOMAIN w.params = {"duration_ms"} /\ w.params.duration_ms = t
    BY <1>1, <1>2 DEF Updated
  <1> HIDE DEF w
  <1>4. Codes(w) = <<>> /\ SleepOf(w) = t
    BY <1>1, <1>3 DEF Codes, SleepOf, Milliseconds
  <1>5. \A held : HeldAfter(held, w) = held
    BY <1>1 DEF HeldAfter, Presses, Releases
  <1> QED
    BY <1>1, <1>4, <1>5 DEF w

\* What has been recorded presses codes of the table, and sleeps for a while.
LEMMA RecordedFacts ==
    ASSUME NEW a \in Recorded
    PROVE  ToSet(Codes(a)) \subseteq Known /\ SleepOf(a) \in Nat
  <1>1. ASSUME NEW c \in Known, NEW pressed \in BOOLEAN, a = Event(c, pressed)
        PROVE  ToSet(Codes(a)) \subseteq Known /\ SleepOf(a) \in Nat
    <2>1. Codes(a) = <<c>> /\ SleepOf(a) = 0
      BY <1>1, EventFacts
    <2> DEFINE one == <<c>>
    <2>2. DOMAIN one = {1} /\ one[1] = c
      OBVIOUS
    <2> HIDE DEF one
    <2>3. ToSet(one) = {c}
      BY <2>2 DEF ToSet
    <2> QED
      BY <2>1, <2>3 DEF one
  <1>2. ASSUME NEW t \in Nat, a = Waiting(t)
        PROVE  ToSet(Codes(a)) \subseteq Known /\ SleepOf(a) \in Nat
    <2>1. Codes(a) = <<>> /\ SleepOf(a) = t
      BY <1>2, WaitingFacts
    <2>2. ToSet(<<>>) = {}
      BY DEF ToSet
    <2> QED
      BY <2>1, <2>2
  <1> QED
    BY <1>1, <1>2 DEF Recorded

\* What one more recorded action changes.
LEMMA RecordedLonger ==
    ASSUME NEW s \in Seq(Recorded), NEW a \in Recorded
    PROVE  /\ s \o <<a>> \in Seq(Recorded) /\ s \o <<a>> # <<>>
           /\ Unreleased(s) \subseteq Known
           /\ Unreleased(s \o <<a>>) = HeldAfter(Unreleased(s), a)
           /\ Duration(s) \in Nat
           /\ Duration(s \o <<a>>) = Duration(s) + SleepOf(a)
           /\ Count(s) \in Nat
           /\ Count(s \o <<a>>) = IF a.type = "wait" THEN Count(s) ELSE Count(s) + 1
  <1> DEFINE t == s \o <<a>>
  <1>1. Recorded \cup {a} = Recorded
    OBVIOUS
  <1>2. t \in Seq(Recorded) /\ Len(t) = Len(s) + 1 /\ Len(s) \in Nat
    BY <1>1, Longer
  <1>3. t # <<>>
    <2> HIDE DEF t
    <2> QED
      BY <1>2
  <1>4. \A b \in Recorded \cup {a} : ToSet(Codes(b)) \subseteq Known /\ SleepOf(b) \in Nat
    BY RecordedFacts
  <1>5. Unreleased(s) \subseteq Known /\ Unreleased(t) = HeldAfter(Unreleased(s), a)
    BY <1>4, UnreleasedLonger
  <1>6. Duration(s) \in Nat /\ Duration(t) = Duration(s) + SleepOf(a)
    BY <1>4, DurationLonger
  <1>7. Count(s) \in Nat /\ Count(t) = IF a.type = "wait" THEN Count(s) ELSE Count(s) + 1
    BY CountLonger
  <1> QED
    BY <1>2, <1>3, <1>5, <1>6, <1>7

LEMMA NothingRecorded ==
    /\ <<>> \in Seq(Recorded) /\ Unreleased(<<>>) = {} /\ Duration(<<>>) = 0 /\ Count(<<>>) = 0
  <1> DEFINE s == <<>>
  <1>1. s \in Seq(Recorded) /\ Len(s) = 0 /\ DOMAIN s = {} /\ 0 \in Nat
    OBVIOUS
  <1> HIDE DEF s
  <1>2. \A i \in 1 .. Len(s) : ToSet(Codes(s[i])) \subseteq {} /\ SleepOf(s[i]) \in Nat
    BY <1>1
  <1>3. HeldIn(s)[0] = {}
    <2>1. Len(s) \in Nat
      BY <1>1
    <2> QED
      BY <1>2, <2>1, HeldInIs
  <1>4. TimeIn(s)[0] = 0
    <2>1. Len(s) \in Nat
      BY <1>1
    <2> QED
      BY <1>2, <2>1, TimeInIs
  <1>5. Count(s) = 0
    <2>1. {i \in DOMAIN s : s[i].type # "wait"} = {}
      BY <1>1
    <2> QED
      BY <2>1, FS_EmptySet DEF Count
  <1> QED
    BY <1>1, <1>3, <1>4, <1>5 DEF Unreleased, Duration, s

\* The longest time between two events that is not recorded.
Slack == IF MinDelay = 0 THEN 0 ELSE MinDelay - 1

\* How the times of what is recorded relate to the clock.
TimedInv ==
    /\ clock \in Nat /\ captured \in Seq(Recorded)
    /\ captured = <<>> => last = None /\ first = None
    /\ captured # <<>> =>
        /\ last \in Nat /\ first \in Nat /\ last <= clock
        /\ Count(captured) \in Nat /\ Count(captured) >= 1
        /\ Duration(captured) <= last - first
        /\ last - first - Duration(captured) <= (Count(captured) - 1) * Slack

\* An input that is recorded is added with the time before it, and nothing else is.
LEMMA FeedDoes ==
    ASSUME TimedInv, NEW code, NEW pressed \in BOOLEAN, Feed(code, pressed), clock' = clock
    PROVE  /\ TimedInv'
           /\ Unreleased(captured) \subseteq Known
           /\ Unreleased(captured') =
                IF ~(recording /\ code \in Known) THEN Unreleased(captured)
                ELSE IF pressed THEN Unreleased(captured) \cup {code}
                ELSE Unreleased(captured) \ {code}
  <1>1. Unreleased(captured) \subseteq Known
    <2>1. Waiting(0) \in Recorded
      BY DEF Recorded
    <2> QED
      BY <2>1, RecordedLonger DEF TimedInv
  <1>2. CASE ~(recording /\ code \in Known)
    <2>1. captured' = captured /\ last' = last /\ first' = first
      BY <1>2 DEF Feed
    <2>2. TimedInv'
      BY <2>1 DEF TimedInv, Slack, Count
    <2> QED
      BY <1>1, <1>2, <2>1, <2>2
  <1>3. CASE recording /\ code \in Known
    <2> DEFINE e == Event(code, pressed)
               U == Unreleased(captured)
               g == clock - last
               s == captured \o Gap
               t == s \o <<e>>
    <2>1. /\ captured' = t /\ last' = clock
          /\ first' = IF first = None THEN clock ELSE first
      BY <1>3 DEF Feed
    <2>2. e \in Recorded /\ SleepOf(e) = 0 /\ e.type # "wait"
          /\ \A held : HeldAfter(held, e) = IF pressed THEN held \cup {code} ELSE held \ {code}
      BY <1>3, EventFacts DEF Recorded
    <2>3. /\ captured \in Seq(Recorded) /\ clock \in Nat
          /\ captured = <<>> => last = None /\ first = None
          /\ captured # <<>> => last \in Nat /\ first \in Nat /\ last <= clock
      BY DEF TimedInv
    <2>4. /\ None \notin Nat /\ MinDelay \in Nat /\ Slack \in Nat
      BY RecordingAssumption DEF Slack
    <2>5. Duration(captured) \in Nat /\ Count(captured) \in Nat
      BY <2>2, <2>3, RecordedLonger
    <2> DEFINE w == IF last = None \/ g < MinDelay THEN 0 ELSE g
    <2>6. /\ s \in Seq(Recorded) /\ Unreleased(s) = U /\ Count(s) = Count(captured)
          /\ Duration(s) = Duration(captured) + w
      <3>1. CASE last = None \/ g < MinDelay
        <4>1. Gap = <<>>
          BY <3>1 DEF Gap
        <4>2. s = captured
          BY <2>3, <4>1
        <4> HIDE DEF s
        <4> QED
          BY <2>3, <2>5, <3>1, <4>2
      <3>2. CASE ~(last = None \/ g < MinDelay)
        <4>1. Gap = <<Waiting(g)>>
          BY <3>2 DEF Gap, Waiting
        <4>2. g \in Nat
          <5>1. last \in Nat /\ last <= clock
            BY <2>3, <3>2
          <5> QED
            BY <2>3, <5>1
        <4>3. /\ Waiting(g) \in Recorded /\ SleepOf(Waiting(g)) = g /\ Waiting(g).type = "wait"
              /\ \A held : HeldAfter(held, Waiting(g)) = held
          BY <4>2, WaitingFacts DEF Recorded
        <4>4. s = captured \o <<Waiting(g)>>
          BY <4>1
        <4>5. /\ s \in Seq(Recorded) /\ Unreleased(s) = HeldAfter(U, Waiting(g))
              /\ Duration(s) = Duration(captured) + SleepOf(Waiting(g))
              /\ Count(s) = Count(captured)
          BY <2>3, <4>3, <4>4, RecordedLonger
        <4> HIDE DEF s, g
        <4> QED
          BY <3>2, <4>3, <4>5
      <3> QED
        BY <3>1, <3>2
    <2> HIDE DEF s, e
    <2>7. /\ t \in Seq(Recorded) /\ t # <<>>
          /\ Unreleased(t) = HeldAfter(Unreleased(s), e)
          /\ Duration(t) = Duration(s) + SleepOf(e)
          /\ Count(t) = Count(s) + 1 /\ Duration(s) \in Nat /\ Count(s) \in Nat
      BY <2>2, <2>6, RecordedLonger
    <2> HIDE DEF t
    <2>8. Unreleased(captured') = IF pressed THEN U \cup {code} ELSE U \ {code}
      BY <2>1, <2>2, <2>6, <2>7
    <2> DEFINE d == Duration(captured)
               n == Count(captured)
    <2>9. /\ Duration(captured') = d + w /\ Count(captured') = n + 1
          /\ captured' \in Seq(Recorded) /\ captured' # <<>>
      BY <2>1, <2>2, <2>5, <2>6, <2>7
    <2>10. /\ first' \in Nat /\ d + w <= clock - first'
           /\ clock - first' - (d + w) <= n * Slack
      <3>1. CASE captured = <<>>
        <4>1. d = 0 /\ n = 0 /\ last = None /\ first = None
          BY <2>3, <3>1, NothingRecorded
        <4>2. first' = clock /\ w = 0 /\ n * Slack = 0
          BY <2>1, <2>4, <4>1
        <4> QED
          BY <2>3, <4>1, <4>2
      <3>2. CASE captured # <<>>
        <4>1. /\ last \in Nat /\ first \in Nat /\ last <= clock
              /\ n >= 1 /\ d <= last - first /\ last - first - d <= (n - 1) * Slack
          BY <3>2 DEF TimedInv
        <4>2. first' = first /\ last # None
          BY <2>1, <2>4, <4>1
        <4>3. g \in Nat /\ clock = last + g
          BY <2>3, <4>1
        <4>4. w \in Nat /\ w <= g /\ g - w <= Slack
          <5> HIDE DEF g
          <5> QED
            BY <2>4, <4>2, <4>3 DEF Slack
        <4>5. n * Slack = (n - 1) * Slack + Slack /\ (n - 1) * Slack \in Int
          <5>1. \A i, j \in Nat : i * j = (i - 1) * j + j /\ (i - 1) * j \in Int
            OBVIOUS
          <5> HIDE DEF n
          <5> QED
            BY <2>4, <2>5, <5>1 DEF n
        <4> DEFINE p == (n - 1) * Slack
                   q == n * Slack
        <4>6. last - first - d <= p /\ q = p + Slack /\ p \in Int
          BY <4>1, <4>5
        <4> HIDE DEF p, q, w, g, d, n
        <4>7. d \in Nat
          BY <2>5 DEF d
        <4>8. d + w <= clock - first /\ clock - first - (d + w) <= q
          BY <2>3, <2>4, <4>1, <4>3, <4>4, <4>6, <4>7
        <4> QED
          BY <4>1, <4>2, <4>8 DEF q
      <3> QED
        BY <3>1, <3>2
    <2>11. TimedInv'
      <3> HIDE DEF d, n, w
      <3>1. n \in Nat
        BY <2>5 DEF n
      <3>2. Count(captured') >= 1 /\ Count(captured') \in Nat /\ Count(captured') - 1 = n
        BY <2>9, <3>1
      <3>3. last' = clock /\ clock' = clock /\ clock \in Nat
        BY <2>1, <2>3
      <3>4. clock <= clock
        BY <2>3
      <3> QED
        BY <2>9, <2>10, <3>2, <3>3, <3>4 DEF TimedInv, Slack, Count
    <2> QED
      BY <1>1, <1>3, <2>8, <2>11
  <1> QED
    BY <1>2, <1>3

\* A button that was pressed on a control of the dialog was not recorded: if
\* the recording leaves it down, that is from a press before, whose release
\* was not heard of.
RecordInv ==
    /\ TimedInv
    /\ clicking \in Mouse \cup {None}
    /\ recording =>
        /\ Unreleased(captured) \subseteq down \cup unheard
        /\ ignoring /\ clicking # None /\ clicking \in Unreleased(captured) => clicking \in unheard

LEMMA RecordInvIs ==
    ASSUME RecordInv
    PROVE  /\ TimedInv /\ clicking \in Mouse \cup {None}
           /\ recording => Unreleased(captured) \subseteq down \cup unheard
           /\ recording /\ ignoring /\ clicking # None /\ clicking \in Unreleased(captured)
                => clicking \in unheard
  BY DEF RecordInv

\* Nothing is recorded: a recorder that is opened, started or closed.
LEMMA NothingKeeps ==
    ASSUME RecordInv, captured' = <<>>, last' = None, first' = None, clock' \in Nat,
           clicking' \in {clicking, None}
    PROVE  RecordInv'
  <1>1. TimedInv'
    BY NothingRecorded DEF TimedInv
  <1>2. Unreleased(captured') = {}
    BY NothingRecorded
  <1> QED
    BY <1>1, <1>2, RecordInvIs DEF RecordInv

LEMMA PressKeyKeeps ==
    ASSUME RecordInv, NEW k \in Key, PressKey(k)
    PROVE  RecordInv'
  <1> DEFINE U == Unreleased(captured)
  <1>1. /\ TimedInv /\ clicking \in Mouse \cup {None}
        /\ recording => U \subseteq down \cup unheard
        /\ recording /\ ignoring /\ clicking # None /\ clicking \in U => clicking \in unheard
    BY RecordInvIs
  <1>2. /\ down' = down \cup {k} /\ unheard' = IF focus THEN unheard \ {k} ELSE unheard
        /\ clock' = clock /\ clicking' = clicking /\ ignoring' = ignoring /\ recording' = recording
    BY DEF PressKey
  <1>3. clicking # None => clicking # k
    BY <1>1, RecordingAssumption
  <1>4. CASE focus
    <2>1. Feed(k, TRUE)
      BY <1>4 DEF PressKey
    <2>2. TimedInv' /\ (Unreleased(captured') = U \/ Unreleased(captured') = U \cup {k})
      BY <1>1, <1>2, <2>1, FeedDoes
    <2> HIDE DEF U
    <2> QED
      BY <1>1, <1>2, <1>3, <1>4, <2>2 DEF RecordInv
  <1>5. CASE ~focus
    <2>1. captured' = captured /\ last' = last /\ first' = first
      BY <1>5 DEF PressKey
    <2>2. TimedInv'
      BY <1>1, <1>2, <2>1 DEF TimedInv, Slack, Count
    <2> QED
      BY <1>1, <1>2, <1>5, <2>1, <2>2 DEF RecordInv
  <1> QED
    BY <1>4, <1>5

LEMMA ReleaseKeyKeeps ==
    ASSUME RecordInv, NEW k \in Key, ReleaseKey(k)
    PROVE  RecordInv'
  <1> DEFINE U == Unreleased(captured)
  <1>1. /\ TimedInv /\ clicking \in Mouse \cup {None}
        /\ recording => U \subseteq down \cup unheard
        /\ recording /\ ignoring /\ clicking # None /\ clicking \in U => clicking \in unheard
    BY RecordInvIs
  <1>2. /\ down' = down \ {k}
        /\ clock' = clock /\ clicking' = clicking /\ ignoring' = ignoring /\ recording' = recording
    BY DEF ReleaseKey
  <1>3. CASE focus
    <2>1. Feed(k, FALSE) /\ unheard' = unheard
      BY <1>3 DEF ReleaseKey
    <2>2. /\ TimedInv' /\ U \subseteq Known
          /\ Unreleased(captured') = IF recording /\ k \in Known THEN U \ {k} ELSE U
      BY <1>1, <1>2, <2>1, FeedDoes
    <2> HIDE DEF U
    <2> QED
      BY <1>1, <1>2, <2>1, <2>2 DEF RecordInv
  <1>4. CASE ~focus
    <2>1. captured' = captured /\ last' = last /\ first' = first /\ unheard' = unheard \cup {k}
      BY <1>4 DEF ReleaseKey
    <2>2. TimedInv'
      BY <1>1, <1>2, <2>1 DEF TimedInv, Slack, Count
    <2> QED
      BY <1>1, <1>2, <2>1, <2>2 DEF RecordInv
  <1> QED
    BY <1>3, <1>4

LEMMA PressButtonKeeps ==
    ASSUME RecordInv, NEW b \in Mouse, NEW onControl \in BOOLEAN, PressButton(b, onControl)
    PROVE  RecordInv'
  <1> DEFINE U == Unreleased(captured)
  <1>1. /\ TimedInv /\ clicking \in Mouse \cup {None}
        /\ recording => U \subseteq down \cup unheard
        /\ recording /\ ignoring /\ clicking # None /\ clicking \in U => clicking \in unheard
    BY RecordInvIs
  <1>2. b \notin down /\ down' = down \cup {b} /\ clock' = clock /\ recording' = recording
    BY DEF PressButton
  <1>3. CASE focus /\ clicking = None /\ ~onControl
    <2>1. /\ clicking' = b /\ (recording => ~ignoring') /\ unheard' = unheard \ {b}
          /\ Feed(b, TRUE)
      BY <1>3 DEF PressButton
    <2>2. TimedInv' /\ (Unreleased(captured') = U \/ Unreleased(captured') = U \cup {b})
      BY <1>1, <1>2, <2>1, FeedDoes
    <2> HIDE DEF U
    <2> QED
      BY <1>1, <1>2, <2>1, <2>2 DEF RecordInv
  <1>4. CASE ~(focus /\ clicking = None /\ ~onControl)
    <2>1. /\ captured' = captured /\ last' = last /\ first' = first /\ unheard' = unheard
          /\ \/ clicking' = b
             \/ clicking' = clicking /\ ignoring' = ignoring
      BY <1>4 DEF PressButton
    <2>2. TimedInv'
      BY <1>1, <1>2, <2>1 DEF TimedInv, Slack, Count
    <2> QED
      BY <1>1, <1>2, <2>1, <2>2 DEF RecordInv
  <1> QED
    BY <1>3, <1>4

LEMMA ReleaseButtonKeeps ==
    ASSUME RecordInv, NEW b \in Mouse, ReleaseButton(b)
    PROVE  RecordInv'
  <1> DEFINE U == Unreleased(captured)
  <1>1. /\ TimedInv /\ clicking \in Mouse \cup {None}
        /\ recording => U \subseteq down \cup unheard
        /\ recording /\ ignoring /\ clicking # None /\ clicking \in U => clicking \in unheard
    BY RecordInvIs
  <1>2. /\ down' = down \ {b} /\ clock' = clock /\ recording' = recording
        /\ clicking' = IF clicking = b THEN None ELSE clicking
    BY DEF ReleaseButton
  <1>3. CASE clicking = b /\ ~ignoring
    <2>1. Feed(b, FALSE) /\ unheard' = unheard
      BY <1>3 DEF ReleaseButton
    <2>2. /\ TimedInv' /\ U \subseteq Known
          /\ Unreleased(captured') = IF recording /\ b \in Known THEN U \ {b} ELSE U
      BY <1>1, <1>2, <2>1, FeedDoes
    <2> HIDE DEF U
    <2> QED
      BY <1>1, <1>2, <1>3, <2>1, <2>2 DEF RecordInv
  <1>4. CASE ~(clicking = b /\ ~ignoring)
    <2>1. /\ captured' = captured /\ last' = last /\ first' = first
          /\ IF clicking = b THEN unheard' = unheard
             ELSE unheard' = unheard \cup {b} /\ ignoring' = ignoring
      BY <1>4 DEF ReleaseButton
    <2>2. TimedInv'
      BY <1>1, <1>2, <2>1 DEF TimedInv, Slack, Count
    <2>3. b # None
      BY RecordingAssumption
    <2> QED
      BY <1>1, <1>2, <1>4, <2>1, <2>2, <2>3 DEF RecordInv
  <1> QED
    BY <1>3, <1>4

LEMMA RecorderKeeps ==
    ASSUME RecordInv, Input \/ DialogStep
    PROVE  RecordInv'
  <1>1. ASSUME NEW k \in Key, PressKey(k) \/ ReleaseKey(k) PROVE RecordInv'
    BY <1>1, PressKeyKeeps, ReleaseKeyKeeps
  <1>2. ASSUME NEW b \in Mouse, ReleaseButton(b) PROVE RecordInv'
    BY <1>2, ReleaseButtonKeeps
  <1>3. ASSUME NEW b \in Mouse, NEW onControl \in BOOLEAN, PressButton(b, onControl) PROVE RecordInv'
    BY <1>3, PressButtonKeeps
  <1>4. CASE ChangeFocus \/ Tick
    <2>1. /\ captured' = captured /\ last' = last /\ first' = first /\ recording' = recording
          /\ ignoring' = ignoring /\ clicking' = clicking /\ down' = down /\ unheard' = unheard
          /\ clock' \in {clock, clock + 1}
      BY <1>4 DEF ChangeFocus, Tick, dialogVars
    <2>2. TimedInv'
      <3>1. clock \in Nat /\ (captured # <<>> => last \in Nat /\ last <= clock)
        BY DEF RecordInv, TimedInv
      <3>2. clock' \in Nat /\ (captured # <<>> => last <= clock')
        BY <2>1, <3>1
      <3> QED
        BY <2>1, <3>2 DEF RecordInv, TimedInv, Slack, Count
    <2> QED
      BY <2>1, <2>2 DEF RecordInv
  <1>5. CASE Start
    <2>1. clock \in Nat
      BY DEF RecordInv, TimedInv
    <2> QED
      BY <1>5, <2>1, NothingKeeps DEF Start, inputVars
  <1>6. CASE Stop \/ ToggleTiming
    <2>1. /\ captured' = captured /\ last' = last /\ first' = first /\ clock' = clock
          /\ (recording' => recording)
          /\ ignoring' = ignoring /\ clicking' = clicking /\ down' = down /\ unheard' = unheard
      BY <1>6 DEF Stop, ToggleTiming, inputVars
    <2>2. TimedInv'
      BY <2>1 DEF RecordInv, TimedInv, Slack, Count
    <2> QED
      BY <2>1, <2>2 DEF RecordInv
  <1> QED
    BY <1>1, <1>2, <1>3, <1>4, <1>5, <1>6 DEF Input, DialogStep

LEMMA RecordInitially == Init => RecordInv
  <1> SUFFICES ASSUME RecordingInit PROVE RecordInv
    BY DEF Init
  <1>1. TimedInv
    BY NothingRecorded DEF RecordingInit, TimedInv
  <1> QED
    BY <1>1 DEF RecordingInit, RecordInv

LEMMA RecordInductive == RecordInv /\ [Next]_vars => RecordInv'
  <1> SUFFICES ASSUME RecordInv, [Next]_vars PROVE RecordInv'
    OBVIOUS
  <1>1. UNCHANGED recordingVars => RecordInv'
    <2> SUFFICES ASSUME UNCHANGED recordingVars PROVE RecordInv'
      OBVIOUS
    <2>1. /\ captured' = captured /\ last' = last /\ first' = first /\ clock' = clock
          /\ recording' = recording /\ ignoring' = ignoring /\ clicking' = clicking
          /\ down' = down /\ unheard' = unheard
      BY DEF recordingVars
    <2>2. TimedInv'
      BY <2>1 DEF RecordInv, TimedInv, Slack, Count
    <2> QED
      BY <2>1, <2>2 DEF RecordInv
  <1>2. CASE Record
    <2>1. clock \in Nat
      BY DEF RecordInv, TimedInv
    <2> QED
      BY <1>2, <2>1, NothingKeeps DEF Record, OpenRecorder, inputVars
  <1>3. CASE CloseRecorder
    BY <1>3, NothingKeeps DEF CloseRecorder
  <1> QED
    BY <1>1, <1>2, <1>3, RecorderKeeps DEF Next, SaveRecording, vars

\* However the keys, the buttons, the focus and the switches of the dialog
\* interleave, and whatever the clock reads: what the recording leaves down is
\* down, or its release was not told to the dialog, and its waits add up to the
\* time that passed, but for a gap below the minimum per event (feed of
\* macros/recorder.py, _on_key, _on_button_pressed and _on_button_released of
\* ui/dialogs/recorder.py).
THEOREM RecordsFaithfully == Safety => []RecordingIsFaithful
  <1>1. Init => RecordInv
    BY RecordInitially
  <1>2. RecordInv /\ [Next]_vars => RecordInv'
    BY RecordInductive
  <1>3. RecordInv => RecordingIsFaithful
    <2>1. Events = Count(captured)
      BY DEF Events, Count
    <2> QED
      BY <2>1 DEF RecordInv, TimedInv, RecordingIsFaithful, Slack
  <1> QED
    BY <1>1, <1>2, <1>3, PTL DEF Safety

-----------------------------------------------------------------------------
(* The shape of a macro. *)

\* The durations of the files, and so of what is made of them.
DurationsAreTimes ==
    \A file \in InitialFiles : \A a \in ToSet(file.actions) :
        \A p \in Times \cap DOMAIN a.params : a.params[p] \in Nat

\* No key and no button of a file has an empty name.
NamesAreGiven ==
    \A file \in InitialFiles : \A a \in ToSet(file.actions) :
        \A p \in {"key", "button"} \cap DOMAIN a.params : a.params[p] # None

Durations == IF DurationsAreTimes THEN Nat ELSE Int

\* Durations are whole numbers, and the keys of a combination are a list.
Value(p, v) ==
    /\ p \in Times => v \in Durations
    /\ p \in {"key", "button"} /\ NamesAreGiven => v # None
    /\ p = "keys" => \E S : v \in Seq(S)

\* An action has exactly the parameters of its type.
Legal(a) ==
    /\ a = [type |-> a.type, params |-> a.params, enabled |-> a.enabled]
    /\ a.type \in ActionType /\ a.enabled \in BOOLEAN
    /\ a.params = [p \in DOMAIN Defaults[a.type] |-> a.params[p]]
    /\ \A p \in DOMAIN a.params : Value(p, a.params[p])

LegalSeq(s) == \E S : s \in Seq(S) /\ \A a \in S : Legal(a)

LegalPlayback(p) ==
    /\ p = [mode |-> p.mode, repeat_count |-> p.repeat_count, gap_ms |-> p.gap_ms]
    /\ p.mode \in PlaybackMode /\ p.repeat_count \in 1 .. MaxRepeat /\ p.gap_ms \in 0 .. MaxGap

LegalMacro(m) ==
    /\ m = [actions |-> m.actions, playback |-> m.playback, trigger |-> m.trigger]
    /\ LegalSeq(m.actions) /\ LegalPlayback(m.playback) /\ m.trigger \in TriggerMode

\* The parameter a chooser of keys is for.
ForKeys(d) ==
    d # None /\ d.kind = "key" =>
        \E i, b : \E p \in {"key", "button", "keys"} :
            d = [kind |-> "key", step |-> i, param |-> p, armed |-> b]

\* What a toast can put back is an action as well.
FormInv ==
    /\ LegalMacro(macro)
    /\ removed # None => Legal(removed.action) /\ removed.index \in Nat \ {0}
    /\ ForKeys(dialog)

ShapeInv == FormInv /\ RecordInv

\* A legal action is what its entry in a file is read as.
LEMMA ActionLoads ==
    ASSUME NEW a, Legal(a)
    PROVE  ActionFromFile(ActionToFile(a)) = a /\ ActionToFile(a).type = a.type
  <1> DEFINE d == ActionToFile(a)
  <1>1. /\ a = [type |-> a.type, params |-> a.params, enabled |-> a.enabled]
        /\ a.enabled \in BOOLEAN
        /\ a.params = [p \in DOMAIN Defaults[a.type] |-> a.params[p]]
    BY DEF Legal
  <1>2. d.type = a.type /\ d.params = a.params
    BY <1>1 DEF ActionToFile
  <1>3. ("enabled" \notin DOMAIN d \/ d.enabled) = a.enabled
    <2>1. CASE a.enabled
      <3>1. d = [type |-> a.type, params |-> a.params]
        BY <2>1 DEF ActionToFile
      <3>2. "enabled" \notin DOMAIN d
        BY <3>1
      <3> HIDE DEF d
      <3> QED
        BY <1>1, <2>1, <3>2
    <2>2. CASE ~a.enabled
      <3>1. d = a
        BY <2>2 DEF ActionToFile
      <3>2. "enabled" \in DOMAIN a
        BY <1>1
      <3> HIDE DEF d
      <3> QED
        BY <1>1, <2>2, <3>1, <3>2
    <2> QED
      BY <2>1, <2>2
  <1>4. [p \in DOMAIN Defaults[d.type] |->
            IF p \in DOMAIN d.params THEN d.params[p] ELSE Defaults[d.type][p]] = a.params
    <2>1. DOMAIN a.params = DOMAIN Defaults[a.type]
      BY <1>1
    <2> HIDE DEF d
    <2>2. [p \in DOMAIN Defaults[d.type] |->
              IF p \in DOMAIN d.params THEN d.params[p] ELSE Defaults[d.type][p]]
          = [p \in DOMAIN Defaults[a.type] |-> a.params[p]]
      BY <1>2, <2>1
    <2> QED
      BY <1>1, <2>2
  <1>5. ActionFromFile(d) = [type |-> a.type, params |-> a.params, enabled |-> a.enabled]
    <2> HIDE DEF d
    <2> QED
      BY <1>2, <1>3, <1>4 DEF ActionFromFile
  <1> QED
    BY <1>1, <1>2, <1>5

\* A legal playback is read as it was written.
LEMMA PlaybackLoads ==
    ASSUME NEW p, LegalPlayback(p)
    PROVE  PlaybackFromFile(p) = p
  <1>1. /\ p = [mode |-> p.mode, repeat_count |-> p.repeat_count, gap_ms |-> p.gap_ms]
        /\ p.mode \in PlaybackMode
        /\ p.repeat_count \in 1 .. MaxRepeat /\ p.gap_ms \in 0 .. MaxGap
    BY DEF LegalPlayback
  <1>2. Clamped(p.repeat_count, 1, MaxRepeat) = p.repeat_count
    BY <1>1, MacroModelAssumption DEF Clamped
  <1>3. Clamped(p.gap_ms, 0, MaxGap) = p.gap_ms
    BY <1>1, MacroModelAssumption DEF Clamped
  <1> QED
    BY <1>1, <1>2, <1>3 DEF PlaybackFromFile

\* A legal macro is what its file is read as: no action is skipped.
LEMMA MacroLoads ==
    ASSUME NEW m, LegalMacro(m)
    PROVE  MacroFromFile(MacroToFile(m)) = m
  <1>1. /\ m = [actions |-> m.actions, playback |-> m.playback, trigger |-> m.trigger]
        /\ m.trigger \in TriggerMode
    BY DEF LegalMacro
  <1>2. PICK S : m.actions \in Seq(S) /\ \A a \in S : Legal(a)
    BY DEF LegalMacro, LegalSeq
  <1> DEFINE s == m.actions
             D == 1 .. Len(s)
             f == [i \in DOMAIN s |-> ActionToFile(s[i])]
             T == {ActionToFile(a) : a \in S}
             d == MacroToFile(m)
  <1>3. Len(s) \in Nat /\ DOMAIN s = D /\ s = [i \in D |-> s[i]] /\ \A i \in D : s[i] \in S
    BY <1>2
  <1>4. d.actions = f /\ d.playback = m.playback /\ d.trigger = m.trigger
    BY <1>1 DEF MacroToFile
  <1>5. f = [i \in D |-> ActionToFile(s[i])]
    BY <1>3
  <1>6. f \in Seq(T)
    <2>1. \A i \in D : ActionToFile(s[i]) \in T
      BY <1>3
    <2> HIDE DEF T, f, s
    <2> QED
      BY <1>3, <1>5, <2>1, IsASeq
  <1>7. \A i \in D : /\ ActionFromFile(f[i]) = s[i]
                     /\ f[i].type \in ActionType
    <2> TAKE i \in D
    <2>1. Legal(s[i]) /\ f[i] = ActionToFile(s[i])
      BY <1>2, <1>3, <1>5
    <2>2. s[i].type \in ActionType
      BY <2>1 DEF Legal
    <2> QED
      BY <2>1, <2>2, ActionLoads
  <1>8. DOMAIN f = D
    BY <1>5
  <1> HIDE DEF s, f, T
  <1>9. {i \in DOMAIN f : f[i].type \in ActionType} = DOMAIN f
    BY <1>7, <1>8
  <1>10. Kept(f, {i \in DOMAIN f : f[i].type \in ActionType}) = f
    <2>1. f \in Seq(T) /\ DOMAIN f \in SUBSET DOMAIN f
      BY <1>6
    <2>2. Kept(f, DOMAIN f) = f
      BY <2>1, KeptIs
    <2> QED
      BY <1>9, <2>2
  <1>11. [i \in DOMAIN f |-> ActionFromFile(f[i])] = s
    <2>1. [i \in D |-> ActionFromFile(f[i])] = [i \in D |-> s[i]]
      BY <1>7
    <2> HIDE DEF D
    <2> QED
      BY <1>3, <1>8, <2>1
  <1> HIDE DEF d
  <1>12. MacroFromFile(d)
            = [actions |-> [i \in DOMAIN f |-> ActionFromFile(f[i])],
               playback |-> PlaybackFromFile(m.playback),
               trigger |-> m.trigger]
    BY <1>1, <1>4, <1>10 DEF MacroFromFile
  <1>13. PlaybackFromFile(m.playback) = m.playback
    BY PlaybackLoads DEF LegalMacro
  <1> QED
    BY <1>1, <1>11, <1>12, <1>13 DEF s, d

\* The defaults are durations and a list of keys.
LEMMA DefaultsFit ==
    \A t \in ActionType : \A p \in DOMAIN Defaults[t] : Value(p, Defaults[t][p])
  <1>1. 0 \in Durations /\ 1 \in Durations
    BY DEF Durations
  <1>2. \E S : <<"KEY_LEFTCTRL", "KEY_C">> \in Seq(S)
    <2> DEFINE S == {"KEY_LEFTCTRL", "KEY_C"}
               s == <<"KEY_LEFTCTRL", "KEY_C">>
    <2>1. s \in Seq(S)
      OBVIOUS
    <2> HIDE DEF s, S
    <2>2. \E T : s \in Seq(T)
      BY <2>1
    <2> QED
      BY <2>2 DEF s
  <1> DEFINE s == <<"KEY_LEFTCTRL", "KEY_C">>
  <1> SUFFICES ASSUME NEW t \in ActionType, NEW p \in DOMAIN Defaults[t]
               PROVE  Value(p, Defaults[t][p])
    OBVIOUS
  <1>3. p \in Times => Defaults[t][p] = 1
    BY DEF ActionType, Defaults, Times
  <1>4. p = "keys" => Defaults[t][p] = s
    BY DEF ActionType, Defaults
  <1>5. p \in {"key", "button"} => Defaults[t][p] # None
    <2>1. p \in {"key", "button"} => Defaults[t][p] \in {"KEY_E", "BTN_LEFT"}
      BY DEF ActionType, Defaults
    <2> QED
      BY <2>1, MacroModelAssumption
  <1> HIDE DEF s
  <1> QED
    BY <1>1, <1>2, <1>3, <1>4, <1>5 DEF Value, s

\* What is read of a file is a legal macro.
LEMMA LoadedIsLegal ==
    ASSUME NEW d \in InitialFiles
    PROVE  LegalMacro(MacroFromFile(d))
  <1> DEFINE S == ToSet(d.actions)
             P == {i \in DOMAIN d.actions : d.actions[i].type \in ActionType}
             known == Kept(d.actions, P)
             N == Cardinality(P)
             s == [i \in DOMAIN known |-> ActionFromFile(known[i])]
  <1>1. /\ d.actions \in Seq(S)
        /\ \A a \in S : "enabled" \in DOMAIN a => a.enabled \in BOOLEAN
        /\ d.playback.repeat_count \in Int /\ d.playback.gap_ms \in Int
    BY AuthoringAssumption
  <1>13. ASSUME NEW a \in S, a.type \in ActionType, NEW p \in DOMAIN a.params
         PROVE  Value(p, a.params[p])
    <2>1. /\ p \in Times => a.params[p] \in Int
          /\ p = "keys" => a.params[p] \in Seq(ToSet(a.params[p]))
      BY <1>13, AuthoringAssumption
    <2>2. p \in Times => a.params[p] \in Durations
      BY <1>13, <2>1 DEF Durations, DurationsAreTimes
    <2>3. p \in {"key", "button"} /\ NamesAreGiven => a.params[p] # None
      BY <1>13 DEF NamesAreGiven
    <2> QED
      BY <2>1, <2>2, <2>3 DEF Value
  <1>2. /\ known \in Seq(S) /\ DOMAIN known = 1 .. N
        /\ \A n \in 1 .. N : \E i \in P : known[n] = d.actions[i]
    <2>1. P \in SUBSET DOMAIN d.actions
      OBVIOUS
    <2> HIDE DEF P, S
    <2> QED
      BY <1>1, <2>1, KeptIs
  <1>3. \A n \in 1 .. N : known[n].type \in ActionType /\ known[n] \in S
    <2>1. \A i \in P : d.actions[i].type \in ActionType
      OBVIOUS
    <2>2. \A i \in DOMAIN d.actions : d.actions[i] \in S
      BY <1>1
    <2>3. P \subseteq DOMAIN d.actions
      OBVIOUS
    <2> HIDE DEF P, N, S, known
    <2> QED
      BY <1>2, <2>1, <2>2, <2>3
  <1>4. \A n \in 1 .. N : Legal(ActionFromFile(known[n]))
    <2> SUFFICES ASSUME NEW a \in S, a.type \in ActionType
                 PROVE  Legal(ActionFromFile(a))
      BY <1>3
    <2> DEFINE p == [q \in DOMAIN Defaults[a.type] |->
                        IF q \in DOMAIN a.params THEN a.params[q] ELSE Defaults[a.type][q]]
               e == "enabled" \notin DOMAIN a \/ a.enabled
               b == [type |-> a.type, params |-> p, enabled |-> e]
    <2>1. e \in BOOLEAN
      OBVIOUS
    <2>2. p = [q \in DOMAIN Defaults[a.type] |-> p[q]]
      OBVIOUS
    <2>6. \A q \in DOMAIN p : Value(q, p[q])
      <3>1. \A q \in DOMAIN Defaults[a.type] : Value(q, Defaults[a.type][q])
        BY DefaultsFit
      <3>2. \A q \in DOMAIN a.params : Value(q, a.params[q])
        BY <1>13
      <3> QED
        BY <3>1, <3>2
    <2>3. ActionFromFile(a) = b
      BY DEF ActionFromFile
    <2> HIDE DEF p, e
    <2>4. b.type = a.type /\ b.params = p /\ b.enabled = e
      OBVIOUS
    <2> HIDE DEF b
    <2>5. b = [type |-> b.type, params |-> b.params, enabled |-> b.enabled]
      BY <2>4 DEF b
    <2> QED
      BY <2>1, <2>2, <2>3, <2>4, <2>5, <2>6 DEF Legal
  <1>5. N \in Nat
    <2>1. Len(d.actions) \in Nat /\ P \in SUBSET (1 .. Len(d.actions))
      BY <1>1
    <2> HIDE DEF P
    <2> QED
      BY <2>1, SomePlaces
  <1> HIDE DEF P, N, known
  <1>6. LegalSeq(s)
    <2> DEFINE T == {ActionFromFile(known[n]) : n \in 1 .. N}
    <2>1. s = [n \in 1 .. N |-> ActionFromFile(known[n])]
      BY <1>2
    <2>2. \A n \in 1 .. N : ActionFromFile(known[n]) \in T
      OBVIOUS
    <2>3. \A a \in T : Legal(a)
      BY <1>4
    <2> HIDE DEF T, s
    <2>4. s \in Seq(T)
      BY <1>5, <2>1, <2>2, IsASeq
    <2> QED
      BY <2>3, <2>4 DEF LegalSeq
  <1> DEFINE q == PlaybackFromFile(d.playback)
  <1>7. LegalPlayback(q)
    <2> DEFINE r == d.playback
    <2>1. Clamped(r.repeat_count, 1, MaxRepeat) \in 1 .. MaxRepeat
      BY <1>1, MacroModelAssumption DEF Clamped
    <2>2. Clamped(r.gap_ms, 0, MaxGap) \in 0 .. MaxGap
      BY <1>1, MacroModelAssumption DEF Clamped
    <2>3. (IF r.mode \in PlaybackMode THEN r.mode ELSE "once") \in PlaybackMode
      BY DEF PlaybackMode
    <2> QED
      BY <2>1, <2>2, <2>3 DEF LegalPlayback, PlaybackFromFile
  <1> DEFINE t == IF d.trigger \in TriggerMode THEN d.trigger ELSE "on_press"
  <1>8. t \in TriggerMode
    BY DEF TriggerMode
  <1>9. MacroFromFile(d) = [actions |-> s, playback |-> q, trigger |-> t]
    BY DEF MacroFromFile, known, P
  <1> HIDE DEF s, q, t
  <1> QED
    BY <1>6, <1>7, <1>8, <1>9 DEF LegalMacro

-----------------------------------------------------------------------------
(* What the edits make of legal actions, and of lists of them. *)

LEMMA CreateIsLegal ==
    ASSUME NEW type \in ActionType, NEW given, DOMAIN given \subseteq DOMAIN Defaults[type],
           \A p \in DOMAIN given : Value(p, given[p])
    PROVE  Legal(Create(type, given))
  <1> DEFINE p == Updated(Defaults[type], given)
             a == Create(type, given)
  <1>1. DOMAIN p = DOMAIN Defaults[type]
    BY DEF Updated
  <1>2. p = [q \in DOMAIN Defaults[type] |-> p[q]]
    BY <1>1 DEF Updated
  <1>3. a = [type |-> type, params |-> p, enabled |-> TRUE]
    BY DEF Create
  <1>6. \A q \in DOMAIN p : Value(q, p[q])
    <2>1. \A q \in DOMAIN p :
             p[q] = IF q \in DOMAIN given THEN given[q] ELSE Defaults[type][q]
      BY DEF Updated
    <2>2. \A q \in DOMAIN Defaults[type] : Value(q, Defaults[type][q])
      BY DefaultsFit
    <2> HIDE DEF p
    <2> QED
      BY <1>1, <2>1, <2>2
  <1> HIDE DEF p, a
  <1>4. a.type = type /\ a.params = p /\ a.enabled = TRUE
    BY <1>3
  <1>5. Legal(a)
    BY <1>2, <1>3, <1>4, <1>6 DEF Legal
  <1> QED
    BY <1>5 DEF a

LEMMA ParamIsLegal ==
    ASSUME NEW a, Legal(a), NEW p, NEW v, p \in DOMAIN a.params => Value(p, v)
    PROVE  Legal([a EXCEPT !.params[p] = v])
  <1> DEFINE f == a.params
             g == [f EXCEPT ![p] = v]
             b == [type |-> a.type, params |-> g, enabled |-> a.enabled]
  <1>1. /\ a = [type |-> a.type, params |-> f, enabled |-> a.enabled]
        /\ a.type \in ActionType /\ a.enabled \in BOOLEAN
        /\ f = [q \in DOMAIN Defaults[a.type] |-> f[q]]
        /\ \A q \in DOMAIN f : Value(q, f[q])
    BY DEF Legal
  <1>2. [a EXCEPT !.params[p] = v] = b
    BY <1>1
  <1>7. \A q \in DOMAIN g : Value(q, g[q])
    BY <1>1
  <1>3. g = [q \in DOMAIN f |-> g[q]]
    OBVIOUS
  <1>4. DOMAIN f = DOMAIN Defaults[a.type]
    BY <1>1
  <1> HIDE DEF f, g
  <1>5. b.type = a.type /\ b.params = g /\ b.enabled = a.enabled
    OBVIOUS
  <1>6. Legal(b)
    BY <1>1, <1>3, <1>4, <1>5, <1>7 DEF Legal
  <1> QED
    BY <1>2, <1>6

LEMMA ToggledIsLegal ==
    ASSUME NEW a, Legal(a)
    PROVE  Legal([a EXCEPT !.enabled = ~@])
  <1> DEFINE b == [type |-> a.type, params |-> a.params, enabled |-> ~a.enabled]
  <1>1. /\ a = [type |-> a.type, params |-> a.params, enabled |-> a.enabled]
        /\ a.type \in ActionType /\ a.enabled \in BOOLEAN
        /\ a.params = [q \in DOMAIN Defaults[a.type] |-> a.params[q]]
        /\ \A q \in DOMAIN a.params : Value(q, a.params[q])
    BY DEF Legal
  <1>2. [a EXCEPT !.enabled = ~@] = b
    BY <1>1
  <1>3. b.type = a.type /\ b.params = a.params /\ b.enabled \in BOOLEAN /\ b.enabled = ~a.enabled
    BY <1>1
  <1>4. Legal(b)
    BY <1>1, <1>3 DEF Legal
  <1> QED
    BY <1>2, <1>4

\* The defaults of a type are a function of its parameters.
LEMMA DefaultsAre ==
    ASSUME NEW t \in ActionType
    PROVE  Defaults[t] = [q \in DOMAIN Defaults[t] |-> Defaults[t][q]]
  <1> DEFINE IsFunction(f) == f = [q \in DOMAIN f |-> f[q]]
  <1>1. \A a, b : IsFunction([key |-> a]) /\ IsFunction([key |-> a, hold_ms |-> b])
    OBVIOUS
  <1>2. \A a, b : IsFunction([keys |-> a, hold_ms |-> b])
    OBVIOUS
  <1>3. \A a, b : IsFunction([button |-> a]) /\ IsFunction([button |-> a, hold_ms |-> b])
    OBVIOUS
  <1>4. \A a, b, c, d : IsFunction([button |-> a, x |-> b, y |-> c, hold_ms |-> d])
    OBVIOUS
  <1>5. \A a, b : IsFunction([x |-> a, y |-> b]) /\ IsFunction([dx |-> a, dy |-> b])
    OBVIOUS
  <1>6. \A a, b : /\ IsFunction([amount |-> a, horizontal |-> b])
                  /\ IsFunction([duration_ms |-> a]) /\ IsFunction([app |-> a])
    OBVIOUS
  <1> HIDE DEF IsFunction
  <1>7. /\ IsFunction(Defaults["key_tap"]) /\ IsFunction(Defaults["key_press"])
        /\ IsFunction(Defaults["key_release"]) /\ IsFunction(Defaults["key_combo"])
    BY <1>1, <1>2 DEF Defaults
  <1>8. /\ IsFunction(Defaults["button_click"]) /\ IsFunction(Defaults["button_press"])
        /\ IsFunction(Defaults["button_release"]) /\ IsFunction(Defaults["mouse_click_at"])
    BY <1>3, <1>4 DEF Defaults
  <1>9. /\ IsFunction(Defaults["mouse_move"]) /\ IsFunction(Defaults["mouse_move_relative"])
        /\ IsFunction(Defaults["scroll"]) /\ IsFunction(Defaults["wait"])
        /\ IsFunction(Defaults["launch_app"])
    BY <1>5, <1>6 DEF Defaults
  <1>10. t \in {"key_tap", "key_press", "key_release", "key_combo", "button_click",
                "button_press", "button_release", "mouse_click_at", "mouse_move",
                "mouse_move_relative", "scroll", "wait", "launch_app"}
    BY DEF ActionType, Defaults
  <1>11. IsFunction(Defaults[t])
    BY <1>7, <1>8, <1>9, <1>10
  <1> QED
    BY <1>11 DEF IsFunction

\* The parameters of the old type are dropped.
LEMMA RetypedIsLegal ==
    ASSUME NEW a, Legal(a), NEW t \in ActionType
    PROVE  Legal([a EXCEPT !.type = t, !.params = Defaults[t]])
  <1> DEFINE D == Defaults[t]
             b == [type |-> t, params |-> D, enabled |-> a.enabled]
             c == [a EXCEPT !.type = t]
  <1>1. a = [type |-> a.type, params |-> a.params, enabled |-> a.enabled] /\ a.enabled \in BOOLEAN
    BY DEF Legal
  <1>2. [c EXCEPT !.params = D] = b
    <2>1. c = [type |-> t, params |-> a.params, enabled |-> a.enabled]
      BY <1>1
    <2> HIDE DEF c, D
    <2> QED
      BY <2>1
  <1>3. b.type = t /\ b.params = D /\ b.enabled = a.enabled
    OBVIOUS
  <1>4. D = [q \in DOMAIN D |-> D[q]] /\ \A q \in DOMAIN D : Value(q, D[q])
    BY DefaultsAre, DefaultsFit
  <1>5. Legal(b)
    BY <1>1, <1>3, <1>4 DEF Legal
  <1>6. Legal([c EXCEPT !.params = D])
    <2> HIDE DEF c, D, b
    <2> QED
      BY <1>2, <1>5
  <1> QED
    BY <1>6, Zenon

LEMMA LegalElement ==
    ASSUME NEW s, LegalSeq(s)
    PROVE  /\ Len(s) \in Nat /\ DOMAIN s = 1 .. Len(s)
           /\ \A i \in DOMAIN s : Legal(s[i])
  BY DEF LegalSeq

LEMMA LegalConcat ==
    ASSUME NEW s, LegalSeq(s), NEW t, LegalSeq(t)
    PROVE  LegalSeq(s \o t)
  <1>1. PICK S : s \in Seq(S) /\ \A a \in S : Legal(a)
    BY DEF LegalSeq
  <1>2. PICK T : t \in Seq(T) /\ \A a \in T : Legal(a)
    BY DEF LegalSeq
  <1> DEFINE U == S \cup T
  <1>3. s \in Seq(U) /\ t \in Seq(U)
    BY <1>1, <1>2
  <1>4. \A a \in U : Legal(a)
    BY <1>1, <1>2
  <1> HIDE DEF U
  <1>5. s \o t \in Seq(U)
    BY <1>3, ConcatProperties
  <1> QED
    BY <1>4, <1>5 DEF LegalSeq

LEMMA LegalOne ==
    ASSUME NEW a, Legal(a)
    PROVE  LegalSeq(<<a>>)
  <1> DEFINE S == {a}
             s == <<a>>
  <1>1. s \in Seq(S) /\ \A b \in S : Legal(b)
    OBVIOUS
  <1> HIDE DEF s, S
  <1>2. LegalSeq(s)
    BY <1>1 DEF LegalSeq
  <1> QED
    BY <1>2 DEF s

LEMMA LegalNone == LegalSeq(<<>>)
  <1> DEFINE S == {}
             s == <<>>
  <1>1. s \in Seq(S) /\ \A b \in S : Legal(b)
    OBVIOUS
  <1> HIDE DEF s, S
  <1>2. LegalSeq(s)
    BY <1>1 DEF LegalSeq
  <1> QED
    BY <1>2 DEF s

LEMMA LegalInserted ==
    ASSUME NEW s, LegalSeq(s), NEW i \in 1 .. Len(s) + 1, NEW a, Legal(a)
    PROVE  LegalSeq(InsertAt(s, i, a))
  <1>1. PICK S : s \in Seq(S) /\ \A b \in S : Legal(b)
    BY DEF LegalSeq
  <1>2. SubSeq(s, 1, i - 1) \in Seq(S) /\ SubSeq(s, i, Len(s)) \in Seq(S)
    BY <1>1, SubSeqProperties
  <1>3. /\ LegalSeq(SubSeq(s, 1, i - 1)) /\ LegalSeq(SubSeq(s, i, Len(s)))
        /\ LegalSeq(<<a>>)
    BY <1>1, <1>2, LegalOne DEF LegalSeq
  <1>4. LegalSeq(SubSeq(s, 1, i - 1) \o <<a>>)
    BY <1>3, LegalConcat
  <1>5. LegalSeq(SubSeq(s, 1, i - 1) \o <<a>> \o SubSeq(s, i, Len(s)))
    BY <1>3, <1>4, LegalConcat
  <1> QED
    BY <1>5 DEF InsertAt

LEMMA LegalRemoved ==
    ASSUME NEW s, LegalSeq(s), NEW i \in DOMAIN s
    PROVE  LegalSeq(RemoveAt(s, i)) /\ Len(RemoveAt(s, i)) = Len(s) - 1
  <1>1. PICK S : s \in Seq(S) /\ \A b \in S : Legal(b)
    BY DEF LegalSeq
  <1> DEFINE u == SubSeq(s, 1, i - 1)
             v == SubSeq(s, i + 1, Len(s))
  <1>2. /\ u \in Seq(S) /\ v \in Seq(S)
        /\ Len(u) = i - 1 /\ Len(v) = Len(s) - i
    BY <1>1, SubSeqProperties
  <1>3. LegalSeq(u) /\ LegalSeq(v)
    <2> HIDE DEF u, v
    <2> QED
      BY <1>1, <1>2 DEF LegalSeq
  <1>4. RemoveAt(s, i) = u \o v
    BY DEF RemoveAt
  <1>5. i \in Nat /\ Len(s) \in Nat
    BY <1>1
  <1> HIDE DEF u, v
  <1>6. Len(u \o v) = Len(u) + Len(v)
    BY <1>2, ConcatProperties
  <1>7. LegalSeq(u \o v)
    BY <1>3, LegalConcat
  <1> QED
    BY <1>2, <1>4, <1>5, <1>6, <1>7

LEMMA LegalReplaced ==
    ASSUME NEW s, LegalSeq(s), NEW i, NEW a, i \in DOMAIN s => Legal(a)
    PROVE  LegalSeq([s EXCEPT ![i] = a])
  <1>1. PICK S : s \in Seq(S) /\ \A b \in S : Legal(b)
    BY DEF LegalSeq
  <1>2. CASE i \in DOMAIN s
    <2> DEFINE T == S \cup {a}
    <2>1. [s EXCEPT ![i] = a] \in Seq(T)
      BY <1>1, <1>2
    <2>2. \A b \in T : Legal(b)
      BY <1>1, <1>2
    <2> HIDE DEF T
    <2> QED
      BY <2>1, <2>2 DEF LegalSeq
  <1>3. CASE i \notin DOMAIN s
    <2>1. [s EXCEPT ![i] = a] = s
      BY <1>1, <1>3
    <2> QED
      BY <2>1
  <1> QED
    BY <1>2, <1>3

\* The macro with other actions is legal if they are.
LEMMA LegalWith ==
    ASSUME NEW m, LegalMacro(m), NEW s, LegalSeq(s)
    PROVE  LegalMacro([m EXCEPT !.actions = s])
  <1> DEFINE n == [actions |-> s, playback |-> m.playback, trigger |-> m.trigger]
  <1>1. [m EXCEPT !.actions = s] = n
    BY DEF LegalMacro
  <1>2. n.actions = s /\ n.playback = m.playback /\ n.trigger = m.trigger
    OBVIOUS
  <1>3. LegalMacro(n)
    BY <1>2 DEF LegalMacro
  <1> QED
    BY <1>1, <1>3

-----------------------------------------------------------------------------
(* The form. *)

LEMMA MacroActions ==
    ASSUME ShapeInv
    PROVE  /\ LegalMacro(macro) /\ LegalSeq(macro.actions)
           /\ Len(macro.actions) \in Nat /\ DOMAIN macro.actions = 1 .. Len(macro.actions)
           /\ \A i \in DOMAIN macro.actions : Legal(macro.actions[i])
  <1>1. LegalMacro(macro) /\ LegalSeq(macro.actions)
    BY DEF ShapeInv, FormInv, LegalMacro
  <1> QED
    BY <1>1, LegalElement

LEMMA SetActionsKeeps ==
    ASSUME ShapeInv, NEW s, LegalSeq(s), SetActions(s)
    PROVE  LegalMacro(macro')
  <1>1. macro' = [macro EXCEPT !.actions = s]
    BY DEF SetActions, Rendered
  <1>2. LegalMacro([macro EXCEPT !.actions = s])
    BY MacroActions, LegalWith
  <1> QED
    BY <1>1, <1>2

LEMMA SetActionKeeps ==
    ASSUME ShapeInv, NEW i, NEW a, i \in DOMAIN macro.actions => Legal(a), SetAction(i, a)
    PROVE  LegalMacro(macro')
  <1>1. SetActions([macro.actions EXCEPT ![i] = a])
    BY DEF SetAction
  <1>2. LegalSeq([macro.actions EXCEPT ![i] = a])
    BY MacroActions, LegalReplaced
  <1> QED
    BY <1>1, <1>2, SetActionsKeeps

LEMMA SetParamKeeps ==
    ASSUME ShapeInv, NEW i, NEW p, NEW v, SetParam(i, p, v),
           i \in DOMAIN macro.actions /\ p \in DOMAIN macro.actions[i].params => Value(p, v)
    PROVE  LegalMacro(macro')
  <1>1. SetAction(i, [macro.actions[i] EXCEPT !.params[p] = v])
    BY DEF SetParam
  <1>2. i \in DOMAIN macro.actions => Legal([macro.actions[i] EXCEPT !.params[p] = v])
    <2> SUFFICES ASSUME i \in DOMAIN macro.actions
                 PROVE  Legal([macro.actions[i] EXCEPT !.params[p] = v])
      OBVIOUS
    <2> DEFINE a == macro.actions[i]
    <2>1. Legal(a) /\ (p \in DOMAIN a.params => Value(p, v))
      BY MacroActions
    <2> HIDE DEF a
    <2>2. Legal([a EXCEPT !.params[p] = v])
      BY <2>1, ParamIsLegal
    <2> QED
      BY <2>2 DEF a
  <1> QED
    BY <1>1, <1>2, SetActionKeeps

LEMMA NewWait ==
    /\ Legal(Create("wait", <<>>))
    /\ \A t \in Nat : Legal(Waiting(t))
  <1>1. "wait" \in ActionType /\ DOMAIN Defaults["wait"] = {"duration_ms"}
    BY DEF ActionType, Defaults
  <1>2. DOMAIN <<>> = {} /\ \A t : DOMAIN [duration_ms |-> t] = {"duration_ms"}
    OBVIOUS
  <1>3. Legal(Create("wait", <<>>))
    <2> DEFINE g == <<>>
    <2>1. "wait" \in ActionType /\ DOMAIN g \subseteq DOMAIN Defaults["wait"] /\ DOMAIN g = {}
      BY <1>1, <1>2
    <2> HIDE DEF g
    <2>2. Legal(Create("wait", g))
      BY <2>1, CreateIsLegal
    <2> QED
      BY <2>2 DEF g
  <1>4. ASSUME NEW t \in Nat PROVE Legal(Waiting(t))
    <2> DEFINE g == [duration_ms |-> t]
    <2>1. /\ "wait" \in ActionType /\ DOMAIN g = {"duration_ms"}
          /\ DOMAIN g \subseteq DOMAIN Defaults["wait"]
      BY <1>1, <1>2
    <2>2. g["duration_ms"] \in Durations
      BY DEF Durations
    <2> HIDE DEF g
    <2>3. \A p \in DOMAIN g : Value(p, g[p])
      BY <2>1, <2>2 DEF Value
    <2>4. Legal(Create("wait", g))
      BY <2>1, <2>3, CreateIsLegal
    <2> QED
      BY <2>4 DEF g, Waiting
  <1> QED
    BY <1>3, <1>4

LEMMA CommandKeeps ==
    ASSUME ShapeInv, NEW i \in DOMAIN macro.actions, OnActionCommand(i)
    PROVE  FormInv'
  <1> DEFINE a == macro.actions
             wait == Create("wait", <<>>)
  <1>1. /\ LegalMacro(macro) /\ LegalSeq(a)
        /\ Len(a) \in Nat /\ DOMAIN a = 1 .. Len(a)
        /\ \A j \in DOMAIN a : Legal(a[j])
    BY MacroActions
  <1>2. Legal(wait)
    BY NewWait
  <1> HIDE DEF wait
  <1>3. i \in 1 .. Len(a) + 1 /\ i + 1 \in 1 .. Len(a) + 1
    BY <1>1
  <1>4. LegalSeq(InsertAt(a, i + 1, a[i]))
    BY <1>1, <1>3, LegalInserted
  <1>5. LegalSeq(InsertAt(a, i, wait)) /\ LegalSeq(InsertAt(a, i + 1, wait))
    BY <1>1, <1>2, <1>3, LegalInserted
  <1>6. ASSUME NEW j \in DOMAIN a \ {i} PROVE LegalSeq(InsertAt(RemoveAt(a, j), i, a[j]))
    <2>1. LegalSeq(RemoveAt(a, j)) /\ Len(RemoveAt(a, j)) = Len(a) - 1
      BY <1>1, LegalRemoved
    <2>2. i \in 1 .. Len(RemoveAt(a, j)) + 1 /\ Legal(a[j])
      BY <1>1, <2>1
    <2> QED
      BY <2>1, <2>2, LegalInserted
  <1>7. \E s : LegalSeq(s) /\ SetActions(s)
    <2>1. \/ SetActions(InsertAt(a, i + 1, a[i]))
          \/ SetActions(InsertAt(a, i, wait))
          \/ SetActions(InsertAt(a, i + 1, wait))
          \/ \E j \in DOMAIN a \ {i} : SetActions(InsertAt(RemoveAt(a, j), i, a[j]))
      BY DEF OnActionCommand, wait
    <2> HIDE DEF a
    <2> QED
      BY <1>4, <1>5, <1>6, <2>1
  <1>8. LegalMacro(macro')
    BY <1>7, SetActionsKeeps
  <1> QED
    BY <1>8 DEF OnActionCommand, ShapeInv, FormInv

LEMMA DeletionKeeps ==
    ASSUME ShapeInv, NEW i \in DOMAIN macro.actions, DeleteAction(i)
    PROVE  FormInv'
  <1>1. /\ LegalSeq(macro.actions) /\ Legal(macro.actions[i])
        /\ i \in 1 .. Len(macro.actions) /\ Len(macro.actions) \in Nat
    BY MacroActions
  <1>2. LegalSeq(RemoveAt(macro.actions, i)) /\ SetActions(RemoveAt(macro.actions, i))
    BY <1>1, LegalRemoved DEF DeleteAction
  <1>3. LegalMacro(macro')
    BY <1>2, SetActionsKeeps
  <1>4. removed' = [index |-> i, action |-> macro.actions[i]]
    BY DEF DeleteAction
  <1>5. removed'.index = i /\ removed'.action = macro.actions[i]
    BY <1>4
  <1>6. i \in Nat \ {0}
    BY <1>1
  <1>7. ForKeys(dialog) /\ dialog' = dialog
    BY DEF DeleteAction, ShapeInv, FormInv
  <1> QED
    BY <1>1, <1>3, <1>5, <1>6, <1>7 DEF FormInv

LEMMA UndoKeeps ==
    ASSUME ShapeInv, UndoDeletion
    PROVE  FormInv'
  <1> DEFINE n == Len(macro.actions)
             k == IF removed.index > n THEN n + 1 ELSE removed.index
             s == InsertAt(macro.actions, k, removed.action)
  <1>1. LegalSeq(macro.actions) /\ n \in Nat
    BY MacroActions
  <1>2. Legal(removed.action) /\ removed.index \in Nat \ {0}
    BY DEF UndoDeletion, ShapeInv, FormInv
  <1>3. k \in 1 .. n + 1
    <2> HIDE DEF n
    <2> QED
      BY <1>1, <1>2
  <1>4. LegalSeq(s)
    <2> HIDE DEF k
    <2> QED
      BY <1>1, <1>2, <1>3, LegalInserted
  <1>5. SetActions(s) /\ removed' = None
    BY DEF UndoDeletion
  <1> HIDE DEF s
  <1>6. LegalMacro(macro')
    BY <1>4, <1>5, SetActionsKeeps
  <1>7. ForKeys(dialog) /\ dialog' = dialog
    BY DEF UndoDeletion, ShapeInv, FormInv
  <1> QED
    BY <1>5, <1>6, <1>7 DEF FormInv

LEMMA RowKeeps ==
    ASSUME ShapeInv, NEW i \in DOMAIN macro.actions, EditRow(i)
    PROVE  FormInv'
  <1>1. Legal(macro.actions[i])
    BY MacroActions
  <1>2. CASE OnActionCommand(i)
    BY <1>2, CommandKeeps
  <1>3. CASE DeleteAction(i)
    BY <1>3, DeletionKeeps
  <1>4. ASSUME NEW type \in ActionType, ChangeType(i, type) PROVE FormInv'
    <2> DEFINE b == [macro.actions[i] EXCEPT !.type = type, !.params = Defaults[type]]
    <2>1. Legal(b)
      BY <1>1, RetypedIsLegal
    <2>2. SetAction(i, b)
      BY <1>4 DEF ChangeType
    <2> HIDE DEF b
    <2>3. LegalMacro(macro')
      BY <2>1, <2>2, SetActionKeeps
    <2>4. removed' = removed /\ dialog' = dialog
      BY <1>4 DEF ChangeType
    <2> QED
      BY <2>3, <2>4 DEF ShapeInv, FormInv
  <1>5. ASSUME NEW p \in Numbers, ChangeNumber(i, p) PROVE FormInv'
    <2>1. \E v \in {0, 1} : SetParam(i, p, v)
      BY <1>5 DEF ChangeNumber
    <2>3. p \notin {"keys", "key", "button"} /\ \A v \in {0, 1} : v \in Durations
      BY <1>5 DEF Numbers, Times, Durations
    <2>4. \A v \in {0, 1} : Value(p, v)
      BY <2>3 DEF Value
    <2>2. LegalMacro(macro')
      BY <2>1, <2>4, SetParamKeeps
    <2> QED
      BY <1>5, <2>2 DEF ChangeNumber, ShapeInv, FormInv
  <1>6. CASE ToggleHorizontal(i)
    <2>1. \E v : SetParam(i, "horizontal", v)
      BY <1>6 DEF ToggleHorizontal
    <2>2. LegalMacro(macro')
      BY <2>1, SetParamKeeps DEF Value, Times
    <2> QED
      BY <1>6, <2>2 DEF ToggleHorizontal, ShapeInv, FormInv
  <1>7. CASE ToggleEnabled(i)
    <2> DEFINE b == [macro.actions[i] EXCEPT !.enabled = ~@]
    <2>1. Legal(b)
      BY <1>1, ToggledIsLegal
    <2>2. SetAction(i, b)
      BY <1>7 DEF ToggleEnabled
    <2> HIDE DEF b
    <2>3. LegalMacro(macro')
      BY <2>1, <2>2, SetActionKeeps
    <2> QED
      BY <1>7, <2>3 DEF ToggleEnabled, ShapeInv, FormInv
  <1> QED
    BY <1>2, <1>3, <1>4, <1>5, <1>6, <1>7 DEF EditRow

\* A dialog that is not a chooser of keys, or is opened as one.
LEMMA OtherDialogs ==
    /\ ForKeys(None)
    /\ \A i : \A kind \in {"combo", "app", "position"} : ForKeys([kind |-> kind, step |-> i])
    /\ \A i : \A p \in {"key", "button", "keys"} : ForKeys(KeyChooser(i, p))
  <1>1. ForKeys(None)
    BY DEF ForKeys
  <1>2. ASSUME NEW i, NEW kind \in {"combo", "app", "position"}
        PROVE  ForKeys([kind |-> kind, step |-> i])
    BY DEF ForKeys
  <1>3. ASSUME NEW i, NEW p \in {"key", "button", "keys"}
        PROVE  ForKeys(KeyChooser(i, p))
    BY DEF ForKeys, KeyChooser
  <1> QED
    BY <1>1, <1>2, <1>3

LEMMA DialogKeeps ==
    ASSUME ShapeInv, UseDialog
    PROVE  FormInv'
  <1>1. CASE Dismiss \/ ListenAgain
    <2>1. macro' = macro /\ removed' = removed /\ dialog # None
      BY <1>1 DEF Dismiss, ListenAgain
    <2>2. CASE dialog' = None
      BY <2>1, <2>2 DEF ShapeInv, FormInv, ForKeys
    <2>3. CASE \E i : dialog' = ComboEditor(i)
      <3>1. dialog'.kind # "key"
        BY <2>3 DEF ComboEditor
      <3> QED
        BY <2>1, <3>1 DEF ShapeInv, FormInv, ForKeys
    <2>4. ASSUME NEW c, dialog.kind = "key", dialog' = [dialog EXCEPT !.armed = c] PROVE FormInv'
      <3>1. PICK i, b : \E p \in {"key", "button", "keys"} :
                dialog = [kind |-> "key", step |-> i, param |-> p, armed |-> b]
        BY <2>1, <2>4 DEF ShapeInv, FormInv, ForKeys
      <3>2. \E p \in {"key", "button", "keys"} :
                dialog' = [kind |-> "key", step |-> i, param |-> p, armed |-> c]
        BY <2>4, <3>1
      <3> QED
        BY <2>1, <3>2 DEF ShapeInv, FormInv, ForKeys
    <2>5. \/ dialog' = None \/ \E i : dialog' = ComboEditor(i)
          \/ dialog.kind = "key" /\ \E c : dialog' = [dialog EXCEPT !.armed = c]
      <3>1. CASE Dismiss
        BY <3>1, Zenon DEF Dismiss
      <3>2. CASE ListenAgain
        BY <3>2, Zenon DEF ListenAgain
      <3> QED
        BY <1>1, <3>1, <3>2
    <2> QED
      BY <2>2, <2>3, <2>4, <2>5
  <1>2. CASE EditCombo
    <2> DEFINE codes == macro.actions[dialog.step].params.keys
               Swapped(i) == [codes EXCEPT ![i] = codes[i + 1], ![i + 1] = codes[i]]
    <2>1. \/ macro' = macro /\ dialog' = KeyChooser(dialog.step, "keys")
          \/ /\ dialog' = dialog
             /\ \E i \in DOMAIN codes :
                    \/ SetParam(dialog.step, "keys", RemoveAt(codes, i))
                    \/ i + 1 \in DOMAIN codes /\ SetParam(dialog.step, "keys", Swapped(i))
      BY <1>2, Zenon DEF EditCombo
    <2>2. removed' = removed
      BY <1>2 DEF EditCombo
    <2>3. CASE macro' = macro /\ dialog' = KeyChooser(dialog.step, "keys")
      <3>1. ForKeys(dialog')
        BY <2>3 DEF ForKeys, KeyChooser
      <3> QED
        BY <2>2, <2>3, <3>1 DEF ShapeInv, FormInv
    <2>4. ASSUME NEW i \in DOMAIN codes, NEW v, SetParam(dialog.step, "keys", v),
                 \/ v = RemoveAt(codes, i)
                 \/ i + 1 \in DOMAIN codes /\ v = Swapped(i)
          PROVE  LegalMacro(macro')
      <3>1. ASSUME dialog.step \in DOMAIN macro.actions,
                   "keys" \in DOMAIN macro.actions[dialog.step].params
            PROVE  Value("keys", v)
        <4>1. Legal(macro.actions[dialog.step])
          BY <3>1, MacroActions
        <4>2. \E S : codes \in Seq(S)
          BY <3>1, <4>1 DEF Legal, Value
        <4> HIDE DEF codes
        <4>3. PICK S : codes \in Seq(S)
          BY <4>2
        <4>4. CASE v = RemoveAt(codes, i)
          <5> DEFINE s == SubSeq(codes, 1, i - 1)
                     t == SubSeq(codes, i + 1, Len(codes))
          <5>1. s \in Seq(S) /\ t \in Seq(S)
            BY <4>3, SubSeqProperties
          <5>2. v = s \o t
            BY <4>4 DEF RemoveAt
          <5> HIDE DEF s, t
          <5>3. v \in Seq(S)
            BY <5>1, <5>2, ConcatProperties
          <5> QED
            BY <5>3 DEF Value, Times
        <4>5. CASE i + 1 \in DOMAIN codes /\ v = Swapped(i)
          <5>1. codes[i] \in S /\ codes[i + 1] \in S
            BY <4>3, <4>5
          <5> DEFINE u == [codes EXCEPT ![i] = codes[i + 1]]
          <5>2. u \in Seq(S) /\ DOMAIN u = DOMAIN codes
            BY <4>3, <5>1
          <5> HIDE DEF u
          <5>3. [u EXCEPT ![i + 1] = codes[i]] \in Seq(S)
            BY <4>5, <5>1, <5>2
          <5>4. v = [u EXCEPT ![i + 1] = codes[i]]
            BY <4>5, Zenon DEF u
          <5> QED
            BY <5>3, <5>4 DEF Value, Times
        <4> QED
          BY <2>4, <4>4, <4>5
      <3> QED
        BY <2>4, <3>1, SetParamKeeps
    <2>5. CASE /\ dialog' = dialog
               /\ \E i \in DOMAIN codes :
                    \/ SetParam(dialog.step, "keys", RemoveAt(codes, i))
                    \/ i + 1 \in DOMAIN codes /\ SetParam(dialog.step, "keys", Swapped(i))
      <3> HIDE DEF codes, Swapped
      <3>1. LegalMacro(macro')
        BY <2>4, <2>5
      <3> QED
        BY <2>2, <2>5, <3>1 DEF ShapeInv, FormInv
    <2> QED
      BY <2>1, <2>3, <2>5
  <1>3. ASSUME NEW code, ChooseKey(code) PROVE FormInv'
    <2>1. PICK j, b : \E p \in {"key", "button", "keys"} :
              dialog = [kind |-> "key", step |-> j, param |-> p, armed |-> b]
      BY <1>3 DEF ChooseKey, ShapeInv, FormInv, ForKeys
    <2>2. dialog.param \in {"key", "button", "keys"}
      BY <2>1
    <2>3. removed' = removed /\ ForKeys(dialog')
      <3>1. removed' = removed /\ (dialog' = None \/ dialog' = ComboEditor(dialog.step))
        BY <1>3 DEF ChooseKey
      <3> QED
        BY <3>1, OtherDialogs DEF ComboEditor
    <2>4. CASE dialog.param = "keys"
      <3> DEFINE codes == macro.actions[dialog.step].params.keys
                 v == Append(codes, code)
      <3>1. SetParam(dialog.step, "keys", v)
        BY <1>3, <2>4 DEF ChooseKey
      <3>2. ASSUME dialog.step \in DOMAIN macro.actions,
                   "keys" \in DOMAIN macro.actions[dialog.step].params
            PROVE  Value("keys", v)
        <4>1. Legal(macro.actions[dialog.step])
          BY <3>2, MacroActions
        <4>2. \E S : codes \in Seq(S)
          BY <3>2, <4>1 DEF Legal, Value
        <4> HIDE DEF codes
        <4>3. PICK S : codes \in Seq(S)
          BY <4>2
        <4> DEFINE T == S \cup {code}
        <4>4. codes \in Seq(T) /\ code \in T
          BY <4>3
        <4> HIDE DEF T
        <4>5. v \in Seq(T)
          BY <4>4
        <4> HIDE DEF v
        <4> QED
          BY <4>5 DEF Value, Times
      <3> HIDE DEF v
      <3>3. LegalMacro(macro')
        BY <3>1, <3>2, SetParamKeeps
      <3> QED
        BY <2>3, <3>3 DEF ShapeInv, FormInv
    <2>5. CASE dialog.param # "keys"
      <3>1. SetParam(dialog.step, dialog.param, code)
        BY <1>3, <2>5 DEF ChooseKey
      <3>2. Value(dialog.param, code)
        <4>1. code # None
          BY <1>3, MacroModelAssumption DEF ChooseKey
        <4> QED
          BY <2>2, <2>5, <4>1 DEF Value, Times
      <3>3. LegalMacro(macro')
        BY <3>1, <3>2, SetParamKeeps
      <3> QED
        BY <2>3, <3>3 DEF ShapeInv, FormInv
    <2> QED
      BY <2>4, <2>5
  <1>4. ASSUME NEW app, ChooseApp(app) PROVE FormInv'
    <2>1. \E v : SetParam(dialog.step, "app", v)
      BY <1>4 DEF ChooseApp
    <2>2. LegalMacro(macro')
      BY <2>1, SetParamKeeps DEF Value, Times
    <2> QED
      BY <1>4, <2>2 DEF ChooseApp, ShapeInv, FormInv, ForKeys
  <1>5. ASSUME NEW x, NEW y, PickPosition(x, y) PROVE FormInv'
    <2> DEFINE i == dialog.step
               a == macro.actions[i]
               b == [a EXCEPT !.params["x"] = x]
               c == [b EXCEPT !.params["y"] = y]
    <2>1. SetAction(i, c)
      BY <1>5, Zenon DEF PickPosition
    <2>2. i \in DOMAIN macro.actions => Legal(c)
      <3> SUFFICES ASSUME i \in DOMAIN macro.actions PROVE Legal(c)
        OBVIOUS
      <3>1. Legal(a)
        BY MacroActions
      <3> HIDE DEF a
      <3>2. Value("x", x) /\ Value("y", y)
        BY DEF Value, Times
      <3>3. Legal(b)
        BY <3>1, <3>2, ParamIsLegal
      <3> HIDE DEF b
      <3> QED
        BY <3>2, <3>3, ParamIsLegal
    <2> HIDE DEF c, i
    <2>3. LegalMacro(macro')
      BY <2>1, <2>2, SetActionKeeps
    <2>4. removed' = removed /\ dialog' = None
      BY <1>5 DEF PickPosition
    <2> QED
      BY <2>3, <2>4 DEF ShapeInv, FormInv, ForKeys
  <1> QED
    BY <1>1, <1>2, <1>3, <1>4, <1>5 DEF UseDialog

LEMMA PlaybackKeeps ==
    ASSUME ShapeInv, ChangePlayback \/ ChangeRepeatOrTrigger
    PROVE  FormInv'
  <1> DEFINE p == macro.playback
  <1>1. /\ macro = [actions |-> macro.actions, playback |-> p, trigger |-> macro.trigger]
        /\ LegalSeq(macro.actions) /\ macro.trigger \in TriggerMode
        /\ p = [mode |-> p.mode, repeat_count |-> p.repeat_count, gap_ms |-> p.gap_ms]
        /\ p.mode \in PlaybackMode /\ p.repeat_count \in 1 .. MaxRepeat /\ p.gap_ms \in 0 .. MaxGap
    BY DEF ShapeInv, FormInv, LegalMacro, LegalPlayback
  <1> DEFINE M(q, t) == [actions |-> macro.actions, playback |-> q, trigger |-> t]
  <1>2. ASSUME NEW q, NEW t \in TriggerMode, LegalPlayback(q) PROVE LegalMacro(M(q, t))
    <2> DEFINE m == M(q, t)
    <2>1. m.actions = macro.actions /\ m.playback = q /\ m.trigger = t
      OBVIOUS
    <2>2. m = [actions |-> m.actions, playback |-> m.playback, trigger |-> m.trigger]
      OBVIOUS
    <2> HIDE DEF m
    <2>3. LegalMacro(m)
      BY <1>1, <1>2, <2>1, <2>2 DEF LegalMacro
    <2> QED
      BY <2>3 DEF m
  <1> DEFINE Q(mode, n, gap) == [mode |-> mode, repeat_count |-> n, gap_ms |-> gap]
  <1>3. ASSUME NEW mode \in PlaybackMode, NEW n \in 1 .. MaxRepeat, NEW gap \in 0 .. MaxGap
        PROVE  LegalPlayback(Q(mode, n, gap))
    BY DEF LegalPlayback
  <1>4. \E q, t : t \in TriggerMode /\ LegalPlayback(q) /\ macro' = M(q, t)
    <2>1. ASSUME NEW mode \in PlaybackMode, macro' = [macro EXCEPT !.playback.mode = mode]
          PROVE  macro' = M(Q(mode, p.repeat_count, p.gap_ms), macro.trigger)
      BY <1>1, <2>1
    <2>2. ASSUME NEW gap \in 0 .. MaxGap, macro' = [macro EXCEPT !.playback.gap_ms = gap]
          PROVE  macro' = M(Q(p.mode, p.repeat_count, gap), macro.trigger)
      BY <1>1, <2>2
    <2>3. ASSUME NEW n \in 1 .. MaxRepeat, macro' = [macro EXCEPT !.playback.repeat_count = n]
          PROVE  macro' = M(Q(p.mode, n, p.gap_ms), macro.trigger)
      BY <1>1, <2>3
    <2>4. ASSUME NEW t \in TriggerMode, macro' = [macro EXCEPT !.trigger = t]
          PROVE  macro' = M(Q(p.mode, p.repeat_count, p.gap_ms), t)
      BY <1>1, <2>4
    <2>5. \/ \E mode \in PlaybackMode : macro' = [macro EXCEPT !.playback.mode = mode]
          \/ \E gap \in 0 .. MaxGap : macro' = [macro EXCEPT !.playback.gap_ms = gap]
          \/ \E n \in 1 .. MaxRepeat : macro' = [macro EXCEPT !.playback.repeat_count = n]
          \/ \E t \in TriggerMode : macro' = [macro EXCEPT !.trigger = t]
      BY DEF ChangePlayback, ChangeRepeatOrTrigger, Rendered
    <2> HIDE DEF M, Q
    <2> QED
      BY <1>1, <1>3, <2>1, <2>2, <2>3, <2>4, <2>5
  <1>5. LegalMacro(macro')
    <2> HIDE DEF M
    <2> QED
      BY <1>2, <1>4
  <1> QED
    BY <1>5 DEF ChangePlayback, ChangeRepeatOrTrigger, ShapeInv, FormInv

LEMMA FormKeeps ==
    ASSUME ShapeInv, FormStep
    PROVE  FormInv'
  <1>1. ASSUME NEW type \in ActionType, AppendAction(type) PROVE FormInv'
    <2> DEFINE a == Create(type, <<>>)
    <2>1. DOMAIN <<>> \subseteq DOMAIN Defaults[type]
      OBVIOUS
    <2>2. Legal(a)
      BY <2>1, CreateIsLegal
    <2>3. /\ SetActions(Append(macro.actions, a))
          /\ removed' = removed /\ dialog' = dialog
      BY <1>1 DEF AppendAction
    <2> HIDE DEF a
    <2>4. LegalSeq(macro.actions \o <<a>>)
      BY <2>2, MacroActions, LegalOne, LegalConcat
    <2>5. Append(macro.actions, a) = macro.actions \o <<a>>
      <3>1. PICK S : macro.actions \in Seq(S)
        BY MacroActions DEF LegalSeq
      <3> DEFINE T == S \cup {a}
      <3>2. macro.actions \in Seq(T) /\ a \in T
        BY <3>1
      <3> HIDE DEF T
      <3> QED
        BY <3>2, AppendIsConcat
    <2>6. LegalMacro(macro')
      BY <2>3, <2>4, <2>5, SetActionsKeeps
    <2> QED
      BY <2>3, <2>6 DEF ShapeInv, FormInv
  <1>2. CASE UndoDeletion
    BY <1>2, UndoKeeps
  <1>3. CASE ClearActions
    <2>1. LegalMacro(macro')
      BY <1>3, LegalNone, SetActionsKeeps DEF ClearActions
    <2> QED
      BY <1>3, <2>1 DEF ClearActions, ShapeInv, FormInv
  <1>4. ASSUME NEW i \in DOMAIN macro.actions, EditRow(i) PROVE FormInv'
    BY <1>4, RowKeeps
  <1>5. ASSUME NEW i, OpenDialog(i) PROVE FormInv'
    <2>1. macro' = macro /\ removed' = removed /\ ForKeys(dialog')
      <3>1. \/ \E p \in {"key", "button"} : dialog' = KeyChooser(i, p)
            \/ \E kind \in {"combo", "app", "position"} : dialog' = [kind |-> kind, step |-> i]
        BY <1>5 DEF OpenDialog, ComboEditor
      <3>2. macro' = macro /\ removed' = removed
        BY <1>5 DEF OpenDialog
      <3> QED
        BY <3>1, <3>2, OtherDialogs
    <2> QED
      BY <2>1 DEF ShapeInv, FormInv
  <1>6. CASE UseDialog
    BY <1>6, DialogKeeps
  <1>7. CASE ChangePlayback \/ ChangeRepeatOrTrigger
    BY <1>7, PlaybackKeeps
  <1> QED
    BY <1>1, <1>2, <1>3, <1>4, <1>5, <1>6, <1>7 DEF FormStep

-----------------------------------------------------------------------------
(* The recorder. *)

LEMMA EventIsLegal ==
    ASSUME NEW code \in Known, NEW pressed
    PROVE  Legal(Event(code, pressed))
  <1>3. code # None
    BY MacroModelAssumption
  <1>1. ASSUME NEW type \in {"button_press", "button_release"}
        PROVE  Legal(Create(type, [button |-> code]))
    <2> DEFINE g == [button |-> code]
    <2>1. /\ type \in ActionType /\ DOMAIN g \subseteq DOMAIN Defaults[type]
          /\ \A p \in DOMAIN g : Value(p, g[p])
      BY <1>3 DEF ActionType, Defaults, Value, Times
    <2> HIDE DEF g
    <2>2. Legal(Create(type, g))
      BY <2>1, CreateIsLegal
    <2> QED
      BY <2>2 DEF g
  <1>2. ASSUME NEW type \in {"key_press", "key_release"}
        PROVE  Legal(Create(type, [key |-> code]))
    <2> DEFINE g == [key |-> code]
    <2>1. /\ type \in ActionType /\ DOMAIN g \subseteq DOMAIN Defaults[type]
          /\ \A p \in DOMAIN g : Value(p, g[p])
      BY <1>3 DEF ActionType, Defaults, Value, Times
    <2> HIDE DEF g
    <2>2. Legal(Create(type, g))
      BY <2>1, CreateIsLegal
    <2> QED
      BY <2>2 DEF g
  <1> QED
    BY <1>1, <1>2 DEF Event

LEMMA RecordedIsLegal == \A a \in Recorded : Legal(a)
  BY EventIsLegal, NewWait DEF Recorded

\* Leaving the waits out leaves actions.
LEMMA CapturedIsLegal ==
    ASSUME ShapeInv
    PROVE  LegalSeq(CapturedActions)
  <1> DEFINE P == {i \in DOMAIN captured : captured[i].type # "wait"}
  <1>0. LegalSeq(captured)
    BY RecordedIsLegal DEF ShapeInv, RecordInv, TimedInv, LegalSeq
  <1>1. PICK S : captured \in Seq(S) /\ \A a \in S : Legal(a)
    BY <1>0 DEF LegalSeq
  <1>2. P \in SUBSET DOMAIN captured
    OBVIOUS
  <1> HIDE DEF P
  <1>3. Kept(captured, P) \in Seq(S)
    BY <1>1, <1>2, KeptIs
  <1>4. LegalSeq(Kept(captured, P))
    BY <1>1, <1>3 DEF LegalSeq
  <1> QED
    BY <1>0, <1>4 DEF CapturedActions, P

-----------------------------------------------------------------------------
(* Every step keeps the shape. *)

LEMMA Initially == Init => ShapeInv
  <1> SUFFICES ASSUME Init PROVE ShapeInv
    OBVIOUS
  <1>1. PICK file \in InitialFiles : FormInit(MacroFromFile(file))
    BY DEF Init
  <1>2. LegalMacro(macro)
    BY <1>1, LoadedIsLegal DEF FormInit
  <1>3. removed = None /\ dialog = None
    BY <1>1 DEF FormInit
  <1>4. FormInv
    BY <1>2, <1>3 DEF FormInv, ForKeys
  <1> QED
    BY <1>4, RecordInitially DEF ShapeInv

LEMMA Inductive == ShapeInv /\ [Next]_vars => ShapeInv'
  <1> SUFFICES ASSUME ShapeInv, [Next]_vars PROVE ShapeInv'
    OBVIOUS
  <1>1. FormInv /\ RecordInv'
    BY RecordInductive DEF ShapeInv
  <1>2. UNCHANGED <<macro, dialog, removed>> => FormInv'
    BY <1>1 DEF FormInv
  <1>3. ASSUME FormStep PROVE FormInv'
    BY <1>3, FormKeeps
  <1>4. ASSUME SaveRecording PROVE FormInv'
    <2>1. LegalSeq(macro.actions \o CapturedActions)
      BY MacroActions, CapturedIsLegal, LegalConcat
    <2>2. LegalMacro(macro')
      BY <1>4, <2>1, SetActionsKeeps DEF SaveRecording
    <2> QED
      BY <1>1, <1>4, <2>2 DEF SaveRecording, FormInv
  <1>5. FormInv'
    <2>1. Record => UNCHANGED <<macro, dialog, removed>>
      BY DEF Record
    <2> QED
      BY <1>2, <1>3, <1>4, <2>1 DEF Next, vars, formVars
  <1> QED
    BY <1>1, <1>5 DEF ShapeInv

\* Whatever the file held, and whatever is edited or recorded then, what is
\* saved of the macro is read as that macro: no step is skipped, and none loses
\* a parameter, gets one back, or is switched on again (to_dict and from_dict
\* of models/macro.py and models/action.py, the form and the recorder).
THEOREM LoadsBack == Safety => []LoadsAsSaved
  <1>1. Init => ShapeInv
    BY Initially
  <1>2. ShapeInv /\ [Next]_vars => ShapeInv'
    BY Inductive
  <1>3. ShapeInv => LoadsAsSaved
    BY MacroLoads DEF ShapeInv, FormInv, LoadsAsSaved
  <1> QED
    BY <1>1, <1>2, <1>3, PTL DEF Safety

-----------------------------------------------------------------------------
(* The banner. *)

\* A concatenation is empty only if its parts are.
LEMMA ConcatEmpty ==
    ASSUME NEW S, NEW s \in Seq(S), NEW t \in Seq(S)
    PROVE  s \o t \in Seq(S) /\ (s \o t = <<>> <=> s = <<>> /\ t = <<>>)
  <1>1. s \o t \in Seq(S) /\ Len(s \o t) = Len(s) + Len(t)
    BY ConcatProperties
  <1>2. \A u \in Seq(S) : Len(u) \in Nat /\ (u = <<>> <=> Len(u) = 0)
    OBVIOUS
  <1> DEFINE u == s \o t
  <1>3. u \in Seq(S) /\ Len(u) = Len(s) + Len(t)
    BY <1>1
  <1> HIDE DEF u
  <1>4. u = <<>> <=> s = <<>> /\ t = <<>>
    BY <1>2, <1>3
  <1> QED
    BY <1>3, <1>4 DEF u

\* A flattening is empty only if its parts are.
LEMMA Flattened ==
    ASSUME NEW S, NEW q \in Seq(Seq(S))
    PROVE  /\ FlattenSeq(q) \in Seq(S)
           /\ \A i \in DOMAIN q : q[i] # <<>> => FlattenSeq(q) # <<>>
  <1> DEFINE n == Len(q)
             V == Seq(S)
             next == [x \in V \X (1 .. n) |-> x[1] \o q[x[2]]]
             e(g) == [i \in 1 .. n |-> IF i = 1 THEN q[i] ELSE g[i - 1] \o q[i]]
             P(g) == g = e(g)
  <1>1. n \in Nat /\ DOMAIN q = 1 .. n /\ \A i \in 1 .. n : q[i] \in V
    OBVIOUS
  <1>2. CASE n = 0
    <2>1. q = <<>> /\ DOMAIN q = {} /\ <<>> \in Seq(S)
      BY <1>2
    <2>2. FlattenSeq(q) = q
      BY <1>2 DEF FlattenSeq
    <2> QED
      BY <2>1, <2>2
  <1>3. CASE n # 0
    <2>1. \A x \in V, i \in 1 .. n : x \o q[i] \in V /\ (x \o q[i] = <<>> <=> x = <<>> /\ q[i] = <<>>)
      <3> HIDE DEF n
      <3>1. \A x, y \in Seq(S) : x \o y \in Seq(S) /\ (x \o y = <<>> <=> x = <<>> /\ y = <<>>)
        BY ConcatEmpty
      <3> QED
        BY <1>1, <3>1
    <2>2. next \in [V \X (1 .. n) -> V]
      <3>1. \A x \in V \X (1 .. n) : x[1] \in V /\ x[2] \in 1 .. n
        OBVIOUS
      <3> HIDE DEF V, n
      <3> QED
        BY <2>1, <3>1
    <2>3. \A x \in V, i \in 1 .. n : next[<<x, i>>] = x \o q[i]
      <3> HIDE DEF V, n
      <3> QED
        OBVIOUS
    <2>4. <<>> \in V /\ \A x \in V : <<>> \o x = x
      OBVIOUS
    <2> HIDE DEF next, V, n
    <2>5. PICK g : /\ g \in [0 .. n -> V] /\ g[0] = <<>>
                   /\ \A i \in 1 .. n : g[i] = next[<<g[i - 1], i>>]
      <3>1. n \in Nat /\ <<>> \in V /\ next \in [V \X (1 .. n) -> V]
        BY <1>1, <2>2, <2>4
      <3>2. \E g : Follows(g, n, V, <<>>, next)
        BY <3>1, Recursion
      <3> QED
        BY <3>2 DEF Follows
    <2>6. \A i \in 1 .. n : i - 1 \in 0 .. n /\ i \in 0 .. n
      BY <1>1
    <2>7. \A i \in 1 .. n : g[i] = g[i - 1] \o q[i] /\ g[i - 1] \in V
      BY <2>3, <2>5, <2>6
    <2> DEFINE h == [i \in 1 .. n |-> g[i]]
    <2>8. \A f, i : i \in 1 .. n => e(f)[i] = IF i = 1 THEN q[i] ELSE f[i - 1] \o q[i]
      OBVIOUS
    <2>9. P(h)
      <3>1. \A i \in 1 .. n : h[i] = g[i]
        OBVIOUS
      <3>2. 0 \in 0 .. n /\ 1 - 1 = 0 /\ \A i \in 1 .. n : i # 1 => i - 1 \in 1 .. n
        BY <1>1
      <3> HIDE DEF e, h
      <3>3. \A i \in 1 .. n : e(h)[i] = h[i]
        <4> SUFFICES ASSUME NEW i \in 1 .. n PROVE e(h)[i] = h[i]
          OBVIOUS
        <4>1. CASE i = 1
          <5>1. g[1] = g[0] \o q[1]
            BY <2>7, <3>2, <4>1
          <5> QED
            BY <1>1, <2>4, <2>5, <2>8, <3>1, <4>1, <5>1
        <4>2. CASE i # 1
          <5>1. h[i - 1] = g[i - 1] /\ h[i] = g[i] /\ g[i] = g[i - 1] \o q[i]
            BY <2>7, <3>1, <3>2, <4>2
          <5>2. e(h)[i] = h[i - 1] \o q[i]
            BY <2>8, <4>2
          <5> QED
            BY <5>1, <5>2
        <4> QED
          BY <4>1, <4>2
      <3>4. h = [i \in 1 .. n |-> h[i]] /\ e(h) = [i \in 1 .. n |-> e(h)[i]]
        BY DEF h, e
      <3> QED
        BY <3>3, <3>4
    <2> HIDE DEF h
    <2> DEFINE f == CHOOSE k : P(k)
    <2>10. FlattenSeq(q) = f[n]
      BY <1>3 DEF FlattenSeq, n
    <2>11. P(f)
      <3> HIDE DEF P
      <3> QED
        BY <2>9
    <2>12. /\ f = e(f) /\ \A i \in 1 .. n : f[i] = IF i = 1 THEN q[i] ELSE f[i - 1] \o q[i]
      <3> HIDE DEF f
      <3>1. f = e(f)
        BY <2>11
      <3>2. \A i \in 1 .. n : e(f)[i] = IF i = 1 THEN q[i] ELSE f[i - 1] \o q[i]
        BY <2>8
      <3> HIDE DEF e
      <3> QED
        BY <3>1, <3>2
    <2> HIDE DEF f, e
    <2> DEFINE T == {i \in 0 .. n : i # 0 => /\ f[i] \in V
                                             /\ \A j \in 1 .. i : q[j] # <<>> => f[i] # <<>>}
    <2>13. \A i \in 0 .. n : i \in T
      <3>1. 0 \in T
        BY <1>1
      <3>2. ASSUME NEW i \in 1 .. n, i - 1 \in T PROVE i \in T
        <4>1. CASE i = 1
          <5>1. f[1] = q[1] /\ f[1] \in V /\ \A j \in 1 .. 1 : j = 1
            BY <1>1, <2>12, <4>1
          <5> QED
            BY <2>6, <4>1, <5>1
        <4>2. CASE i # 1
          <5>1. i - 1 # 0 /\ i \in Nat
            BY <4>2
          <5>2. f[i - 1] \in V /\ \A j \in 1 .. (i - 1) : q[j] # <<>> => f[i - 1] # <<>>
            BY <3>2, <5>1
          <5>3. f[i] = f[i - 1] \o q[i]
            BY <2>12, <4>2
          <5>4. f[i] \in V /\ (f[i] = <<>> <=> f[i - 1] = <<>> /\ q[i] = <<>>)
            BY <2>1, <5>2, <5>3
          <5>5. \A j \in 1 .. i : j = i \/ j \in 1 .. (i - 1)
            BY <5>1
          <5>6. \A j \in 1 .. i : q[j] # <<>> => f[i] # <<>>
            BY <5>2, <5>4, <5>5
          <5> QED
            BY <2>6, <5>4, <5>6
        <4> QED
          BY <4>1, <4>2
      <3> HIDE DEF T
      <3> QED
        BY <1>1, <3>1, <3>2, Induction
    <2>14. n \in 0 .. n
      BY <1>1
    <2>15. f[n] \in V /\ \A j \in 1 .. n : q[j] # <<>> => f[n] # <<>>
      BY <1>3, <2>13, <2>14
    <2> QED
      BY <1>1, <2>10, <2>15 DEF V
  <1> QED
    BY <1>2, <1>3

\* A sequence has finitely many elements.
LEMMA ElementsAreFinite ==
    ASSUME NEW S, NEW s \in Seq(S)
    PROVE  /\ IsFiniteSet(ToSet(s)) /\ s \in Seq(ToSet(s))
           /\ \A x : x \in ToSet(s) <=> \E i \in 1 .. Len(s) : s[i] = x
  <1>1. Len(s) \in Nat /\ DOMAIN s = 1 .. Len(s) /\ s = [i \in 1 .. Len(s) |-> s[i]]
    OBVIOUS
  <1>2. ToSet(s) = {s[i] : i \in DOMAIN s}
    BY DEF ToSet
  <1> DEFINE D == 1 .. Len(s)
             T == ToSet(s)
  <1>3. s \in [D -> T] /\ \A x \in T : \E i \in D : s[i] = x
    BY <1>1, <1>2
  <1>4. IsFiniteSet(D)
    BY <1>1, PlacesAreFinite
  <1>5. \A x : x \in T <=> \E i \in D : s[i] = x
    BY <1>1, <1>2
  <1>6. s \in Seq(T)
    <2>1. \A i \in 1 .. Len(s) : s[i] \in T
      BY <1>5
    <2> HIDE DEF T
    <2> QED
      BY <1>1, <2>1, IsASeq
  <1> HIDE DEF D, T
  <1>7. s \in Surjection(D, T)
    BY <1>3 DEF Surjection
  <1>8. IsFiniteSet(T)
    BY <1>4, <1>7, FS_Surjection
  <1> QED
    BY <1>5, <1>6, <1>8 DEF D, T

\* Nothing is kept only if no place is.
LEMMA KeptSome ==
    ASSUME NEW S, NEW s \in Seq(S), NEW P \in SUBSET DOMAIN s
    PROVE  Kept(s, P) = <<>> <=> P = {}
  <1>1. Len(s) \in Nat /\ P \in SUBSET (1 .. Len(s))
    OBVIOUS
  <1>2. IsFiniteSet(P) /\ Cardinality(P) \in Nat
    BY <1>1, SomePlaces
  <1>3. Cardinality(P) = 0 <=> P = {}
    BY <1>2, FS_EmptySet
  <1>4. Kept(s, P) \in Seq(S) /\ DOMAIN Kept(s, P) = 1 .. Cardinality(P)
    BY KeptIs
  <1> DEFINE k == Kept(s, P)
             n == Cardinality(P)
  <1>5. k \in Seq(S) /\ DOMAIN k = 1 .. n /\ n \in Nat
    BY <1>2, <1>4
  <1> HIDE DEF k, n
  <1>6. k = <<>> <=> n = 0
    <2>1. Len(k) \in Nat /\ DOMAIN k = 1 .. Len(k) /\ (k = <<>> <=> Len(k) = 0)
      BY <1>5
    <2>2. n # 0 => 1 \in 1 .. n
      BY <1>5
    <2>3. Len(k) # 0 => 1 \in 1 .. Len(k)
      BY <2>1
    <2>4. 1 \notin 1 .. 0
      OBVIOUS
    <2> QED
      BY <1>5, <2>1, <2>2, <2>3, <2>4
  <1> QED
    BY <1>3, <1>6 DEF k, n

\* The codes of an action are a list.
LEMMA CodesAre ==
    ASSUME NEW a, Legal(a)
    PROVE  \E S : Codes(a) \in Seq(S)
  <1>1. ASSUME NEW c PROVE \E S : <<c>> \in Seq(S)
    <2> DEFINE one == <<c>>
               S == {c}
    <2>1. one \in Seq(S)
      OBVIOUS
    <2> HIDE DEF one, S
    <2>2. \E T : one \in Seq(T)
      BY <2>1
    <2> QED
      BY <2>2 DEF one
  <1>2. \E S : <<>> \in Seq(S)
    <2> DEFINE none == <<>>
    <2>1. none \in Seq({})
      OBVIOUS
    <2> HIDE DEF none
    <2>2. \E T : none \in Seq(T)
      BY <2>1
    <2> QED
      BY <2>2 DEF none
  <1>3. "keys" \in DOMAIN a.params => \E S : a.params.keys \in Seq(S)
    BY DEF Legal, Value
  <1>4. \/ \E c : Codes(a) = <<c>>
        \/ "keys" \in DOMAIN a.params /\ Codes(a) = a.params.keys
        \/ Codes(a) = <<>>
    BY DEF Codes
  <1> QED
    BY <1>1, <1>2, <1>3, <1>4

Issue == {"empty", "unknown code", "no keys", "no app", "never released", "repeats forever",
          "no delay"}

\* One issue, or none.
LEMMA OneIssue ==
    /\ <<>> \in Seq(Issue)
    /\ \A x \in Issue : <<x>> \in Seq(Issue) /\ <<x>> # <<>>
  OBVIOUS

\* An issue repeated n times.
LEMMA Repeated ==
    ASSUME NEW n \in Nat, NEW x \in Issue
    PROVE  /\ [i \in 1 .. n |-> x] \in Seq(Issue)
           /\ [i \in 1 .. n |-> x] = <<>> <=> n = 0
  <1> DEFINE s == [i \in 1 .. n |-> x]
  <1>1. DOMAIN s = 1 .. n /\ \A i \in 1 .. n : s[i] \in Issue
    OBVIOUS
  <1>2. s \in Seq(Issue) /\ Len(s) = n
    OBVIOUS
  <1> HIDE DEF s
  <1>3. s = <<>> <=> n = 0
    BY <1>2
  <1> QED
    BY <1>2, <1>3 DEF s

\* What is reported of an action: a code the kernel does not know, no keys, no
\* application.
LEMMA CheckCodeIs ==
    ASSUME NEW a, Legal(a)
    PROVE  /\ CheckCode(a) \in Seq(Issue)
           /\ ~(ToSet(Codes(a)) \subseteq Known) => CheckCode(a) # <<>>
           /\ a.type = "key_combo" /\ a.params.keys = <<>> => CheckCode(a) # <<>>
           /\ a.type = "launch_app" /\ a.params.app = None => CheckCode(a) # <<>>
  <1> DEFINE s == Codes(a)
             P == {i \in DOMAIN s : s[i] \notin Known}
             u == Kept(s, P)
             n == Cardinality(P)
             x == [i \in DOMAIN u |-> "unknown code"]
             y == IF a.type = "key_combo" /\ a.params.keys = <<>> THEN <<"no keys">> ELSE <<>>
             z == IF a.type = "launch_app" /\ a.params.app = None THEN <<"no app">> ELSE <<>>
  <1>1. PICK S : s \in Seq(S)
    BY CodesAre
  <1>2. P \in SUBSET DOMAIN s /\ Len(s) \in Nat /\ DOMAIN s = 1 .. Len(s)
    BY <1>1
  <1>3. CheckCode(a) = x \o y \o z
    BY DEF CheckCode
  <1>4. ToSet(s) \subseteq Known \/ P # {}
    <2>1. \A c : c \in ToSet(s) => \E i \in 1 .. Len(s) : s[i] = c
      <3> HIDE DEF s
      <3> QED
        BY <1>1, ElementsAreFinite
    <2> HIDE DEF s
    <2> QED
      BY <1>2, <2>1
  <1> HIDE DEF P, s
  <1>5. DOMAIN u = 1 .. n /\ (u = <<>> <=> P = {}) /\ u \in Seq(S)
    BY <1>1, <1>2, KeptIs, KeptSome
  <1>6. n \in Nat /\ (n = 0 <=> P = {})
    <2>1. P \in SUBSET (1 .. Len(s)) /\ Len(s) \in Nat
      BY <1>2
    <2>2. IsFiniteSet(P) /\ Cardinality(P) \in Nat
      BY <2>1, SomePlaces
    <2> QED
      BY <2>2, FS_EmptySet
  <1> HIDE DEF u, n
  <1>7. x \in Seq(Issue) /\ (x = <<>> <=> n = 0)
    <2>1. x = [i \in 1 .. n |-> "unknown code"] /\ "unknown code" \in Issue
      BY <1>5 DEF Issue
    <2> HIDE DEF x
    <2> QED
      BY <1>6, <2>1, Repeated
  <1>8. /\ y \in Seq(Issue) /\ (a.type = "key_combo" /\ a.params.keys = <<>> => y # <<>>)
        /\ z \in Seq(Issue) /\ (a.type = "launch_app" /\ a.params.app = None => z # <<>>)
    BY OneIssue DEF Issue
  <1> HIDE DEF x, y, z
  <1>9. x \o y \in Seq(Issue) /\ (x \o y = <<>> <=> x = <<>> /\ y = <<>>)
    BY <1>7, <1>8, ConcatEmpty
  <1> DEFINE v == x \o y
  <1>10. v \in Seq(Issue) /\ (v = <<>> <=> x = <<>> /\ y = <<>>)
    BY <1>9
  <1>11. CheckCode(a) = v \o z
    BY <1>3
  <1> HIDE DEF v
  <1>12. v \o z \in Seq(Issue) /\ (v \o z = <<>> <=> v = <<>> /\ z = <<>>)
    BY <1>8, <1>10, ConcatEmpty
  <1> QED
    BY <1>4, <1>6, <1>7, <1>8, <1>10, <1>11, <1>12 DEF s

\* An issue of one action is an issue of the macro.
LEMMA CheckCodesIs ==
    ASSUME NEW m, LegalMacro(m)
    PROVE  /\ CheckCodes(m) \in Seq(Issue)
           /\ \A i \in DOMAIN m.actions : CheckCode(m.actions[i]) # <<>> => CheckCodes(m) # <<>>
  <1> DEFINE s == m.actions
             q == [i \in DOMAIN s |-> CheckCode(s[i])]
  <1>1. Len(s) \in Nat /\ DOMAIN s = 1 .. Len(s) /\ \A i \in DOMAIN s : Legal(s[i])
    BY LegalElement DEF LegalMacro
  <1>2. CheckCodes(m) = FlattenSeq(q)
    BY DEF CheckCodes
  <1>3. \A i \in DOMAIN s : CheckCode(s[i]) \in Seq(Issue)
    BY <1>1, CheckCodeIs
  <1> HIDE DEF s
  <1>4. DOMAIN q = DOMAIN s /\ \A i \in DOMAIN s : q[i] = CheckCode(s[i])
    OBVIOUS
  <1>5. q \in Seq(Seq(Issue))
    <2> DEFINE T == Seq(Issue)
    <2>1. q = [i \in 1 .. Len(s) |-> CheckCode(s[i])] /\ \A i \in 1 .. Len(s) : CheckCode(s[i]) \in T
      BY <1>1, <1>3
    <2> HIDE DEF q, T
    <2>2. q \in Seq(T)
      BY <1>1, <2>1, IsASeq
    <2> QED
      BY <2>2 DEF T
  <1> HIDE DEF q
  <1>6. FlattenSeq(q) \in Seq(Issue) /\ \A i \in DOMAIN q : q[i] # <<>> => FlattenSeq(q) # <<>>
    BY <1>5, Flattened
  <1> QED
    BY <1>2, <1>4, <1>6 DEF s

\* What is played of a legal macro are some of its actions.
LEMMA EnabledIs ==
    ASSUME NEW m, LegalMacro(m)
    PROVE  /\ \E S : Enabled(m) \in Seq(S)
           /\ \A i \in DOMAIN Enabled(m) :
                 /\ Legal(Enabled(m)[i])
                 /\ \E j \in DOMAIN m.actions : m.actions[j] = Enabled(m)[i]
           /\ Len(Enabled(m)) \in Nat /\ DOMAIN Enabled(m) = 1 .. Len(Enabled(m))
           /\ \A a : a \in ToSet(Enabled(m)) <=> \E i \in 1 .. Len(Enabled(m)) : Enabled(m)[i] = a
  <1> DEFINE s == m.actions
             P == {i \in DOMAIN s : s[i].enabled}
             e == Enabled(m)
  <1>1. PICK S : s \in Seq(S) /\ \A a \in S : Legal(a)
    BY DEF LegalMacro, LegalSeq
  <1>2. P \in SUBSET DOMAIN s /\ e = Kept(s, P)
    BY DEF Enabled
  <1>3. \A i \in DOMAIN s : s[i] \in S
    BY <1>1
  <1> HIDE DEF P, s, e
  <1>4. /\ e \in Seq(S) /\ DOMAIN e = 1 .. Cardinality(P)
        /\ \A n \in 1 .. Cardinality(P) : \E i \in P : e[n] = s[i]
    BY <1>1, <1>2, KeptIs
  <1>5. \A i \in DOMAIN e : /\ Legal(e[i])
                            /\ \E j \in DOMAIN s : s[j] = e[i]
    BY <1>1, <1>2, <1>3, <1>4
  <1>6. \A a : a \in ToSet(e) <=> \E i \in 1 .. Len(e) : e[i] = a
    BY <1>4, ElementsAreFinite
  <1>7. Len(e) \in Nat /\ DOMAIN e = 1 .. Len(e) /\ \E T : e \in Seq(T)
    BY <1>4
  <1> QED
    BY <1>5, <1>6, <1>7 DEF s, e

\* The dictionary is finite, and holds everything that is left down.
LEMMA UnreleasedIs ==
    ASSUME NEW s, Len(s) \in Nat, \A i \in 1 .. Len(s) : Legal(s[i])
    PROVE  /\ IsFiniteSet(Unreleased(s))
           /\ DownIn(s)[Len(s)] \subseteq Unreleased(s)
  <1> DEFINE n == Len(s)
             X == UNION {ToSet(Codes(s[i])) : i \in 1 .. n}
             h == HeldIn(s)
             d == DownIn(s)
  <1>1. h[0] = {} /\ \A i \in 1 .. n : h[i] = HeldAfter(h[i - 1], s[i])
    <2>1. \A i \in 1 .. Len(s) : ToSet(Codes(s[i])) \subseteq X
      OBVIOUS
    <2> HIDE DEF X
    <2> QED
      BY <2>1, HeldInIs
  <1>2. d \in [0 .. n -> SUBSET Known] /\ d[0] = {} /\ \A i \in 1 .. n : d[i] = DownAfter(d[i - 1], s[i])
    BY DownInIs
  <1>3. \A i \in 1 .. n : IsFiniteSet(ToSet(Codes(s[i])))
    <2> SUFFICES ASSUME NEW i \in 1 .. n PROVE IsFiniteSet(ToSet(Codes(s[i])))
      OBVIOUS
    <2>1. \E S : Codes(s[i]) \in Seq(S)
      BY CodesAre
    <2> QED
      BY <2>1, ElementsAreFinite
  <1>4. n \in Nat
    OBVIOUS
  <1> HIDE DEF n, h, d
  <1> DEFINE T == {i \in 0 .. n : IsFiniteSet(h[i]) /\ d[i] \subseteq h[i]}
  <1>5. 0 \in T
    <2>1. 0 \in 0 .. n
      BY <1>4
    <2>2. IsFiniteSet(h[0]) /\ d[0] \subseteq h[0]
      BY <1>1, <1>2, FS_EmptySet
    <2> QED
      BY <2>1, <2>2
  <1>6. ASSUME NEW i \in 1 .. n, i - 1 \in T PROVE i \in T
    <2> DEFINE a == s[i]
               C == ToSet(Codes(a))
               u == h[i - 1]
               w == d[i - 1]
    <2>1. /\ i \in 0 .. n /\ i - 1 \in 0 .. n
      BY <1>4
    <2>2. /\ h[i] = HeldAfter(u, a) /\ d[i] = DownAfter(w, a) /\ w \in SUBSET Known
          /\ IsFiniteSet(u) /\ w \subseteq u /\ IsFiniteSet(C)
      BY <1>1, <1>2, <1>3, <1>6, <2>1
    <2>3. HeldAfter(u, a) \in {u \cup C, u \ C, u}
      BY DEF HeldAfter
    <2>4. DownAfter(w, a) \subseteq HeldAfter(u, a)
      <3>1. w \ (C \cap Known) \subseteq u \ C
        BY <2>2
      <3>2. w \cup (C \cap Known) \subseteq u \cup C /\ w \ (C \cap Known) \subseteq u
        BY <2>2
      <3>3. Presses \cap Releases = {}
        BY DEF Presses, Releases
      <3> HIDE DEF C
      <3>4. DownAfter(w, a) = IF a.type \in Presses THEN w \cup (C \cap Known) ELSE w \ (C \cap Known)
        BY DEF DownAfter, Emitted, C
      <3>5. HeldAfter(u, a) = IF a.type \in Presses THEN u \cup C
                              ELSE IF a.type \in Releases THEN u \ C ELSE u
        BY <3>3 DEF HeldAfter, C
      <3> QED
        BY <3>1, <3>2, <3>4, <3>5
    <2> HIDE DEF C, u, w, a
    <2>5. IsFiniteSet(u \cup C) /\ IsFiniteSet(u \ C)
      <3>1. u \ C \in SUBSET u
        OBVIOUS
      <3>2. IsFiniteSet(u \ C)
        BY <2>2, <3>1, FS_Subset
      <3> QED
        BY <2>2, <3>2, FS_Union
    <2>6. IsFiniteSet(HeldAfter(u, a))
      BY <2>2, <2>3, <2>5
    <2> QED
      BY <2>1, <2>2, <2>4, <2>6
  <1>7. n \in T
    <2> HIDE DEF T
    <2>1. \A i \in 0 .. n : i \in T
      BY <1>4, <1>5, <1>6, Induction
    <2> QED
      BY <1>4, <2>1
  <1> QED
    BY <1>7 DEF Unreleased, n, h, d

\* No action sleeps longer than all of them.
LEMMA DurationIs ==
    ASSUME NEW s, Len(s) \in Nat, \A i \in 1 .. Len(s) : SleepOf(s[i]) \in Nat
    PROVE  \A i \in 1 .. Len(s) : SleepOf(s[i]) <= Duration(s)
  <1> DEFINE n == Len(s)
             t == TimeIn(s)
  <1>1. t \in [0 .. n -> Nat] /\ \A i \in 1 .. n : t[i] = t[i - 1] + SleepOf(s[i])
    BY TimeInIs
  <1>2. n \in Nat
    OBVIOUS
  <1>5. \A i \in 1 .. n : SleepOf(s[i]) \in Nat
    OBVIOUS
  <1> HIDE DEF n, t
  <1> DEFINE T == {i \in 0 .. n : \A j \in 1 .. i : SleepOf(s[j]) <= t[i]}
  <1>3. \A i \in 0 .. n : i \in T
    <2>1. 0 \in T
      BY <1>2
    <2>2. ASSUME NEW i \in 1 .. n, i - 1 \in T PROVE i \in T
      <3>1. i \in 0 .. n /\ i - 1 \in 0 .. n
        BY <1>2
      <3>2. /\ t[i] = t[i - 1] + SleepOf(s[i]) /\ t[i - 1] \in Nat /\ SleepOf(s[i]) \in Nat
        BY <1>1, <1>5, <3>1
      <3>3. t[i - 1] <= t[i] /\ SleepOf(s[i]) <= t[i] /\ t[i] \in Nat
        BY <3>2
      <3>4. ASSUME NEW j \in 1 .. i PROVE SleepOf(s[j]) <= t[i]
        <4>1. j = i \/ j \in 1 .. (i - 1)
          BY <1>2
        <4>2. ASSUME j \in 1 .. (i - 1) PROVE SleepOf(s[j]) <= t[i]
          <5>1. SleepOf(s[j]) <= t[i - 1] /\ j \in 1 .. n
            BY <1>2, <2>2, <4>2
          <5>2. SleepOf(s[j]) \in Nat
            BY <1>5, <5>1
          <5> QED
            BY <3>2, <3>3, <5>1, <5>2
        <4> QED
          BY <3>3, <4>1, <4>2
      <3> QED
        BY <3>1, <3>4
    <2> HIDE DEF T
    <2> QED
      BY <1>2, <2>1, <2>2, Induction
  <1>4. n \in 0 .. n
    BY <1>2
  <1> QED
    BY <1>3, <1>4 DEF Duration, n, t

\* What is wrong with a macro whatever its trigger and the number of passes.
Faulty(m) ==
    \/ CheckCodes(m) # <<>> \/ CheckEmpty(m) # <<>>
    \/ CheckBalance(m) # <<>> \/ CheckBusyLoop(m) # <<>>

\* Any issue shows in the banner.
LEMMA BannerShows ==
    ASSUME NEW m, LegalMacro(m), Faulty(m)
    PROVE  Banner(m) # "none"
  <1> DEFINE a == CheckCodes(m)
             b == CheckEmpty(m)
             c == CheckBalance(m)
             d == CheckRunaway(m)
             e == CheckBusyLoop(m)
  <1>1. a \in Seq(Issue)
    BY CheckCodesIs
  <1>2. b \in Seq(Issue) /\ d \in Seq(Issue) /\ e \in Seq(Issue)
    BY OneIssue DEF CheckEmpty, CheckRunaway, CheckBusyLoop, Issue
  <1>3. c \in Seq(Issue)
    <2> DEFINE u == Enabled(m)
    <2>1. Len(u) \in Nat /\ \A i \in 1 .. Len(u) : Legal(u[i])
      BY EnabledIs
    <2> HIDE DEF u
    <2>2. Cardinality(Unreleased(u)) \in Nat
      BY <2>1, UnreleasedIs, FS_CardinalityType
    <2>3. "never released" \in Issue
      BY DEF Issue
    <2>4. Balance(u) \in Seq(Issue)
      BY <2>2, <2>3, Repeated DEF Balance
    <2> QED
      BY <2>4 DEF u, CheckBalance
  <1>4. a # <<>> \/ b # <<>> \/ c # <<>> \/ e # <<>>
    BY DEF Faulty
  <1>5. Inspect(m) = a \o b \o c \o d \o e
    BY DEF Inspect
  <1> HIDE DEF a, b, c, d, e
  <1> DEFINE ab == a \o b
  <1>6. ab \in Seq(Issue) /\ (ab = <<>> <=> a = <<>> /\ b = <<>>)
    BY <1>1, <1>2, ConcatEmpty
  <1>7. Inspect(m) = ab \o c \o d \o e
    BY <1>5
  <1> HIDE DEF ab
  <1> DEFINE abc == ab \o c
  <1>8. abc \in Seq(Issue) /\ (abc = <<>> <=> ab = <<>> /\ c = <<>>)
    BY <1>3, <1>6, ConcatEmpty
  <1>9. Inspect(m) = abc \o d \o e
    BY <1>7
  <1> HIDE DEF abc
  <1> DEFINE abcd == abc \o d
  <1>10. abcd \in Seq(Issue) /\ (abcd = <<>> <=> abc = <<>> /\ d = <<>>)
    BY <1>2, <1>8, ConcatEmpty
  <1>11. Inspect(m) = abcd \o e
    BY <1>9
  <1> HIDE DEF abcd
  <1>12. abcd \o e \in Seq(Issue) /\ (abcd \o e = <<>> <=> abcd = <<>> /\ e = <<>>)
    BY <1>2, <1>10, ConcatEmpty
  <1> DEFINE s == Inspect(m)
  <1>13. s \in Seq(Issue) /\ s # <<>>
    BY <1>4, <1>6, <1>8, <1>10, <1>11, <1>12
  <1> HIDE DEF s
  <1>14. Head(s) \in Issue
    BY <1>13
  <1>15. Banner(m) = Head(s)
    BY <1>13 DEF Banner, s
  <1> QED
    BY <1>14, <1>15 DEF Issue

\* An action with a duration that is not zero sleeps, or has no codes.
LEMMA SleepIs ==
    ASSUME NEW a, Legal(a)
    PROVE  /\ SleepOf(a) \in Nat
           /\ \A p \in Times \cap DOMAIN a.params :
                DurationsAreTimes /\ NamesAreGiven /\ a.params[p] # 0 =>
                    SleepOf(a) # 0 \/ (a.type = "key_combo" /\ a.params.keys = <<>>)
  <1> DEFINE t == a.type
             f == a.params
  <1>1. /\ t \in ActionType /\ DOMAIN f = DOMAIN Defaults[t]
        /\ \A p \in Times \cap DOMAIN f : f[p] \in Durations
    BY DEF Legal, Value
  <1>2. \A i \in Int : Milliseconds(i) \in Nat
    BY DEF Milliseconds
  <1>3. Durations \subseteq Int
    BY DEF Durations
  <1>4. /\ t = "wait" => DOMAIN f = {"duration_ms"}
        /\ t = "mouse_click_at" => DOMAIN f = {"button", "x", "y", "hold_ms"}
        /\ t = "key_tap" => DOMAIN f = {"key", "hold_ms"}
        /\ t = "button_click" => DOMAIN f = {"button", "hold_ms"}
        /\ t = "key_combo" => DOMAIN f = {"keys", "hold_ms"}
    BY <1>1 DEF Defaults
  <1>5. Times \cap DOMAIN f # {} =>
            t \in {"wait", "mouse_click_at", "key_tap", "button_click", "key_combo"}
    BY <1>1 DEF Defaults, ActionType, Times
  <1>6. "hold_ms" \in Times /\ "duration_ms" \in Times
    BY DEF Times
  <1>7. SleepOf(a) \in Nat
    <2>1. CASE t = "wait"
      <3>1. Milliseconds(f.duration_ms) \in Nat
        BY <1>1, <1>2, <1>3, <1>4, <1>6, <2>1
      <3> QED
        BY <2>1, <3>1 DEF SleepOf
    <2>2. CASE t \in {"mouse_click_at", "key_tap", "button_click", "key_combo"}
      <3>1. Milliseconds(f.hold_ms) \in Nat
        BY <1>1, <1>2, <1>3, <1>4, <1>6, <2>2
      <3> QED
        BY <2>2, <3>1 DEF SleepOf, Hold
    <2>3. CASE t \notin {"wait", "mouse_click_at", "key_tap", "button_click", "key_combo"}
      BY <2>3 DEF SleepOf
    <2> QED
      BY <2>1, <2>2, <2>3
  <1>8. ASSUME DurationsAreTimes, NamesAreGiven, NEW p \in Times \cap DOMAIN f, f[p] # 0
        PROVE  SleepOf(a) # 0 \/ (t = "key_combo" /\ f.keys = <<>>)
    <2>1. f[p] \in Nat /\ Milliseconds(f[p]) = f[p]
      BY <1>1, <1>8 DEF Durations, Milliseconds
    <2>2. CASE t = "wait"
      <3>1. p = "duration_ms"
        BY <1>4, <2>2
      <3>2. SleepOf(a) = Milliseconds(f[p])
        BY <2>2, <3>1 DEF SleepOf
      <3> QED
        BY <1>8, <2>1, <3>2
    <2>3. CASE t = "mouse_click_at"
      <3>1. Hold(a) \in Nat
        <4>1. f.hold_ms \in Int
          BY <1>1, <1>3, <1>4, <1>6, <2>3
        <4>2. Milliseconds(f.hold_ms) \in Nat
          BY <1>2, <4>1
        <4> QED
          BY <4>2 DEF Hold
      <3>2. SleepOf(a) = 1 + Hold(a)
        BY <2>3 DEF SleepOf
      <3> QED
        BY <3>1, <3>2
    <2>4. CASE t \in {"key_tap", "button_click", "key_combo"}
      <3>1. p = "hold_ms"
        BY <1>4, <2>4 DEF Times
      <3>2. Codes(a) # <<>> \/ (t = "key_combo" /\ f.keys = <<>>)
        <4>1. \A c : <<c>> # <<>>
          OBVIOUS
        <4>2. \A q \in {"key", "button"} \cap DOMAIN f : f[q] # None
          BY <1>8 DEF Legal, Value
        <4> QED
          BY <1>4, <2>4, <4>1, <4>2 DEF Codes
      <3>3. Codes(a) # <<>> => SleepOf(a) = Milliseconds(f[p])
        BY <2>4, <3>1 DEF SleepOf, Hold
      <3> QED
        BY <1>8, <2>1, <3>2, <3>3
    <2> QED
      BY <1>5, <2>2, <2>3, <2>4
  <1> QED
    BY <1>7, <1>8

\* A step that does nothing is reported.
LEMMA IneffectiveIs ==
    ASSUME NamesAreGiven, NEW a, Legal(a), Ineffective(a)
    PROVE  CheckCode(a) # <<>>
  <1>1. CASE a.type = "launch_app" /\ a.params.app = None
    BY <1>1, CheckCodeIs
  <1>2. CASE {"key", "button", "keys"} \cap DOMAIN a.params # {} /\ Emitted(a) = {}
    <2>1. CASE ToSet(Codes(a)) = {}
      <3> DEFINE s == Codes(a)
      <3>1. PICK S : s \in Seq(S)
        BY CodesAre
      <3>2. s = <<>>
        <4> HIDE DEF s
        <4>1. \A i \in 1 .. Len(s) : s[i] \in ToSet(s)
          BY <3>1, ElementsAreFinite
        <4>2. Len(s) \in Nat /\ (Len(s) # 0 => 1 \in 1 .. Len(s))
          BY <3>1
        <4>3. ToSet(s) = {}
          BY <2>1 DEF s
        <4>4. Len(s) = 0
          BY <4>1, <4>2, <4>3
        <4> QED
          BY <3>1, <4>4
      <3>3. \A c : <<c>> # <<>>
        OBVIOUS
      <3>4. "keys" \in DOMAIN a.params /\ a.params.keys = <<>>
        <4>1. \A q \in {"key", "button"} \cap DOMAIN a.params : a.params[q] # None
          BY DEF Legal, Value
        <4> QED
          BY <1>2, <3>2, <3>3, <4>1 DEF Codes
      <3>5. a.type = "key_combo"
        <4>1. a.type \in ActionType /\ DOMAIN a.params = DOMAIN Defaults[a.type]
          BY DEF Legal
        <4> QED
          BY <3>4, <4>1 DEF ActionType, Defaults
      <3> QED
        BY <3>4, <3>5, CheckCodeIs
    <2>2. CASE ToSet(Codes(a)) # {}
      <3>1. ~(ToSet(Codes(a)) \subseteq Known)
        BY <1>2, <2>2 DEF Emitted
      <3> QED
        BY <3>1, CheckCodeIs
    <2> QED
      BY <2>1, <2>2
  <1> QED
    BY <1>1, <1>2 DEF Ineffective

\* Every trouble one pass of a macro would be in is an issue of it.
LEMMA TroubleIsFault ==
    ASSUME DurationsAreTimes, NamesAreGiven, NEW m, LegalMacro(m), Troubled(m)
    PROVE  Faulty(m)
  <1> DEFINE e == Enabled(m)
             n == Len(e)
  <1>1. /\ n \in Nat /\ DOMAIN e = 1 .. n
        /\ \A i \in 1 .. n : Legal(e[i]) /\ \E j \in DOMAIN m.actions : m.actions[j] = e[i]
        /\ \A a : a \in ToSet(e) <=> \E i \in 1 .. n : e[i] = a
    BY EnabledIs
  <1>2. ASSUME NEW i \in 1 .. n, CheckCode(e[i]) # <<>> PROVE Faulty(m)
    BY <1>1, <1>2, CheckCodesIs DEF Faulty
  <1>3. CASE LeftDown(m) # {}
    <2>1. IsFiniteSet(Unreleased(e)) /\ LeftDown(m) \subseteq Unreleased(e)
      BY <1>1, UnreleasedIs DEF LeftDown
    <2> DEFINE c == Cardinality(Unreleased(e))
    <2>2. c \in Nat /\ c # 0
      BY <1>3, <2>1, FS_EmptySet, FS_CardinalityType
    <2>3. Balance(e) = [i \in 1 .. c |-> "never released"] /\ "never released" \in Issue
      BY DEF Balance, Issue
    <2> HIDE DEF c
    <2>4. Balance(e) # <<>>
      BY <2>2, <2>3, Repeated
    <2> QED
      BY <2>4 DEF Faulty, CheckBalance
  <1>4. CASE e = <<>>
    BY <1>4 DEF Faulty, CheckEmpty
  <1>5. CASE Floods(m)
    <2>1. m.playback.mode # "once" /\ Duration(e) = 0 /\ m.playback.gap_ms = 0
      BY <1>5 DEF Floods, Iterations
    <2>2. CASE \E a \in ToSet(e) : \E p \in Times \cap DOMAIN a.params : a.params[p] # 0
      <3>1. PICK i \in 1 .. n : \E p \in Times \cap DOMAIN e[i].params : e[i].params[p] # 0
        BY <1>1, <2>2
      <3>2. \A j \in 1 .. n : SleepOf(e[j]) \in Nat
        BY <1>1, SleepIs
      <3>3. SleepOf(e[i]) = 0
        <4>1. SleepOf(e[i]) <= Duration(e)
          BY <1>1, <3>2, DurationIs
        <4> QED
          BY <2>1, <3>2, <4>1
      <3>4. e[i].type = "key_combo" /\ e[i].params.keys = <<>>
        BY <1>1, <3>1, <3>3, SleepIs
      <3>5. CheckCode(e[i]) # <<>>
        BY <1>1, <3>4, CheckCodeIs
      <3> QED
        BY <1>2, <3>5
    <2>3. CASE ~(\E a \in ToSet(e) : \E p \in Times \cap DOMAIN a.params : a.params[p] # 0)
      <3>1. CheckBusyLoop(m) = <<"no delay">>
        BY <2>1, <2>3 DEF CheckBusyLoop
      <3> QED
        BY <3>1, OneIssue DEF Faulty, Issue
    <2> QED
      BY <2>2, <2>3
  <1>6. CASE \E a \in ToSet(e) : Ineffective(a)
    <2>1. PICK i \in 1 .. n : Ineffective(e[i])
      BY <1>1, <1>6
    <2>2. CheckCode(e[i]) # <<>>
      BY <1>1, <2>1, IneffectiveIs
    <2> QED
      BY <1>2, <2>2
  <1> QED
    BY <1>3, <1>4, <1>5, <1>6 DEF Troubled

\* The banner was drawn for this macro, or neither has changed.
Drawn == banner' = Banner(macro') \/ (macro' = macro /\ banner' = banner)

\* What sets the actions draws the banner.
LEMMA SettingDraws ==
    /\ \A m : Rendered(m) => Drawn
    /\ \A s : SetActions(s) => Drawn
    /\ \A i, a : SetAction(i, a) => Drawn
    /\ \A i, p, v : SetParam(i, p, v) => Drawn
  <1>1. \A m : Rendered(m) => Drawn
    BY DEF Rendered, Drawn
  <1>2. \A s : SetActions(s) => Drawn
    BY <1>1, Zenon DEF SetActions
  <1>3. \A i, a : SetAction(i, a) => Drawn
    BY <1>2, Zenon DEF SetAction
  <1>4. \A i, p, v : SetParam(i, p, v) => Drawn
    BY <1>3, Zenon DEF SetParam
  <1> QED
    BY <1>1, <1>2, <1>3, <1>4

\* Every step of the form draws the banner, but for a change of the repeats or of the trigger.
LEMMA FormDraws ==
    ASSUME FormStep
    PROVE  Drawn \/ ChangeRepeatOrTrigger
  <1>1. ASSUME NEW type, AppendAction(type) PROVE Drawn
    BY <1>1, SettingDraws, Zenon DEF AppendAction
  <1>2. CASE UndoDeletion
    BY <1>2, SettingDraws, Zenon DEF UndoDeletion
  <1>3. CASE ClearActions
    BY <1>3, SettingDraws, Zenon DEF ClearActions
  <1>4. ASSUME NEW i, EditRow(i) PROVE Drawn
    <2>1. OnActionCommand(i) => Drawn
      BY SettingDraws, Zenon DEF OnActionCommand
    <2>2. DeleteAction(i) => Drawn
      BY SettingDraws, Zenon DEF DeleteAction
    <2>3. \A type : ChangeType(i, type) => Drawn
      BY SettingDraws, Zenon DEF ChangeType
    <2>4. \A p : ChangeNumber(i, p) => Drawn
      BY SettingDraws, Zenon DEF ChangeNumber
    <2>5. ToggleHorizontal(i) => Drawn
      BY SettingDraws, Zenon DEF ToggleHorizontal
    <2>6. ToggleEnabled(i) => Drawn
      BY SettingDraws, Zenon DEF ToggleEnabled
    <2> QED
      BY <1>4, <2>1, <2>2, <2>3, <2>4, <2>5, <2>6, Zenon DEF EditRow
  <1>5. ASSUME NEW i, OpenDialog(i) PROVE Drawn
    BY <1>5 DEF OpenDialog, Drawn
  <1>6. CASE UseDialog
    <2>1. Dismiss \/ ListenAgain => Drawn
      BY DEF Dismiss, ListenAgain, Drawn
    <2>2. EditCombo => Drawn
      <3>1. EditCombo => (\E i, p, v : SetParam(i, p, v)) \/ (macro' = macro /\ banner' = banner)
        BY Zenon DEF EditCombo
      <3> QED
        BY <3>1, SettingDraws DEF Drawn
    <2>3. \A code : ChooseKey(code) => Drawn
      BY SettingDraws, Zenon DEF ChooseKey
    <2>4. \A app : ChooseApp(app) => Drawn
      BY SettingDraws, Zenon DEF ChooseApp
    <2>5. \A x, y : PickPosition(x, y) => Drawn
      BY SettingDraws, Zenon DEF PickPosition
    <2> QED
      BY <1>6, <2>1, <2>2, <2>3, <2>4, <2>5, Zenon DEF UseDialog
  <1>7. CASE ChangePlayback
    BY <1>7, SettingDraws, Zenon DEF ChangePlayback
  <1> QED
    BY <1>1, <1>2, <1>3, <1>4, <1>5, <1>6, <1>7, Zenon DEF FormStep

\* The trigger and the number of passes do not bear on the faults.
LEMMA SameFaults ==
    ASSUME NEW m, NEW k, k.actions = m.actions,
           k.playback.mode = m.playback.mode, k.playback.gap_ms = m.playback.gap_ms
    PROVE  Faulty(k) <=> Faulty(m)
  <1>1. Enabled(k) = Enabled(m)
    BY DEF Enabled
  <1>2. CheckCodes(k) = CheckCodes(m)
    BY DEF CheckCodes
  <1>3. CheckEmpty(k) = CheckEmpty(m) /\ CheckBalance(k) = CheckBalance(m)
    BY <1>1 DEF CheckEmpty, CheckBalance
  <1>4. CheckBusyLoop(k) = CheckBusyLoop(m)
    BY <1>1 DEF CheckBusyLoop
  <1> QED
    BY <1>2, <1>3, <1>4 DEF Faulty

\* The faults show in the banner, also when it was not drawn again.
WarnedInv == ShapeInv /\ (Faulty(macro) => banner # "none")

LEMMA WarnedInitially == Init => WarnedInv
  <1> SUFFICES ASSUME Init PROVE WarnedInv
    OBVIOUS
  <1>1. ShapeInv /\ LegalMacro(macro)
    BY Initially, MacroActions
  <1>2. banner = Banner(macro)
    BY DEF Init, FormInit
  <1> QED
    BY <1>1, <1>2, BannerShows DEF WarnedInv

LEMMA WarnedInductive == WarnedInv /\ [Next]_vars => WarnedInv'
  <1> SUFFICES ASSUME WarnedInv, [Next]_vars PROVE WarnedInv'
    OBVIOUS
  <1>1. ShapeInv /\ ShapeInv' /\ LegalMacro(macro')
    BY Inductive DEF WarnedInv, ShapeInv, FormInv
  <1>2. Drawn \/ ChangeRepeatOrTrigger
    <2>1. Record => Drawn
      BY DEF Record, Drawn
    <2>2. SaveRecording => Drawn
      BY SettingDraws, Zenon DEF SaveRecording
    <2>3. UNCHANGED formVars => Drawn
      BY DEF formVars, Drawn
    <2> QED
      BY <2>1, <2>2, <2>3, FormDraws DEF Next, vars
  <1>3. CASE Drawn
    <2>1. banner' = Banner(macro') => (Faulty(macro') => banner' # "none")
      BY <1>1, BannerShows
    <2> QED
      BY <1>1, <1>3, <2>1 DEF WarnedInv, Drawn
  <1>4. CASE ChangeRepeatOrTrigger
    <2> DEFINE p == macro.playback
    <2>1. /\ macro = [actions |-> macro.actions, playback |-> p, trigger |-> macro.trigger]
          /\ p = [mode |-> p.mode, repeat_count |-> p.repeat_count, gap_ms |-> p.gap_ms]
      BY <1>1 DEF ShapeInv, FormInv, LegalMacro, LegalPlayback
    <2>2. /\ macro'.actions = macro.actions
          /\ macro'.playback.mode = p.mode /\ macro'.playback.gap_ms = p.gap_ms
      <3>1. ASSUME NEW n, macro' = [macro EXCEPT !.playback.repeat_count = n]
            PROVE  macro' = [actions |-> macro.actions, trigger |-> macro.trigger, playback |->
                                [mode |-> p.mode, repeat_count |-> n, gap_ms |-> p.gap_ms]]
        BY <2>1, <3>1
      <3>2. ASSUME NEW t, macro' = [macro EXCEPT !.trigger = t]
            PROVE  macro' = [actions |-> macro.actions, trigger |-> t, playback |-> p]
        BY <2>1, <3>2
      <3>3. \/ \E n : macro' = [macro EXCEPT !.playback.repeat_count = n]
            \/ \E t : macro' = [macro EXCEPT !.trigger = t]
        BY <1>4 DEF ChangeRepeatOrTrigger
      <3>4. CASE \E n : macro' = [macro EXCEPT !.playback.repeat_count = n]
        <4>1. PICK n : macro' = [macro EXCEPT !.playback.repeat_count = n]
          BY <3>4
        <4> DEFINE q == [mode |-> p.mode, repeat_count |-> n, gap_ms |-> p.gap_ms]
        <4>2. macro' = [actions |-> macro.actions, trigger |-> macro.trigger, playback |-> q]
          BY <3>1, <4>1
        <4>3. q.mode = p.mode /\ q.gap_ms = p.gap_ms
          OBVIOUS
        <4> HIDE DEF q, p
        <4> QED
          BY <4>2, <4>3
      <3>5. CASE \E t : macro' = [macro EXCEPT !.trigger = t]
        <4>1. PICK t : macro' = [macro EXCEPT !.trigger = t]
          BY <3>5
        <4>2. macro' = [actions |-> macro.actions, trigger |-> t, playback |-> p]
          BY <3>2, <4>1
        <4> HIDE DEF p
        <4> QED
          BY <4>2
      <3> QED
        BY <3>3, <3>4, <3>5
    <2>3. Faulty(macro') <=> Faulty(macro)
      BY <2>2, SameFaults
    <2>4. banner' = banner
      BY <1>4 DEF ChangeRepeatOrTrigger
    <2> QED
      BY <1>1, <2>3, <2>4 DEF WarnedInv
  <1> QED
    BY <1>2, <1>3, <1>4

\* If no file has a negative duration or an empty name: whatever is loaded, edited and recorded,
\* the banner warns of a macro that would leave a code down, run without any
\* pause, or have a step that does nothing, or nothing at all, also after a
\* change of the trigger or of the repeats, which does not draw it again
\* (inspect of macros/validate.py, _render_validation of ui/pages/editor.py,
\* held against _perform of macros/executor.py).
THEOREM Warns ==
    ASSUME DurationsAreTimes, NamesAreGiven
    PROVE  Safety => []BannerWarns
  <1>1. Init => WarnedInv
    BY WarnedInitially
  <1>2. WarnedInv /\ [Next]_vars => WarnedInv'
    BY WarnedInductive
  <1>3. WarnedInv => BannerWarns
    <2>1. WarnedInv => LegalMacro(macro)
      BY DEF WarnedInv, ShapeInv, FormInv
    <2> QED
      BY <2>1, TroubleIsFault DEF WarnedInv, BannerWarns
  <1> QED
    BY <1>1, <1>2, <1>3, PTL DEF Safety
=============================================================================

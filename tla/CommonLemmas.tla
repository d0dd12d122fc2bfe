---------------------------- MODULE CommonLemmas ----------------------------
(***************************************************************************)
(* What the proofs of several modules need: extremes of sets of numbers,   *)
(* induction written with sets, what filtering, sorting, appending and     *)
(* flattening make of a sequence, and counts of finite sets.               *)
(***************************************************************************)
EXTENDS Selection, SequencesExt, FiniteSetTheorems, SequenceTheorems, NaturalsInduction, TLAPS

(* A set of numbers that is not empty has a smallest one.                  *)
LEMMA SmallestOf ==
    ASSUME NEW P \in SUBSET Nat, P # {}
    PROVE  \E m \in P : \A x \in P : m <= x
<1> DEFINE R == OpToRel(<, Nat)
<1>1. IsWellFoundedOn(R, Nat)
  BY NatLessThanWellFounded
<1>2. PICK m \in P : \A x \in P : ~(<<x, m>> \in R)
  <2> HIDE DEF R
  <2> QED
    BY <1>1, WFMin
<1>3. \A x \in P : m <= x
  <2> SUFFICES ASSUME NEW x \in P, ~(m <= x) PROVE FALSE
    OBVIOUS
  <2>1. m \in Nat /\ x \in Nat /\ x < m
    OBVIOUS
  <2>2. <<x, m>> \in R
    BY <2>1 DEF OpToRel
  <2> QED
    BY <1>2, <2>2
<1> QED
  BY <1>3

(* The community modules' Min and Max return what they promise.            *)
LEMMA MinOf ==
    ASSUME NEW S \in SUBSET Nat, S # {}
    PROVE  Min(S) \in S /\ \A x \in S : Min(S) <= x
BY SmallestOf DEF Min

LEMMA MaxOf ==
    ASSUME NEW N \in Nat, NEW S \in SUBSET (0 .. N), S # {}
    PROVE  Max(S) \in S /\ \A x \in S : x <= Max(S)
<1> DEFINE D == {d \in Nat : d <= N /\ N - d \in S}
<1>1. D \in SUBSET Nat /\ \A x \in S : N - x \in D
  BY SMT
<1>2. D # {} /\ \A d \in D : d \in Nat /\ N - d \in S
  BY <1>1
<1> HIDE DEF D
<1>3. PICK m : m = Min(D)
  OBVIOUS
<1>4. m \in Nat /\ N - m \in S /\ \A x \in S : m <= N - x
  BY <1>1, <1>2, <1>3, MinOf
<1>5. \A x \in S : x <= N - m
  BY <1>4
<1> QED
  BY <1>4, <1>5 DEF Max

(* Induction up to N, for a property given as the set of numbers that have *)
(* it.                                                                     *)
LEMMA Climb ==
    ASSUME NEW N \in Nat, NEW P,
           0 \in P, \A n \in 1..N : n - 1 \in P => n \in P
    PROVE  0..N \subseteq P
<1> DEFINE Q == (0..N) \ P
<1> SUFFICES ASSUME Q # {} PROVE FALSE
  OBVIOUS
<1>1. PICK m \in Q : \A x \in Q : m <= x
  <2>1. Q \in SUBSET Nat
    OBVIOUS
  <2> HIDE DEF Q
  <2> QED
    BY <2>1, SmallestOf
<1>2. m \in 1..N /\ m - 1 \in 0..N
  OBVIOUS
<1>3. m - 1 \in P
  BY <1>1, <1>2
<1> QED
  BY <1>1, <1>2, <1>3

(* f goes from a by the steps of G, N times.                               *)
Iteration(f, a, N, G) == f[0] = a /\ \A n \in 1..N : f[n] = G[n][f[n - 1]]

(* A step that is given for every number and value can be iterated.        *)
LEMMA Iterates ==
    ASSUME NEW A, NEW a \in A, NEW N \in Nat, NEW G \in [Nat -> [A -> A]]
    PROVE  \E f \in [0..N -> A] : Iteration(f, a, N, G)
<1> DEFINE Is(k, f) == f[0] = a /\ \A n \in 1..k : f[n] = G[n][f[n - 1]]
           P == {k \in 0..N : \E f \in [0..k -> A] : Is(k, f)}
<1>1. 0 \in P
  <2>1. PICK f : f = [i \in 0..0 |-> a]
    OBVIOUS
  <2>2. f \in [0..0 -> A] /\ Is(0, f)
    BY <2>1
  <2>3. 0 \in 0..N
    OBVIOUS
  <2> QED
    BY <2>2, <2>3
<1>2. ASSUME NEW k \in 1..N, k - 1 \in P PROVE k \in P
  <2>1. PICK f \in [0..(k - 1) -> A] : Is(k - 1, f)
    BY <1>2
  <2>2. PICK g : g = [i \in 0..k |-> IF i = k THEN G[k][f[k - 1]] ELSE f[i]]
    OBVIOUS
  <2>3. G[k][f[k - 1]] \in A
    OBVIOUS
  <2>4. g \in [0..k -> A]
    BY <2>2, <2>3
  <2>5. g[0] = a
    BY <2>1, <2>2
  <2>6. \A n \in 1..k : g[n] = G[n][g[n - 1]]
    <3> TAKE n \in 1..k
    <3>1. CASE n = k
      BY <3>1, <2>2
    <3>2. CASE n # k
      BY <3>2, <2>1, <2>2
    <3> QED
      BY <3>1, <3>2
  <2> QED
    BY <2>4, <2>5, <2>6
<1>3. 0..N \subseteq P
  <2> HIDE DEF P
  <2> QED
    BY <1>1, <1>2, Climb
<1> QED
  BY <1>3 DEF Iteration

(* Among, by its steps.                                                    *)
LEMMA AmongSteps ==
    ASSUME NEW S, NEW s \in Seq(S), NEW T
    PROVE  \E f \in [0..Len(s) -> Seq(S)] :
              /\ f[0] = <<>> /\ f[Len(s)] = Among(s, T)
              /\ \A n \in 1..Len(s) :
                   f[n] = IF s[n] \in T THEN Append(f[n - 1], s[n]) ELSE f[n - 1]
<1> DEFINE N == Len(s)
           A == Seq(S)
           G == [n \in Nat |-> [x \in A |->
                   IF n \in 1..N /\ s[n] \in T THEN Append(x, s[n]) ELSE x]]
           Body(f) == [n \in 0..N |-> IF n = 0 THEN <<>>
                                      ELSE IF s[n] \in T THEN Append(f[n - 1], s[n])
                                      ELSE f[n - 1]]
           up == CHOOSE f : f = Body(f)
<1>1. N \in Nat /\ \A n \in 1..N : s[n] \in S
  OBVIOUS
<1>2. <<>> \in A /\ G \in [Nat -> [A -> A]]
  BY <1>1
<1>0. PICK g \in [0..N -> A] : Iteration(g, <<>>, N, G)
  <2> HIDE DEF A, G, N
  <2>1. N \in Nat
    BY <1>1
  <2> QED
    BY <1>2, <2>1, Iterates
<1>3. g[0] = <<>> /\ \A n \in 1..N : g[n] = G[n][g[n - 1]]
  BY <1>0 DEF Iteration
<1>4. \A n \in 1..N : g[n] = IF s[n] \in T THEN Append(g[n - 1], s[n]) ELSE g[n - 1]
  <2> TAKE n \in 1..N
  <2>1. n \in Nat /\ n - 1 \in 0..N
    BY <1>1
  <2>2. g[n - 1] \in A
    BY <2>1, <1>3
  <2> QED
    BY <1>3, <2>1, <2>2
<1>5. g = Body(g)
  <2>1. g = [n \in 0..N |-> g[n]]
    BY <1>3
  <2>2. ASSUME NEW n \in 0..N
        PROVE  g[n] = IF n = 0 THEN <<>>
                      ELSE IF s[n] \in T THEN Append(g[n - 1], s[n]) ELSE g[n - 1]
    <3>1. CASE n = 0
      BY <3>1, <1>3
    <3>2. CASE n # 0
      <4>1. n \in 1..N
        BY <3>2, <1>1
      <4>2. CASE s[n] \in T
        BY <4>1, <4>2, <3>2, <1>4
      <4>3. CASE s[n] \notin T
        BY <4>1, <4>3, <3>2, <1>4
      <4> QED
        BY <4>2, <4>3
    <3> QED
      BY <3>1, <3>2
  <2> HIDE DEF N
  <2> QED
    BY <2>1, <2>2
<1>6. up = Body(up)
  <2> HIDE DEF Body
  <2> QED
    BY <1>5
<1>7. Among(s, T) = up[N]
  BY DEF Among
<1> HIDE DEF up, N
<1>8. up[0] = <<>> /\ \A n \in 1..N : up[n] = IF s[n] \in T THEN Append(up[n - 1], s[n])
                                             ELSE up[n - 1]
  <2>1. up = [n \in 0..N |-> IF n = 0 THEN <<>>
                             ELSE IF s[n] \in T THEN Append(up[n - 1], s[n])
                             ELSE up[n - 1]]
    BY <1>6
  <2>2. up[0] = <<>>
    BY <2>1, <1>1
  <2>3. ASSUME NEW n \in 1..N
        PROVE  up[n] = IF s[n] \in T THEN Append(up[n - 1], s[n]) ELSE up[n - 1]
    <3>1. n \in 0..N /\ n # 0
      BY <1>1
    <3>2. up[n] = IF n = 0 THEN <<>>
                  ELSE IF s[n] \in T THEN Append(up[n - 1], s[n]) ELSE up[n - 1]
      BY <2>1, <3>1
    <3> QED
      BY <3>1, <3>2
  <2> QED
    BY <2>2, <2>3
<1>9. \A n \in 0..N : up[n] = g[n]
  <2> DEFINE P == {n \in 0..N : up[n] = g[n]}
  <2>1. 0 \in P
    BY <1>1, <1>3, <1>8
  <2>2. ASSUME NEW n \in 1..N, n - 1 \in P PROVE n \in P
    <3>1. up[n - 1] = g[n - 1] /\ n \in 0..N
      BY <2>2, <1>1
    <3>2. up[n] = g[n]
      BY <3>1, <1>4, <1>8
    <3> QED
      BY <3>1, <3>2
  <2>3. 0..N \subseteq P
    <3> HIDE DEF P, N
    <3> QED
      BY <1>1, <2>1, <2>2, Climb
  <2> QED
    BY <2>3
<1>10. g[N] = Among(s, T)
  BY <1>1, <1>7, <1>9
<1> QED
  BY <1>3, <1>4, <1>10 DEF N

(* r is q with e at one more place n.                                      *)
Extends(r, q, n, e) ==
    /\ DOMAIN r = DOMAIN q \cup {n} /\ n \notin DOMAIN q
    /\ r[n] = e /\ \A i \in DOMAIN q : r[i] = q[i]

LEMMA AppendFacts ==
    ASSUME NEW S, NEW q \in Seq(S), NEW e \in S, NEW r, r = Append(q, e)
    PROVE  /\ r \in Seq(S) /\ Len(r) = Len(q) + 1 /\ Len(q) \in Nat
           /\ Extends(r, q, Len(q) + 1, e)
<1>1. DOMAIN r = 1..(Len(q) + 1) /\ DOMAIN q = 1..Len(q) /\ Len(q) \in Nat
  OBVIOUS
<1>2. DOMAIN r = DOMAIN q \cup {Len(q) + 1} /\ Len(q) + 1 \notin DOMAIN q
  BY <1>1
<1>3. r[Len(q) + 1] = e /\ \A i \in DOMAIN q : r[i] = q[i]
  OBVIOUS
<1> QED
  BY <1>2, <1>3 DEF Extends

LEMMA ExtendsFacts ==
    ASSUME NEW r, NEW q, NEW n, NEW e, Extends(r, q, n, e)
    PROVE  /\ \A x : x \in ToSet(r) <=> x \in ToSet(q) \/ x = e
           /\ (IsInjective(q) /\ e \notin ToSet(q)) => IsInjective(r)
<1>1. \A x : x \in ToSet(r) <=> x \in ToSet(q) \/ x = e
  BY DEF Extends, ToSet
<1>2. ASSUME IsInjective(q), e \notin ToSet(q), NEW a \in DOMAIN r, NEW b \in DOMAIN r, r[a] = r[b]
      PROVE  a = b
  <2>1. \A i \in DOMAIN q : r[i] = q[i] /\ q[i] # e
    BY <1>2 DEF Extends, ToSet
  <2>2. CASE a \in DOMAIN q /\ b \in DOMAIN q
    BY <2>1, <2>2, <1>2 DEF IsInjective
  <2>3. CASE a = n \/ b = n
    BY <2>1, <2>3, <1>2 DEF Extends
  <2> QED
    BY <2>2, <2>3 DEF Extends
<1> QED
  BY <1>1, <1>2 DEF IsInjective

(* What a selection holds, and that it repeats nothing that was not        *)
(* repeated.                                                               *)
LEMMA AmongFacts ==
    ASSUME NEW S, NEW s \in Seq(S), NEW T
    PROVE  /\ Among(s, T) \in Seq(S)
           /\ \A x : x \in ToSet(Among(s, T)) <=> x \in ToSet(s) /\ x \in T
           /\ Len(Among(s, T)) <= Len(s)
           /\ IsInjective(s) => IsInjective(Among(s, T))
<1> DEFINE N == Len(s)
           Upto(n) == {s[i] : i \in 1..n}
<1>1. N \in Nat /\ DOMAIN s = 1..N /\ \A n \in 1..N : s[n] \in S
  OBVIOUS
<1>2. PICK f \in [0..N -> Seq(S)] :
              /\ f[0] = <<>> /\ f[N] = Among(s, T)
              /\ \A n \in 1..N :
                   f[n] = IF s[n] \in T THEN Append(f[n - 1], s[n]) ELSE f[n - 1]
  BY AmongSteps
<1> HIDE DEF N
<1>3. \A n \in 0..N : f[n] \in Seq(S)
  BY <1>1, <1>2
<1>4. \A n \in 1..N : n - 1 \in 0..N /\ n \in 0..N
  BY <1>1
<1>5. \A n \in 1..N : Upto(n) = Upto(n - 1) \cup {s[n]}
  <2> TAKE n \in 1..N
  <2>1. 1..n = 1..(n - 1) \cup {n}
    BY <1>1
  <2> QED
    BY <2>1
<1>7. \A n \in 1..N : s[n] \in S /\ f[n - 1] \in Seq(S) /\ Len(f[n - 1]) \in Nat
  BY <1>1, <1>3, <1>4
<1>14. \A n \in 1..N : s[n] \in T => f[n] = Append(f[n - 1], s[n])
  BY <1>2
<1>15. \A n \in 1..N : s[n] \notin T => f[n] = f[n - 1]
  BY <1>2
<1>16. ASSUME NEW n \in 1..N, s[n] \in T
       PROVE  /\ Len(f[n]) = Len(f[n - 1]) + 1 /\ ToSet(f[n]) = ToSet(f[n - 1]) \cup {s[n]}
              /\ (IsInjective(f[n - 1]) /\ s[n] \notin ToSet(f[n - 1])) => IsInjective(f[n])
  <2>1. f[n] = Append(f[n - 1], s[n])
    BY <1>14, <1>16
  <2>2. s[n] \in S /\ f[n - 1] \in Seq(S)
    BY <1>7
  <2>3. PICK q \in Seq(S) : q = f[n - 1]
    BY <2>2
  <2>4. PICK e \in S : e = s[n]
    BY <2>2
  <2>5. PICK r : r = Append(q, e)
    OBVIOUS
  <2>6. Len(r) = Len(q) + 1 /\ Extends(r, q, Len(q) + 1, e)
    BY <2>5, AppendFacts
  <2>7. f[n] = r
    BY <2>1, <2>3, <2>4, <2>5
  <2>8. /\ \A x : x \in ToSet(r) <=> x \in ToSet(q) \/ x = e
        /\ (IsInjective(q) /\ e \notin ToSet(q)) => IsInjective(r)
    BY <2>6, ExtendsFacts
  <2> QED
    BY <2>3, <2>4, <2>6, <2>7, <2>8
<1> DEFINE P == {n \in 0..N : Len(f[n]) <= n /\ ToSet(f[n]) = Upto(n) \cap T}
           Q == {n \in 0..N : IsInjective(f[n])}
<1>8. 0..N \subseteq P
  <2>1. 0 \in P
    BY <1>1, <1>2 DEF ToSet
  <2>2. ASSUME NEW n \in 1..N, n - 1 \in P PROVE n \in P
    <3>1. Len(f[n - 1]) <= n - 1 /\ ToSet(f[n - 1]) = Upto(n - 1) \cap T
      BY <2>2
    <3>2. n \in 0..N /\ n \in Nat
      BY <1>1, <1>4
    <3> HIDE DEF Upto
    <3>0. Len(f[n - 1]) \in Nat
      BY <1>7
    <3>3. CASE s[n] \in T
      <4>0. Len(f[n]) = Len(f[n - 1]) + 1 /\ ToSet(f[n]) = ToSet(f[n - 1]) \cup {s[n]}
        BY <3>3, <1>16
      <4>3. Upto(n) = Upto(n - 1) \cup {s[n]}
        BY <1>5
      <4>1. Len(f[n]) <= n
        BY <3>0, <3>1, <3>2, <4>0
      <4>2. ToSet(f[n]) = Upto(n) \cap T
        BY <3>1, <3>3, <4>0, <4>3
      <4> QED
        BY <4>1, <4>2, <3>2
    <3>4. CASE s[n] \notin T
      <4>0. f[n] = f[n - 1]
        BY <3>4, <1>15
      <4>1. Len(f[n]) <= n
        BY <3>0, <3>1, <3>2, <4>0
      <4>3. Upto(n) = Upto(n - 1) \cup {s[n]}
        BY <1>5
      <4>2. ToSet(f[n]) = Upto(n) \cap T
        BY <3>1, <3>4, <4>0, <4>3
      <4> QED
        BY <4>1, <4>2, <3>2
    <3> QED
      BY <3>3, <3>4
  <2> HIDE DEF P
  <2> QED
    BY <1>1, <2>1, <2>2, Climb
<1>17. \A n \in 0..N : Len(f[n]) <= n /\ ToSet(f[n]) = Upto(n) \cap T
  BY <1>8
<1>9. N \in 0..N
  BY <1>1
<1>10. Upto(N) = ToSet(s)
  BY <1>1 DEF ToSet
<1>11. ASSUME IsInjective(s) PROVE 0..N \subseteq Q
  <2>1. 0 \in Q
    BY <1>1, <1>2 DEF IsInjective
  <2> HIDE DEF P
  <2>2. ASSUME NEW n \in 1..N, n - 1 \in Q PROVE n \in Q
    <3>0. n - 1 \in 0..N /\ n \in 0..N /\ n \in Nat
      BY <1>1
    <3>1. ToSet(f[n - 1]) = Upto(n - 1) \cap T
      BY <3>0, <1>17
    <3>2. s[n] \notin Upto(n - 1)
      <4> SUFFICES ASSUME NEW i \in 1..(n - 1), s[i] = s[n] PROVE FALSE
        OBVIOUS
      <4>1. i \in 1..N /\ i # n
        BY <3>0, <1>1
      <4> QED
        BY <4>1, <1>1, <1>11 DEF IsInjective
    <3>3. s[n] \notin ToSet(f[n - 1])
      BY <3>1, <3>2
    <3>4. IsInjective(f[n - 1])
      BY <2>2
    <3>5. CASE s[n] \in T
      BY <3>0, <3>3, <3>4, <3>5, <1>16
    <3>6. CASE s[n] \notin T
      BY <3>0, <3>4, <3>6, <1>15
    <3> QED
      BY <3>0, <3>5, <3>6
  <2> HIDE DEF Q, P
  <2> QED
    BY <1>1, <2>1, <2>2, Climb
<1>12. ToSet(f[N]) = ToSet(s) \cap T /\ Len(f[N]) <= N
  BY <1>9, <1>10, <1>17
<1>13. IsInjective(s) => IsInjective(f[N])
  BY <1>9, <1>11
<1> QED
  BY <1>2, <1>3, <1>9, <1>12, <1>13 DEF N

(* A list without repetitions is as long as it has elements.               *)
LEMMA InjectiveLen ==
    ASSUME NEW S, NEW s \in Seq(S), IsInjective(s)
    PROVE  IsFiniteSet(ToSet(s)) /\ Cardinality(ToSet(s)) = Len(s)
<1>1. Len(s) \in Nat /\ DOMAIN s = 1..Len(s)
  OBVIOUS
<1>2. s \in [1..Len(s) -> ToSet(s)]
  BY <1>1 DEF ToSet
<1>3. s \in Bijection(1..Len(s), ToSet(s))
  BY <1>1, <1>2 DEF Bijection, Injection, Surjection, ToSet, IsInjective
<1>4. ExistsBijection(1..Len(s), ToSet(s))
  BY <1>3 DEF ExistsBijection
<1> QED
  BY <1>1, <1>4, FS_CountingElements, FS_NatBijection

(* Two lists without repetitions and without a common element, one after   *)
(* the other.                                                              *)
LEMMA ConcatFacts ==
    ASSUME NEW S, NEW s \in Seq(S), NEW t \in Seq(S)
    PROVE  /\ s \o t \in Seq(S)
           /\ \A x : x \in ToSet(s \o t) <=> x \in ToSet(s) \/ x \in ToSet(t)
           /\ (IsInjective(s) /\ IsInjective(t) /\ ToSet(s) \cap ToSet(t) = {})
                => IsInjective(s \o t)
<1>1. PICK r : r = s \o t
  OBVIOUS
<1>0. r \in Seq(S)
  BY <1>1
<1>2. /\ Len(s) \in Nat /\ Len(t) \in Nat /\ Len(r) = Len(s) + Len(t)
      /\ DOMAIN r = 1..(Len(s) + Len(t)) /\ DOMAIN s = 1..Len(s) /\ DOMAIN t = 1..Len(t)
  BY <1>1
<1>3. \A i \in DOMAIN s : i \in DOMAIN r /\ r[i] = s[i]
  BY <1>1, <1>2
<1>4. \A i \in DOMAIN t : i + Len(s) \in DOMAIN r /\ r[i + Len(s)] = t[i]
  BY <1>1, <1>2
<1>5. \A i \in DOMAIN r : i \in DOMAIN s \/ (i - Len(s) \in DOMAIN t /\ r[i] = t[i - Len(s)])
  BY <1>1, <1>2
<1>6. ToSet(r) = ToSet(s) \cup ToSet(t)
  BY <1>3, <1>4, <1>5 DEF ToSet
<1>7. ASSUME IsInjective(s), IsInjective(t), ToSet(s) \cap ToSet(t) = {},
             NEW a \in DOMAIN r, NEW b \in DOMAIN r, r[a] = r[b]
      PROVE  a = b
  <2>1. CASE a \in DOMAIN s /\ b \in DOMAIN s
    BY <2>1, <1>3, <1>7 DEF IsInjective
  <2>2. CASE a \notin DOMAIN s /\ b \notin DOMAIN s
    <3>1. a - Len(s) = b - Len(s)
      BY <2>2, <1>5, <1>7 DEF IsInjective
    <3> QED
      BY <3>1, <1>2
  <2>3. CASE a \in DOMAIN s /\ b \notin DOMAIN s
    <3>1. s[a] = t[b - Len(s)] /\ b - Len(s) \in DOMAIN t
      BY <2>3, <1>3, <1>5, <1>7
    <3> QED
      BY <3>1, <2>3, <1>7 DEF ToSet
  <2>4. CASE a \notin DOMAIN s /\ b \in DOMAIN s
    <3>1. s[b] = t[a - Len(s)] /\ a - Len(s) \in DOMAIN t
      BY <2>4, <1>3, <1>5, <1>7
    <3> QED
      BY <3>1, <2>4, <1>7 DEF ToSet
  <2> QED
    BY <2>1, <2>2, <2>3, <2>4
<1> QED
  BY <1>0, <1>1, <1>6, <1>7 DEF IsInjective

(* A list is a list of whatever holds its elements.                        *)
LEMMA Narrowed ==
    ASSUME NEW S, NEW T, NEW s \in Seq(S), \A x \in ToSet(s) : x \in T
    PROVE  s \in Seq(T)
<1>1. Len(s) \in Nat /\ s = [i \in 1..Len(s) |-> s[i]] /\ DOMAIN s = 1..Len(s)
  OBVIOUS
<1>2. \A i \in 1..Len(s) : s[i] \in T
  BY <1>1 DEF ToSet
<1> QED
  BY <1>1, <1>2

(* Two sets that differ in one element at most.                            *)
LEMMA OneDiffers ==
    ASSUME NEW T, IsFiniteSet(T), NEW A, NEW B, A \subseteq T, B \subseteq T, NEW t \in T,
           \A x \in T : x # t => (x \in A <=> x \in B)
    PROVE  /\ Cardinality(A) \in Nat /\ Cardinality(B) \in Nat
           /\ (t \in A <=> t \in B) => Cardinality(B) = Cardinality(A)
           /\ t \notin A /\ t \in B => Cardinality(B) = Cardinality(A) + 1
           /\ t \in A /\ t \notin B => Cardinality(B) = Cardinality(A) - 1
<1>1. IsFiniteSet(A) /\ IsFiniteSet(B)
  BY FS_Subset
<1>2. Cardinality(A) \in Nat /\ Cardinality(B) \in Nat
  BY <1>1, FS_CardinalityType
<1>3. CASE t \in A <=> t \in B
  <2>1. A = B
    BY <1>3
  <2> QED
    BY <1>2, <1>3, <2>1
<1>4. CASE t \notin A /\ t \in B
  <2>1. B = A \cup {t}
    BY <1>4
  <2> QED
    BY <1>1, <1>2, <1>4, <2>1, FS_AddElement
<1>5. CASE t \in A /\ t \notin B
  <2>1. B = A \ {t}
    BY <1>5
  <2> QED
    BY <1>1, <1>2, <1>5, <2>1, FS_RemoveElement
<1> QED
  BY <1>3, <1>4, <1>5

(***************************************************************************)
(* InOrder                                                                 *)
(***************************************************************************)

StrictOrder(S, R) ==
    /\ \A x \in S : <<x, x>> \notin R
    /\ \A x, y \in S : x # y => <<x, y>> \in R \/ <<y, x>> \in R
    /\ \A x, y, z \in S : <<x, y>> \in R /\ <<y, z>> \in R => <<x, z>> \in R

(* Sorting a finite set lists each of its elements once.                   *)
LEMMA OrderFacts ==
    ASSUME NEW S, IsFiniteSet(S), NEW R, StrictOrder(S, R)
    PROVE  /\ InOrder(S, R) \in Seq(S) /\ Len(InOrder(S, R)) = Cardinality(S)
           /\ IsInjective(InOrder(S, R))
           /\ \A x : x \in ToSet(InOrder(S, R)) <=> x \in S
<1> DEFINE N == Cardinality(S)
           Below(x) == {y \in S : <<y, x>> \in R}
           f == [x \in S |-> Rank(S, R, x) + 1]
           s == InOrder(S, R)
<1>1. N \in Nat /\ IsFiniteSet(1..N) /\ Cardinality(1..N) = N
  BY FS_CardinalityType, FS_Interval
<1>2. ASSUME NEW x \in S
      PROVE  /\ IsFiniteSet(Below(x)) /\ Cardinality(Below(x)) \in Nat
             /\ Cardinality(Below(x)) <= N - 1
  <2>1. Below(x) \subseteq S \ {x}
    BY DEF StrictOrder
  <2>2. IsFiniteSet(S \ {x}) /\ Cardinality(S \ {x}) = N - 1
    BY FS_RemoveElement
  <2> HIDE DEF Below
  <2> QED
    BY <2>1, <2>2, FS_Subset, FS_CardinalityType
<1>3. ASSUME NEW x \in S, NEW y \in S, <<x, y>> \in R
      PROVE  Cardinality(Below(x)) < Cardinality(Below(y))
  <2>1. Below(x) \subseteq Below(y) \ {x} /\ x \in Below(y)
    BY <1>3 DEF StrictOrder
  <2> HIDE DEF Below
  <2>2. /\ IsFiniteSet(Below(y) \ {x})
        /\ Cardinality(Below(y) \ {x}) = Cardinality(Below(y)) - 1
    BY <1>2, <2>1, FS_RemoveElement
  <2>3. Cardinality(Below(x)) <= Cardinality(Below(y)) - 1
    BY <2>1, <2>2, FS_Subset
  <2> QED
    BY <1>2, <2>3
<1>4. \A x \in S : f[x] = Cardinality(Below(x)) + 1
  BY DEF Rank
<1> HIDE DEF Below, f
<1>5. f \in [S -> 1..N]
  <2>1. \A x \in S : f[x] \in 1..N
    BY <1>1, <1>2, <1>4
  <2> QED
    BY <2>1 DEF f
<1>6. ASSUME NEW x \in S, NEW y \in S, f[x] = f[y] PROVE x = y
  <2> SUFFICES ASSUME x # y PROVE FALSE
    OBVIOUS
  <2>1. /\ f[x] = Cardinality(Below(x)) + 1 /\ f[y] = Cardinality(Below(y)) + 1
        /\ Cardinality(Below(x)) \in Nat /\ Cardinality(Below(y)) \in Nat
    BY <1>2, <1>4
  <2>2. <<x, y>> \in R \/ <<y, x>> \in R
    BY DEF StrictOrder
  <2>3. Cardinality(Below(x)) < Cardinality(Below(y)) \/ Cardinality(Below(y)) < Cardinality(Below(x))
    BY <1>3, <2>2
  <2>4. PICK a \in Nat, b \in Nat : a = Cardinality(Below(x)) /\ b = Cardinality(Below(y))
    BY <2>1
  <2>5. a + 1 = b + 1
    BY <1>6, <2>1, <2>4
  <2>6. a < b \/ b < a
    BY <2>3, <2>4
  <2> QED
    BY <2>5, <2>6
<1>7. f \in Injection(S, 1..N)
  BY <1>5, <1>6 DEF Injection, IsInjective
<1>8. f \in Surjection(S, 1..N)
  BY <1>1, <1>7, FS_Injection
<1>9. \A i \in 1..N : \E x \in S : f[x] = i
  BY <1>8 DEF Surjection
<1>10. \A x \in S : Rank(S, R, x) = f[x] - 1
  BY <1>2, <1>4 DEF f, Rank, Below
<1>11. DOMAIN s = 1..N /\ \A i \in 1..N : s[i] = CHOOSE x \in S : Rank(S, R, x) = i - 1
  BY DEF InOrder
<1>12. ASSUME NEW i \in 1..N PROVE s[i] \in S /\ f[s[i]] = i
  <2>1. PICK x \in S : f[x] = i
    BY <1>9
  <2>2. Rank(S, R, x) = i - 1
    BY <2>1, <1>10
  <2>3. s[i] \in S /\ Rank(S, R, s[i]) = i - 1
    BY <1>11, <2>2
  <2>4. f[s[i]] - 1 = i - 1 /\ f[s[i]] \in 1..N
    BY <1>5, <1>10, <2>3
  <2> QED
    BY <1>1, <2>3, <2>4
<1>13. s = [i \in 1..N |-> s[i]]
  BY DEF InOrder
<1> HIDE DEF s, N
<1>14. s \in Seq(S) /\ Len(s) = N
  <2>1. s \in [1..N -> S]
    BY <1>12, <1>13
  <2> QED
    BY <1>1, <2>1
<1>15. IsInjective(s)
  BY <1>11, <1>12 DEF IsInjective
<1>16. ASSUME NEW x PROVE x \in ToSet(s) <=> x \in S
  <2>1. ASSUME x \in ToSet(s) PROVE x \in S
    BY <1>11, <1>12, <2>1 DEF ToSet
  <2>2. ASSUME x \in S PROVE x \in ToSet(s)
    <3>1. f[x] \in 1..N
      BY <1>5, <2>2
    <3>2. s[f[x]] \in S /\ f[s[f[x]]] = f[x]
      BY <1>12, <3>1
    <3>3. s[f[x]] = x
      BY <1>6, <2>2, <3>2
    <3> QED
      BY <1>11, <3>1, <3>3 DEF ToSet
  <2> QED
    BY <2>1, <2>2
<1> QED
  BY <1>14, <1>15, <1>16 DEF s, N

(***************************************************************************)
(* FlattenSeq                                                              *)
(***************************************************************************)

(* f joins the first lists of ss, one after the other.                     *)
Joins(f, ss) ==
    /\ f[0] = <<>> /\ f[Len(ss)] = FlattenSeq(ss)
    /\ \A n \in 1..Len(ss) : f[n] = f[n - 1] \o ss[n]

LEMMA FlattenSteps ==
    ASSUME NEW S, NEW ss \in Seq(Seq(S))
    PROVE  \E f \in [0..Len(ss) -> Seq(S)] : Joins(f, ss)
<1> DEFINE N == Len(ss)
           A == Seq(S)
           G == [n \in Nat |-> [x \in A |-> IF n \in 1..N THEN x \o ss[n] ELSE x]]
           Body(f) == [i \in 1..N |-> IF i = 1 THEN ss[i] ELSE f[i - 1] \o ss[i]]
           up == CHOOSE f : f = Body(f)
<1>1. N \in Nat /\ \A n \in 1..N : ss[n] \in A
  OBVIOUS
<1>2. <<>> \in A /\ G \in [Nat -> [A -> A]]
  BY <1>1
<1>3. PICK g \in [0..N -> A] : Iteration(g, <<>>, N, G)
  <2> HIDE DEF A, G, N
  <2>1. N \in Nat
    BY <1>1
  <2> QED
    BY <1>2, <2>1, Iterates
<1>4. g[0] = <<>> /\ \A n \in 1..N : g[n] = g[n - 1] \o ss[n]
  <2>1. g[0] = <<>> /\ \A n \in 1..N : g[n] = G[n][g[n - 1]]
    BY <1>3 DEF Iteration
  <2>2. ASSUME NEW n \in 1..N PROVE g[n] = g[n - 1] \o ss[n]
    <3>1. n \in Nat /\ n - 1 \in 0..N
      BY <1>1
    <3>2. g[n - 1] \in A
      BY <3>1, <1>3
    <3> QED
      BY <2>1, <3>1, <3>2
  <2> QED
    BY <2>1, <2>2
<1>5. CASE N = 0
  <2>1. FlattenSeq(ss) = <<>>
    <3>1. ss = <<>>
      BY <1>5
    <3> QED
      BY <1>5, <3>1 DEF FlattenSeq
  <2> QED
    BY <1>3, <1>4, <1>5, <2>1 DEF Joins
<1>6. CASE N # 0
  <2>0. 1 \in 1..N /\ N \in 1..N
    BY <1>1, <1>6
  <2>1. PICK h : h = [i \in 1..N |-> g[i]]
    OBVIOUS
  <2>2. h = Body(h)
    <3>1. ASSUME NEW i \in 1..N PROVE h[i] = IF i = 1 THEN ss[i] ELSE h[i - 1] \o ss[i]
      <4>1. CASE i = 1
        <5>3. ss[1] \in Seq(S)
          BY <1>1, <2>0
        <5>4. g[1] = g[1 - 1] \o ss[1]
          BY <1>4, <2>0
        <5>2. ss[1] \in Seq(S) /\ g[1] = g[0] \o ss[1]
          <6>1. 1 - 1 = 0
            OBVIOUS
          <6> QED
            BY <5>3, <5>4, <6>1
        <5>1. g[1] = <<>> \o ss[1] /\ ss[1] \in Seq(S)
          BY <1>4, <5>2
        <5> QED
          BY <2>1, <4>1, <5>1
      <4>2. CASE i # 1
        <5>1. i - 1 \in 1..N
          BY <1>1, <4>2
        <5> QED
          BY <1>4, <2>1, <4>2, <5>1
      <4> QED
        BY <4>1, <4>2
    <3>2. h = [i \in 1..N |-> h[i]]
      BY <2>1
    <3> HIDE DEF N
    <3> QED
      BY <3>1, <3>2
  <2>3. up = Body(up)
    <3> HIDE DEF Body
    <3> QED
      BY <2>2
  <2>4. FlattenSeq(ss) = up[N]
    BY <1>6 DEF FlattenSeq
  <2> HIDE DEF up, N
  <2>5. up = [i \in 1..N |-> IF i = 1 THEN ss[i] ELSE up[i - 1] \o ss[i]]
    BY <2>3
  <2> HIDE DEF Body
  <2>6. ASSUME NEW i \in 1..N PROVE up[i] = IF i = 1 THEN ss[i] ELSE up[i - 1] \o ss[i]
    BY <2>5
  <2> DEFINE P == {n \in 0..N : n = 0 \/ up[n] = g[n]}
  <2>7. 0 \in P
    BY <1>1
  <2>8. ASSUME NEW n \in 1..N, n - 1 \in P PROVE n \in P
    <3>1. CASE n = 1
      <4>4. ss[1] \in Seq(S)
        BY <1>1, <2>0
      <4>5. g[1] = g[1 - 1] \o ss[1]
        BY <1>4, <2>0
      <4>3. ss[1] \in Seq(S) /\ g[1] = g[0] \o ss[1]
        <5>1. 1 - 1 = 0
          OBVIOUS
        <5> QED
          BY <4>4, <4>5, <5>1
      <4>1. g[1] = <<>> \o ss[1] /\ ss[1] \in Seq(S)
        BY <1>4, <4>3
      <4>2. up[n] = g[n]
        BY <2>6, <3>1, <4>1
      <4> QED
        BY <1>1, <4>2
    <3>2. CASE n # 1
      <4>1. up[n - 1] = g[n - 1]
        BY <1>1, <2>8, <3>2
      <4>2. up[n] = g[n]
        BY <1>4, <2>6, <3>2, <4>1
      <4> QED
        BY <1>1, <4>2
    <3> QED
      BY <3>1, <3>2
  <2>9. 0..N \subseteq P
    <3> HIDE DEF P, N
    <3> QED
      BY <1>1, <2>7, <2>8, Climb
  <2>10. up[N] = g[N]
    BY <1>6, <2>0, <2>9
  <2> QED
    BY <1>3, <1>4, <2>4, <2>10 DEF Joins, N
<1> QED
  BY <1>5, <1>6

(* What the joined list holds.                                             *)
LEMMA FlattenFacts ==
    ASSUME NEW S, NEW ss \in Seq(Seq(S))
    PROVE  /\ FlattenSeq(ss) \in Seq(S)
           /\ \A x : x \in ToSet(FlattenSeq(ss)) <=> \E i \in DOMAIN ss : x \in ToSet(ss[i])
<1> DEFINE N == Len(ss)
<1>1. N \in Nat /\ DOMAIN ss = 1..N /\ \A n \in 1..N : ss[n] \in Seq(S)
  OBVIOUS
<1>2. PICK f \in [0..N -> Seq(S)] : Joins(f, ss)
  BY FlattenSteps
<1>3. /\ f[0] = <<>> /\ f[N] = FlattenSeq(ss)
      /\ \A n \in 1..N : f[n] = f[n - 1] \o ss[n]
  BY <1>2 DEF Joins
<1>4. FlattenSeq(ss) \in Seq(S)
  BY <1>1, <1>2, <1>3
<1> HIDE DEF N
<1>5. ASSUME NEW x PROVE x \in ToSet(FlattenSeq(ss)) <=> \E i \in 1..N : x \in ToSet(ss[i])
  <2> DEFINE P == {n \in 0..N : x \in ToSet(f[n]) <=> \E i \in 1..n : x \in ToSet(ss[i])}
  <2>1. 0 \in P
    BY <1>1, <1>3 DEF ToSet
  <2>2. ASSUME NEW n \in 1..N, n - 1 \in P PROVE n \in P
    <3>1. PICK a \in Seq(S) : a = f[n - 1]
      <4>1. n - 1 \in 0..N
        BY <1>1
      <4> QED
        BY <4>1, <1>2
    <3>2. PICK b \in Seq(S) : b = ss[n]
      BY <1>1
    <3>3. f[n] = a \o b
      BY <1>3, <3>1, <3>2
    <3>4. x \in ToSet(a \o b) <=> x \in ToSet(a) \/ x \in ToSet(b)
      BY ConcatFacts
    <3>5. x \in ToSet(a) <=> \E i \in 1..(n - 1) : x \in ToSet(ss[i])
      BY <2>2, <3>1
    <3>6. \A i : i \in 1..n <=> i \in 1..(n - 1) \/ i = n
      BY <1>1
    <3>7. x \in ToSet(f[n]) <=> \E i \in 1..n : x \in ToSet(ss[i])
      BY <3>2, <3>3, <3>4, <3>5, <3>6
    <3> QED
      BY <1>1, <3>7
  <2>3. 0..N \subseteq P
    <3> HIDE DEF P
    <3> QED
      BY <1>1, <2>1, <2>2, Climb
  <2>4. N \in P
    BY <1>1, <2>3
  <2> QED
    BY <1>3, <2>4
<1> QED
  BY <1>1, <1>4, <1>5

(* One more list at the end.                                               *)
LEMMA FlattenAppend ==
    ASSUME NEW S, NEW ss \in Seq(Seq(S)), NEW s \in Seq(S)
    PROVE  FlattenSeq(Append(ss, s)) = FlattenSeq(ss) \o s
<1> DEFINE N == Len(ss)
<1>0. PICK A : A = Seq(S)
  OBVIOUS
<1>1. PICK tt : tt = Append(ss, s) /\ tt \in Seq(Seq(S))
  <2>1. Append(ss, s) \in Seq(A)
    BY <1>0
  <2> QED
    BY <1>0, <2>1
<1>2. /\ N \in Nat /\ Len(tt) = N + 1 /\ tt[N + 1] = s /\ \A n \in 1..N : tt[n] = ss[n]
  BY <1>1
<1>3. PICK f \in [0..N -> Seq(S)] : Joins(f, ss)
  BY FlattenSteps
<1>4. PICK g \in [0..Len(tt) -> Seq(S)] : Joins(g, tt)
  <2>1. tt \in Seq(Seq(S))
    BY <1>1
  <2> QED
    BY <2>1, FlattenSteps
<1>5. /\ f[0] = <<>> /\ f[N] = FlattenSeq(ss)
      /\ \A n \in 1..N : f[n] = f[n - 1] \o ss[n]
  BY <1>3 DEF Joins
<1>6. /\ g[0] = <<>> /\ g[N + 1] = FlattenSeq(tt)
      /\ \A n \in 1..(N + 1) : g[n] = g[n - 1] \o tt[n]
  BY <1>2, <1>4 DEF Joins
<1> HIDE DEF N
<1> DEFINE P == {n \in 0..N : f[n] = g[n]}
<1>7. 0 \in P
  BY <1>2, <1>5, <1>6
<1>8. ASSUME NEW n \in 1..N, n - 1 \in P PROVE n \in P
  <2>1. n \in 1..(N + 1) /\ n \in 0..N
    BY <1>2
  <2>2. f[n - 1] = g[n - 1] /\ tt[n] = ss[n]
    BY <1>2, <1>8
  <2>3. f[n] = g[n]
    BY <1>5, <1>6, <2>1, <2>2
  <2> QED
    BY <2>1, <2>3
<1>9. 0..N \subseteq P
  <2> HIDE DEF P
  <2> QED
    BY <1>2, <1>7, <1>8, Climb
<1>10. f[N] = g[N]
  BY <1>2, <1>9
<1>11. g[N + 1] = g[N] \o s
  <2>0. N \in Nat
    BY <1>2
  <2>1. N + 1 \in 1..(N + 1) /\ (N + 1) - 1 = N
    BY <2>0
  <2> QED
    BY <1>2, <1>6, <2>1
<1> QED
  BY <1>1, <1>5, <1>6, <1>10, <1>11
=============================================================================

----------------------------- MODULE Recursion -----------------------------
(***************************************************************************)
(* What the folds and the recursive functions of the models compute.  The  *)
(* step of the recursion and an invariant of it are constants, so that an  *)
(* instance of this module states its theorems for one recursion.  Both    *)
(* have a first argument for what the recursion depends on.                *)
(***************************************************************************)
EXTENDS Integers, Sequences, Folds, WellFoundedInduction

CONSTANTS
  Op(_, _, _),   \* the step: what it depends on, the value so far, the next element
  Inv(_, _, _)   \* the invariant: the same, how far it is, the value so far

Max(S) == CHOOSE x \in S : \A y \in S : x >= y

(* FoldLeft, written out: SequencesExt has no place in each instance. *)
Fold(p, base, s) == MapThenFoldSet(LAMBDA x, a : Op(p, a, x), base, LAMBDA i : s[i],
                                   LAMBDA S : Max(S), DOMAIN s)

Chain(p, base, lo, hi) == LET f[k \in lo .. hi] == IF k = lo THEN base ELSE Op(p, f[k - 1], k)
                          IN  f

-----------------------------------------------------------------------------
(* Induction over the natural numbers without an operator as a parameter:  *)
(* every set of numbers has a least one, and a set with 0 that has n + 1   *)
(* with n has them all.                                                    *)

(* The order on the natural numbers is well-founded. *)
LEMMA LessWF == IsWellFoundedOn({ss \in Nat \X Nat : ss[1] < ss[2]}, Nat)
  BY NatLessThanWellFounded DEF OpToRel

(* Every set of natural numbers that is not empty has a least element. *)
LEMMA Least == ASSUME NEW T \in SUBSET Nat, T # {}
               PROVE \E x \in T : \A y \in T : x <= y
<1> DEFINE R == {ss \in Nat \X Nat : ss[1] < ss[2]}
<1>1. \E x \in T : \A y \in T : ~(<<y, x>> \in R)
  BY LessWF, WFMin
<1>2. ASSUME NEW x \in T, NEW y \in T, ~(<<y, x>> \in R) PROVE x <= y
  <2>1. <<y, x>> \in Nat \X Nat OBVIOUS
  <2>2. ~(y < x) BY <1>2, <2>1
  <2> QED BY <2>2
<1> HIDE DEF R
<1> QED BY <1>1, <1>2

(* What holds of 0, and of n + 1 when it holds of n, holds of all. *)
LEMMA NatSetInduction == ASSUME NEW S, 0 \in S, \A n \in Nat : n \in S => n + 1 \in S
             PROVE Nat \subseteq S
<1> SUFFICES ASSUME Nat \ S # {} PROVE FALSE OBVIOUS
<1>1. PICK x \in Nat \ S : \A y \in Nat \ S : x <= y BY Least
<1>2. x - 1 \in Nat BY x # 0
<1>3. x - 1 \in S BY <1>1, <1>2
<1> QED BY <1>2, <1>3, <1>1

-----------------------------------------------------------------------------
(* A chain of values, each from the one before, is what its equation says. *)
LEMMA ChainSteps ==
  ASSUME NEW p, NEW base, NEW lo \in Int, NEW hi \in Int
  PROVE  Chain(p, base, lo, hi)
           = [k \in lo .. hi |-> IF k = lo THEN base ELSE Op(p, Chain(p, base, lo, hi)[k - 1], k)]
<1> DEFINE IsChain(n, f) == f = [k \in lo .. n |-> IF k = lo THEN base ELSE Op(p, f[k - 1], k)]
           T == {n \in Nat : \E f : IsChain(lo + n, f)}
<1>1. 0 \in T
  <2>1. IsChain(lo, [k \in lo .. lo |-> base])
    OBVIOUS
  <2>2. lo + 0 = lo
    OBVIOUS
  <2> HIDE DEF IsChain
  <2> QED
    BY <2>1, <2>2
<1>2. ASSUME NEW n \in Nat, n \in T PROVE n + 1 \in T
  <2>1. PICK f : IsChain(lo + n, f)
    BY <1>2
  <2> DEFINE g == [k \in lo .. lo + (n + 1) |-> IF k = lo + (n + 1) THEN Op(p, f[lo + n], k) ELSE f[k]]
  <2>2. ASSUME NEW k \in lo .. lo + (n + 1)
        PROVE  g[k] = IF k = lo THEN base ELSE Op(p, g[k - 1], k)
    BY <2>1
  <2> HIDE DEF g
  <2>3. g = [k \in lo .. lo + (n + 1) |-> g[k]]
    BY DEF g
  <2>4. IsChain(lo + (n + 1), g)
    BY <2>2, <2>3
  <2> HIDE DEF IsChain
  <2> QED
    BY <2>4
<1> HIDE DEF T
<1>3. Nat \subseteq T
  BY <1>1, <1>2, NatSetInduction
<1>4. \E f : IsChain(hi, f)
  <2>1. CASE hi >= lo
    <3>1. hi - lo \in T
      BY <1>3, <2>1
    <3>2. lo + (hi - lo) = hi
      OBVIOUS
    <3> QED
      BY <3>1, <3>2 DEF T
  <2>2. CASE hi < lo
    <3>1. lo .. hi = {}
      BY <2>2
    <3>2. IsChain(hi, [k \in lo .. hi |-> base])
      BY <3>1
    <3> QED
      BY <3>2
  <2> QED
    BY <2>1, <2>2
<1> QED
  BY <1>4 DEF Chain

(* What every step of a chain keeps holds of all its values. *)
LEMMA ChainKeeps ==
  ASSUME NEW p, NEW base, NEW lo \in Int, NEW hi \in Int, Inv(p, lo, base),
         \A k \in lo + 1 .. hi : \A a : Inv(p, k - 1, a) => Inv(p, k, Op(p, a, k))
  PROVE  \A k \in lo .. hi : Inv(p, k, Chain(p, base, lo, hi)[k])
<1> DEFINE f == Chain(p, base, lo, hi)
           T == {n \in Nat : lo + n <= hi => Inv(p, lo + n, f[lo + n])}
<1>1. f = [k \in lo .. hi |-> IF k = lo THEN base ELSE Op(p, f[k - 1], k)]
  BY ChainSteps
<1> HIDE DEF f
<1>2. 0 \in T
  <2>1. lo + 0 = lo
    OBVIOUS
  <2> QED
    BY <1>1, <2>1
<1>3. ASSUME NEW n \in Nat, n \in T PROVE n + 1 \in T
  <2> SUFFICES ASSUME lo + (n + 1) <= hi PROVE Inv(p, lo + (n + 1), f[lo + (n + 1)])
    OBVIOUS
  <2>1. Inv(p, lo + n, f[lo + n])
    BY <1>3
  <2> DEFINE k == lo + (n + 1)
  <2>2. k \in lo + 1 .. hi /\ k - 1 = lo + n /\ k \in lo .. hi /\ k # lo
    OBVIOUS
  <2> HIDE DEF k, T
  <2>3. f[k] = Op(p, f[k - 1], k)
    BY <1>1, <2>2
  <2>4. Inv(p, k, f[k])
    BY <2>1, <2>2, <2>3
  <2> QED
    BY <2>4 DEF k
<1> HIDE DEF T
<1>4. Nat \subseteq T
  BY <1>2, <1>3, NatSetInduction
<1>5. ASSUME NEW k \in lo .. hi PROVE Inv(p, k, f[k])
  <2>1. k - lo \in T /\ lo + (k - lo) = k
    BY <1>4
  <2> QED
    BY <2>1 DEF T
<1> QED
  BY <1>5 DEF f

-----------------------------------------------------------------------------
(* The largest number of a set that has one. *)
LEMMA MaxOf == ASSUME NEW n \in Nat, NEW t \in SUBSET (0 .. n), n \in t PROVE Max(t) = n
<1>1. \A x \in t : n >= x
  OBVIOUS
<1>2. \A y \in t : (\A x \in t : y >= x) => y = n
  <2>1. \A y \in t : y >= n => y = n
    OBVIOUS
  <2> QED
    BY <2>1
<1> QED
  BY <1>1, <1>2 DEF Max

(* Folding a sequence goes through one value for each of its elements.     *)
(* (FoldLeft is defined by recursion over the sets of positions.)          *)
LEMMA FoldSteps ==
  ASSUME NEW p, NEW base, NEW S, NEW s \in Seq(S)
  PROVE  \E F : /\ F = [k \in 0 .. Len(s) |-> IF k = 0 THEN base ELSE Op(p, F[k - 1], s[k])]
                /\ Fold(p, base, s) = F[Len(s)]
<1> DEFINE Iter(n, it) == it = [t \in SUBSET (1 .. n) |->
                                  IF t = {} THEN base ELSE Op(p, it[t \ {Max(t)}], s[Max(t)])]
           T == {n \in Nat : \E it : Iter(n, it)}
<1>1. 0 \in T
  <2>1. SUBSET (1 .. 0) = {{}}
    OBVIOUS
  <2>2. Iter(0, [t \in SUBSET (1 .. 0) |-> base])
    BY <2>1
  <2> QED
    BY <2>2
<1>2. ASSUME NEW n \in T PROVE n + 1 \in T
  <2>1. PICK f : Iter(n, f)
    OBVIOUS
  <2> DEFINE g == [t \in SUBSET (1 .. n + 1) |->
                     IF n + 1 \in t THEN Op(p, f[t \ {n + 1}], s[n + 1]) ELSE f[t]]
  <2>2. ASSUME NEW t \in SUBSET (1 .. n + 1)
        PROVE  g[t] = IF t = {} THEN base ELSE Op(p, g[t \ {Max(t)}], s[Max(t)])
    <3>1. CASE n + 1 \in t
      <4>1. Max(t) = n + 1
        <5>1. n + 1 \in Nat /\ t \in SUBSET (0 .. n + 1)
          OBVIOUS
        <5> QED
          BY <5>1, <3>1, MaxOf
      <4>2. t \ {n + 1} \in SUBSET (1 .. n) /\ t \ {n + 1} \in SUBSET (1 .. n + 1)
        OBVIOUS
      <4>3. g[t \ {n + 1}] = f[t \ {n + 1}]
        BY <4>2
      <4>4. g[t] = Op(p, f[t \ {n + 1}], s[n + 1])
        BY <3>1
      <4> QED
        BY <3>1, <4>1, <4>3, <4>4
    <3>2. CASE n + 1 \notin t
      <4>1. t \in SUBSET (1 .. n)
        BY <3>2
      <4>2. g[t] = f[t]
        BY <3>2
      <4>3. t # {} => g[t \ {Max(t)}] = f[t \ {Max(t)}]
        BY <3>2
      <4>4. f[t] = IF t = {} THEN base ELSE Op(p, f[t \ {Max(t)}], s[Max(t)])
        BY <2>1, <4>1
      <4> QED
        BY <4>2, <4>3, <4>4
    <3> QED
      BY <3>1, <3>2
  <2> HIDE DEF g
  <2>3. g = [t \in SUBSET (1 .. n + 1) |-> g[t]]
    BY DEF g
  <2>4. Iter(n + 1, g)
    BY <2>2, <2>3
  <2> HIDE DEF Iter
  <2>5. n + 1 \in Nat
    OBVIOUS
  <2> QED
    BY <2>4, <2>5
<1>3. Len(s) \in T
  <2> HIDE DEF T
  <2>1. \A n \in Nat : n \in T => n + 1 \in T
    BY <1>2
  <2>2. Nat \subseteq T
    BY <1>1, <2>1, NatSetInduction
  <2> QED
    BY <2>2
<1> DEFINE C == CHOOSE it : Iter(Len(s), it)
           F == [k \in 0 .. Len(s) |-> C[1 .. k]]
<1>4. Iter(Len(s), C)
  BY <1>3
<1>5. Fold(p, base, s) = C[1 .. Len(s)]
  <2>1. DOMAIN s = 1 .. Len(s)
    OBVIOUS
  <2> QED
    BY <2>1 DEF Fold, MapThenFoldSet
<1> HIDE DEF T, C
<1>6. ASSUME NEW k \in 0 .. Len(s)
      PROVE  F[k] = IF k = 0 THEN base ELSE Op(p, F[k - 1], s[k])
  <2>1. CASE k = 0
    <3>1. 1 .. 0 = {}
      OBVIOUS
    <3>2. C[{}] = base
      BY <1>4, <3>1
    <3> QED
      BY <2>1, <3>1, <3>2
  <2>2. CASE k # 0
    <3>1. k - 1 \in Nat /\ k \in Nat /\ Len(s) \in Nat /\ k <= Len(s)
      BY <2>2
    <3>2. 1 .. k \in SUBSET (1 .. Len(s))
      <4>1. \A i \in 1 .. k : i \in 1 .. Len(s)
        BY <3>1
      <4> QED
        BY <4>1
    <3>3. Max(1 .. k) = k /\ 1 .. k # {}
      <4>1. 1 .. k \in SUBSET (0 .. k) /\ k \in 1 .. k
        BY <2>2
      <4> QED
        BY <3>1, <4>1, MaxOf
    <3>4. (1 .. k) \ {k} = 1 .. k - 1
      BY <3>1
    <3>5. C[1 .. k] = Op(p, C[1 .. k - 1], s[k])
      BY <1>4, <3>2, <3>3, <3>4
    <3> QED
      BY <2>2, <3>1, <3>5
  <2> QED
    BY <2>1, <2>2
<1>7. Fold(p, base, s) = F[Len(s)]
  BY <1>5
<1> HIDE DEF F
<1>8. F = [k \in 0 .. Len(s) |-> F[k]]
  BY DEF F
<1>9. F = [k \in 0 .. Len(s) |-> IF k = 0 THEN base ELSE Op(p, F[k - 1], s[k])]
  BY <1>6, <1>8
<1> QED
  BY <1>7, <1>9

(* Folding nothing. *)
LEMMA FoldNothing == ASSUME NEW p, NEW base PROVE Fold(p, base, << >>) = base
<1> DEFINE s == << >>
           S == {}
<1>1. s \in Seq(S) /\ Len(s) = 0
  OBVIOUS
<1> HIDE DEF s, S
<1>2. PICK F : /\ F = [k \in 0 .. Len(s) |-> IF k = 0 THEN base ELSE Op(p, F[k - 1], s[k])]
               /\ Fold(p, base, s) = F[Len(s)]
  <2>1. s \in Seq(S)
    BY <1>1
  <2> QED
    BY ONLY <2>1, FoldSteps
<1>3. F[0] = base
  BY <1>1, <1>2
<1> QED
  BY <1>1, <1>2, <1>3 DEF s

(* What every step of a fold keeps holds of its result. *)
LEMMA FoldKeeps ==
  ASSUME NEW p, NEW base, NEW S, NEW s \in Seq(S), Inv(p, 0, base),
         \A k \in 1 .. Len(s) : \A a : Inv(p, k - 1, a) => Inv(p, k, Op(p, a, s[k]))
  PROVE  Inv(p, Len(s), Fold(p, base, s))
<1>1. PICK F : /\ F = [k \in 0 .. Len(s) |-> IF k = 0 THEN base ELSE Op(p, F[k - 1], s[k])]
               /\ Fold(p, base, s) = F[Len(s)]
  BY ONLY FoldSteps, s \in Seq(S)
<1> DEFINE T == {n \in Nat : n <= Len(s) => Inv(p, n, F[n])}
<1>2. 0 \in T
  BY <1>1
<1>3. ASSUME NEW n \in Nat, n \in T PROVE n + 1 \in T
  <2> SUFFICES ASSUME n + 1 <= Len(s) PROVE Inv(p, n + 1, F[n + 1])
    OBVIOUS
  <2> DEFINE k == n + 1
  <2>1. k \in 1 .. Len(s) /\ k - 1 = n /\ k \in 0 .. Len(s) /\ k # 0 /\ n <= Len(s)
    OBVIOUS
  <2>2. Inv(p, n, F[n])
    BY <1>3, <2>1
  <2> HIDE DEF k
  <2>3. F[k] = Op(p, F[k - 1], s[k])
    BY <1>1, <2>1
  <2>4. Inv(p, k, F[k])
    BY <2>1, <2>2, <2>3
  <2> QED
    BY <2>4 DEF k
<1> HIDE DEF T
<1>4. Nat \subseteq T
  BY <1>2, <1>3, NatSetInduction
<1>5. Len(s) \in T
  BY <1>4
<1> QED
  BY <1>1, <1>5 DEF T

(* The values that folding a sequence goes through. *)
Values(p, base, s, F) ==
  /\ F = [k \in 0 .. Len(s) |-> IF k = 0 THEN base ELSE Op(p, F[k - 1], s[k])]
  /\ Fold(p, base, s) = F[Len(s)]

(* There are such values. *)
LEMMA FoldHasValues ==
  ASSUME NEW p, NEW base, NEW S, NEW s \in Seq(S)
  PROVE  \E F : Values(p, base, s, F)
<1>1. PICK F : /\ F = [k \in 0 .. Len(s) |-> IF k = 0 THEN base ELSE Op(p, F[k - 1], s[k])]
               /\ Fold(p, base, s) = F[Len(s)]
  BY ONLY FoldSteps, s \in Seq(S)
<1>2. Values(p, base, s, F)
  BY <1>1 DEF Values
<1> QED
  BY <1>2

(* Folding one element more. *)
LEMMA FoldAppend ==
  ASSUME NEW p, NEW base, NEW S, NEW s \in Seq(S), NEW x \in S
  PROVE  Fold(p, base, Append(s, x)) = Op(p, Fold(p, base, s), x)
<1> DEFINE t == Append(s, x)
           n == Len(s)
<1>1. t \in Seq(S) /\ n \in Nat /\ Len(t) = n + 1 /\ t[n + 1] = x /\ \A k \in 1 .. n : t[k] = s[k]
  OBVIOUS
<1> HIDE DEF t
<1>2. PICK F : Values(p, base, s, F)
  BY FoldHasValues
<1>3. PICK G : Values(p, base, t, G)
  BY <1>1, FoldHasValues
<1> USE DEF Values
<1> DEFINE T == {k \in Nat : k <= n => F[k] = G[k]}
<1>4. 0 \in T
  BY <1>1, <1>2, <1>3
<1>5. ASSUME NEW k \in Nat, k \in T PROVE k + 1 \in T
  <2> SUFFICES ASSUME k + 1 <= n PROVE F[k + 1] = G[k + 1]
    OBVIOUS
  <2> DEFINE m == k + 1
  <2>1. /\ m \in 1 .. n /\ m - 1 = k /\ m \in 0 .. Len(s) /\ m \in 0 .. Len(t) /\ m # 0
        /\ k <= n
    BY <1>1
  <2>2. F[k] = G[k]
    BY <1>5, <2>1
  <2> HIDE DEF m, n
  <2>3. F[m] = Op(p, F[m - 1], s[m]) /\ G[m] = Op(p, G[m - 1], t[m])
    BY <1>2, <1>3, <2>1
  <2>4. F[m] = G[m]
    BY <1>1, <2>1, <2>2, <2>3
  <2> QED
    BY <2>4 DEF m
<1> HIDE DEF T
<1>6. n \in T
  BY <1>1, <1>4, <1>5, NatSetInduction
<1>7. F[n] = G[n]
  BY <1>1, <1>6 DEF T
<1>8. G[n + 1] = Op(p, G[n], t[n + 1])
  <2> DEFINE m == n + 1
  <2>1. m \in 0 .. Len(t) /\ m # 0 /\ m - 1 = n
    BY <1>1
  <2> HIDE DEF m, n
  <2>2. G[m] = Op(p, G[m - 1], t[m])
    BY <1>3, <2>1
  <2> QED
    BY <2>1, <2>2 DEF m
<1> QED
  BY <1>1, <1>2, <1>3, <1>7, <1>8 DEF t

(* Two folds whose steps agree on the elements have the same result. *)
LEMMA FoldAgree ==
  ASSUME NEW p, NEW p2, NEW base, NEW S, NEW s \in Seq(S),
         \A a : \A k \in 1 .. Len(s) : Op(p, a, s[k]) = Op(p2, a, s[k])
  PROVE  Fold(p, base, s) = Fold(p2, base, s)
<1>1. PICK F : Values(p, base, s, F)
  BY FoldHasValues
<1>2. PICK G : Values(p2, base, s, G)
  BY FoldHasValues
<1> USE DEF Values
<1> DEFINE T == {k \in Nat : k <= Len(s) => F[k] = G[k]}
<1>3. 0 \in T
  BY <1>1, <1>2
<1>4. ASSUME NEW k \in Nat, k \in T PROVE k + 1 \in T
  <2> SUFFICES ASSUME k + 1 <= Len(s) PROVE F[k + 1] = G[k + 1]
    OBVIOUS
  <2> DEFINE m == k + 1
  <2>1. m \in 1 .. Len(s) /\ m - 1 = k /\ m \in 0 .. Len(s) /\ m # 0 /\ k <= Len(s)
    OBVIOUS
  <2>2. F[k] = G[k]
    BY <1>4, <2>1
  <2> HIDE DEF m, T
  <2>3. F[m] = Op(p, F[m - 1], s[m]) /\ G[m] = Op(p2, G[m - 1], s[m])
    BY <1>1, <1>2, <2>1
  <2>4. F[m] = G[m]
    BY <2>1, <2>2, <2>3
  <2> QED
    BY <2>4 DEF m
<1> HIDE DEF T
<1>5. Nat \subseteq T
  BY <1>3, <1>4, NatSetInduction
<1>6. Len(s) \in T
  BY <1>5
<1> QED
  BY <1>1, <1>2, <1>6 DEF T

(* The values that folding a sequence goes through, one by one. *)
LEMMA FoldRuns ==
  ASSUME NEW p, NEW base, NEW S, NEW s \in Seq(S)
  PROVE  \E F : /\ F[0] = base
                /\ \A k \in 1 .. Len(s) : F[k] = Op(p, F[k - 1], s[k])
                /\ Fold(p, base, s) = F[Len(s)]
<1>1. PICK F : Values(p, base, s, F)
  BY ONLY FoldHasValues, s \in Seq(S)
<1>2. \A k \in 1 .. Len(s) : k \in 0 .. Len(s) /\ k # 0
  OBVIOUS
<1>3. 0 \in 0 .. Len(s)
  OBVIOUS
<1> QED
  BY <1>1, <1>2, <1>3 DEF Values
=============================================================================

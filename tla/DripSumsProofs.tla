--------------------------- MODULE DripSumsProofs ---------------------------
(***************************************************************************)
(* Facts about the sums of module DripSums.  They hold by induction on the *)
(* number of summands; each proof looks at the least number for which the  *)
(* fact fails, which exists because < is well-founded on the naturals.     *)
(***************************************************************************)
EXTENDS DripSums, WellFoundedInduction, TLAPS

\* A non-empty set of naturals has a least element: what every induction below
\* rests on.
LEMMA LeastNatural ==
    ASSUME NEW T \in SUBSET Nat, T # {}
    PROVE  \E m \in T : \A k \in T : m <= k
<1> DEFINE R == OpToRel(<, Nat)
<1>1. IsWellFoundedOn(R, Nat)
    BY NatLessThanWellFounded
<1>2. \A x, y \in Nat : x < y => <<x, y>> \in R
    BY DEF OpToRel
<1> HIDE DEF R
<1>3. PICK m \in T : \A k \in T : ~ (<<k, m>> \in R)
    BY <1>1, WFMin
<1>4. ASSUME NEW k \in T
      PROVE  m <= k
    <2>1. m \in Nat /\ k \in Nat
        OBVIOUS
    <2>2. ~ (k < m)
        BY <1>2, <1>3, <2>1
    <2> QED BY <2>1, <2>2
<1> QED BY <1>4

\* The recursive definition of the partial sums is one: the function it
\* describes exists.
LEMMA PartialSumsExist ==
    ASSUME NEW f, NEW n \in Nat, \A k \in 1 .. n : f[k] \in Int
    PROVE  \E s \in [0 .. n -> Int] :
              s[0] = 0 /\ \A k \in 1 .. n : s[k] = s[k - 1] + f[k]
<1> DEFINE Good(m) == \E s \in [0 .. m -> Int] :
                         s[0] = 0 /\ \A k \in 1 .. m : s[k] = s[k - 1] + f[k]
           Bad == {m \in 0 .. n : ~ Good(m)}
<1>1. Good(0)
    <2> DEFINE zero == [i \in 0 .. 0 |-> 0]
    <2>1. zero \in [0 .. 0 -> Int] /\ zero[0] = 0
        OBVIOUS
    <2>2. \A k \in 1 .. 0 : zero[k] = zero[k - 1] + f[k]
        OBVIOUS
    <2> HIDE DEF zero
    <2> QED BY <2>1, <2>2
<1>2. ASSUME NEW m \in 1 .. n, Good(m - 1)
      PROVE  Good(m)
    <2>1. PICK s \in [0 .. m - 1 -> Int] :
             s[0] = 0 /\ \A k \in 1 .. m - 1 : s[k] = s[k - 1] + f[k]
        BY <1>2
    <2> DEFINE t == [k \in 0 .. m |-> IF k = m THEN s[m - 1] + f[m] ELSE s[k]]
    <2>2. t \in [0 .. m -> Int]
        BY <2>1
    <2>3. t[0] = 0 /\ \A k \in 1 .. m : t[k] = t[k - 1] + f[k]
        BY <2>1
    <2> HIDE DEF t
    <2> QED BY <2>2, <2>3
<1>3. Bad = {}
    <2> HIDE DEF Good
    <2> SUFFICES ASSUME Bad # {}
                 PROVE  FALSE
        OBVIOUS
    <2>1. PICK m \in Bad : \A k \in Bad : m <= k
        <3>1. Bad \in SUBSET Nat
            OBVIOUS
        <3> HIDE DEF Bad
        <3> QED BY <3>1, LeastNatural
    <2>2. m # 0
        BY <2>1, <1>1
    <2>3. Good(m - 1)
        BY <2>1, <2>2
    <2> QED BY <1>2, <2>1, <2>2, <2>3
<1> QED BY <1>3

\* The two equations by which the partial sums are known from here on.
LEMMA PartialSumsEquations ==
    ASSUME NEW f, NEW n \in Nat, \A k \in 1 .. n : f[k] \in Int
    PROVE  /\ PartialSums(f, n) \in [0 .. n -> Int]
           /\ PartialSums(f, n)[0] = 0
           /\ \A k \in 1 .. n : PartialSums(f, n)[k] = PartialSums(f, n)[k - 1] + f[k]
<1> DEFINE Rec(s) == [k \in 0 .. n |-> IF k = 0 THEN 0 ELSE s[k - 1] + f[k]]
<1>1. PICK s \in [0 .. n -> Int] :
         s[0] = 0 /\ \A k \in 1 .. n : s[k] = s[k - 1] + f[k]
    BY PartialSumsExist
<1>2. s = Rec(s)
    BY <1>1
<1>3. PartialSums(f, n) = CHOOSE t : t = Rec(t)
    BY DEF PartialSums
<1>4. PartialSums(f, n) = Rec(PartialSums(f, n))
    BY <1>2, <1>3
<1> DEFINE S == PartialSums(f, n)
<1>5. S = Rec(S)
    BY <1>4
<1> HIDE DEF S
<1>6. S[0] = 0
    BY <1>5
<1>7. \A k \in 1 .. n : S[k] = S[k - 1] + f[k]
    BY <1>5
<1>8. \A k \in 0 .. n : S[k] \in Int
    <2> DEFINE Bad == {m \in 0 .. n : S[m] \notin Int}
    <2> SUFFICES ASSUME Bad # {}
                 PROVE  FALSE
        OBVIOUS
    <2>1. PICK m \in Bad : \A k \in Bad : m <= k
        <3>1. Bad \in SUBSET Nat
            OBVIOUS
        <3> HIDE DEF Bad
        <3> QED BY <3>1, LeastNatural
    <2>2. m \in 1 .. n /\ m - 1 \in 0 .. n
        BY <2>1, <1>6
    <2>3. S[m - 1] \in Int
        BY <2>1, <2>2
    <2>4. S[m] \in Int
        <3>1. S[m] = S[m - 1] + f[m] /\ f[m] \in Int
            BY <1>7, <2>2
        <3> QED BY <2>3, <3>1
    <2> QED BY <2>1, <2>4
<1>9. S \in [0 .. n -> Int]
    BY <1>5, <1>8
<1> QED BY <1>6, <1>7, <1>9 DEF S

\* A sum of naturals is a natural.
LEMMA SumType ==
    ASSUME NEW n \in Nat, NEW f \in [1 .. n -> Nat]
    PROVE  SumTo(f, n) \in Nat
<1> DEFINE S == PartialSums(f, n)
           Bad == {m \in 0 .. n : S[m] \notin Nat}
<1>1. /\ S \in [0 .. n -> Int]
      /\ S[0] = 0
      /\ \A k \in 1 .. n : S[k] = S[k - 1] + f[k]
    BY PartialSumsEquations
<1> HIDE DEF S
<1>2. Bad = {}
    <2> SUFFICES ASSUME Bad # {}
                 PROVE  FALSE
        OBVIOUS
    <2>1. PICK m \in Bad : \A k \in Bad : m <= k
        <3>1. Bad \in SUBSET Nat
            OBVIOUS
        <3> HIDE DEF Bad
        <3> QED BY <3>1, LeastNatural
    <2>2. m \in 1 .. n /\ m - 1 \in 0 .. n
        BY <1>1, <2>1
    <2>3. S[m - 1] \in Nat
        BY <2>1, <2>2
    <2> QED BY <1>1, <2>1, <2>2, <2>3
<1> QED BY <1>2 DEF S, SumTo

\* The sum of a pointwise sum.
LEMMA SumAdd ==
    ASSUME NEW n \in Nat, NEW f \in [1 .. n -> Int], NEW g \in [1 .. n -> Int],
           NEW h \in [1 .. n -> Int], \A k \in 1 .. n : h[k] = f[k] + g[k]
    PROVE  SumTo(h, n) = SumTo(f, n) + SumTo(g, n)
<1> DEFINE F == PartialSums(f, n)
           G == PartialSums(g, n)
           H == PartialSums(h, n)
           Bad == {m \in 0 .. n : H[m] # F[m] + G[m]}
<1>1. /\ F \in [0 .. n -> Int] /\ F[0] = 0
      /\ \A k \in 1 .. n : F[k] = F[k - 1] + f[k]
    BY PartialSumsEquations
<1>2. /\ G \in [0 .. n -> Int] /\ G[0] = 0
      /\ \A k \in 1 .. n : G[k] = G[k - 1] + g[k]
    BY PartialSumsEquations
<1>3. /\ H \in [0 .. n -> Int] /\ H[0] = 0
      /\ \A k \in 1 .. n : H[k] = H[k - 1] + h[k]
    BY PartialSumsEquations
<1> HIDE DEF F, G, H
<1>4. Bad = {}
    <2> SUFFICES ASSUME Bad # {}
                 PROVE  FALSE
        OBVIOUS
    <2>1. PICK m \in Bad : \A k \in Bad : m <= k
        <3>1. Bad \in SUBSET Nat
            OBVIOUS
        <3> HIDE DEF Bad
        <3> QED BY <3>1, LeastNatural
    <2>2. m \in 1 .. n /\ m - 1 \in 0 .. n
        BY <1>1, <1>2, <1>3, <2>1
    <2>3. H[m - 1] = F[m - 1] + G[m - 1]
        BY <2>1, <2>2
    <2>4. H[m] = H[m - 1] + h[m] /\ F[m] = F[m - 1] + f[m] /\ G[m] = G[m - 1] + g[m]
        BY <1>1, <1>2, <1>3, <2>2
    <2>5. /\ F[m - 1] \in Int /\ G[m - 1] \in Int
          /\ f[m] \in Int /\ g[m] \in Int /\ h[m] = f[m] + g[m]
        BY <1>1, <1>2, <2>2
    <2>6. H[m] = F[m] + G[m]
        <3> HIDE DEF Bad
        <3> QED BY <2>3, <2>4, <2>5
    <2> QED BY <2>1, <2>6
<1> QED BY <1>4 DEF F, G, H, SumTo

\* The sum of a function that is zero everywhere but at one point.
LEMMA SumSingle ==
    ASSUME NEW n \in Nat, NEW f \in [1 .. n -> Int], NEW p \in 1 .. n,
           \A k \in 1 .. n : k # p => f[k] = 0
    PROVE  SumTo(f, n) = f[p]
<1> DEFINE F == PartialSums(f, n)
           Bad == {m \in 0 .. n : F[m] # IF m < p THEN 0 ELSE f[p]}
<1>1. /\ F \in [0 .. n -> Int] /\ F[0] = 0
      /\ \A k \in 1 .. n : F[k] = F[k - 1] + f[k]
    BY PartialSumsEquations
<1> HIDE DEF F
<1>2. Bad = {}
    <2> SUFFICES ASSUME Bad # {}
                 PROVE  FALSE
        OBVIOUS
    <2>1. PICK m \in Bad : \A k \in Bad : m <= k
        <3>1. Bad \in SUBSET Nat
            OBVIOUS
        <3> HIDE DEF Bad
        <3> QED BY <3>1, LeastNatural
    <2>2. m \in 1 .. n /\ m - 1 \in 0 .. n
        BY <1>1, <2>1
    <2>3. F[m - 1] = IF m - 1 < p THEN 0 ELSE f[p]
        BY <2>1, <2>2
    <2>4. F[m] = F[m - 1] + f[m] /\ f[m] \in Int /\ f[p] \in Int
        BY <1>1, <2>2
    <2> QED BY <2>1, <2>2, <2>3, <2>4
<1> QED BY <1>2 DEF F, SumTo

\* Two functions that agree on 1 .. n have the same sum.
LEMMA SumEqual ==
    ASSUME NEW n \in Nat, NEW f \in [1 .. n -> Int], NEW g \in [1 .. n -> Int],
           \A k \in 1 .. n : f[k] = g[k]
    PROVE  SumTo(f, n) = SumTo(g, n)
<1>1. f = g
    OBVIOUS
<1> QED BY <1>1

\* Changing a function at one point changes its sum by as much.
LEMMA SumUpdate ==
    ASSUME NEW n \in Nat, NEW f \in [1 .. n -> Int], NEW g \in [1 .. n -> Int],
           NEW p \in 1 .. n, \A k \in 1 .. n : k # p => g[k] = f[k]
    PROVE  SumTo(g, n) = SumTo(f, n) + (g[p] - f[p])
<1> DEFINE d == [k \in 1 .. n |-> g[k] - f[k]]
<1>1. d \in [1 .. n -> Int] /\ d[p] = g[p] - f[p]
    OBVIOUS
<1>2. \A k \in 1 .. n : k # p => d[k] = 0
    OBVIOUS
<1>3. \A k \in 1 .. n : g[k] = f[k] + d[k]
    OBVIOUS
<1> HIDE DEF d
<1>4. SumTo(d, n) = d[p]
    BY <1>1, <1>2, SumSingle
<1>5. SumTo(g, n) = SumTo(f, n) + SumTo(d, n)
    BY <1>1, <1>3, SumAdd
<1> QED BY <1>1, <1>4, <1>5

\* A sum of naturals is at least each of them.
LEMMA SumBounds ==
    ASSUME NEW n \in Nat, NEW f \in [1 .. n -> Nat], NEW p \in 1 .. n
    PROVE  f[p] <= SumTo(f, n)
<1> DEFINE g == [f EXCEPT ![p] = 0]
<1>1. g \in [1 .. n -> Nat] /\ g[p] = 0 /\ \A k \in 1 .. n : k # p => g[k] = f[k]
    OBVIOUS
<1> HIDE DEF g
<1>2. f \in [1 .. n -> Int] /\ g \in [1 .. n -> Int]
    BY <1>1
<1>3. SumTo(g, n) = SumTo(f, n) + (g[p] - f[p])
    BY <1>1, <1>2, SumUpdate
<1>4. SumTo(g, n) \in Nat /\ SumTo(f, n) \in Nat
    BY <1>1, SumType
<1> QED BY <1>1, <1>3, <1>4

\* Nor is it less than two of them together.
LEMMA SumBoundsTwo ==
    ASSUME NEW n \in Nat, NEW f \in [1 .. n -> Nat], NEW p \in 1 .. n, NEW q \in 1 .. n, p # q
    PROVE  f[p] + f[q] <= SumTo(f, n)
<1> DEFINE g == [f EXCEPT ![p] = 0]
<1>1. g \in [1 .. n -> Nat] /\ g[p] = 0 /\ \A k \in 1 .. n : k # p => g[k] = f[k]
    OBVIOUS
<1> HIDE DEF g
<1>2. f \in [1 .. n -> Int] /\ g \in [1 .. n -> Int]
    BY <1>1
<1>3. SumTo(g, n) = SumTo(f, n) + (g[p] - f[p])
    BY <1>1, <1>2, SumUpdate
<1>4. SumTo(g, n) \in Nat /\ SumTo(f, n) \in Nat
    BY <1>1, SumType
<1>5. g[q] <= SumTo(g, n) /\ g[q] = f[q]
    BY <1>1, SumBounds
<1> QED BY <1>1, <1>3, <1>4, <1>5

\* A function that is zero everywhere sums to zero.
LEMMA SumZero ==
    ASSUME NEW n \in Nat, NEW f \in [1 .. n -> Int], \A k \in 1 .. n : f[k] = 0
    PROVE  SumTo(f, n) = 0
<1>1. SumTo(f, n) = SumTo(f, n) + SumTo(f, n)
    BY SumAdd
<1>2. f \in [1 .. n -> Nat]
    OBVIOUS
<1>3. SumTo(f, n) \in Nat
    BY <1>2, SumType
<1>4. \A x \in Nat : x = x + x => x = 0
    OBVIOUS
<1> QED BY <1>1, <1>3, <1>4

\* Addition again, for the sums of natural numbers the vault keeps.
LEMMA SumAddNat ==
    \A n \in Nat : \A f, g, h \in [1 .. n -> Nat] :
        (\A k \in 1 .. n : h[k] = f[k] + g[k])
            => SumTo(h, n) = SumTo(f, n) + SumTo(g, n)
<1> SUFFICES ASSUME NEW n \in Nat, NEW f \in [1 .. n -> Nat], NEW g \in [1 .. n -> Nat],
                    NEW h \in [1 .. n -> Nat], \A k \in 1 .. n : h[k] = f[k] + g[k]
             PROVE  SumTo(h, n) = SumTo(f, n) + SumTo(g, n)
    OBVIOUS
<1>1. /\ f \in [1 .. n -> Int] /\ g \in [1 .. n -> Int]
      /\ h \in [1 .. n -> Int]
    OBVIOUS
<1> QED BY <1>1, SumAdd, Zenon
\* A sum of integers is an integer.
LEMMA SumInt ==
    ASSUME NEW n \in Nat, NEW f \in [1 .. n -> Int]
    PROVE  SumTo(f, n) \in Int
<1>1. PartialSums(f, n) \in [0 .. n -> Int]
    BY PartialSumsEquations
<1> QED BY <1>1 DEF SumTo

\* A function that is nowhere larger has no larger sum.
LEMMA SumMonotone ==
    ASSUME NEW n \in Nat, NEW f \in [1 .. n -> Int], NEW g \in [1 .. n -> Int],
           \A k \in 1 .. n : f[k] <= g[k]
    PROVE  SumTo(f, n) <= SumTo(g, n)
<1> DEFINE d == [k \in 1 .. n |-> g[k] - f[k]]
<1>1. d \in [1 .. n -> Nat] /\ d \in [1 .. n -> Int] /\ \A k \in 1 .. n : g[k] = f[k] + d[k]
    OBVIOUS
<1> HIDE DEF d
<1>2. SumTo(g, n) = SumTo(f, n) + SumTo(d, n)
    BY <1>1, SumAdd
<1>3. SumTo(d, n) \in Nat /\ SumTo(f, n) \in Int
    BY <1>1, SumType, SumInt
<1> QED BY <1>2, <1>3

\* A multiple of every term is the multiple of the sum.
LEMMA SumScale ==
    ASSUME NEW n \in Nat, NEW c \in Int, NEW f \in [1 .. n -> Int],
           NEW g \in [1 .. n -> Int], \A k \in 1 .. n : g[k] = c * f[k]
    PROVE  SumTo(g, n) = c * SumTo(f, n)
<1> DEFINE F == PartialSums(f, n)
           G == PartialSums(g, n)
           Bad == {m \in 0 .. n : G[m] # c * F[m]}
<1>1. /\ F \in [0 .. n -> Int] /\ F[0] = 0
      /\ \A k \in 1 .. n : F[k] = F[k - 1] + f[k]
    BY PartialSumsEquations
<1>2. /\ G \in [0 .. n -> Int] /\ G[0] = 0
      /\ \A k \in 1 .. n : G[k] = G[k - 1] + g[k]
    BY PartialSumsEquations
<1> HIDE DEF F, G
<1>3. Bad = {}
    <2> SUFFICES ASSUME Bad # {}
                 PROVE  FALSE
        OBVIOUS
    <2>1. PICK m \in Bad : \A k \in Bad : m <= k
        <3>1. Bad \in SUBSET Nat
            OBVIOUS
        <3> HIDE DEF Bad
        <3> QED BY <3>1, LeastNatural
    <2>2. m \in 1 .. n /\ m - 1 \in 0 .. n
        BY <1>1, <1>2, <2>1
    <2>3. G[m - 1] = c * F[m - 1]
        BY <2>1, <2>2
    <2>4. G[m] = G[m - 1] + g[m] /\ F[m] = F[m - 1] + f[m] /\ g[m] = c * f[m]
        BY <1>1, <1>2, <2>2
    <2>5. F[m - 1] \in Int /\ f[m] \in Int
        BY <1>1, <2>2
    <2>6. \A x, y \in Int : c * x + c * y = c * (x + y)
        OBVIOUS
    <2>7. G[m] = c * F[m]
        <3> HIDE DEF Bad
        <3> QED BY <2>3, <2>4, <2>5, <2>6
    <2> QED BY <2>1, <2>7
<1>4. G[n] = c * F[n]
    <2>1. n \in 0 .. n
        OBVIOUS
    <2> QED BY <1>3, <2>1
<1> QED BY <1>4 DEF F, G, SumTo
=============================================================================

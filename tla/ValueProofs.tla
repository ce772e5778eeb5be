---------------------------- MODULE ValueProofs ----------------------------
(***************************************************************************)
(* Lemmas about the algorithms of an analysis: exact fractions, the folds  *)
(* they are written with, Build, Detect and Candidates.                    *)
(***************************************************************************)
EXTENDS JumpDetect, Attribution, FiniteSetTheorems, WellFoundedInduction, TLAPS

-----------------------------------------------------------------------------
(* Fractions *)

\* Exact and floored division.
LEMMA DivExact ==
  ASSUME NEW n \in Int, NEW k \in Nat \ {0}, n % k = 0
  PROVE  n \div k \in Int /\ n = k * (n \div k)
OBVIOUS

LEMMA DivFloor ==
  ASSUME NEW n \in Int, NEW k \in Nat \ {0}
  PROVE  /\ n \div k \in Int
         /\ k * (n \div k) <= n /\ n < k * (n \div k) + k
OBVIOUS

\* A non-empty set of naturals has a least element.
LEMMA LeastExists ==
  ASSUME NEW S \in SUBSET Nat, S # {}
  PROVE  \E k \in S : \A m \in S : k <= m
<1> DEFINE R == OpToRel(<, Nat)
<1>1. IsWellFoundedOn(R, Nat)
  BY NatLessThanWellFounded
<1>2. \A m, k \in Nat : m < k => <<m, k>> \in R
  BY DEF OpToRel
<1> HIDE DEF R
<1>3. PICK k \in S : \A m \in S : ~ (<<m, k>> \in R)
  BY <1>1, WFMin
<1>4. \A m \in S : ~ (m < k)
  BY <1>2, <1>3
<1>5. \A m \in S : k <= m
  <2> TAKE m \in S
  <2> QED BY <1>4
<1> QED BY <1>5

\* A non-empty set of numbers up to d has a greatest element, which Max finds.
LEMMA MaxBounded ==
  ASSUME NEW d \in Nat, NEW S \in SUBSET (1..d), S # {}
  PROVE  Max(S) \in S /\ \A y \in S : Max(S) >= y
<1> DEFINE T == {d - x : x \in S}
<1>1. T \in SUBSET Nat /\ T # {}
  <2>1. \A x \in S : x \in Int /\ d - x \in Nat
    OBVIOUS
  <2> QED BY <2>1
<1>2. PICK k \in T : \A m \in T : k <= m
  BY <1>1, LeastExists
<1>3. PICK x \in S : k = d - x
  BY <1>2
<1>4. \A y \in S : x >= y
  <2> TAKE y \in S
  <2>1. d - y \in T /\ x \in Int /\ y \in Int
    OBVIOUS
  <2>2. d - x <= d - y
    BY <1>2, <1>3, <2>1
  <2> QED BY <2>1, <2>2
<1> QED BY <1>4 DEF Max

\* Frac is the quotient of its arguments, over a positive denominator.
LEMMA FracValue ==
  ASSUME NEW n \in Int, NEW d \in Nat \ {0}
  PROVE  /\ IsFrac(Frac(n, d)) /\ Frac(n, d).num * d = n * Frac(n, d).den
         /\ Frac(n, d) \in [num : Int, den : Nat \ {0}]
<1> DEFINE D == {i \in 1..d : n % i = 0 /\ d % i = 0}
           k == Max(D)
<1>1. 1 \in D
  OBVIOUS
<1>2. k \in 1..d /\ n % k = 0 /\ d % k = 0
  BY <1>1, MaxBounded
<1> HIDE DEF k
<1>3. /\ n \div k \in Int /\ n = k * (n \div k)
      /\ d \div k \in Int /\ d = k * (d \div k)
  BY <1>2, DivExact
<1> DEFINE a == n \div k
           b == d \div k
<1>4. Frac(n, d) = [num |-> a, den |-> b]
  BY DEF Frac, k
<1> HIDE DEF a, b
<1>5. b \in Nat \ {0}
  BY <1>2, <1>3 DEF b
<1>6. a * d = n * b
  <2>1. a \in Int /\ k \in Int /\ b \in Int /\ n = k * a /\ d = k * b
    BY <1>2, <1>3 DEF a, b
  <2>2. a * (k * b) = (k * a) * b
    BY <2>1
  <2> QED BY <2>1, <2>2
<1> QED BY <1>3, <1>4, <1>5, <1>6 DEF IsFrac, a

\* Exceeds is the order of the values.
Fraction == [num : Int, den : Nat \ {0}]

\* It is transitive and total.
LEMMA ExceedsTrans ==
  ASSUME NEW f \in Fraction, NEW g \in Fraction, NEW h \in Fraction,
         ~Exceeds(g, f), ~Exceeds(h, g)
  PROVE  ~Exceeds(h, f)
<1> DEFINE a == f.num  b == f.den  c == g.num  d == g.den  e == h.num  k == h.den
<1>1. /\ a \in Int /\ c \in Int /\ e \in Int
      /\ b \in Nat \ {0} /\ d \in Nat \ {0} /\ k \in Nat \ {0}
      /\ c * b <= a * d /\ e * d <= c * k
  BY DEF Exceeds, Fraction
<1>2. SUFFICES e * b <= a * k
  BY DEF Exceeds, Fraction
<1> HIDE DEF a, b, c, d, e, k
<1>3. (c * b) * k <= (a * d) * k /\ (e * d) * b <= (c * k) * b
  BY <1>1
<1>4. (c * b) * k = (c * k) * b /\ (e * d) * b = (e * b) * d /\ (a * d) * k = (a * k) * d
  BY <1>1
<1>5. (e * b) * d <= (a * k) * d
  BY <1>1, <1>3, <1>4
<1> QED BY <1>1, <1>5

LEMMA ExceedsTotal ==
  ASSUME NEW f \in Fraction, NEW g \in Fraction, Exceeds(f, g)
  PROVE  ~Exceeds(g, f)
<1>1. f.num * g.den \in Int /\ g.num * f.den \in Int
  BY DEF Fraction
<1> QED BY <1>1 DEF Exceeds

\* Values of the constants.
LEMMA FracZero == Zero \in Fraction /\ Zero.num = 0
BY FracValue DEF Zero, Fraction

LEMMA FracOne == One \in Fraction /\ One.num = One.den
BY FracValue DEF One, Fraction

LEMMA FracHalf == Half \in Fraction /\ 2 * Half.num = Half.den
BY FracValue DEF Half, Fraction

\* Nothing of anything is Zero.
LEMMA FracOfZero ==
  ASSUME NEW d \in Nat \ {0}
  PROVE  Frac(0, d) = Zero
<1> DEFINE D(e) == {i \in 1..e : 0 % i = 0 /\ e % i = 0}
<1>1. ASSUME NEW e \in Nat \ {0} PROVE Frac(0, e) = [num |-> 0, den |-> 1]
  <2>1. e \in D(e)
    OBVIOUS
  <2>2. Max(D(e)) \in 1..e /\ Max(D(e)) >= e
    BY <2>1, MaxBounded
  <2>3. Max(D(e)) = e
    BY <2>2
  <2>4. Frac(0, e) = [num |-> 0 \div e, den |-> e \div e]
    BY <2>3 DEF Frac
  <2>5. 0 \div e = 0 /\ e \div e = 1
    OBVIOUS
  <2> QED BY <2>4, <2>5
<1> QED BY <1>1 DEF Zero

\* Differences and absolute values are fractions.
LEMMA MinusType ==
  ASSUME NEW f \in Fraction, NEW g \in Fraction
  PROVE  Minus(f, g) \in Fraction
<1>1. /\ f.num * g.den - g.num * f.den \in Int
      /\ f.den * g.den \in Nat \ {0}
  BY DEF Fraction
<1> QED BY <1>1, FracValue DEF Minus, Fraction

LEMMA AbsType ==
  ASSUME NEW f \in Fraction
  PROVE  AbsOf(f) \in Fraction
<1>1. -f.num \in Int /\ f.den \in Nat \ {0}
  BY DEF Fraction
<1>2. Frac(-f.num, f.den) \in Fraction
  BY <1>1, FracValue DEF Fraction
<1> QED BY <1>2 DEF AbsOf

-----------------------------------------------------------------------------
(* Attribution *)

\* A score is a fraction between 0 and 1.
Score == {f \in Fraction : f.num \in 0..f.den}

\* A share is a score.
LEMMA FracScore ==
  ASSUME NEW d \in Nat \ {0}, NEW n \in 0..d
  PROVE  Frac(n, d) \in Score
<1> DEFINE f == Frac(n, d)
<1>1. f \in Fraction /\ f.num \in Int /\ f.den \in Nat \ {0} /\ f.num * d = n * f.den
  BY FracValue DEF Fraction
<1> HIDE DEF f
<1>2. n * f.den >= 0 /\ n * f.den <= d * f.den
  BY <1>1
<1>3. f.num * d >= 0 /\ f.num * d <= f.den * d
  BY <1>1, <1>2
<1>4. f.num >= 0 /\ f.num <= f.den
  BY <1>1, <1>3
<1> QED BY <1>1, <1>4 DEF Score, f

\* A set with one element more, and the set of quantities has four.
LEMMA OneMore ==
  ASSUME NEW S, NEW x, NEW n \in Nat, IsFiniteSet(S), Cardinality(S) <= n
  PROVE  IsFiniteSet(S \cup {x}) /\ Cardinality(S \cup {x}) <= n + 1
<1>1. Cardinality(S) \in Nat
  BY FS_CardinalityType
<1>2. IsFiniteSet(S \cup {x})
  BY FS_AddElement
<1>3. Cardinality(S \cup {x}) = Cardinality(S) \/ Cardinality(S \cup {x}) = Cardinality(S) + 1
  BY FS_AddElement
<1> QED BY <1>1, <1>2, <1>3

LEMMA FourQuantities == IsFiniteSet(Quantities) /\ Cardinality(Quantities) <= 4
<1>1. PICK A : A = {"temp"}
  OBVIOUS
<1>2. PICK B : B = A \cup {"humidity"}
  OBVIOUS
<1>3. PICK C : C = B \cup {"pressure"}
  OBVIOUS
<1>4. IsFiniteSet(A) /\ Cardinality(A) <= 1
  <2>1. IsFiniteSet(A) /\ Cardinality(A) = 1
    BY <1>1, FS_Singleton, Zenon
  <2> QED BY <2>1
<1>5. IsFiniteSet(B) /\ Cardinality(B) <= 2
  <2>1. Cardinality(A \cup {"humidity"}) <= 1 + 1
    BY <1>4, OneMore
  <2> QED BY <1>2, <1>4, <2>1, FS_AddElement
<1>6. IsFiniteSet(C) /\ Cardinality(C) <= 3
  <2>1. Cardinality(B \cup {"pressure"}) <= 2 + 1
    BY <1>5, OneMore
  <2> QED BY <1>3, <1>5, <2>1, FS_AddElement
<1>7. IsFiniteSet(C \cup {"vibration"}) /\ Cardinality(C \cup {"vibration"}) <= 4
  <2>1. Cardinality(C \cup {"vibration"}) <= 3 + 1
    BY <1>6, OneMore
  <2> QED BY <1>6, <2>1, FS_AddElement
<1>8. Quantities = C \cup {"vibration"}
  BY <1>1, <1>2, <1>3 DEF Quantities
<1> QED BY <1>7, <1>8

\* Both coherences are shares, whatever the readings and the links.
LEMMA EnvironmentScore ==
  ASSUME NEW R
  PROVE  EnvironmentCoherence(R) \in Score
<1> DEFINE Q == {q \in Quantities : Swings(q, R)}
<1>1. Cardinality(Q) \in 0..4
  BY FourQuantities, FS_Subset, FS_CardinalityType
<1>2. Frac(Cardinality(Q), 4) \in Score
  BY <1>1, FracScore
<1>3. Zero \in Score
  BY FracScore DEF Zero
<1> QED BY <1>2, <1>3 DEF EnvironmentCoherence

\* The share of links that are not healthy is a score.
LEMMA LinkScore ==
  ASSUME NEW L, IsFiniteSet(L)
  PROVE  LinkCoherence(L) \in Score
<1> DEFINE U == {l \in L : l.status \in {"suspect", "isolated"}}
<1>1. Cardinality(L) \in Nat /\ IsFiniteSet(U) /\ Cardinality(U) <= Cardinality(L)
      /\ Cardinality(U) \in Nat
  BY FS_Subset, FS_CardinalityType
<1>2. L # {} => Cardinality(L) # 0
  BY FS_EmptySet
<1>3. L # {} => Frac(Cardinality(U), Cardinality(L)) \in Score
  BY <1>1, <1>2, FracScore
<1>4. Zero \in Score
  BY FracScore DEF Zero
<1> QED BY <1>3, <1>4 DEF LinkCoherence

\* A device score is one.
LEMMA DeviceValue ==
  ASSUME NEW env \in Score, NEW link \in Score
  PROVE  DeviceScore(env, link) \in Score
<1>1. Zero \in Score
  BY FracScore DEF Zero
<1>2. Minus(One, env) \in Score
  <2> DEFINE a == One.num  e == env.num  d == env.den
  <2>1. a \in Int /\ One.den = a /\ e \in 0..d /\ d \in Nat \ {0} /\ a \in Nat \ {0}
    BY FracOne DEF Score, Fraction
  <2>2. Minus(One, env) = Frac(a * d - e * a, a * d)
    BY <2>1 DEF Minus
  <2> HIDE DEF a, e, d
  <2>3. a * d \in Nat \ {0} /\ e * a \in Int /\ e * a >= 0 /\ e * a <= a * d
    BY <2>1
  <2>4. a * d - e * a \in 0..(a * d)
    BY <2>3
  <2> QED BY <2>2, <2>3, <2>4, FracScore
<1> QED BY <1>1, <1>2 DEF DeviceScore

\* Largest finds the largest of three.
LEMMA LargestOfThree ==
  ASSUME NEW f \in Fraction, NEW g \in Fraction, NEW h \in Fraction
  PROVE  LET m == Largest({f, g, h})
         IN  m \in {f, g, h} /\ ~Exceeds(f, m) /\ ~Exceeds(g, m) /\ ~Exceeds(h, m)
<1>1. \A x \in Fraction : ~Exceeds(x, x)
  BY ExceedsTotal
<1>2. \E m \in {f, g, h} : ~Exceeds(f, m) /\ ~Exceeds(g, m) /\ ~Exceeds(h, m)
  <2>1. \A x, y \in Fraction : ~Exceeds(x, y) \/ ~Exceeds(y, x)
    BY ExceedsTotal
  <2>2. \A x, y, z \in Fraction : ~Exceeds(x, y) /\ ~Exceeds(y, z) => ~Exceeds(x, z)
    BY ExceedsTrans
  <2> QED BY <1>1, <2>1, <2>2
<1>3. \E m \in {f, g, h} : \A x \in {f, g, h} : ~Exceeds(x, m)
  BY <1>2
<1> QED BY <1>3 DEF Largest

\* Of the rows ScoreCtx inserts for a segment: sources and scores are legal, and
\* one reaches one half or "insufficient" is listed.
LEMMA CandidateRows ==
  ASSUME NEW env \in Score, NEW link \in Score
  PROVE  LET C == Candidates(env, link)
         IN  /\ \A c \in C : c.source \in Sources /\ c.score \in Score
             /\ \A c \in C : c.source = "environment" => c.score = env
             /\ \/ \E c \in C : c.source = "insufficient"
                \/ \E c \in C : ~Exceeds(Half, c.score)
<1> DEFINE dev == DeviceScore(env, link)
           three == {[source |-> "environment", score |-> env],
                     [source |-> "link", score |-> link],
                     [source |-> "device", score |-> dev]}
           best == Largest({c.score : c \in three})
           fourth == [source |-> "insufficient", score |-> Minus(Half, best)]
           C == Candidates(env, link)
<1>1. C = three \cup (IF Exceeds(Half, best) THEN {fourth} ELSE {})
  BY DEF Candidates
<1>2. dev \in Score
  BY DeviceValue
<1>3. {c.score : c \in three} = {env, link, dev}
  OBVIOUS
<1>s. Score \subseteq Fraction /\ Half \in Fraction
  BY FracHalf DEF Score
<1> HIDE DEF dev
<1>4. /\ best \in {env, link, dev}
      /\ ~Exceeds(env, best) /\ ~Exceeds(link, best) /\ ~Exceeds(dev, best)
  BY <1>2, <1>3, <1>s, LargestOfThree
<1> HIDE DEF best
<1>5. best \in Score
  BY <1>2, <1>4
<1>6. Exceeds(Half, best) => Minus(Half, best) \in Score
  <2> DEFINE a == Half.num  b == Half.den  e == best.num  d == best.den
  <2>1. /\ a \in Nat \ {0} /\ b \in Nat \ {0} /\ a <= b
        /\ e \in Int /\ e >= 0 /\ d \in Nat \ {0}
    BY <1>5, FracHalf DEF Score, Fraction
  <2>2. SUFFICES ASSUME a * d > e * b PROVE Frac(a * d - e * b, b * d) \in Score
    BY DEF Exceeds, Minus
  <2> HIDE DEF a, b, e, d
  <2>3. /\ a * d \in Int /\ e * b \in Int /\ b * d \in Nat \ {0}
        /\ a * d <= b * d /\ e * b >= 0
    BY <2>1
  <2>4. a * d - e * b \in 0..(b * d)
    BY <2>2, <2>3
  <2> QED BY <2>3, <2>4, FracScore
<1>7. \A c \in C : c.source \in Sources /\ c.score \in Score
  <2>1. \A c \in three : c.source \in Sources /\ c.score \in Score
    BY <1>2 DEF Sources
  <2>2. Exceeds(Half, best) => fourth.source \in Sources /\ fourth.score \in Score
    BY <1>6 DEF Sources
  <2> HIDE DEF three, fourth
  <2> QED BY <1>1, <2>1, <2>2
<1>8. \A c \in C : c.source = "environment" => c.score = env
  BY <1>1
<1>9. \/ \E c \in C : c.source = "insufficient"
      \/ \E c \in C : ~Exceeds(Half, c.score)
  <2>1. CASE Exceeds(Half, best)
    <3>1. fourth \in C /\ fourth.source = "insufficient"
      BY <1>1, <2>1
    <3> QED BY <3>1
  <2>2. CASE ~Exceeds(Half, best)
    <3>1. PICK c \in three : c.score = best
      BY <1>4
    <3>2. c \in C
      BY <1>1, <3>1
    <3> QED BY <2>2, <3>1, <3>2
  <2> QED BY <2>1, <2>2
<1> QED BY <1>7, <1>8, <1>9

\* A score above zero has two readings that differ by more than a threshold.
LEMMA EnvironmentEvidence ==
  ASSUME NEW R, EnvironmentCoherence(R) # Zero
  PROVE  \E r, s \in R : \E q \in Quantities : r[q] - s[q] > Swing[q]
<1> DEFINE Q == {q \in Quantities : Swings(q, R)}
<1>1. Q # {}
  <2> SUFFICES ASSUME Q = {} PROVE FALSE
    OBVIOUS
  <2>1. Cardinality(Q) = 0
    BY FS_EmptySet
  <2>2. Frac(0, 4) = Zero
    BY FracOfZero
  <2> QED BY <2>1, <2>2 DEF EnvironmentCoherence
<1> QED BY <1>1 DEF Swings

-----------------------------------------------------------------------------
(* Folds: MapThenFoldSet is the value at S of a function on the subsets of *)
(* S that satisfies its recursive equation, if such a function exists.     *)

\* A collection of subsets of a finite set that has {} and, with all proper
\* subsets of a set, the set itself, has them all.
LEMMA SubsetInduction ==
  ASSUME NEW S, IsFiniteSet(S), NEW P,
         \A T \in SUBSET S : (\A U \in SUBSET T : U # T => U \in P) => T \in P
  PROVE  \A T \in SUBSET S : T \in P
<1> DEFINE R == StrictSubsetOrdering(S)
           bad == {T \in SUBSET S : T \notin P}
<1>1. IsWellFoundedOn(R, SUBSET S)
  BY FS_StrictSubsetOrderingWellFounded, FS_FiniteSubsetsOfFinite
<1>2. \A U, T \in SUBSET S : U \subseteq T /\ U # T => <<U, T>> \in R
  BY DEF StrictSubsetOrdering
<1> HIDE DEF R
<1> SUFFICES ASSUME bad # {} PROVE FALSE
  OBVIOUS
<1>3. PICK T \in bad : \A U \in bad : ~ (<<U, T>> \in R)
  <2>1. bad \subseteq SUBSET S
    OBVIOUS
  <2> HIDE DEF bad
  <2> QED BY <1>1, <2>1, WFMin
<1>4. \A U \in SUBSET T : U # T => U \in P
  <2> SUFFICES ASSUME NEW U \in SUBSET T, U # T PROVE U \in P
    OBVIOUS
  <2>1. T \in SUBSET S /\ U \in SUBSET S /\ U \subseteq T
    BY <1>3
  <2>2. <<U, T>> \in R
    BY <1>2, <2>1
  <2> QED BY <1>3, <2>1, <2>2
<1> QED BY <1>3, <1>4

\* c chooses an element of each subset, f is the fold with F in that order.
Chooses(c, S) == \A T \in SUBSET S : T # {} => c[T] \in T
IsFold(f, S, c, base, F) ==
  /\ f[{}] = base
  /\ \A T \in SUBSET S : T # {} => f[T] = F[<<c[T], f[T \ {c[T]}]>>]

\* The same for a chain of subsets, each without the element chosen from it.
LEMMA ChainInduction ==
  ASSUME NEW S, IsFiniteSet(S), NEW c, Chooses(c, S),
         NEW P, {} \in P,
         \A T \in SUBSET S : T # {} /\ T \ {c[T]} \in P => T \in P
  PROVE  \A T \in SUBSET S : T \in P
<1>1. ASSUME NEW T \in SUBSET S, \A U \in SUBSET T : U # T => U \in P
      PROVE  T \in P
  <2>1. CASE T = {}
    BY <2>1
  <2>2. CASE T # {}
    <3>1. c[T] \in T /\ T \ {c[T]} \in SUBSET T /\ T \ {c[T]} # T
      BY <2>2 DEF Chooses
    <3> QED BY <1>1, <2>2, <3>1
  <2> QED BY <2>1, <2>2
<1> QED BY <1>1, SubsetInduction

\* A function that satisfies the equation of a fold exists.
LEMMA FoldExists ==
  ASSUME NEW S, IsFiniteSet(S), NEW c, Chooses(c, S),
         NEW A, NEW base \in A, NEW F \in [S \X A -> A]
  PROVE  \E f \in [SUBSET S -> A] : IsFold(f, S, c, base, F)
<1> USE DEF Chooses
<1> DEFINE next(f) == [T \in SUBSET S |->
                         IF T = {} THEN base ELSE F[<<c[T], f[T \ {c[T]}]>>]]
           UpTo(f, n) == \A T \in SUBSET S : Cardinality(T) <= n => f[T] = next(f)[T]
           bad == {n \in Nat : ~ \E f \in [SUBSET S -> A] : UpTo(f, n)}
<1>1. ASSUME NEW f \in [SUBSET S -> A] PROVE next(f) \in [SUBSET S -> A]
  <2>1. ASSUME NEW T \in SUBSET S, T # {} PROVE F[<<c[T], f[T \ {c[T]}]>>] \in A
    <3>1. c[T] \in S /\ f[T \ {c[T]}] \in A
      BY <2>1
    <3> QED BY <3>1
  <2> QED BY <2>1
<1>2. \A T \in SUBSET S : Cardinality(T) \in Nat /\ (Cardinality(T) = 0 => T = {})
  BY FS_Subset, FS_CardinalityType, FS_EmptySet
<1>3. \A T \in SUBSET S : T # {} => Cardinality(T \ {c[T]}) = Cardinality(T) - 1
  BY FS_Subset, FS_RemoveElement
<1>4. 0 \notin bad
  <2> DEFINE f == [T \in SUBSET S |-> base]
  <2>1. f \in [SUBSET S -> A] /\ UpTo(f, 0)
    BY <1>2
  <2> QED BY <2>1
<1>5. ASSUME NEW n \in Nat, n \notin bad PROVE n + 1 \notin bad
  <2>1. PICK f \in [SUBSET S -> A] : UpTo(f, n)
    BY <1>5
  <2> DEFINE g == next(f)
  <2>2. g \in [SUBSET S -> A]
    BY <1>1
  <2>3. ASSUME NEW T \in SUBSET S, Cardinality(T) <= n + 1 PROVE g[T] = next(g)[T]
    <3>1. CASE T = {}
      BY <3>1
    <3>2. CASE T # {}
      <4> DEFINE U == T \ {c[T]}
      <4>1. U \in SUBSET S /\ Cardinality(U) <= n
        BY <1>2, <1>3, <2>3, <3>2
      <4>2. g[U] = f[U]
        BY <2>1, <4>1
      <4> QED BY <3>2, <4>2
    <3> QED BY <3>1, <3>2
  <2> HIDE DEF g
  <2>4. UpTo(g, n + 1)
    BY <2>3
  <2> QED BY <2>2, <2>4
<1>6. bad = {}
  <2> SUFFICES ASSUME bad # {} PROVE FALSE
    OBVIOUS
  <2>1. PICK n \in bad : \A m \in bad : n <= m
    BY LeastExists
  <2>2. n \in Nat /\ n # 0
    BY <1>4, <2>1
  <2>3. n - 1 \in Nat /\ (n - 1) + 1 = n /\ ~ (n <= n - 1)
    BY <2>2
  <2>4. n - 1 \notin bad
    BY <2>1, <2>3
  <2>5. (n - 1) + 1 \notin bad
    BY <1>5, <2>3, <2>4
  <2> HIDE DEF bad
  <2> QED BY <2>1, <2>3, <2>5
<1>7. Cardinality(S) \in Nat /\ \A T \in SUBSET S : Cardinality(T) <= Cardinality(S)
  BY FS_Subset, FS_CardinalityType
<1>8. PICK f \in [SUBSET S -> A] : UpTo(f, Cardinality(S))
  BY <1>6, <1>7
<1>9. \A T \in SUBSET S : f[T] = next(f)[T]
  BY <1>7, <1>8
<1> QED BY <1>9 DEF IsFold

-----------------------------------------------------------------------------
(* The sums and the product *)

\* A sum of offsets is an integer.
LEMMA SumType ==
  ASSUME NEW S, IsFiniteSet(S), \A x \in S : x.offset \in Int
  PROVE  SumOf(S) \in Int
<1> DEFINE c == [T \in SUBSET S |-> CHOOSE x \in T : TRUE]
           F == [p \in S \X Int |-> p[1].offset + p[2]]
           Equation(f) ==
             f = [T \in SUBSET S |->
                    IF T = {} THEN 0
                    ELSE (CHOOSE x \in T : TRUE).offset + f[T \ {CHOOSE x \in T : TRUE}]]
           fold == CHOOSE f : Equation(f)
           P == {T \in SUBSET S : fold[T] \in Int}
<1>1. Chooses(c, S)
  BY DEF Chooses
<1>2. ASSUME NEW x \in S, NEW y \in Int
      PROVE  F[<<x, y>>] = x.offset + y /\ F[<<x, y>>] \in Int
  OBVIOUS
<1>3. PICK f \in [SUBSET S -> Int] : IsFold(f, S, c, 0, F)
  <2>1. F \in [S \X Int -> Int] /\ 0 \in Int
    BY <1>2
  <2> HIDE DEF c, F
  <2> QED BY <1>1, <2>1, FoldExists
<1>4. Equation(f)
  <2> HIDE DEF F
  <2>1. ASSUME NEW T \in SUBSET S, T # {}
        PROVE  f[T] = (CHOOSE x \in T : TRUE).offset + f[T \ {CHOOSE x \in T : TRUE}]
    <3> HIDE DEF c
    <3>1. c[T] \in S /\ f[T \ {c[T]}] \in Int /\ f[T] = F[<<c[T], f[T \ {c[T]}]>>]
      BY <1>1, <1>3, <2>1 DEF Chooses, IsFold
    <3>2. c[T] = CHOOSE x \in T : TRUE
      BY DEF c
    <3> QED BY <1>2, <3>1, <3>2
  <2> HIDE DEF c
  <2> QED BY <1>3, <2>1 DEF IsFold
<1>5. Equation(fold)
  BY <1>4
<1>6. SumOf(S) = fold[S]
  BY DEF SumOf, MapThenSumSet, MapThenFoldSet
<1>7. {} \in P
  <2> HIDE DEF fold, F
  <2> QED BY <1>5
<1>8. ASSUME NEW T \in SUBSET S, T # {}, T \ {c[T]} \in P PROVE T \in P
  <2> HIDE DEF fold, F
  <2>1. c[T] = CHOOSE x \in T : TRUE
    OBVIOUS
  <2> HIDE DEF c
  <2>2. c[T] \in S /\ fold[T \ {c[T]}] \in Int
    BY <1>1, <1>8 DEF Chooses
  <2>3. fold[T] = c[T].offset + fold[T \ {c[T]}]
    BY <1>5, <1>8, <2>1
  <2> QED BY <1>2, <2>2, <2>3
<1>9. \A T \in SUBSET S : T \in P
  <2> HIDE DEF c, P
  <2> QED BY <1>1, <1>7, <1>8, ChainInduction
<1> QED BY <1>6, <1>9

\* The common denominator is a product, taken one window after the other.
IsDenProduct(f, c, S) ==
  /\ Chooses(c, S) /\ CommonDen(S) = f[S] /\ f[{}] = 1
  /\ \A T \in SUBSET S : f[T] \in Nat \ {0}
  /\ \A T \in SUBSET S : T # {} => f[T] = c[T].mean.den * f[T \ {c[T]}]

\* Such a product exists.
LEMMA DenFold ==
  ASSUME NEW S, IsFiniteSet(S), \A x \in S : x.mean \in Fraction
  PROVE  \E f, c : IsDenProduct(f, c, S)
<1> DEFINE c == [T \in SUBSET S |-> CHOOSE x \in T : TRUE]
           F == [p \in S \X (Nat \ {0}) |-> p[1].mean.den * p[2]]
           Equation(f) ==
             f = [T \in SUBSET S |->
                    IF T = {} THEN 1
                    ELSE (CHOOSE x \in T : TRUE).mean.den * f[T \ {CHOOSE x \in T : TRUE}]]
           fold == CHOOSE f : Equation(f)
           P == {T \in SUBSET S : fold[T] \in Nat \ {0}}
<1>1. Chooses(c, S)
  BY DEF Chooses
<1>2. ASSUME NEW x \in S, NEW y \in Nat \ {0}
      PROVE  F[<<x, y>>] = x.mean.den * y /\ F[<<x, y>>] \in Nat \ {0}
  <2>1. F[<<x, y>>] = x.mean.den * y
    OBVIOUS
  <2>2. x.mean.den \in Nat \ {0} /\ y \in Nat \ {0}
    BY DEF Fraction
  <2>3. x.mean.den * y \in Nat \ {0}
    BY <2>2
  <2> HIDE DEF F
  <2> QED BY <2>1, <2>3
<1>3. PICK f \in [SUBSET S -> Nat \ {0}] : IsFold(f, S, c, 1, F)
  <2>1. F \in [S \X (Nat \ {0}) -> Nat \ {0}] /\ 1 \in Nat \ {0}
    <3>1. \A p \in S \X (Nat \ {0}) : p[1].mean.den * p[2] \in Nat \ {0}
      BY DEF Fraction
    <3> QED BY <3>1
  <2> HIDE DEF c, F
  <2> QED BY <1>1, <2>1, FoldExists
<1>4. Equation(f)
  <2> HIDE DEF F
  <2>1. ASSUME NEW T \in SUBSET S, T # {}
        PROVE  f[T] = (CHOOSE x \in T : TRUE).mean.den * f[T \ {CHOOSE x \in T : TRUE}]
    <3> HIDE DEF c
    <3>1. c[T] \in S /\ f[T \ {c[T]}] \in Nat \ {0} /\ f[T] = F[<<c[T], f[T \ {c[T]}]>>]
      BY <1>1, <1>3, <2>1 DEF Chooses, IsFold
    <3>2. c[T] = CHOOSE x \in T : TRUE
      BY DEF c
    <3> QED BY <1>2, <3>1, <3>2
  <2> HIDE DEF c
  <2> QED BY <1>3, <2>1 DEF IsFold
<1>5. Equation(fold)
  BY <1>4
<1>6. CommonDen(S) = fold[S]
  BY DEF CommonDen, MapThenFoldSet
<1>7. {} \in P
  <2> HIDE DEF fold, F
  <2> QED BY <1>5
<1>8. ASSUME NEW T \in SUBSET S, T # {}, T \ {c[T]} \in P PROVE T \in P
  <2> HIDE DEF fold, F
  <2>1. c[T] = CHOOSE x \in T : TRUE
    OBVIOUS
  <2> HIDE DEF c
  <2>2. c[T] \in S /\ fold[T \ {c[T]}] \in Nat \ {0}
    BY <1>1, <1>8 DEF Chooses
  <2>3. fold[T] = c[T].mean.den * fold[T \ {c[T]}]
    BY <1>5, <1>8, <2>1
  <2> QED BY <1>2, <2>2, <2>3
<1>9. \A T \in SUBSET S : T \in P
  <2> HIDE DEF c, P
  <2> QED BY <1>1, <1>7, <1>8, ChainInduction
<1> HIDE DEF fold, F
<1>10. fold[{}] = 1
  BY <1>5
<1>11. \A T \in SUBSET S : T # {} => fold[T] = c[T].mean.den * fold[T \ {c[T]}]
  BY <1>5
<1> HIDE DEF c
<1>12. IsDenProduct(fold, c, S)
  BY <1>1, <1>6, <1>9, <1>10, <1>11 DEF IsDenProduct
<1> QED BY <1>12

\* It is a multiple of every denominator.
LEMMA CommonDenType ==
  ASSUME NEW S, IsFiniteSet(S), \A x \in S : x.mean \in Fraction
  PROVE  /\ CommonDen(S) \in Nat \ {0}
         /\ \A x \in S : \E q \in Nat : CommonDen(S) = x.mean.den * q
<1>1. PICK f, c : IsDenProduct(f, c, S)
  BY DenFold
<1> DEFINE P == {T \in SUBSET S : \A x \in T : \E q \in Nat : f[T] = x.mean.den * q}
<1>2. {} \in P
  OBVIOUS
<1>3. ASSUME NEW T \in SUBSET S, T # {}, T \ {c[T]} \in P PROVE T \in P
  <2> DEFINE k == c[T]
             U == T \ {k}
  <2>1. /\ k \in T /\ f[T] = k.mean.den * f[U]
        /\ f[U] \in Nat
    BY <1>1, <1>3 DEF IsDenProduct, Chooses
  <2>2. k.mean.den \in Nat
    BY <2>1 DEF Fraction
  <2> HIDE DEF k
  <2>3. ASSUME NEW x \in U PROVE \E q \in Nat : f[T] = x.mean.den * q
    <3>1. PICK q \in Nat : f[U] = x.mean.den * q
      BY <1>3 DEF k
    <3>2. x.mean.den \in Nat
      BY DEF Fraction
    <3>3. k.mean.den * q \in Nat
      BY <2>2
    <3>4. k.mean.den * (x.mean.den * q) = x.mean.den * (k.mean.den * q)
      BY <2>2, <3>2
    <3> QED BY <2>1, <3>1, <3>3, <3>4
  <2>4. \E q \in Nat : f[T] = k.mean.den * q
    BY <2>1
  <2> QED BY <2>3, <2>4
<1>4. Chooses(c, S)
  BY <1>1 DEF IsDenProduct
<1>5. \A T \in SUBSET S : T \in P
  <2> HIDE DEF P
  <2> QED BY <1>2, <1>3, <1>4, ChainInduction
<1>6. S \in P
  BY <1>5
<1> QED BY <1>1, <1>6 DEF IsDenProduct

\* The sum of means over a common denominator, one window after the other.
Part(x, den) == x.mean.num * (den \div x.mean.den)
IsMeansSum(f, c, S, den) ==
  /\ Chooses(c, S) /\ SumOfMeans(S, den) = f[S] /\ f[{}] = 0
  /\ \A T \in SUBSET S : f[T] \in Int
  /\ \A T \in SUBSET S : T # {} => f[T] = Part(c[T], den) + f[T \ {c[T]}]

\* Such a sum exists.
LEMMA MeansFold ==
  ASSUME NEW S, IsFiniteSet(S), \A x \in S : x.mean \in Fraction,
         NEW den \in Nat
  PROVE  \E f, c : IsMeansSum(f, c, S, den)
<1> DEFINE c == [T \in SUBSET S |-> CHOOSE x \in T : TRUE]
           F == [p \in S \X Int |-> (p[1].mean.num * (den \div p[1].mean.den)) + p[2]]
           Equation(f) ==
             f = [T \in SUBSET S |->
                    IF T = {} THEN 0
                    ELSE ((CHOOSE x \in T : TRUE).mean.num * (den \div (CHOOSE x \in T : TRUE).mean.den)) + f[T \ {CHOOSE x \in T : TRUE}]]
           fold == CHOOSE f : Equation(f)
           P == {T \in SUBSET S : fold[T] \in Int}
<1>0. \A x \in S : x.mean.num * (den \div x.mean.den) \in Int
  <2> SUFFICES ASSUME NEW x \in S PROVE x.mean.num * (den \div x.mean.den) \in Int
    OBVIOUS
  <2>1. x.mean.num \in Int /\ x.mean.den \in Nat \ {0}
    BY DEF Fraction
  <2>2. den \div x.mean.den \in Int
    BY <2>1, DivFloor
  <2> QED BY <2>1, <2>2
<1>1. Chooses(c, S)
  BY DEF Chooses
<1>2. ASSUME NEW x \in S, NEW y \in Int
      PROVE  F[<<x, y>>] = (x.mean.num * (den \div x.mean.den)) + y /\ F[<<x, y>>] \in Int
  <2>1. F[<<x, y>>] = (x.mean.num * (den \div x.mean.den)) + y
    OBVIOUS
  <2>2. (x.mean.num * (den \div x.mean.den)) + y \in Int
    BY <1>0
  <2> HIDE DEF F
  <2> QED BY <2>1, <2>2
<1>3. PICK f \in [SUBSET S -> Int] : IsFold(f, S, c, 0, F)
  <2>1. F \in [S \X Int -> Int] /\ 0 \in Int
    <3>1. \A p \in S \X Int : (p[1].mean.num * (den \div p[1].mean.den)) + p[2] \in Int
      BY <1>0
    <3> QED BY <3>1
  <2> HIDE DEF c, F
  <2> QED BY <1>1, <2>1, FoldExists
<1>4. Equation(f)
  <2> HIDE DEF F
  <2>1. ASSUME NEW T \in SUBSET S, T # {}
        PROVE  f[T] = ((CHOOSE x \in T : TRUE).mean.num * (den \div (CHOOSE x \in T : TRUE).mean.den)) + f[T \ {CHOOSE x \in T : TRUE}]
    <3> HIDE DEF c
    <3>1. c[T] \in S /\ f[T \ {c[T]}] \in Int /\ f[T] = F[<<c[T], f[T \ {c[T]}]>>]
      BY <1>1, <1>3, <2>1 DEF Chooses, IsFold
    <3>2. c[T] = CHOOSE x \in T : TRUE
      BY DEF c
    <3> QED BY <1>2, <3>1, <3>2
  <2> HIDE DEF c
  <2> QED BY <1>3, <2>1 DEF IsFold
<1>5. Equation(fold)
  BY <1>4
<1>6. SumOfMeans(S, den) = fold[S]
  BY DEF SumOfMeans, MapThenSumSet, MapThenFoldSet
<1>7. {} \in P
  <2> HIDE DEF fold, F
  <2> QED BY <1>5
<1>8. ASSUME NEW T \in SUBSET S, T # {}, T \ {c[T]} \in P PROVE T \in P
  <2> HIDE DEF fold, F
  <2>1. c[T] = CHOOSE x \in T : TRUE
    OBVIOUS
  <2> HIDE DEF c
  <2>2. c[T] \in S /\ fold[T \ {c[T]}] \in Int
    BY <1>1, <1>8 DEF Chooses
  <2>3. fold[T] = (c[T].mean.num * (den \div c[T].mean.den)) + fold[T \ {c[T]}]
    BY <1>5, <1>8, <2>1
  <2> QED BY <1>2, <2>2, <2>3
<1>9. \A T \in SUBSET S : T \in P
  <2> HIDE DEF c, P
  <2> QED BY <1>1, <1>7, <1>8, ChainInduction
<1> HIDE DEF fold, F
<1>10. fold[{}] = 0
  BY <1>5
<1>11. \A T \in SUBSET S : T # {} => fold[T] = Part(c[T], den) + fold[T \ {c[T]}]
  BY <1>5 DEF Part
<1> HIDE DEF c
<1> QED BY <1>1, <1>6, <1>9, <1>10, <1>11 DEF IsMeansSum

\* It is an integer, and if no part is below lo or above hi, the sum is not
\* below or above as many of them.
LEMMA SumOfMeansType ==
  ASSUME NEW S, IsFiniteSet(S), \A x \in S : x.mean \in Fraction,
         NEW den \in Nat
  PROVE  SumOfMeans(S, den) \in Int
<1>1. PICK f, c : IsMeansSum(f, c, S, den)
  BY MeansFold
<1>2. S \in SUBSET S
  OBVIOUS
<1> QED BY <1>1, <1>2 DEF IsMeansSum

LEMMA SumOfMeansBounds ==
  ASSUME NEW S, IsFiniteSet(S), \A x \in S : x.mean \in Fraction,
         NEW den \in Nat, NEW lo \in Int, NEW hi \in Int,
         \A x \in S : /\ Part(x, den) \in Int
                      /\ lo <= Part(x, den) /\ Part(x, den) <= hi
  PROVE  /\ Cardinality(S) * lo <= SumOfMeans(S, den)
         /\ SumOfMeans(S, den) <= Cardinality(S) * hi
<1>1. PICK f, c : IsMeansSum(f, c, S, den)
  BY MeansFold
<1> DEFINE P == {T \in SUBSET S : /\ Cardinality(T) * lo <= f[T]
                                 /\ f[T] <= Cardinality(T) * hi}
<1>2. {} \in P
  BY <1>1, FS_EmptySet DEF IsMeansSum
<1>3. ASSUME NEW T \in SUBSET S, T # {}, T \ {c[T]} \in P PROVE T \in P
  <2> DEFINE k == c[T]
             U == T \ {k}
             n == Cardinality(U)
  <2>1. /\ k \in T /\ f[T] = Part(k, den) + f[U]
        /\ f[U] \in Int /\ n * lo <= f[U] /\ f[U] <= n * hi
    BY <1>1, <1>3 DEF IsMeansSum, Chooses
  <2>2. n \in Nat /\ Cardinality(T) = n + 1
    <3>1. IsFiniteSet(T)
      BY FS_Subset
    <3>2. Cardinality(T) \in Nat /\ IsFiniteSet(U) /\ n = Cardinality(T) - 1
      BY <2>1, <3>1, FS_RemoveElement, FS_CardinalityType
    <3>3. n \in Nat
      BY <3>2, FS_CardinalityType
    <3> HIDE DEF n
    <3> QED BY <3>2, <3>3
  <2>3. Part(k, den) \in Int /\ lo <= Part(k, den) /\ Part(k, den) <= hi
    BY <2>1
  <2> HIDE DEF n, k
  <2>4. (n + 1) * lo = n * lo + lo /\ (n + 1) * hi = n * hi + hi
    BY <2>2
  <2>5. n * lo \in Int /\ n * hi \in Int
    BY <2>2
  <2> QED BY <2>1, <2>2, <2>3, <2>4, <2>5
<1>4. Chooses(c, S)
  BY <1>1 DEF IsMeansSum
<1>5. \A T \in SUBSET S : T \in P
  <2> HIDE DEF P
  <2> QED BY <1>2, <1>3, <1>4, ChainInduction
<1>6. S \in P
  BY <1>5
<1> QED BY <1>1, <1>6 DEF IsMeansSum

\* Both means are fractions.
LEMMA MeanType ==
  ASSUME NEW S, IsFiniteSet(S), S # {}, \A x \in S : x.offset \in Int
  PROVE  Mean(S) \in Fraction
<1>1. Cardinality(S) \in Nat \ {0} /\ SumOf(S) \in Int
  BY SumType, FS_EmptySet, FS_CardinalityType
<1> QED BY <1>1, FracValue DEF Mean, Fraction

LEMMA MeanOfMeansType ==
  ASSUME NEW S, IsFiniteSet(S), S # {}, \A x \in S : x.mean \in Fraction
  PROVE  MeanOfMeans(S) \in Fraction
<1>1. Cardinality(S) \in Nat \ {0}
  BY FS_EmptySet, FS_CardinalityType
<1>2. CommonDen(S) \in Nat \ {0}
  BY CommonDenType
<1>3. SumOfMeans(S, CommonDen(S)) \in Int
  BY <1>2, SumOfMeansType
<1>4. CommonDen(S) * Cardinality(S) \in Nat \ {0}
  BY <1>1, <1>2
<1> QED BY <1>3, <1>4, FracValue DEF MeanOfMeans, Fraction

\* A finite non-empty set of integers has a greatest element, which Max finds.
LEMMA MaxFinite ==
  ASSUME NEW S \in SUBSET Int, IsFiniteSet(S), S # {}
  PROVE  Max(S) \in S /\ \A y \in S : Max(S) >= y
<1> DEFINE P == {T \in SUBSET S : T # {} => \E x \in T : \A y \in T : x >= y}
           c == [T \in SUBSET S |-> CHOOSE x \in T : TRUE]
<1>1. Chooses(c, S)
  BY DEF Chooses
<1> HIDE DEF c
<1>2. ASSUME NEW T \in SUBSET S, T # {}, T \ {c[T]} \in P PROVE T \in P
  <2> DEFINE U == T \ {c[T]}
  <2>1. c[T] \in T /\ c[T] \in Int
    BY <1>1, <1>2 DEF Chooses
  <2>2. CASE U = {}
    <3>1. \A y \in T : c[T] >= y
      BY <2>1, <2>2
    <3> QED BY <2>1, <3>1
  <2>3. CASE U # {}
    <3>1. PICK x \in U : \A y \in U : x >= y
      BY <1>2, <2>3
    <3>2. CASE x >= c[T]
      <4>1. \A y \in T : x >= y
        BY <3>1, <3>2
      <4> QED BY <4>1
    <3>3. CASE ~ (x >= c[T])
      <4>1. \A y \in T : c[T] >= y
        BY <2>1, <3>1, <3>3
      <4> QED BY <2>1, <4>1
    <3> QED BY <3>2, <3>3
  <2> QED BY <2>2, <2>3
<1>3. \A T \in SUBSET S : T \in P
  <2>1. {} \in P
    OBVIOUS
  <2> HIDE DEF P
  <2> QED BY <1>1, <1>2, <2>1, ChainInduction
<1>4. \E x \in S : \A y \in S : x >= y
  BY <1>3
<1> QED BY <1>4 DEF Max

\* A quotient of a sum s of n terms compares with a/b as s with n times a*q,
\* where b*q is the common denominator.
LEMMA MeanBound ==
  ASSUME NEW a \in Int, NEW b \in Nat \ {0}, NEW q \in Nat \ {0}, NEW n \in Nat \ {0},
         NEW s \in Int, NEW N \in Int, NEW D \in Nat \ {0},
         N * ((b * q) * n) = s * D
  PROVE  /\ n * (a * q) <= s => a * D <= N * b
         /\ s <= n * (a * q) => N * b <= a * D
<1> DEFINE k == q * n
<1>1. k \in Nat \ {0}
  OBVIOUS
<1>2. (n * (a * q)) * D = (a * D) * k /\ N * ((b * q) * n) = (N * b) * k
  OBVIOUS
<1>3. n * (a * q) \in Int /\ a * D \in Int /\ N * b \in Int
  OBVIOUS
<1>4. n * (a * q) <= s => (n * (a * q)) * D <= s * D
  BY <1>3
<1>5. s <= n * (a * q) => s * D <= (n * (a * q)) * D
  BY <1>3
<1> HIDE DEF k
<1>6. \A x, y \in Int : x * k <= y * k => x <= y
  BY <1>1
<1> QED BY <1>2, <1>3, <1>4, <1>5, <1>6

\* The mean of means lies between two of them.
LEMMA MeanBetween ==
  ASSUME NEW S, IsFiniteSet(S), S # {}, \A x \in S : x.mean \in Fraction
  PROVE  \E low, high \in S : /\ ~Exceeds(low.mean, MeanOfMeans(S))
                              /\ ~Exceeds(MeanOfMeans(S), high.mean)
<1> DEFINE den == CommonDen(S)
           n == Cardinality(S)
           s == SumOfMeans(S, den)
           M == MeanOfMeans(S)
<1>1. /\ den \in Nat \ {0}
      /\ \A x \in S : \E q \in Nat : den = x.mean.den * q
  BY CommonDenType
<1>2. s \in Int
  BY <1>1, SumOfMeansType
<1>3. n \in Nat \ {0}
  BY FS_EmptySet, FS_CardinalityType
<1>4. M.num \in Int /\ M.den \in Nat \ {0} /\ M.num * (den * n) = s * M.den
  <2>1. den * n \in Nat \ {0}
    BY <1>1, <1>3
  <2> HIDE DEF den, n, s
  <2> QED BY <1>2, <2>1, FracValue DEF MeanOfMeans, Fraction, den, n, s
<1> HIDE DEF den, n, M
<1>5. ASSUME NEW x \in S
      PROVE  /\ x.mean.num \in Int /\ x.mean.den \in Nat \ {0} /\ Part(x, den) \in Int
             /\ \E q \in Nat \ {0} : den = x.mean.den * q /\ Part(x, den) = x.mean.num * q
  <2>1. x.mean.num \in Int /\ x.mean.den \in Nat \ {0}
    BY DEF Fraction
  <2>2. PICK q \in Nat : den = x.mean.den * q
    BY <1>1
  <2>3. q # 0
    BY <1>1, <2>1, <2>2
  <2>4. den \div x.mean.den = q
    <3> DEFINE d == x.mean.den
    <3> HIDE DEF d
    <3>1. d \in Nat \ {0} /\ den = d * q
      BY <2>1, <2>2 DEF d
    <3>2. den \div d \in Int /\ d * (den \div d) <= d * q /\ d * q < d * (den \div d) + d
      BY <1>1, <3>1, DivFloor
    <3>3. \A y \in Int : d * y <= d * q /\ d * q < d * y + d => y = q
      <4> SUFFICES ASSUME NEW y \in Int, d * y <= d * q, d * q < d * y + d PROVE y = q
        OBVIOUS
      <4>1. y <= q
        BY <3>1
      <4>2. d * (y + 1) = d * y + d /\ y + 1 \in Int
        BY <3>1
      <4>3. d * q < d * (y + 1)
        BY <4>2
      <4>4. q < y + 1
        BY <3>1, <4>2, <4>3
      <4> QED BY <4>1, <4>4
    <3> QED BY <3>2, <3>3 DEF d
  <2>5. x.mean.num * q \in Int
    BY <2>1
  <2> QED BY <2>1, <2>2, <2>3, <2>4, <2>5 DEF Part
<1> DEFINE N == {Part(x, den) : x \in S}
           L == {0 - Part(x, den) : x \in S}
           f == [x \in S |-> Part(x, den)]
           g == [x \in S |-> 0 - Part(x, den)]
<1>6. N \in SUBSET Int /\ L \in SUBSET Int /\ N # {} /\ L # {}
  BY <1>5
<1>7. IsFiniteSet(N) /\ IsFiniteSet(L)
  <2>1. f \in Surjection(S, N) /\ g \in Surjection(S, L)
    BY DEF Surjection
  <2> HIDE DEF f, g, N, L
  <2> QED BY <2>1, FS_Surjection
<1>8. Max(N) \in N /\ (\A y \in N : Max(N) >= y) /\ Max(L) \in L /\ (\A y \in L : Max(L) >= y)
  <2> HIDE DEF N, L
  <2> QED BY <1>6, <1>7, MaxFinite
<1>9. PICK high \in S : Part(high, den) = Max(N)
  BY <1>8
<1>10. PICK low \in S : 0 - Part(low, den) = Max(L)
  BY <1>8
<1> DEFINE lo == Part(low, den)
           hi == Part(high, den)
<1>11. lo \in Int /\ hi \in Int
  BY <1>5
<1>12. \A x \in S : /\ Part(x, den) \in Int
                     /\ lo <= Part(x, den) /\ Part(x, den) <= hi
  <2> SUFFICES ASSUME NEW x \in S PROVE lo <= Part(x, den) /\ Part(x, den) <= hi
    BY <1>5
  <2>1. Part(x, den) \in Int /\ Part(x, den) <= Max(N) /\ 0 - Part(x, den) <= Max(L)
    BY <1>5, <1>6, <1>8
  <2> QED BY <1>9, <1>10, <1>11, <2>1
<1> HIDE DEF lo, hi, s
<1>13. n * lo <= s /\ s <= n * hi
  BY <1>1, <1>11, <1>12, SumOfMeansBounds DEF n, s
<1>14. ~Exceeds(low.mean, M)
  <2>1. PICK q \in Nat \ {0} : den = low.mean.den * q /\ lo = low.mean.num * q
    BY <1>5 DEF lo
  <2>2. low.mean.num \in Int /\ low.mean.den \in Nat \ {0}
    BY <1>5
  <2>3. low.mean.num * M.den <= M.num * low.mean.den
    BY <1>2, <1>3, <1>4, <1>13, <2>1, <2>2, MeanBound
  <2>4. low.mean.num * M.den \in Int /\ M.num * low.mean.den \in Int
    BY <1>4, <2>2
  <2> QED BY <2>3, <2>4 DEF Exceeds
<1>15. ~Exceeds(M, high.mean)
  <2>1. PICK q \in Nat \ {0} : den = high.mean.den * q /\ hi = high.mean.num * q
    BY <1>5 DEF hi
  <2>2. high.mean.num \in Int /\ high.mean.den \in Nat \ {0}
    BY <1>5
  <2>3. M.num * high.mean.den <= high.mean.num * M.den
    BY <1>2, <1>3, <1>4, <1>13, <2>1, <2>2, MeanBound
  <2>4. high.mean.num * M.den \in Int /\ M.num * high.mean.den \in Int
    BY <1>4, <2>2
  <2> QED BY <2>3, <2>4 DEF Exceeds
<1> QED BY <1>14, <1>15 DEF M

-----------------------------------------------------------------------------
(* BuildCtx *)

\* The slots of finitely many samples are finitely many integers.
LEMMA SlotsFinite ==
  ASSUME NEW samples, IsFiniteSet(samples), \A s \in samples : s.at \in Int
  PROVE  IsFiniteSet(Slots(samples)) /\ Slots(samples) \in SUBSET Int
<1> DEFINE f == [s \in samples |-> WindowStart(s.at)]
<1>1. f \in Surjection(samples, Slots(samples))
  BY DEF Surjection, Slots
<1>2. IsFiniteSet(Slots(samples))
  BY <1>1, FS_Surjection
<1>3. ASSUME NEW s \in samples PROVE WindowStart(s.at) \in Int
  BY BaselineAssumption, DivFloor DEF WindowStart
<1> QED BY <1>2, <1>3 DEF Slots

\* Build is the last of the tables its loop makes, one slot after the other.
IsBuild(f, samples, windows) ==
  LET S == SlotsToBuild(samples, windows)
  IN  /\ f[{}] = Existing(windows)
      /\ Build(samples, windows) = f[S].rows
      /\ \A T \in SUBSET S : T # {} =>
           f[T] = Insert(f[T \ {Max(T)}],
                         NewWindow(Max(T), samples, f[T \ {Max(T)}].prev))

\* The loop of BuildCtx as a function of the slots it has done.
LEMMA BuildFold ==
  ASSUME NEW samples, IsFiniteSet(samples), \A s \in samples : s.at \in Int,
         NEW windows
  PROVE  \E f : IsBuild(f, samples, windows)
<1> DEFINE S == SlotsToBuild(samples, windows)
           M == {w.mean : w \in windows} \cup {Mean(SamplesIn(start, samples)) : start \in S}
           R == windows \cup {NewWindow(x[1], samples, x[2]) : x \in S \X (SUBSET M)}
           A == [rows : SUBSET R, prev : SUBSET M]
           c == [T \in SUBSET S |-> Max(T)]
           New(start, acc) == Insert(acc, NewWindow(start, samples, acc.prev))
           F == [p \in S \X A |-> New(p[1], p[2])]
           Equation(f) == f = [T \in SUBSET S |->
                                 IF T = {} THEN Existing(windows)
                                 ELSE New(Max(T), f[T \ {Max(T)}])]
           fold == CHOOSE f : Equation(f)
<1>1. IsFiniteSet(S) /\ S \in SUBSET Int
  BY SlotsFinite, FS_Subset DEF SlotsToBuild
<1>2. Chooses(c, S)
  <2> SUFFICES ASSUME NEW T \in SUBSET S, T # {} PROVE Max(T) \in T
    BY DEF Chooses
  <2> QED BY <1>1, MaxFinite, FS_Subset
<1>3. Existing(windows) \in A
  BY DEF Existing, Newest, Stable
<1>4. ASSUME NEW start \in S, NEW acc \in A PROVE New(start, acc) \in A
  <2> DEFINE w == NewWindow(start, samples, acc.prev)
  <2>1. w \in R
    <3>1. <<start, acc.prev>> \in S \X (SUBSET M)
      OBVIOUS
    <3> QED BY <3>1
  <2>2. w.mean \in M
    BY DEF NewWindow
  <2> HIDE DEF w, R, M
  <2>3. Insert(acc, w) \in A
    BY <2>1, <2>2 DEF Insert
  <2> QED BY <2>3 DEF w
<1>5. F \in [S \X A -> A]
  BY <1>4
<1> HIDE DEF A, New
<1>6. \A x \in S, y \in A : F[<<x, y>>] = New(x, y)
  OBVIOUS
<1> HIDE DEF F
<1>7. PICK f \in [SUBSET S -> A] : IsFold(f, S, c, Existing(windows), F)
  <2> HIDE DEF c, S
  <2> QED BY <1>1, <1>2, <1>3, <1>5, FoldExists
<1>8. Equation(f)
  <2>1. ASSUME NEW T \in SUBSET S, T # {}
        PROVE  f[T] = New(Max(T), f[T \ {Max(T)}])
    <3>1. c[T] = Max(T)
      OBVIOUS
    <3> HIDE DEF c
    <3>2. c[T] \in S /\ f[T \ {c[T]}] \in A /\ f[T] = F[<<c[T], f[T \ {c[T]}]>>]
      BY <1>2, <1>7, <2>1 DEF Chooses, IsFold
    <3> QED BY <1>6, <3>1, <3>2
  <2> HIDE DEF c
  <2> QED BY <1>7, <2>1 DEF IsFold
<1>9. Equation(fold)
  BY <1>8
<1>10. Build(samples, windows) = fold[S].rows
  BY DEF Build, MapThenFoldSet, New
<1> HIDE DEF fold, S, c
<1>11. fold[{}] = Existing(windows)
  BY <1>9
<1>12. \A T \in SUBSET S : T # {} => fold[T] = New(Max(T), fold[T \ {Max(T)}])
  BY <1>9
<1> QED BY <1>10, <1>11, <1>12 DEF New, S, IsBuild

\* The windows of a clock have a start of their own.
UniqueStarts(rows) == \A v, w \in rows : v.start = w.start => v = w

\* What the loop has made after the slots of T.
BuiltRows(T, rows, samples, windows) ==
  /\ windows \subseteq rows
  /\ \A w \in rows \ windows : w.start \in T /\ \E p : w = NewWindow(w.start, samples, p)
  /\ \A start \in T : \E w \in rows : w.start = start
  /\ UniqueStarts(windows) => UniqueStarts(rows)
  /\ IsFiniteSet(windows) => IsFiniteSet(rows)

\* Build keeps the windows there are and adds one for each slot without.
LEMMA BuildRows ==
  ASSUME NEW samples, IsFiniteSet(samples), \A s \in samples : s.at \in Int,
         NEW windows
  PROVE  BuiltRows(SlotsToBuild(samples, windows), Build(samples, windows), samples, windows)
<1> DEFINE S == SlotsToBuild(samples, windows)
           c == [T \in SUBSET S |-> Max(T)]
<1>1. IsFiniteSet(S) /\ S \in SUBSET Int
  BY SlotsFinite, FS_Subset DEF SlotsToBuild
<1>2. Chooses(c, S)
  <2> SUFFICES ASSUME NEW T \in SUBSET S, T # {} PROVE Max(T) \in T
    BY DEF Chooses
  <2> QED BY <1>1, MaxFinite, FS_Subset
<1>0. PICK f : IsBuild(f, samples, windows)
  BY BuildFold
<1>3. /\ f[{}] = Existing(windows)
      /\ Build(samples, windows) = f[S].rows
      /\ \A T \in SUBSET S : T # {} =>
           f[T] = Insert(f[T \ {Max(T)}],
                         NewWindow(Max(T), samples, f[T \ {Max(T)}].prev))
  BY <1>0 DEF IsBuild
<1>4. \A w \in windows : w.start \notin S
  BY DEF SlotsToBuild
<1> DEFINE P == {T \in SUBSET S : BuiltRows(T, f[T].rows, samples, windows)}
<1>5. {} \in P
  <2>1. f[{}].rows = windows
    BY <1>3 DEF Existing
  <2> QED BY <2>1 DEF BuiltRows
<1> HIDE DEF S
<1>6. ASSUME NEW T \in SUBSET S, T # {}, T \ {c[T]} \in P PROVE T \in P
  <2> DEFINE U == T \ {c[T]}
             acc == f[U]
             new == NewWindow(c[T], samples, acc.prev)
  <2>1. c[T] = Max(T)
    OBVIOUS
  <2> HIDE DEF c
  <2>2. c[T] \in T /\ c[T] \in S
    BY <1>2, <1>6 DEF Chooses
  <2>3. f[T] = Insert(acc, new)
    BY <1>3, <1>6, <2>1
  <2>4. f[T].rows = acc.rows \cup {new}
    BY <2>3 DEF Insert
  <2>5. new.start = c[T] /\ new = NewWindow(new.start, samples, acc.prev)
    BY DEF NewWindow
  <2>6. BuiltRows(U, acc.rows, samples, windows)
    BY <1>6
  <2> HIDE DEF acc, new
  <2>7. \A w \in acc.rows : w.start # c[T]
    BY <1>4, <2>2, <2>6 DEF BuiltRows
  <2>8. windows \subseteq f[T].rows
    BY <2>4, <2>6 DEF BuiltRows
  <2>9. ASSUME NEW w \in f[T].rows \ windows
        PROVE  w.start \in T /\ \E p : w = NewWindow(w.start, samples, p)
    BY <2>2, <2>4, <2>5, <2>6 DEF BuiltRows
  <2>10. ASSUME NEW start \in T PROVE \E w \in f[T].rows : w.start = start
    BY <2>4, <2>5, <2>6 DEF BuiltRows
  <2>11. UniqueStarts(windows) => UniqueStarts(f[T].rows)
    BY <2>4, <2>5, <2>6, <2>7 DEF BuiltRows, UniqueStarts
  <2>12. IsFiniteSet(windows) => IsFiniteSet(f[T].rows)
    BY <2>4, <2>6, FS_AddElement DEF BuiltRows
  <2> QED BY <2>8, <2>9, <2>10, <2>11, <2>12 DEF BuiltRows
<1>7. \A T \in SUBSET S : T \in P
  <2> HIDE DEF P, c
  <2>1. IsFiniteSet(S) /\ Chooses(c, S)
    BY <1>1, <1>2
  <2>2. \A T \in SUBSET S : T # {} /\ T \ {c[T]} \in P => T \in P
    BY <1>6
  <2> QED BY <1>5, <2>1, <2>2, ChainInduction
<1> QED BY <1>3, <1>7 DEF S

\* The windows the loop has cut so far: the reference of each is the last stable
\* one cut before it, of the first ones the newest stable one there was.
LastStableOf(rows, windows) ==
  {v.mean : v \in Newest(IF Stable(rows) = {} THEN Stable(windows) ELSE Stable(rows))}
Earlier(start, rows) == {u \in rows : u.start < start}
BuiltInOrder(T, acc, samples, windows) ==
  LET new == acc.rows \ windows
  IN  /\ \A w \in new :
           /\ w.start \in T
           /\ w = NewWindow(w.start, samples, LastStableOf(Earlier(w.start, new), windows))
      /\ acc.prev = LastStableOf(new, windows)
      /\ windows \subseteq acc.rows

\* BuildCtx compares a window it cuts with the last stable one it cut before, the
\* first ones with the newest stable one there was.
LEMMA BuildReference ==
  ASSUME NEW samples, IsFiniteSet(samples), \A s \in samples : s.at \in Int,
         NEW windows
  PROVE  LET new == Build(samples, windows) \ windows
         IN  \A w \in new :
               w = NewWindow(w.start, samples, LastStableOf(Earlier(w.start, new), windows))
<1> DEFINE S == SlotsToBuild(samples, windows)
           c == [T \in SUBSET S |-> Max(T)]
<1>1. IsFiniteSet(S) /\ S \in SUBSET Int
  BY SlotsFinite, FS_Subset DEF SlotsToBuild
<1>2. \A T \in SUBSET S : T # {} => Max(T) \in T /\ \A y \in T : Max(T) >= y
  BY <1>1, MaxFinite, FS_Subset
<1>0. PICK f : IsBuild(f, samples, windows)
  BY BuildFold
<1>3. /\ f[{}] = Existing(windows)
      /\ Build(samples, windows) = f[S].rows
      /\ \A T \in SUBSET S : T # {} =>
           f[T] = Insert(f[T \ {Max(T)}],
                         NewWindow(Max(T), samples, f[T \ {Max(T)}].prev))
  BY <1>0 DEF IsBuild
<1>4. \A w \in windows : w.start \notin S
  BY DEF SlotsToBuild
<1> DEFINE P == {T \in SUBSET S : BuiltInOrder(T, f[T], samples, windows)}
<1>5. {} \in P
  <2>1. f[{}].rows = windows /\ f[{}].prev = {v.mean : v \in Newest(Stable(windows))}
    BY <1>3 DEF Existing
  <2>2. f[{}].rows \ windows = {} /\ Stable({}) = {}
    BY <2>1 DEF Stable
  <2> QED BY <2>1, <2>2 DEF BuiltInOrder, LastStableOf
<1> HIDE DEF S
<1>6. ASSUME NEW T \in SUBSET S, T # {}, T \ {c[T]} \in P PROVE T \in P
  <2> DEFINE k == Max(T)
             U == T \ {k}
             acc == f[U]
             w0 == NewWindow(k, samples, acc.prev)
             old == acc.rows \ windows
             new == f[T].rows \ windows
  <2>1. c[T] = k
    OBVIOUS
  <2>2. k \in T /\ k \in S /\ k \in Int /\ \A y \in U : y \in Int /\ y < k
    <3>1. k \in T /\ \A y \in T : k >= y
      BY <1>2, <1>6
    <3>2. k \in S /\ k \in Int /\ \A y \in T : y \in Int
      BY <1>1, <3>1
    <3> HIDE DEF k
    <3> QED BY <3>1, <3>2
  <2>3. f[T] = Insert(acc, w0)
    BY <1>3, <1>6
  <2>4. /\ f[T].rows = acc.rows \cup {w0}
        /\ f[T].prev = IF w0.status = "stable" THEN {w0.mean} ELSE acc.prev
    BY <2>3 DEF Insert
  <2>5. w0.start = k
    BY DEF NewWindow
  <2>6. BuiltInOrder(U, acc, samples, windows)
    BY <1>6, <2>1
  <2> HIDE DEF k, acc
  <2>7. \A w \in old : w.start \in Int /\ w.start < k
    BY <2>2, <2>6 DEF BuiltInOrder
  <2>8. /\ \A w \in old : w.start \in T /\ w = NewWindow(w.start, samples,
                                          LastStableOf(Earlier(w.start, old), windows))
        /\ acc.prev = LastStableOf(old, windows)
        /\ windows \subseteq acc.rows
    BY <2>6 DEF BuiltInOrder
  <2>w. w0 = NewWindow(k, samples, acc.prev)
    OBVIOUS
  <2> HIDE DEF w0
  <2>9. new = old \cup {w0}
    BY <1>4, <2>2, <2>4, <2>5
  <2> HIDE DEF old, new
  <2>10. \A w \in old : Earlier(w.start, new) = Earlier(w.start, old)
    <3> SUFFICES ASSUME NEW w \in old PROVE ~ (w0.start < w.start)
      BY <2>9 DEF Earlier
    <3> QED BY <2>2, <2>5, <2>7
  <2>11. Earlier(k, new) = old
    BY <2>2, <2>5, <2>7, <2>9 DEF Earlier
  <2>12. \A w \in new : /\ w.start \in T
                        /\ w = NewWindow(w.start, samples, LastStableOf(Earlier(w.start, new), windows))
    BY <2>2, <2>5, <2>8, <2>9, <2>10, <2>11, <2>w
  <2>13. f[T].prev = LastStableOf(new, windows)
    <3>1. CASE w0.status = "stable"
      <4>1. Stable(new) = Stable(old) \cup {w0}
        BY <2>9, <3>1 DEF Stable
      <4>2. \A v \in Stable(old) : v.start < w0.start /\ v.start \in Int
        BY <2>5, <2>7 DEF Stable
      <4>3. Newest(Stable(new)) = {w0}
        BY <2>2, <2>5, <4>1, <4>2 DEF Newest
      <4> QED BY <2>4, <3>1, <4>1, <4>3 DEF LastStableOf
    <3>2. CASE w0.status # "stable"
      <4>1. Stable(new) = Stable(old)
        BY <2>9, <3>2 DEF Stable
      <4> QED BY <2>4, <2>8, <3>2, <4>1 DEF LastStableOf
    <3> QED BY <3>1, <3>2
  <2>14. windows \subseteq f[T].rows
    BY <2>4, <2>8
  <2> QED BY <2>12, <2>13, <2>14 DEF BuiltInOrder, new
<1>7. \A T \in SUBSET S : T \in P
  <2>1. IsFiniteSet(S) /\ Chooses(c, S)
    BY <1>1, <1>2 DEF Chooses
  <2> HIDE DEF P, c
  <2>2. \A T \in SUBSET S : T # {} /\ T \ {c[T]} \in P => T \in P
    BY <1>6
  <2> QED BY <1>5, <2>1, <2>2, ChainInduction
<1>8. BuiltInOrder(S, f[S], samples, windows)
  BY <1>7
<1> QED BY <1>3, <1>8 DEF BuiltInOrder

-----------------------------------------------------------------------------
(* DetectCtx *)

\* Latest and Earliest choose what their names say.
LEMMA LatestExists ==
  ASSUME NEW S, IsFiniteSet(S), S # {}, \A w \in S : w.start \in Int
  PROVE  Latest(S) \in S /\ \A v \in S : v.start <= Latest(S).start
<1> DEFINE N == {w.start : w \in S}
           f == [w \in S |-> w.start]
<1>1. f \in Surjection(S, N)
  BY DEF Surjection
<1>2. IsFiniteSet(N)
  BY <1>1, FS_Surjection
<1>3. N \in SUBSET Int /\ N # {}
  OBVIOUS
<1>4. Max(N) \in N /\ \A y \in N : Max(N) >= y
  BY <1>2, <1>3, MaxFinite
<1>5. PICK w \in S : w.start = Max(N)
  BY <1>4
<1>6. \A v \in S : v.start <= w.start
  BY <1>4, <1>5
<1> QED BY <1>6 DEF Latest

LEMMA EarliestExists ==
  ASSUME NEW S, IsFiniteSet(S), S # {}, \A w \in S : w.start \in Int
  PROVE  Earliest(S) \in S /\ \A v \in S : Earliest(S).start <= v.start
<1> DEFINE N == {0 - w.start : w \in S}
           f == [w \in S |-> 0 - w.start]
<1>1. f \in Surjection(S, N)
  BY DEF Surjection
<1>2. IsFiniteSet(N)
  BY <1>1, FS_Surjection
<1>3. N \in SUBSET Int /\ N # {}
  OBVIOUS
<1>4. Max(N) \in N /\ \A y \in N : Max(N) >= y
  BY <1>2, <1>3, MaxFinite
<1>5. PICK w \in S : 0 - w.start = Max(N)
  BY <1>4
<1>6. \A v \in S : w.start <= v.start
  <2> SUFFICES ASSUME NEW v \in S PROVE w.start <= v.start
    OBVIOUS
  <2>1. 0 - w.start >= 0 - v.start
    BY <1>4, <1>5
  <2>2. w.start \in Int /\ v.start \in Int
    OBVIOUS
  <2> QED BY <2>1, <2>2
<1> QED BY <1>6 DEF Earliest

\* The scan is the last of the states its loop reaches, one window after the other.
Unscanned == [stable |-> {}, run |-> {}, out |-> {}]
IsScan(f, windows, anchors) ==
  /\ f[{}] = Unscanned
  /\ Detect(windows, anchors) = Closed(f[windows], anchors).out
  /\ \A T \in SUBSET windows : T # {} =>
       f[T] = Scan(Latest(T), f[T \ {Latest(T)}], anchors)
  /\ \A T \in SUBSET windows :
       /\ f[T] = [stable |-> f[T].stable, run |-> f[T].run, out |-> f[T].out]
       /\ f[T].run \subseteq windows

\* The loop of DetectCtx as a function of the windows it has seen.
LEMMA DetectFold ==
  ASSUME NEW windows, IsFiniteSet(windows), \A w \in windows : w.start \in Int,
         NEW anchors
  PROVE  \E f : IsScan(f, windows, anchors)
<1> DEFINE M == {w.mean : w \in windows}
           G == {Segment(x[1], x[2]) : x \in (SUBSET windows) \X (SUBSET M)}
           A == [stable : SUBSET M, run : SUBSET windows, out : SUBSET G]
           c == [T \in SUBSET windows |-> Latest(T)]
           F == [p \in windows \X A |-> Scan(p[1], p[2], anchors)]
           Equation(f) == f = [T \in SUBSET windows |->
                                 IF T = {} THEN Unscanned
                                 ELSE Scan(Latest(T), f[T \ {Latest(T)}], anchors)]
           fold == CHOOSE f : Equation(f)
           P == {T \in SUBSET windows : fold[T] \in A}
<1>1. Chooses(c, windows)
  <2> SUFFICES ASSUME NEW T \in SUBSET windows, T # {} PROVE Latest(T) \in T
    BY DEF Chooses
  <2>1. IsFiniteSet(T)
    BY FS_Subset
  <2> QED BY <2>1, LatestExists
<1>2. Unscanned \in A
  BY DEF Unscanned
<1>3. ASSUME NEW w \in windows, NEW acc \in A PROVE Scan(w, acc, anchors) \in A
  <2>1. Segment(acc.run, acc.stable) \in G
    <3>1. <<acc.run, acc.stable>> \in (SUBSET windows) \X (SUBSET M)
      OBVIOUS
    <3> QED BY <3>1
  <2> HIDE DEF G
  <2>2. Closed(acc, anchors) \in A
    BY <2>1 DEF Closed
  <2>3. [acc EXCEPT !.run = @ \cup {w}] \in A
    OBVIOUS
  <2>4. [Closed(acc, anchors) EXCEPT !.stable = {w.mean}] \in A
    <3>1. {w.mean} \in SUBSET M
      OBVIOUS
    <3> HIDE DEF M
    <3> QED BY <2>2, <3>1
  <2> HIDE DEF A
  <2> QED BY <2>2, <2>3, <2>4 DEF Scan
<1>4. F \in [windows \X A -> A]
  BY <1>3
<1>5. \A x \in windows, y \in A : F[<<x, y>>] = Scan(x, y, anchors)
  <2> HIDE DEF A
  <2> QED BY <1>4
<1>6. PICK f \in [SUBSET windows -> A] : IsFold(f, windows, c, Unscanned, F)
  <2> HIDE DEF c, F, A
  <2> QED BY <1>1, <1>2, <1>4, FoldExists
<1>7. Equation(f)
  <2> HIDE DEF F, A
  <2>1. ASSUME NEW T \in SUBSET windows, T # {}
        PROVE  f[T] = Scan(Latest(T), f[T \ {Latest(T)}], anchors)
    <3>1. c[T] = Latest(T)
      OBVIOUS
    <3> HIDE DEF c
    <3>2. c[T] \in windows /\ f[T \ {c[T]}] \in A /\ f[T] = F[<<c[T], f[T \ {c[T]}]>>]
      BY <1>1, <1>6, <2>1 DEF Chooses, IsFold
    <3> QED BY <1>5, <3>1, <3>2
  <2> HIDE DEF c
  <2> QED BY <1>6, <2>1 DEF IsFold
<1>8. Equation(fold)
  BY <1>7
<1>9. Detect(windows, anchors) = Closed(fold[windows], anchors).out
  BY DEF Detect, MapThenFoldSet, Unscanned
<1> HIDE DEF fold, F
<1>10. fold[{}] = Unscanned
  BY <1>8
<1>11. \A T \in SUBSET windows : T # {} => fold[T] = Scan(Latest(T), fold[T \ {Latest(T)}], anchors)
  BY <1>8
<1>12. {} \in P
  BY <1>2, <1>10
<1>13. ASSUME NEW T \in SUBSET windows, T # {}, T \ {c[T]} \in P PROVE T \in P
  <2> HIDE DEF A
  <2>1. c[T] = Latest(T)
    OBVIOUS
  <2> HIDE DEF c
  <2>2. c[T] \in windows /\ fold[T \ {c[T]}] \in A
    BY <1>1, <1>13 DEF Chooses
  <2> QED BY <1>3, <1>11, <1>13, <2>1, <2>2
<1>14. \A T \in SUBSET windows : T \in P
  <2> HIDE DEF P, c
  <2>1. \A T \in SUBSET windows : T # {} /\ T \ {c[T]} \in P => T \in P
    BY <1>13
  <2> QED BY <1>1, <1>12, <2>1, ChainInduction
<1>15. ASSUME NEW T \in SUBSET windows
       PROVE  /\ fold[T] = [stable |-> fold[T].stable, run |-> fold[T].run, out |-> fold[T].out]
              /\ fold[T].run \subseteq windows
  <2>1. fold[T] \in A
    BY <1>14
  <2> HIDE DEF M, G
  <2> QED BY <2>1
<1> QED BY <1>9, <1>10, <1>11, <1>15 DEF IsScan

\* What the scan has after the windows of T: segments of runs in T that start at
\* different windows, none of them covered, all before the open run.
Reference(st, T) == st = {} \/ \E w \in T : st = {w.mean}
Inserted(T, out, anchors) ==
  \A seg \in out :
    /\ seg.start \notin anchors
    /\ \E run \in SUBSET T : \E st : run # {} /\ Reference(st, T) /\ seg = Segment(run, st)
Ahead(out, run) == \A seg \in out : \A w \in run : seg.start < w.start
ScanRows(T, acc, anchors) ==
  /\ acc.run \subseteq T /\ Reference(acc.stable, T)
  /\ Inserted(T, acc.out, anchors) /\ Ahead(acc.out, acc.run) /\ UniqueStarts(acc.out)

\* What was inserted with fewer windows is still right with more.
LEMMA InsertedMore ==
  ASSUME NEW T, NEW U \in SUBSET T, NEW out, NEW anchors, Inserted(U, out, anchors)
  PROVE  Inserted(T, out, anchors)
<1> SUFFICES ASSUME NEW seg \in out
             PROVE  \E run \in SUBSET T : \E st : run # {} /\ Reference(st, T) /\ seg = Segment(run, st)
  BY DEF Inserted
<1>1. PICK run \in SUBSET U : \E st : run # {} /\ Reference(st, U) /\ seg = Segment(run, st)
  BY DEF Inserted
<1>2. PICK st : run # {} /\ Reference(st, U) /\ seg = Segment(run, st)
  BY <1>1
<1>3. run \in SUBSET T /\ Reference(st, T)
  BY <1>2 DEF Reference
<1> QED BY <1>2, <1>3

\* A segment starts with a window of its run.
LEMMA SegmentStart ==
  ASSUME NEW run, NEW st, IsFiniteSet(run), run # {}, \A w \in run : w.start \in Int
  PROVE  \E w \in run : /\ w = Earliest(run) /\ Segment(run, st).start = w.start
                        /\ \A v \in run : w.start <= v.start
BY EarliestExists DEF Segment

\* Closing the open run keeps ScanRows.
LEMMA ClosedRows ==
  ASSUME NEW T, IsFiniteSet(T), \A w \in T : w.start \in Int,
         NEW acc, NEW anchors, ScanRows(T, acc, anchors)
  PROVE  /\ ScanRows(T, Closed(acc, anchors), anchors)
         /\ Closed(acc, anchors).run = {}
<1> DEFINE seg == Segment(acc.run, acc.stable)
           new == Closed(acc, anchors)
<1>1. new.stable = acc.stable /\ new.run = {}
  BY DEF Closed
<1>2. CASE acc.run = {} \/ Earliest(acc.run).start \in anchors
  <2>1. new.out = acc.out
    BY <1>2 DEF Closed
  <2> HIDE DEF new
  <2>2. Ahead(new.out, new.run)
    BY <1>1 DEF Ahead
  <2> QED BY <1>1, <2>1, <2>2 DEF ScanRows, new
<1>3. CASE ~ (acc.run = {} \/ Earliest(acc.run).start \in anchors)
  <2>1. new.out = acc.out \cup {seg}
    BY <1>3 DEF Closed
  <2>2. acc.run \in SUBSET T /\ IsFiniteSet(acc.run) /\ \A w \in acc.run : w.start \in Int
    BY FS_Subset DEF ScanRows
  <2>3. PICK w \in acc.run : w = Earliest(acc.run) /\ seg.start = w.start
    BY <1>3, <2>2, SegmentStart
  <2>4. seg.start \notin anchors
    BY <1>3, <2>3
  <2>5. \A s \in acc.out : s.start # seg.start
    <3> SUFFICES ASSUME NEW s \in acc.out, s.start = seg.start PROVE FALSE
      OBVIOUS
    <3>1. s.start < w.start
      BY DEF ScanRows, Ahead
    <3>2. w.start \in Int
      BY <2>2
    <3> QED BY <2>3, <3>1, <3>2
  <2>6. Inserted(T, {seg}, anchors)
    BY <1>3, <2>2, <2>4 DEF ScanRows, Inserted
  <2> HIDE DEF new, seg
  <2>7. UniqueStarts(new.out)
    BY <2>1, <2>5 DEF ScanRows, UniqueStarts
  <2>8. Inserted(T, new.out, anchors)
    BY <2>1, <2>6 DEF ScanRows, Inserted
  <2>9. Ahead(new.out, new.run)
    BY <1>1 DEF Ahead
  <2> QED BY <1>1, <2>7, <2>8, <2>9 DEF ScanRows, new
<1> QED BY <1>1, <1>2, <1>3

\* What DetectCtx inserts.
LEMMA DetectRows ==
  ASSUME NEW windows, IsFiniteSet(windows), \A w \in windows : w.start \in Int,
         UniqueStarts(windows), NEW anchors
  PROVE  /\ \A seg \in Detect(windows, anchors) :
              /\ seg.start \notin anchors
              /\ \E run \in SUBSET windows : \E st :
                   run # {} /\ Reference(st, windows) /\ seg = Segment(run, st)
         /\ UniqueStarts(Detect(windows, anchors))
<1> DEFINE c == [T \in SUBSET windows |-> Latest(T)]
<1>1. \A T \in SUBSET windows : IsFiniteSet(T) /\ \A w \in T : w.start \in Int
  BY FS_Subset
<1>2. \A T \in SUBSET windows : T # {} => Latest(T) \in T /\ \A v \in T : v.start <= Latest(T).start
  BY <1>1, LatestExists
<1>3. PICK f : IsScan(f, windows, anchors)
  BY DetectFold
<1> DEFINE P == {T \in SUBSET windows : ScanRows(T, f[T], anchors)}
<1>4. {} \in P
  BY <1>3 DEF IsScan, Unscanned, ScanRows, Reference, UniqueStarts, Inserted, Ahead
<1>5. ASSUME NEW T \in SUBSET windows, T # {}, T \ {c[T]} \in P PROVE T \in P
  <2> DEFINE k == Latest(T)
             U == T \ {k}
             acc == f[U]
             new == Closed(acc, anchors)
  <2>1. c[T] = k
    OBVIOUS
  <2>2. k \in T /\ \A v \in U : v.start < k.start
    <3>1. k \in T /\ \A v \in T : v.start <= k.start
      BY <1>2, <1>5
    <3>2. \A v \in T : v.start = k.start => v = k
      BY <3>1 DEF UniqueStarts
    <3>3. \A v \in T : v.start \in Int
      OBVIOUS
    <3> HIDE DEF k
    <3> QED BY <3>1, <3>2, <3>3
  <2>3. /\ acc = [stable |-> acc.stable, run |-> acc.run, out |-> acc.out]
        /\ f[T] = Scan(k, acc, anchors)
    BY <1>3, <1>5 DEF IsScan
  <2>4. ScanRows(U, acc, anchors)
    BY <1>5, <2>1
  <2>5. U \in SUBSET windows /\ U \subseteq T
    BY <1>5
  <2> HIDE DEF k, acc
  <2>6. ScanRows(U, new, anchors) /\ new.run = {}
    BY <1>1, <2>4, <2>5, ClosedRows
  <2>7. \A st : Reference(st, U) => Reference(st, T)
    BY <2>5 DEF Reference
  <2>8. CASE k.status = "jump"
    <3>1. f[T] = [stable |-> acc.stable, run |-> acc.run \cup {k}, out |-> acc.out]
      BY <2>3, <2>8 DEF Scan
    <3>2. \A seg \in acc.out : seg.start < k.start
      <4> SUFFICES ASSUME NEW seg \in acc.out PROVE seg.start < k.start
        OBVIOUS
      <4>1. PICK run \in SUBSET U : \E st : run # {} /\ seg = Segment(run, st)
        BY <2>4 DEF ScanRows, Inserted
      <4>2. IsFiniteSet(run) /\ \A w \in run : w.start \in Int
        BY <1>1, <2>5
      <4>3. PICK w \in run : seg.start = w.start
        BY <4>1, <4>2, SegmentStart
      <4> QED BY <2>2, <4>3
    <3>3. Inserted(T, acc.out, anchors) /\ Reference(acc.stable, T) /\ acc.run \cup {k} \subseteq T
      BY <2>2, <2>4, <2>5, <2>7, InsertedMore DEF ScanRows
    <3>4. Ahead(acc.out, acc.run \cup {k}) /\ UniqueStarts(acc.out)
      BY <2>4, <3>2 DEF ScanRows, Ahead
    <3>5. ScanRows(T, f[T], anchors)
      BY <3>1, <3>3, <3>4 DEF ScanRows
    <3> QED BY <3>5
  <2>9. CASE k.status = "stable"
    <3>1. f[T] = [stable |-> {k.mean}, run |-> new.run, out |-> new.out]
      BY <2>3, <2>9 DEF Scan, Closed
    <3>2. Reference({k.mean}, T)
      BY <2>2 DEF Reference
    <3> HIDE DEF new
    <3>3. Inserted(T, new.out, anchors) /\ new.run \subseteq T
      BY <2>5, <2>6, InsertedMore DEF ScanRows
    <3>4. Ahead(new.out, new.run) /\ UniqueStarts(new.out)
      BY <2>6 DEF ScanRows
    <3>5. ScanRows(T, f[T], anchors)
      BY <3>1, <3>2, <3>3, <3>4 DEF ScanRows
    <3> QED BY <3>5
  <2>10. CASE k.status \notin {"jump", "stable"}
    <3>1. f[T] = new
      BY <2>3, <2>10 DEF Scan
    <3> HIDE DEF new
    <3>2. ScanRows(T, f[T], anchors)
      BY <2>5, <2>6, <2>7, <3>1, InsertedMore DEF ScanRows
    <3> QED BY <3>2
  <2> QED BY <2>8, <2>9, <2>10
<1>6. \A T \in SUBSET windows : T \in P
  <2>1. Chooses(c, windows)
    BY <1>2 DEF Chooses
  <2> HIDE DEF P, c
  <2>2. \A T \in SUBSET windows : T # {} /\ T \ {c[T]} \in P => T \in P
    BY <1>5
  <2> QED BY <1>4, <2>1, <2>2, ChainInduction
<1>7. ScanRows(windows, f[windows], anchors)
  BY <1>6
<1>8. ScanRows(windows, Closed(f[windows], anchors), anchors)
  BY <1>7, ClosedRows
<1> QED BY <1>3, <1>8 DEF IsScan, ScanRows, Inserted

-----------------------------------------------------------------------------
(* Types of what is inserted *)

\* A normalised reading stays within the unit tolerance.
LEMMA OffsetType ==
  ASSUME NEW hz \in Int, Accepted(hz)
  PROVE  Offset(hz) \in Int /\ 20 * Distance(Offset(hz), 0) <= OffsetScale
<1> DEFINE N == NominalHz  m == OffsetScale \div 20  d == hz - N
           q == (d * OffsetScale) \div N
<1>1. N \in Nat \ {0} /\ OffsetScale \in Nat \ {0} /\ OffsetScale % 20 = 0 /\ d \in Int
  BY BaselineAssumption
<1>2. m \in Int /\ OffsetScale = 20 * m
  BY <1>1, DivExact
<1>3. m \in Nat
  BY <1>1, <1>2
<1>4. 20 * d <= N /\ 20 * (0 - d) <= N
  BY <1>1 DEF Accepted, UnitMismatch, Distance
<1>5. Offset(hz) = q
  BY DEF Offset
<1>6. d * OffsetScale \in Int
  BY <1>1
<1>7. q \in Int /\ N * q <= d * OffsetScale /\ d * OffsetScale < N * q + N
  BY <1>1, <1>6, DivFloor
<1> HIDE DEF q, m, d
<1>8. (20 * d) * m <= N * m /\ (20 * (0 - d)) * m <= N * m
  BY <1>1, <1>3, <1>4
<1>9. d * OffsetScale = (20 * d) * m /\ (20 * (0 - d)) * m = 0 - (20 * d) * m
  BY <1>1, <1>2, <1>3
<1> HIDE DEF N
<1>10. N * q <= N * m
  BY <1>1, <1>2, <1>3, <1>6, <1>7, <1>8, <1>9
<1>11. N * (q + 1 + m) > 0
  <2>1. N * (q + 1 + m) = N * q + N + N * m
    BY <1>1, <1>2, <1>7
  <2>2. N * q \in Int /\ N * m \in Int /\ (20 * d) * m \in Int
    BY <1>1, <1>2, <1>7
  <2> QED BY <1>1, <1>6, <1>7, <1>8, <1>9, <2>1, <2>2
<1>12. q <= m
  BY <1>1, <1>2, <1>7, <1>10
<1>13. q + 1 + m > 0
  BY <1>1, <1>2, <1>7, <1>11
<1>14. 0 - m <= q
  BY <1>2, <1>7, <1>13
<1>15. 20 * Distance(q, 0) <= OffsetScale
  BY <1>2, <1>3, <1>7, <1>12, <1>14 DEF Distance
<1> QED BY <1>5, <1>7, <1>15

\* A slot is a point of the grid; it holds the samples of its own minute.
OnGrid(start) == \E k \in Int : start = k * Width
LEMMA SlotOf ==
  ASSUME NEW t \in Int
  PROVE  /\ WindowStart(t) \in Int /\ OnGrid(WindowStart(t))
         /\ WindowStart(t) <= t /\ t < WindowStart(t) + Width
<1> DEFINE k == t \div Width
<1>1. Width \in Nat \ {0} /\ k \in Int /\ Width * k <= t /\ t < Width * k + Width
  BY BaselineAssumption, DivFloor
<1>2. WindowStart(t) = k * Width
  BY DEF WindowStart
<1> HIDE DEF k
<1>3. k * Width = Width * k /\ k * Width \in Int
  BY <1>1
<1> QED BY <1>1, <1>2, <1>3 DEF OnGrid

\* A window BuildCtx inserts.
LEMMA WindowType ==
  ASSUME NEW samples, IsFiniteSet(samples),
         \A s \in samples : s.at \in Int /\ s.offset \in Int,
         NEW start \in Slots(samples), NEW p
  PROVE  LET w == NewWindow(start, samples, p)
             S == SamplesIn(start, samples)
         IN  /\ w.n \in Nat \ {0} /\ w.mean \in Fraction
             /\ w.status \in {"stable", "jump", "gap"}
             /\ S \subseteq samples /\ S # {} /\ w.n = Cardinality(S) /\ w.mean = Mean(S)
             /\ \A s \in S : s.at >= start /\ s.at < start + Width
<1> DEFINE w == NewWindow(start, samples, p)
           S == SamplesIn(start, samples)
<1>1. S \subseteq samples /\ S # {}
  BY DEF SamplesIn, Slots
<1>2. w.n = Cardinality(S) /\ w.mean = Mean(S) /\ w.status = Classify(S, p)
  BY DEF NewWindow
<1>3. \A s \in S : s.at >= start /\ s.at < start + Width
  BY SlotOf DEF SamplesIn
<1>4. IsFiniteSet(S)
  BY <1>1, FS_Subset
<1> HIDE DEF S, w
<1>5. Cardinality(S) \in Nat \ {0}
  BY <1>1, <1>4, FS_EmptySet, FS_CardinalityType
<1>6. Mean(S) \in Fraction
  BY <1>1, <1>4, MeanType
<1>7. Classify(S, p) \in {"stable", "jump", "gap"}
  BY DEF Classify
<1> QED BY <1>1, <1>2, <1>3, <1>5, <1>6, <1>7 DEF S, w

\* A segment DetectCtx inserts.
LEMMA SegmentType ==
  ASSUME NEW run, IsFiniteSet(run), run # {},
         \A w \in run : w.start \in Int /\ w.mean \in Fraction,
         NEW st \in SUBSET Fraction
  PROVE  LET seg == Segment(run, st)
         IN  /\ \E w \in run : seg.start = w.start
             /\ seg.end \in Int /\ seg.end > seg.start
             /\ IsFrac(seg.magnitude) /\ seg.magnitude.num > 0
             /\ seg.direction \in {"up", "down"}
<1> DEFINE seg == Segment(run, st)
           mean == MeanOfMeans(run)
           base == IF st = {} THEN mean ELSE CHOOSE m \in st : TRUE
           shift == Minus(mean, base)
<1>1. mean \in Fraction
  BY MeanOfMeansType
<1>2. base \in Fraction
  BY <1>1
<1> HIDE DEF mean, base
<1>3. AbsOf(shift) \in Fraction
  BY <1>1, <1>2, MinusType, AbsType
<1>4. /\ seg.start = Earliest(run).start /\ seg.end = Latest(run).start + Width
      /\ seg.magnitude = Larger(AbsOf(shift), MinMagnitude)
      /\ seg.direction \in {"up", "down"}
  BY DEF Segment, WindowEnd, mean, base
<1> HIDE DEF seg
<1>5. /\ Earliest(run) \in run /\ Latest(run) \in run
      /\ Earliest(run).start <= Latest(run).start
  BY EarliestExists, LatestExists
<1>6. seg.end \in Int /\ seg.end > seg.start
  BY <1>4, <1>5, BaselineAssumption
<1>7. IsFrac(Larger(AbsOf(shift), MinMagnitude)) /\ Larger(AbsOf(shift), MinMagnitude).num > 0
  <2> DEFINE a == AbsOf(shift)
  <2>1. a.num \in Int /\ a.den \in Nat \ {0}
    BY <1>3 DEF Fraction
  <2>2. MinMagnitude.num \in Int /\ MinMagnitude.den \in Nat \ {0} /\ MinMagnitude.num > 0
    BY DetectAssumption DEF IsFrac
  <2> HIDE DEF a
  <2>3. a.num * MinMagnitude.den > MinMagnitude.num * a.den => a.num > 0
    <3>1. MinMagnitude.num * a.den > 0
      BY <2>1, <2>2
    <3>2. a.num <= 0 => a.num * MinMagnitude.den <= 0
      BY <2>1, <2>2
    <3>3. a.num * MinMagnitude.den \in Int /\ MinMagnitude.num * a.den \in Int
      BY <2>1, <2>2
    <3> QED BY <2>1, <3>1, <3>2, <3>3
  <2> QED BY <2>1, <2>2, <2>3 DEF Larger, Exceeds, IsFrac, a
<1> QED BY <1>4, <1>5, <1>6, <1>7 DEF seg

-----------------------------------------------------------------------------
(* The magnitude of a segment *)

\* A difference taken back: m/p is c/d plus the difference s/t of the two, l/w
\* is c/d minus u/v, the opposite of that.
LEMMA TakenBack ==
  ASSUME NEW m \in Int, NEW p \in Nat \ {0}, NEW c \in Int, NEW d \in Nat \ {0},
         NEW s \in Int, NEW t \in Nat \ {0}, NEW u \in Int, NEW v \in Nat \ {0},
         NEW l \in Int, NEW w \in Nat \ {0},
         s * (p * d) = (m * d - c * p) * t,
         u * t = 0 - s * v,
         l * (d * v) = (c * v - u * d) * w
  PROVE  l * p = m * w
<1>1. (l * (d * v)) * (t * p) = ((c * v - u * d) * w) * (t * p)
  OBVIOUS
<1>2. ((c * v - u * d) * w) * (t * p) = (c * v * w) * (t * p) - (u * t) * (d * w * p)
  OBVIOUS
<1>3. (u * t) * (d * w * p) = (0 - s * v) * (d * w * p)
  OBVIOUS
<1>4. (0 - s * v) * (d * w * p) = 0 - (s * (p * d)) * (v * w)
  OBVIOUS
<1>5. (s * (p * d)) * (v * w) = ((m * d - c * p) * t) * (v * w)
  OBVIOUS
<1>6. ((m * d - c * p) * t) * (v * w) = (m * w) * (d * v * t) - (c * v * w) * (t * p)
  OBVIOUS
<1>7. (l * (d * v)) * (t * p) = (l * p) * (d * v * t)
  OBVIOUS
<1> DEFINE A == (l * (d * v)) * (t * p)
           B == ((c * v - u * d) * w) * (t * p)
           X == (c * v * w) * (t * p)
           Y == (u * t) * (d * w * p)
           Z == (s * (p * d)) * (v * w)
           W == (m * w) * (d * v * t)
<1>8. A \in Int /\ B \in Int /\ X \in Int /\ Y \in Int /\ Z \in Int /\ W \in Int
  OBVIOUS
<1>9. A = B /\ B = X - Y /\ Y = 0 - Z /\ Z = W - X
  BY <1>1, <1>2, <1>3, <1>4, <1>5, <1>6
<1> HIDE DEF A, B, X, Y, Z, W
<1>10. A = W
  BY <1>8, <1>9
<1>11. (l * p) * (d * v * t) = (m * w) * (d * v * t)
  BY <1>7, <1>10 DEF A, W
<1> DEFINE k == d * v * t
<1>12. k \in Nat \ {0} /\ l * p \in Int /\ m * w \in Int
  OBVIOUS
<1>13. (l * p) * k = (m * w) * k
  BY <1>11
<1> HIDE DEF k
<1>14. \A x, y \in Int : x * k = y * k => x = y
  BY <1>12
<1> QED BY <1>12, <1>13, <1>14

\* The values of a difference and an absolute value.
LEMMA MinusValue ==
  ASSUME NEW f \in Fraction, NEW g \in Fraction
  PROVE  /\ Minus(f, g) \in Fraction
         /\ Minus(f, g).num * (f.den * g.den) = (f.num * g.den - g.num * f.den) * Minus(f, g).den
<1>1. /\ f.num * g.den - g.num * f.den \in Int
      /\ f.den * g.den \in Nat \ {0}
  BY DEF Fraction
<1> QED BY <1>1, FracValue DEF Minus, Fraction

LEMMA AbsValue ==
  ASSUME NEW f \in Fraction
  PROVE  /\ f.num < 0 => AbsOf(f).num * f.den = (0 - f.num) * AbsOf(f).den
         /\ ~ (f.num < 0) => AbsOf(f) = f
<1>1. -f.num \in Int /\ f.den \in Nat \ {0} /\ -f.num = 0 - f.num
  BY DEF Fraction
<1> QED BY <1>1, FracValue DEF AbsOf

\* From the reference, by the magnitude in the direction of the segment, one is
\* at the mean of its windows, unless the magnitude is the least one.
LEMMA SegmentMeasure ==
  ASSUME NEW run, IsFiniteSet(run), run # {}, \A w \in run : w.mean \in Fraction,
         NEW b \in Fraction
  PROVE  LET seg == Segment(run, {b})
             mean == MeanOfMeans(run)
             back == Minus(b, IF seg.direction = "down" THEN seg.magnitude
                              ELSE Minus(Zero, seg.magnitude))
         IN  \/ seg.magnitude = MinMagnitude
             \/ back \in Fraction /\ back.num * mean.den = mean.num * back.den
<1> DEFINE seg == Segment(run, {b})
           mean == MeanOfMeans(run)
           shift == Minus(mean, b)
           opposite == IF seg.direction = "down" THEN seg.magnitude ELSE Minus(Zero, seg.magnitude)
           back == Minus(b, opposite)
<1>1. mean \in Fraction
  BY MeanOfMeansType
<1>2. /\ shift \in Fraction
      /\ shift.num * (mean.den * b.den) = (mean.num * b.den - b.num * mean.den) * shift.den
  BY <1>1, MinusValue
<1>3. /\ seg.magnitude = Larger(AbsOf(shift), MinMagnitude)
      /\ seg.direction = IF shift.num < 0 THEN "down" ELSE "up"
  BY DEF Segment
<1>4. /\ seg.magnitude = MinMagnitude \/ seg.magnitude = AbsOf(shift)
      /\ seg.direction = "down" <=> shift.num < 0
  BY <1>3 DEF Larger
<1>5. SUFFICES ASSUME seg.magnitude = AbsOf(shift)
               PROVE  back \in Fraction /\ back.num * mean.den = mean.num * back.den
  BY <1>4
<1> HIDE DEF seg, shift, mean
<1>6. opposite \in Fraction /\ opposite.num * shift.den = 0 - shift.num * opposite.den
  <2>1. CASE shift.num < 0
    <3>1. opposite = AbsOf(shift)
      BY <1>4, <1>5, <2>1
    <3>2. AbsOf(shift) \in Fraction /\ AbsOf(shift).num * shift.den = (0 - shift.num) * AbsOf(shift).den
      BY <1>2, <2>1, AbsType, AbsValue
    <3>3. (0 - shift.num) * AbsOf(shift).den = 0 - shift.num * AbsOf(shift).den
      BY <1>2, <3>2 DEF Fraction
    <3> QED BY <3>1, <3>2, <3>3
  <2>2. CASE ~ (shift.num < 0)
    <3>1. opposite = Minus(Zero, shift)
      BY <1>2, <1>4, <1>5, <2>2, AbsValue
    <3> HIDE DEF opposite
    <3>2. /\ opposite \in Fraction
          /\ opposite.num * (Zero.den * shift.den) = (0 * shift.den - shift.num * Zero.den) * opposite.den
      BY <1>2, <3>1, FracZero, MinusValue
    <3> DEFINE o == Zero.den  s == shift.num  t == shift.den  u == opposite.num  v == opposite.den
    <3>3. /\ o \in Nat \ {0} /\ s \in Int /\ t \in Int /\ u \in Int /\ v \in Int
          /\ u * (o * t) = (0 * t - s * o) * v
      BY <1>2, <3>2, FracZero DEF Fraction
    <3> HIDE DEF o, s, t, u, v
    <3>4. (u * t) * o = (0 - s * v) * o
      BY <3>3
    <3>5. u * t \in Int /\ 0 - s * v \in Int
      BY <3>3
    <3>6. u * t = 0 - s * v
      BY <3>3, <3>4, <3>5
    <3> QED BY <3>2, <3>6 DEF s, t, u, v
  <2> QED BY <2>1, <2>2
<1> HIDE DEF opposite
<1>7. /\ back \in Fraction
      /\ back.num * (b.den * opposite.den) = (b.num * opposite.den - opposite.num * b.den) * back.den
  BY <1>6, MinusValue
<1> HIDE DEF back
<1>8. \A x \in Fraction : x.num \in Int /\ x.den \in Nat \ {0}
  BY DEF Fraction
<1>9. back.num * mean.den = mean.num * back.den
  <2> DEFINE m == mean.num  p == mean.den  c == b.num  d == b.den
             s == shift.num  t == shift.den  u == opposite.num  v == opposite.den
             l == back.num  w == back.den
  <2>1. /\ m \in Int /\ p \in Nat \ {0} /\ c \in Int /\ d \in Nat \ {0}
        /\ s \in Int /\ t \in Nat \ {0} /\ u \in Int /\ v \in Nat \ {0}
        /\ l \in Int /\ w \in Nat \ {0}
    BY <1>1, <1>2, <1>6, <1>7, <1>8
  <2>2. /\ s * (p * d) = (m * d - c * p) * t
        /\ u * t = 0 - s * v
        /\ l * (d * v) = (c * v - u * d) * w
    BY <1>2, <1>6, <1>7
  <2> HIDE DEF m, p, c, d, s, t, u, v, l, w
  <2>3. l * p = m * w
    BY <2>1, <2>2, TakenBack
  <2> QED BY <2>3 DEF l, p, m, w
<1> QED BY <1>7, <1>9

\* Without a reference the shift is none and the magnitude the least one.
LEMMA SegmentWithoutReference ==
  ASSUME NEW run, IsFiniteSet(run), run # {}, \A w \in run : w.mean \in Fraction
  PROVE  Segment(run, {}).magnitude = MinMagnitude
<1> DEFINE mean == MeanOfMeans(run)
           shift == Minus(mean, mean)
<1>1. mean \in Fraction
  BY MeanOfMeansType
<1>2. Segment(run, {}).magnitude = Larger(AbsOf(shift), MinMagnitude)
  BY DEF Segment
<1> HIDE DEF mean
<1>3. shift = Zero
  <2>1. mean.num \in Int /\ mean.den \in Nat \ {0}
    BY <1>1 DEF Fraction
  <2>2. mean.num * mean.den - mean.num * mean.den = 0 /\ mean.den * mean.den \in Nat \ {0}
    BY <2>1
  <2> QED BY <2>2, FracOfZero DEF Minus
<1> HIDE DEF shift
<1>4. AbsOf(shift) = Zero
  BY <1>3, FracZero DEF AbsOf
<1>5. ~Exceeds(Zero, MinMagnitude)
  BY FracZero, DetectAssumption DEF Exceeds, IsFrac, Fraction
<1> QED BY <1>2, <1>4, <1>5 DEF Larger, shift
=============================================================================

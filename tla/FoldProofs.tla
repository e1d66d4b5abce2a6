------------------------------ MODULE FoldProofs ------------------------------
(***************************************************************************)
(* What folding a sequence from the left gives, one element at a time, for *)
(* any operator; and the sum of a function over its finite domain, one     *)
(* value at a time.  A module that proves things about a fold of its own   *)
(* instantiates this one with the operator.                                *)
(***************************************************************************)
EXTENDS SequencesExt, FiniteSetTheorems, WellFoundedInduction, SequenceTheorems, TLAPS

CONSTANT Op(_, _)

Result(base, seq) == FoldLeft(Op, base, seq)

(* FoldLeft's recursion over sets of positions, those of 1..n. *)
Unfolds(f, base, seq, n) ==
    f = [s \in SUBSET (1..n) |->
            IF s = {} THEN base ELSE Op(f[s \ {Max(s)}], seq[Max(s)])]

-----------------------------------------------------------------------------
(* Induction, for a property given as the set of the numbers that have it. *)
LEMMA SetInduction ==
    ASSUME NEW N, 0 \in N, \A n \in Nat : n \in N => n + 1 \in N
    PROVE  Nat \subseteq N
<1> SUFFICES ASSUME Nat \ N # {} PROVE FALSE
    OBVIOUS
<1> DEFINE R == OpToRel(<, Nat)
<1>1. IsWellFoundedOn(R, Nat)
    BY NatLessThanWellFounded
<1>2. \A m, n \in Nat : m < n => <<m, n>> \in R
    BY DEF OpToRel
<1> HIDE DEF R
<1>3. PICK n \in Nat \ N : \A m \in Nat \ N : ~(<<m, n>> \in R)
    BY <1>1, WFMin
<1>4. \A m \in Nat \ N : ~(m < n)
    BY <1>2, <1>3, Zenon
<1>5. n # 0 /\ n - 1 \in Nat /\ n - 1 < n /\ (n - 1) + 1 = n
    BY <1>3
<1>6. n - 1 \in N
    BY <1>4, <1>5
<1> QED BY <1>3, <1>5, <1>6

(* The position at which the recursion splits off is the last. *)
LEMMA MaxOfPositions ==
    ASSUME NEW n \in Nat
    PROVE  Max(1..(n + 1)) = n + 1
<1> DEFINE S == 1..(n + 1)
<1>1. n + 1 \in S /\ \A y \in S : n + 1 >= y
    OBVIOUS
<1>2. \A x \in S : (\A y \in S : x >= y) => x = n + 1
    OBVIOUS
<1> HIDE DEF S
<1>3. Max(S) = n + 1
    BY <1>1, <1>2 DEF Max
<1> QED BY <1>3 DEF S

(* The recursion has a solution, whatever is folded. *)
LEMMA UnfoldingExists ==
    ASSUME NEW base, NEW seq
    PROVE  \A n \in Nat : \E f : Unfolds(f, base, seq, n)
<1> DEFINE N == {n \in Nat : \E f : Unfolds(f, base, seq, n)}
<1>1. 0 \in N
    <2> DEFINE f == [s \in SUBSET (1..0) |-> base]
    <2>1. 1..0 = {}
        OBVIOUS
    <2>2. \A s \in SUBSET (1..0) : s = {}
        BY <2>1
    <2>3. Unfolds(f, base, seq, 0)
        BY <2>2 DEF Unfolds
    <2> QED BY <2>3
<1>2. ASSUME NEW n \in Nat, n \in N PROVE n + 1 \in N
    <2>1. PICK f : Unfolds(f, base, seq, n)
        BY <1>2
    <2> DEFINE Next(s) == IF n + 1 \in s THEN Op(f[s \ {n + 1}], seq[n + 1]) ELSE f[s]
               g == [s \in SUBSET (1..(n + 1)) |-> Next(s)]
    <2>2. ASSUME NEW s \in SUBSET (1..(n + 1)), n + 1 \notin s
          PROVE  s \in SUBSET (1..n) /\ g[s] = f[s]
        BY <2>2
    <2>3. ASSUME NEW s \in SUBSET (1..n), s # {}
          PROVE  f[s] = Op(f[s \ {Max(s)}], seq[Max(s)])
        BY <2>1, <2>3 DEF Unfolds
    <2>4. f[{}] = base
        BY <2>1 DEF Unfolds
    <2>5. ASSUME NEW s \in SUBSET (1..(n + 1))
          PROVE  g[s] = IF s = {} THEN base ELSE Op(g[s \ {Max(s)}], seq[Max(s)])
        <3>1. CASE n + 1 \in s
            <4>1. s # {} /\ g[s] = Op(f[s \ {n + 1}], seq[n + 1])
                BY <3>1
            <4>2. Max(s) = n + 1
                <5>1. \A y \in s : n + 1 >= y
                    OBVIOUS
                <5>2. \A x \in s : (\A y \in s : x >= y) => x = n + 1
                    BY <3>1
                <5> QED BY <3>1, <5>1, <5>2 DEF Max
            <4>3. g[s \ {n + 1}] = f[s \ {n + 1}]
                BY <2>2
            <4> QED BY <4>1, <4>2, <4>3
        <3>2. CASE n + 1 \notin s
            <4>1. s \in SUBSET (1..n) /\ g[s] = f[s]
                BY <2>2, <3>2
            <4>2. g[s \ {Max(s)}] = f[s \ {Max(s)}]
                BY <2>2, <3>2
            <4> QED BY <2>3, <2>4, <4>1, <4>2
        <3> QED BY <3>1, <3>2
    <2>6. Unfolds(g, base, seq, n + 1)
        BY <2>5 DEF Unfolds
    <2> QED BY <2>6
<1> HIDE DEF N
<1>3. Nat \subseteq N
    BY <1>1, <1>2, SetInduction
<1> QED BY <1>3 DEF N

(* A solution starts at the base and goes on by the operator. *)
Continues(f, base, seq, n) ==
    /\ f[1..0] = base
    /\ \A k \in 0..(n - 1) : f[1..(k + 1)] = Op(f[1..k], seq[k + 1])

(* Unfolding the recursion goes on by the operator, from the left. *)
LEMMA UnfoldedContinues ==
    ASSUME NEW base, NEW seq, NEW n \in Nat, NEW f, Unfolds(f, base, seq, n)
    PROVE  Continues(f, base, seq, n)
<1>1. f[1..0] = base
    <2>1. 1..0 = {} /\ 1..0 \in SUBSET (1..n)
        OBVIOUS
    <2> QED BY <2>1 DEF Unfolds
<1>2. ASSUME NEW k \in 0..(n - 1)
      PROVE  f[1..(k + 1)] = Op(f[1..k], seq[k + 1])
    <2>1. 1..(k + 1) # {} /\ 1..(k + 1) \in SUBSET (1..n)
        OBVIOUS
    <2>2. Max(1..(k + 1)) = k + 1
        BY MaxOfPositions
    <2>3. (1..(k + 1)) \ {k + 1} = 1..k
        OBVIOUS
    <2>4. f[1..(k + 1)] = Op(f[(1..(k + 1)) \ {Max(1..(k + 1))}], seq[Max(1..(k + 1))])
        BY <2>1 DEF Unfolds
    <2> QED BY <2>2, <2>3, <2>4
<1> QED BY <1>1, <1>2 DEF Continues

(* What is folded depends on the elements and on nothing else. *)
LEMMA ContinuedAlike ==
    ASSUME NEW base, NEW a, NEW b, NEW f, NEW g, NEW m \in Nat, NEW k \in 0..m,
           Continues(f, base, a, m), Continues(g, base, b, k),
           \A i \in 1..k : a[i] = b[i]
    PROVE  f[1..k] = g[1..k]
<1> DEFINE N == {i \in Nat : i <= k => f[1..i] = g[1..i]}
<1>1. 0 \in N
    BY DEF Continues
<1>2. ASSUME NEW i \in Nat, i \in N PROVE i + 1 \in N
    <2> SUFFICES ASSUME i + 1 <= k PROVE f[1..(i + 1)] = g[1..(i + 1)]
        OBVIOUS
    <2>1. f[1..i] = g[1..i] /\ i \in 0..(m - 1) /\ i \in 0..(k - 1) /\ i + 1 \in 1..k
        BY <1>2
    <2>2. f[1..(i + 1)] = Op(f[1..i], a[i + 1]) /\ g[1..(i + 1)] = Op(g[1..i], b[i + 1])
        BY <2>1 DEF Continues
    <2> QED BY <2>1, <2>2
<1> HIDE DEF N
<1>3. k \in N
    BY <1>1, <1>2, SetInduction
<1> QED BY <1>3 DEF N

(* The result is where such a solution ends. *)
LEMMA ResultContinues ==
    ASSUME NEW base, NEW S, NEW seq \in Seq(S), NEW n, Len(seq) = n
    PROVE  \E f : Continues(f, base, seq, n) /\ Result(base, seq) = f[1..n]
<1> DEFINE f == CHOOSE g : Unfolds(g, base, seq, n)
<1>1. n \in Nat /\ DOMAIN seq = 1..n
    BY LenProperties
<1>2. Unfolds(f, base, seq, n)
    BY <1>1, UnfoldingExists
<1>3. Result(base, seq) = f[1..n]
    BY <1>1 DEF Result, FoldLeft, MapThenFoldSet, Unfolds
<1> HIDE DEF f
<1>4. Continues(f, base, seq, n)
    BY <1>1, <1>2, UnfoldedContinues
<1> QED BY <1>3, <1>4

-----------------------------------------------------------------------------
(* Nothing is folded. *)
LEMMA FoldEmpty ==
    ASSUME NEW base
    PROVE  Result(base, <<>>) = base
<1>1. <<>> \in Seq({}) /\ Len(<<>>) = 0
    BY EmptySeq
<1>2. PICK f : Continues(f, base, <<>>, 0) /\ Result(base, <<>>) = f[1..0]
    BY <1>1, ResultContinues
<1> QED BY <1>2 DEF Continues

(* A fold goes on by one element. *)
THEOREM FoldPrefix ==
    ASSUME NEW base, NEW S, NEW seq \in Seq(S), NEW k \in 1..Len(seq)
    PROVE  Result(base, SubSeq(seq, 1, k)) = Op(Result(base, SubSeq(seq, 1, k - 1)), seq[k])
<1> DEFINE a == SubSeq(seq, 1, k)
           b == SubSeq(seq, 1, k - 1)
<1>1. Len(seq) \in Nat /\ k \in Nat /\ k - 1 \in 0..k /\ (k - 1) + 1 = k
    BY LenProperties
<1>2. a \in Seq(S) /\ Len(a) = k /\ \A i \in 1..k : a[i] = seq[i]
    <2>1. \A i \in 1..Len(seq) : seq[i] \in S
        BY ElementOfSeq
    <2> QED BY <1>1, <2>1, SubSeqProperties
<1>3. b \in Seq(S) /\ Len(b) = k - 1 /\ \A i \in 1..(k - 1) : b[i] = seq[i]
    <2>1. \A i \in 1..Len(seq) : seq[i] \in S
        BY ElementOfSeq
    <2>2. \A i \in 1..(k - 1) : i \in 1..Len(seq)
        BY <1>1
    <2> QED BY <1>1, <2>1, <2>2, SubSeqProperties
<1> HIDE DEF a, b
<1>4. PICK f : Continues(f, base, a, k) /\ Result(base, a) = f[1..k]
    BY <1>2, ResultContinues
<1>5. PICK g : Continues(g, base, b, k - 1) /\ Result(base, b) = g[1..(k - 1)]
    BY <1>3, ResultContinues
<1>6. f[1..(k - 1)] = g[1..(k - 1)]
    <2>1. \A i \in 1..(k - 1) : a[i] = b[i]
        BY <1>1, <1>2, <1>3
    <2> QED BY <1>1, <1>4, <1>5, <2>1, ContinuedAlike
<1>7. f[1..k] = Op(f[1..(k - 1)], a[k])
    <2>1. k - 1 \in 0..(k - 1)
        BY <1>1
    <2>2. f[1..((k - 1) + 1)] = Op(f[1..(k - 1)], a[(k - 1) + 1])
        BY <1>4, <2>1 DEF Continues
    <2> QED BY <1>1, <2>2
<1>8. a[k] = seq[k]
    BY <1>1, <1>2
<1> QED BY <1>4, <1>5, <1>6, <1>7, <1>8 DEF a, b

(* What is added to the end is applied last. *)
THEOREM FoldAppend ==
    ASSUME NEW base, NEW S, NEW seq \in Seq(S), NEW e \in S
    PROVE  Result(base, seq \o <<e>>) = Op(Result(base, seq), e)
<1> DEFINE all == seq \o <<e>>
           n == Len(seq)
<1>1. <<e>> \in Seq(S) /\ Len(<<e>>) = 1 /\ <<e>>[1] = e
    OBVIOUS
<1>2. n \in Nat
    BY LenProperties
<1>3. /\ all \in Seq(S) /\ Len(all) = n + 1
      /\ \A i \in 1..(n + 1) : all[i] = IF i <= n THEN seq[i] ELSE <<e>>[i - n]
    BY <1>1, ConcatProperties
<1>4. n + 1 \in 1..Len(all) /\ (n + 1) - 1 = n /\ (n + 1) - n = 1 /\ ~(n + 1 <= n)
    BY <1>2, <1>3
<1>5. all[n + 1] = e
    BY <1>1, <1>2, <1>3, <1>4
<1>6. SubSeq(all, 1, n) = seq
    <2>1. CASE n = 0
        BY <2>1, SubSeqEmpty, EmptySeq
    <2>2. CASE n # 0
        <3>1. n \in 1..Len(seq) /\ 1 \in 1..Len(seq)
            BY <1>2, <2>2
        <3> QED BY <1>1, <3>1, SubSeqOfConcat1, SubSeqFull
    <2> QED BY <2>1, <2>2
<1>7. SubSeq(all, 1, n + 1) = all
    BY <1>3, SubSeqFull
<1> HIDE DEF all, n
<1>8. Result(base, SubSeq(all, 1, n + 1)) = Op(Result(base, SubSeq(all, 1, (n + 1) - 1)), all[n + 1])
    BY <1>3, <1>4, FoldPrefix
<1> QED BY <1>4, <1>5, <1>6, <1>7, <1>8 DEF all

(* What the base has and every step keeps, the result has. *)
THEOREM FoldKeeps ==
    ASSUME NEW base, NEW S, NEW seq \in Seq(S), NEW P, base \in P,
           \A x \in P, e \in S : Op(x, e) \in P
    PROVE  Result(base, seq) \in P
<1> DEFINE N == {n \in Nat : n <= Len(seq) => Result(base, SubSeq(seq, 1, n)) \in P}
<1>1. Len(seq) \in Nat
    BY LenProperties
<1>2. 0 \in N
    <2>1. SubSeq(seq, 1, 0) = <<>>
        BY SubSeqEmpty
    <2> QED BY <2>1, FoldEmpty
<1>3. ASSUME NEW n \in Nat, n \in N PROVE n + 1 \in N
    <2> SUFFICES ASSUME n + 1 <= Len(seq) PROVE Result(base, SubSeq(seq, 1, n + 1)) \in P
        OBVIOUS
    <2>1. n + 1 \in 1..Len(seq) /\ (n + 1) - 1 = n
        BY <1>1
    <2>2. Result(base, SubSeq(seq, 1, n + 1)) = Op(Result(base, SubSeq(seq, 1, n)), seq[n + 1])
        BY <2>1, FoldPrefix
    <2>3. seq[n + 1] \in S /\ Result(base, SubSeq(seq, 1, n)) \in P
        BY <1>1, <1>3, <2>1, ElementOfSeq
    <2> QED BY <2>2, <2>3
<1> HIDE DEF N
<1>4. Len(seq) \in N
    BY <1>1, <1>2, <1>3, SetInduction
<1>5. Result(base, SubSeq(seq, 1, Len(seq))) \in P
    BY <1>1, <1>4 DEF N
<1>6. SubSeq(seq, 1, Len(seq)) = seq
    BY SubSeqFull
<1> QED BY <1>5, <1>6

-----------------------------------------------------------------------------
(* Sums over a finite set, in whichever order they are taken. *)

Total(f) == FoldFunction(+, 0, f)

(* The element that FoldFunction takes next. *)
Taken(s) == CHOOSE x \in s : TRUE

Adds(g, f, s) == g[s] = IF s = {} THEN 0 ELSE f[Taken(s)] + g[s \ {Taken(s)}]

(* FoldFunction's recursion over subsets of S. *)
SumsUp(g, f, S) ==
    g = [s \in SUBSET S |-> IF s = {} THEN 0 ELSE f[Taken(s)] + g[s \ {Taken(s)}]]

(* What is taken out of a finite set leaves one element less. *)
LEMMA OneLess ==
    ASSUME NEW S, IsFiniteSet(S), NEW x \in S
    PROVE  /\ IsFiniteSet(S \ {x})
           /\ Cardinality(S) \in Nat \ {0}
           /\ Cardinality(S \ {x}) = Cardinality(S) - 1
<1>1. IsFiniteSet(S \ {x}) /\ Cardinality(S \ {x}) = Cardinality(S) - 1
    BY FS_RemoveElement
<1>2. Cardinality(S) \in Nat /\ Cardinality(S) # 0
    BY FS_CardinalityType, FS_EmptySet
<1> QED BY <1>1, <1>2

(* The recursion has a solution on the subsets of up to n elements ... *)
LEMMA SumsExist ==
    ASSUME NEW S, IsFiniteSet(S), NEW f
    PROVE  \A n \in Nat : \E h : \A s \in SUBSET S : Cardinality(s) <= n => Adds(h, f, s)
<1> DEFINE Good(h, n) == \A s \in SUBSET S : Cardinality(s) <= n => Adds(h, f, s)
           N == {n \in Nat : \E h : Good(h, n)}
<1>0. ASSUME NEW s \in SUBSET S
      PROVE  IsFiniteSet(s) /\ Cardinality(s) \in Nat /\ (Cardinality(s) = 0 <=> s = {})
    BY FS_Subset, FS_CardinalityType, FS_EmptySet
<1>1. 0 \in N
    <2> DEFINE h == [s \in SUBSET S |-> 0]
    <2>1. \A s \in SUBSET S : Cardinality(s) <= 0 => s = {}
        BY <1>0
    <2>2. Good(h, 0)
        BY <2>1 DEF Adds
    <2> QED BY <2>2
<1>2. ASSUME NEW n \in Nat, n \in N PROVE n + 1 \in N
    <2>1. PICK h : Good(h, n)
        BY <1>2
    <2> DEFINE k == [s \in SUBSET S |->
                        IF Cardinality(s) <= n THEN h[s] ELSE f[Taken(s)] + h[s \ {Taken(s)}]]
    <2>2. ASSUME NEW s \in SUBSET S, Cardinality(s) <= n + 1 PROVE Adds(k, f, s)
        <3>1. CASE s = {}
            <4>1. Cardinality(s) <= n
                BY <1>0, <3>1
            <4> QED BY <2>1, <3>1, <4>1 DEF Adds
        <3>2. CASE s # {}
            <4>1. Taken(s) \in s
                BY <3>2 DEF Taken
            <4>2. PICK r \in SUBSET S : r = s \ {Taken(s)}
                OBVIOUS
            <4>3. Cardinality(r) <= n
                BY <1>0, <2>2, <4>1, <4>2, OneLess
            <4>4. k[r] = h[r]
                BY <4>3
            <4>5. k[s] = f[Taken(s)] + h[r]
                <5>1. CASE Cardinality(s) <= n
                    BY <2>1, <3>2, <4>2, <5>1 DEF Adds
                <5>2. CASE ~(Cardinality(s) <= n)
                    BY <4>2, <5>2
                <5> QED BY <5>1, <5>2
            <4> QED BY <3>2, <4>2, <4>4, <4>5 DEF Adds
        <3> QED BY <3>1, <3>2
    <2> HIDE DEF k
    <2>3. Good(k, n + 1)
        BY <2>2
    <2> QED BY <2>3
<1> HIDE DEF N
<1>3. Nat \subseteq N
    BY <1>1, <1>2, SetInduction
<1> QED BY <1>3 DEF N

(* ... so it has one on all of them. *)
LEMMA SumUnfolds ==
    ASSUME NEW S, IsFiniteSet(S), NEW f, DOMAIN f = S
    PROVE  \E g : /\ \A s \in SUBSET S : Adds(g, f, s)
                  /\ Total(f) = g[S]
<1>0. PICK n \in Nat : n = Cardinality(S)
    BY FS_CardinalityType
<1>1. PICK h : \A s \in SUBSET S : Cardinality(s) <= n => Adds(h, f, s)
    BY SumsExist, Zenon
<1>2. \A s \in SUBSET S : Cardinality(s) <= n
    BY <1>0, FS_Subset
<1> DEFINE g == [s \in SUBSET S |-> h[s]]
<1>3. SumsUp(g, f, S)
    <2>1. \A s \in SUBSET S : g[s] = IF s = {} THEN 0 ELSE f[Taken(s)] + g[s \ {Taken(s)}]
        BY <1>1, <1>2 DEF Adds
    <2> QED BY <2>1 DEF SumsUp
<1> DEFINE u == CHOOSE k : SumsUp(k, f, S)
<1>4. SumsUp(u, f, S)
    BY <1>3
<1>5. Total(f) = u[S]
    BY DEF Total, FoldFunction, FoldFunctionOnSet, MapThenFoldSet, SumsUp, Taken
<1> HIDE DEF u
<1>6. \A s \in SUBSET S : Adds(u, f, s)
    BY <1>4 DEF SumsUp, Adds
<1> QED BY <1>5, <1>6

(* A property of all finite subsets, by induction on their size. *)
LEMMA SubsetInduction ==
    ASSUME NEW S, IsFiniteSet(S), NEW P \in SUBSET (SUBSET S), {} \in P,
           \A s \in SUBSET S : (\A x \in s : s \ {x} \in P) => s \in P
    PROVE  \A s \in SUBSET S : s \in P
<1> DEFINE N == {n \in Nat : \A s \in SUBSET S : Cardinality(s) = n => s \in P}
<1>0. ASSUME NEW s \in SUBSET S
      PROVE  IsFiniteSet(s) /\ Cardinality(s) \in Nat /\ (Cardinality(s) = 0 <=> s = {})
    BY FS_Subset, FS_CardinalityType, FS_EmptySet
<1>1. 0 \in N
    BY <1>0
<1>2. ASSUME NEW n \in Nat, n \in N PROVE n + 1 \in N
    <2>1. ASSUME NEW s \in SUBSET S, Cardinality(s) = n + 1, NEW x \in s PROVE s \ {x} \in P
        <3>1. Cardinality(s \ {x}) = n /\ s \ {x} \in SUBSET S
            BY <1>0, <2>1, OneLess
        <3> QED BY <1>2, <3>1
    <2> QED BY <2>1
<1> HIDE DEF N
<1>3. Nat \subseteq N
    BY <1>1, <1>2, SetInduction
<1> QED BY <1>0, <1>3 DEF N

(* Sums of integers are integers. *)
LEMMA SumsTyped ==
    ASSUME NEW S, IsFiniteSet(S), NEW f \in [S -> Int], NEW g,
           \A s \in SUBSET S : Adds(g, f, s)
    PROVE  \A s \in SUBSET S : g[s] \in Int
<1> DEFINE P == {s \in SUBSET S : g[s] \in Int}
<1>1. {} \in P
    <2>1. {} \in SUBSET S
        OBVIOUS
    <2>2. g[{}] = 0
        BY <2>1 DEF Adds
    <2> QED BY <2>1, <2>2
<1>2. ASSUME NEW s \in SUBSET S, \A x \in s : s \ {x} \in P PROVE s \in P
    <2> SUFFICES ASSUME s # {} PROVE s \in P
        BY <1>1
    <2>1. PICK c \in s : c = Taken(s)
        BY DEF Taken
    <2>2. g[s] = f[c] + g[s \ {c}]
        BY <2>1 DEF Adds
    <2>3. f[c] \in Int /\ g[s \ {c}] \in Int
        BY <1>2
    <2>4. g[s] \in Int
        BY <2>2, <2>3
    <2> QED BY <2>4
<1> HIDE DEF P
<1>3. P \in SUBSET (SUBSET S)
    BY DEF P
<1>4. \A s \in SUBSET S : s \in P
    BY <1>1, <1>2, <1>3, SubsetInduction
<1> QED BY <1>4 DEF P

(* The order in which elements are taken does not matter. *)
LEMMA AnyFirst ==
    ASSUME NEW S, IsFiniteSet(S), NEW f \in [S -> Int], NEW g,
           \A s \in SUBSET S : Adds(g, f, s)
    PROVE  \A s \in SUBSET S : \A x \in s : g[s] = f[x] + g[s \ {x}]
<1> DEFINE P == {s \in SUBSET S : \A x \in s : g[s] = f[x] + g[s \ {x}]}
<1>1. {} \in P
    OBVIOUS
<1>2. ASSUME NEW s \in SUBSET S, \A x \in s : s \ {x} \in P PROVE s \in P
    <2> SUFFICES ASSUME NEW x \in s PROVE g[s] = f[x] + g[s \ {x}]
        OBVIOUS
    <2>1. PICK c \in s : c = Taken(s)
        BY DEF Taken
    <2>2. g[s] = f[c] + g[s \ {c}]
        BY <2>1 DEF Adds
    <2>3. CASE x = c
        BY <2>2, <2>3
    <2>4. CASE x # c
        <3>1. PICK r \in SUBSET S : r = (s \ {c}) \ {x} /\ r = (s \ {x}) \ {c}
            OBVIOUS
        <3>2. g[s \ {c}] = f[x] + g[r]
            BY <1>2, <2>4, <3>1
        <3>3. g[s \ {x}] = f[c] + g[r]
            BY <1>2, <2>4, <3>1
        <3>4. f[x] \in Int /\ f[c] \in Int /\ g[r] \in Int
            BY SumsTyped
        <3> QED BY <2>2, <3>2, <3>3, <3>4
    <2> QED BY <2>3, <2>4
<1> HIDE DEF P
<1>3. P \in SUBSET (SUBSET S)
    BY DEF P
<1>4. \A s \in SUBSET S : s \in P
    BY <1>1, <1>2, <1>3, SubsetInduction
<1> QED BY <1>4 DEF P

(* Functions that agree have the same sums. *)
LEMMA SumsAgree ==
    ASSUME NEW S, IsFiniteSet(S), NEW f, NEW e, NEW g, NEW h,
           \A s \in SUBSET S : Adds(g, f, s) /\ Adds(h, e, s),
           NEW T \in SUBSET S, \A x \in T : f[x] = e[x]
    PROVE  g[T] = h[T]
<1> DEFINE P == {s \in SUBSET T : g[s] = h[s]}
<1>0. IsFiniteSet(T)
    BY FS_Subset
<1>1. {} \in P
    <2>1. {} \in SUBSET S
        OBVIOUS
    <2>2. g[{}] = 0 /\ h[{}] = 0
        BY <2>1 DEF Adds
    <2> QED BY <2>2
<1>2. ASSUME NEW s \in SUBSET T, \A x \in s : s \ {x} \in P PROVE s \in P
    <2> SUFFICES ASSUME s # {} PROVE s \in P
        BY <1>1
    <2>1. PICK c \in s : c = Taken(s)
        BY DEF Taken
    <2>2. g[s] = f[c] + g[s \ {c}] /\ h[s] = e[c] + h[s \ {c}]
        BY <2>1 DEF Adds
    <2>3. f[c] = e[c] /\ g[s \ {c}] = h[s \ {c}]
        BY <1>2
    <2>4. g[s] = h[s]
        BY <2>2, <2>3
    <2> QED BY <2>4
<1> HIDE DEF P
<1>3. P \in SUBSET (SUBSET T)
    BY DEF P
<1>4. \A s \in SUBSET T : s \in P
    BY <1>0, <1>1, <1>2, <1>3, SubsetInduction
<1> QED BY <1>4 DEF P

(* Nothing sums up to nothing. *)
LEMMA TotalOfZeros ==
    ASSUME NEW S, IsFiniteSet(S)
    PROVE  Total([x \in S |-> 0]) = 0
<1> DEFINE f == [x \in S |-> 0]
           h == [s \in SUBSET S |-> 0]
<1>1. DOMAIN f = S
    OBVIOUS
<1>2. \A s \in SUBSET S : Adds(h, f, s)
    BY DEF Adds, Taken
<1>3. h[S] = 0 /\ S \in SUBSET S
    OBVIOUS
<1> HIDE DEF f, h
<1>4. PICK g : (\A s \in SUBSET S : Adds(g, f, s)) /\ Total(f) = g[S]
    BY <1>1, SumUnfolds
<1>5. g[S] = h[S]
    <2>1. \A s \in SUBSET S : Adds(g, f, s) /\ Adds(h, f, s)
        BY <1>2, <1>4
    <2>2. \A x \in S : f[x] = f[x]
        OBVIOUS
    <2> QED BY <1>3, <2>1, <2>2, SumsAgree
<1> QED BY <1>3, <1>4, <1>5 DEF f

(* One of the values is taken out of a sum. *)
LEMMA TotalTakesOut ==
    ASSUME NEW S, IsFiniteSet(S), NEW f \in [S -> Int], NEW x \in S
    PROVE  \E g : /\ \A s \in SUBSET S : Adds(g, f, s)
                  /\ Total(f) = f[x] + g[S \ {x}]
                  /\ g[S \ {x}] \in Int
<1>1. PICK g : (\A s \in SUBSET S : Adds(g, f, s)) /\ Total(f) = g[S]
    BY SumUnfolds
<1>2. S \in SUBSET S /\ S \ {x} \in SUBSET S
    OBVIOUS
<1>3. g[S] = f[x] + g[S \ {x}] /\ g[S \ {x}] \in Int
    BY <1>1, <1>2, AnyFirst, SumsTyped
<1> QED BY <1>1, <1>3

(* A sum changes by what one of its values changes by. *)
THEOREM TotalChanges ==
    ASSUME NEW S, IsFiniteSet(S), NEW f \in [S -> Int], NEW e \in [S -> Int],
           NEW x \in S, \A y \in S \ {x} : f[y] = e[y]
    PROVE  /\ Total(f) \in Int /\ Total(e) \in Int
           /\ Total(e) = Total(f) + (e[x] - f[x])
<1>1. PICK g : /\ \A s \in SUBSET S : Adds(g, f, s)
               /\ Total(f) = f[x] + g[S \ {x}]
               /\ g[S \ {x}] \in Int
    BY TotalTakesOut
<1>2. PICK h : /\ \A s \in SUBSET S : Adds(h, e, s)
               /\ Total(e) = e[x] + h[S \ {x}]
               /\ h[S \ {x}] \in Int
    BY TotalTakesOut
<1>3. S \ {x} \in SUBSET S
    OBVIOUS
<1>4. g[S \ {x}] = h[S \ {x}]
    BY <1>1, <1>2, <1>3, SumsAgree
<1>5. f[x] \in Int /\ e[x] \in Int
    OBVIOUS
<1> QED BY <1>1, <1>2, <1>4, <1>5
=============================================================================

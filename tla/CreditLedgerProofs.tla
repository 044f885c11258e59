------------------------- MODULE CreditLedgerProofs -------------------------
(***************************************************************************)
(* The properties of CreditLedger, for any finite account: any lots, starts*)
(* and refund requests, and any bounds.                                    *)
(*                                                                         *)
(* The inductive invariant says what each admission's debits add up to and *)
(* that whatever open starts hold of a lot is gone from its row: that is   *)
(* why the guarded spend and refund statements of a settlement never fail  *)
(* in silence.  The arguments are about sums, so the sums come first: what *)
(* a sum over a finite set is follows from a smallest set that would refute*)
(* it, which the well-founded order of the finite subsets provides.        *)
(***************************************************************************)
EXTENDS CreditLedger, FiniteSetTheorems, WellFoundedInduction, TLAPS

-----------------------------------------------------------------------------
(* Sums over finite sets. *)

Sum(f, S) == SumFunctionOnSet(f, S)

\* The element a fold takes out of a set, and a fold that sums f over all the
\* subsets of S.
Pick(s) == CHOOSE x \in s : TRUE
Folds(h, f, S) == h = [s \in SUBSET S |-> IF s = {} THEN 0 ELSE f[Pick(s)] + h[s \ {Pick(s)}]]

\* A sum is the value at its set of the fold over all the subsets.
LEMMA SumIs == ASSUME NEW f, NEW S PROVE Sum(f, S) = (CHOOSE h : Folds(h, f, S))[S]
  BY Zenon DEF Sum, SumFunctionOnSet, FoldFunctionOnSet, MapThenFoldSet, Folds, Pick

\* A nonempty family of subsets of a finite set has a smallest member.
LEMMA Smallest ==
    ASSUME NEW S, IsFiniteSet(S), NEW T, T \subseteq SUBSET S, T # {}
    PROVE  \E X \in T : \A Y \in T : Y \subseteq X => Y = X
  <1>1. IsWellFoundedOn(StrictSubsetOrdering(S), SUBSET S)
    BY FS_StrictSubsetOrderingWellFounded, FS_FiniteSubsetsOfFinite
  <1>2. PICK X \in T : \A Y \in T : ~ (<<Y, X>> \in StrictSubsetOrdering(S))
    BY <1>1, WFMin
  <1> QED
    BY <1>2 DEF StrictSubsetOrdering

LEMMA PickIn == ASSUME NEW s, s # {} PROVE Pick(s) \in s
  BY Zenon DEF Pick

LEMMA FoldsAt ==
    ASSUME NEW h, NEW f, NEW S, Folds(h, f, S), NEW X \in SUBSET S
    PROVE  h[X] = IF X = {} THEN 0 ELSE f[Pick(X)] + h[X \ {Pick(X)}]
  <1> DEFINE g == [s \in SUBSET S |-> IF s = {} THEN 0 ELSE f[Pick(s)] + h[s \ {Pick(s)}]]
  <1>1. h = g
    BY Zenon DEF Folds
  <1>2. g[X] = IF X = {} THEN 0 ELSE f[Pick(X)] + h[X \ {Pick(X)}]
    OBVIOUS
  <1> QED
    BY <1>1, <1>2, Zenon

\* Folds over two sets agree on what they share, so there is one fold.
LEMMA FoldsAgree ==
    ASSUME NEW f, NEW A, NEW B, IsFiniteSet(A), NEW g, NEW h, Folds(g, f, A), Folds(h, f, B),
           NEW X \in SUBSET (A \cap B)
    PROVE  g[X] = h[X]
  <1> DEFINE Bad == {Y \in SUBSET (A \cap B) : g[Y] # h[Y]}
  <1> SUFFICES ASSUME Bad # {} PROVE FALSE
    OBVIOUS
  <1>1. PICK Y \in Bad : \A Z \in Bad : Z \subseteq Y => Z = Y
    <2>1. Bad \subseteq SUBSET A
      OBVIOUS
    <2> HIDE DEF Bad
    <2> QED
      BY <2>1, Smallest
  <1>2. Y \in SUBSET A /\ Y \in SUBSET B /\ g[Y] # h[Y]
    OBVIOUS
  <1>3. CASE Y = {}
    BY <1>2, <1>3, FoldsAt
  <1>4. CASE Y # {}
    <2> DEFINE Z == Y \ {Pick(Y)}
    <2>1. Z \subseteq Y /\ Z # Y /\ Z \in SUBSET (A \cap B)
      BY <1>4, PickIn
    <2>2. g[Z] = h[Z]
      BY <1>1, <2>1
    <2>3. g[Y] = f[Pick(Y)] + g[Z] /\ h[Y] = f[Pick(Y)] + h[Z]
      BY <1>2, <1>4, FoldsAt
    <2> QED
      BY <1>2, <2>2, <2>3
  <1> QED
    BY <1>3, <1>4

LEMMA FoldsExists ==
    ASSUME NEW f, NEW S, IsFiniteSet(S)
    PROVE  \E h : Folds(h, f, S)
  <1> DEFINE Bad == {X \in SUBSET S : ~ \E h : Folds(h, f, X)}
  <1> SUFFICES ASSUME Bad # {} PROVE FALSE
    OBVIOUS
  <1>1. PICK X \in Bad : \A Y \in Bad : Y \subseteq X => Y = X
    <2>1. Bad \subseteq SUBSET S
      OBVIOUS
    <2> HIDE DEF Bad
    <2> QED
      BY <2>1, Smallest
  <1> DEFINE H(s) == CHOOSE h : Folds(h, f, s)
             v(s) == H(s)[s]
             next(s) == s \ {Pick(s)}
             g == [s \in SUBSET X |-> IF s = {} THEN 0 ELSE f[Pick(s)] + v(next(s))]
  <1>2. ASSUME NEW s \in SUBSET X, s # X PROVE Folds(H(s), f, s)
    <2>1. s \notin Bad /\ s \in SUBSET S
      BY <1>1, <1>2
    <2>2. \E h : Folds(h, f, s)
      BY <2>1
    <2> QED
      BY <2>2, Zenon
  <1>3. ASSUME NEW s \in SUBSET X, s # {} PROVE next(s) \in SUBSET X /\ next(s) # X /\ next(s) \in SUBSET s
    BY <1>3, PickIn
  <1>4. ASSUME NEW s \in SUBSET X, s # X PROVE v(s) = g[s]
    <2> HIDE DEF H
    <2>1. v(s) = IF s = {} THEN 0 ELSE f[Pick(s)] + H(s)[next(s)]
      BY <1>2, <1>4, FoldsAt
    <2>2. g[s] = IF s = {} THEN 0 ELSE f[Pick(s)] + v(next(s))
      OBVIOUS
    <2>3. ASSUME s # {} PROVE H(s)[next(s)] = v(next(s))
      <3>1. /\ next(s) \in SUBSET X /\ next(s) # X /\ next(s) \in SUBSET s
            /\ next(s) \in SUBSET (s \cap next(s))
        BY <1>3, <2>3
      <3>2. Folds(H(next(s)), f, next(s)) /\ Folds(H(s), f, s)
        BY <1>2, <1>4, <3>1
      <3>3. IsFiniteSet(s)
        BY FS_Subset
      <3> HIDE DEF next
      <3> QED
        BY <3>1, <3>2, <3>3, FoldsAgree
    <2> HIDE DEF v, g, next
    <2> QED
      BY <2>1, <2>2, <2>3
  <1>5. g = [s \in SUBSET X |-> IF s = {} THEN 0 ELSE f[Pick(s)] + g[next(s)]]
    <2>1. ASSUME NEW s \in SUBSET X, s # {} PROVE v(next(s)) = g[next(s)]
      BY <1>3, <1>4, <2>1
    <2> HIDE DEF v, next, H
    <2> DEFINE k == [s \in SUBSET X |-> IF s = {} THEN 0 ELSE f[Pick(s)] + g[next(s)]]
    <2>2. ASSUME NEW s \in SUBSET X PROVE g[s] = k[s]
      <3>1. g[s] = IF s = {} THEN 0 ELSE f[Pick(s)] + v(next(s))
        OBVIOUS
      <3> HIDE DEF g
      <3> QED
        BY <2>1, <3>1
    <2> QED
      BY <2>2
  <1>6. Folds(g, f, X)
    <2> HIDE DEF g
    <2> QED
      BY <1>5 DEF Folds
  <1> QED
    BY <1>6

\* The sum unfolds at the element the fold picks.
LEMMA SumUnfolds ==
    ASSUME NEW f, NEW S, IsFiniteSet(S)
    PROVE  Sum(f, S) = IF S = {} THEN 0 ELSE f[Pick(S)] + Sum(f, S \ {Pick(S)})
  <1> DEFINE H(s) == CHOOSE h : Folds(h, f, s)
  <1>1. ASSUME NEW s, IsFiniteSet(s) PROVE Folds(H(s), f, s) /\ Sum(f, s) = H(s)[s]
    <2>1. \E h : Folds(h, f, s)
      BY <1>1, FoldsExists
    <2> QED
      BY <2>1, SumIs, Zenon
  <1> HIDE DEF H
  <1>2. Sum(f, S) = IF S = {} THEN 0 ELSE f[Pick(S)] + H(S)[S \ {Pick(S)}]
    <2>1. Folds(H(S), f, S) /\ Sum(f, S) = H(S)[S] /\ S \in SUBSET S
      BY <1>1
    <2> QED
      BY <2>1, FoldsAt
  <1>3. ASSUME S # {} PROVE H(S)[S \ {Pick(S)}] = Sum(f, S \ {Pick(S)})
    <2> DEFINE Z == S \ {Pick(S)}
    <2>1. IsFiniteSet(Z)
      BY FS_RemoveElement
    <2>2. Z \in SUBSET (S \cap Z)
      OBVIOUS
    <2> HIDE DEF Z
    <2>3. Folds(H(Z), f, Z) /\ Folds(H(S), f, S) /\ Sum(f, Z) = H(Z)[Z]
      BY <1>1, <2>1
    <2>4. H(S)[Z] = H(Z)[Z]
      BY <2>2, <2>3, FoldsAgree
    <2> QED
      BY <2>3, <2>4 DEF Z
  <1> QED
    BY <1>2, <1>3

\* Any of the summed values may be taken out first.
SplitsAt(f, S, x) ==
    Sum(f, S) \in Int /\ Sum(f, S \ {x}) \in Int /\ Sum(f, S) = f[x] + Sum(f, S \ {x})

LEMMA SumOut ==
    ASSUME NEW f, NEW S, IsFiniteSet(S), \A x \in S : f[x] \in Int, NEW x \in S
    PROVE  SplitsAt(f, S, x)
  <1> DEFINE Fine(X) == Sum(f, X) \in Int /\ \A y \in X : Sum(f, X) = f[y] + Sum(f, X \ {y})
             Bad == {X \in SUBSET S : ~ Fine(X)}
  <1>1. Bad = {}
    <2> SUFFICES ASSUME Bad # {} PROVE FALSE
      OBVIOUS
    <2>1. PICK X \in Bad : \A Y \in Bad : Y \subseteq X => Y = X
      <3>1. Bad \subseteq SUBSET S
        OBVIOUS
      <3> HIDE DEF Bad
      <3> QED
        BY <3>1, Smallest
    <2>2. X \in SUBSET S /\ IsFiniteSet(X) /\ ~ Fine(X)
      BY <2>1, FS_Subset
    <2>3. ASSUME NEW y \in X PROVE Fine(X \ {y})
      <3>1. X \ {y} \in SUBSET S /\ X \ {y} \subseteq X /\ X \ {y} # X
        BY <2>2
      <3> HIDE DEF Fine
      <3> QED
        BY <2>1, <3>1
    <2>4. CASE X = {}
      <3>1. Sum(f, {}) = 0
        BY SumUnfolds, FS_EmptySet
      <3> QED
        BY <2>2, <2>4, <3>1
    <2>5. CASE X # {}
      <3> DEFINE p == Pick(X)
      <3>1. p \in X /\ Sum(f, X) = f[p] + Sum(f, X \ {p})
        BY <2>2, <2>5, PickIn, SumUnfolds
      <3> HIDE DEF p
      <3>2. Sum(f, X) \in Int
        BY <2>2, <2>3, <3>1
      <3>3. ASSUME NEW y \in X, y # p PROVE Sum(f, X) = f[y] + Sum(f, X \ {y})
        <4>1. (X \ {p}) \ {y} = (X \ {y}) \ {p} /\ y \in X \ {p} /\ p \in X \ {y}
          BY <3>1, <3>3
        <4>2. Sum(f, X \ {p}) = f[y] + Sum(f, (X \ {y}) \ {p})
          BY <2>3, <3>1, <4>1
        <4>3. Sum(f, X \ {y}) = f[p] + Sum(f, (X \ {y}) \ {p})
          BY <2>3, <3>1, <4>1
        <4>4. Sum(f, X) \in Int /\ Sum(f, X \ {y}) \in Int /\ f[y] \in Int /\ f[p] \in Int /\ Sum(f, X \ {p}) \in Int
          BY <2>2, <2>3, <3>1, <3>2
        <4>5. Sum(f, (X \ {y}) \ {p}) \in Int
          <5>1. (X \ {y}) \ {p} \in SUBSET S /\ (X \ {y}) \ {p} \subseteq X /\ (X \ {y}) \ {p} # X
            BY <2>2, <3>1
          <5> HIDE DEF Fine
          <5>2. Fine((X \ {y}) \ {p})
            BY <2>1, <5>1
          <5> QED
            BY <5>2 DEF Fine
        <4> QED
          BY <3>1, <4>2, <4>3, <4>4, <4>5
      <3> QED
        BY <2>2, <3>1, <3>2, <3>3
    <2> QED
      BY <2>4, <2>5
  <1>2. Fine(S) /\ Fine(S \ {x})
    <2>1. S \in SUBSET S /\ S \ {x} \in SUBSET S
      OBVIOUS
    <2> HIDE DEF Fine
    <2> QED
      BY <1>1, <2>1
  <1> QED
    BY <1>2 DEF SplitsAt

\* Sums of nothing, of integers, of equal values and of zeros.
LEMMA SumOfNone == ASSUME NEW f PROVE Sum(f, {}) = 0
  BY SumUnfolds, FS_EmptySet

LEMMA SumType ==
    ASSUME NEW f, NEW S, IsFiniteSet(S), \A x \in S : f[x] \in Int
    PROVE  Sum(f, S) \in Int
  <1>1. CASE S = {}
    BY <1>1, SumOfNone
  <1>2. CASE S # {}
    <2>1. PICK x \in S : TRUE
      BY <1>2
    <2> QED
      BY <2>1, SumOut DEF SplitsAt
  <1> QED
    BY <1>1, <1>2

\* Sums grow with what is summed.
LEMMA SumAtMost ==
    ASSUME NEW f, NEW g, NEW S, IsFiniteSet(S),
           \A x \in S : f[x] \in Int /\ g[x] \in Int /\ f[x] <= g[x]
    PROVE  Sum(f, S) <= Sum(g, S)
  <1> DEFINE Bad == {X \in SUBSET S : ~ (Sum(f, X) <= Sum(g, X))}
  <1> SUFFICES ASSUME Bad # {} PROVE FALSE
    OBVIOUS
  <1>1. PICK X \in Bad : \A Y \in Bad : Y \subseteq X => Y = X
    <2>1. Bad \subseteq SUBSET S
      OBVIOUS
    <2> HIDE DEF Bad
    <2> QED
      BY <2>1, Smallest
  <1>2. X \in SUBSET S /\ IsFiniteSet(X) /\ ~ (Sum(f, X) <= Sum(g, X))
    BY <1>1, FS_Subset
  <1>3. PICK x \in X : TRUE
    <2>1. Sum(f, {}) = 0 /\ Sum(g, {}) = 0
      BY SumOfNone
    <2> QED
      BY <1>2, <2>1
  <1>4. Sum(f, X \ {x}) <= Sum(g, X \ {x})
    BY <1>1, <1>2, <1>3
  <1>5. /\ Sum(f, X \ {x}) \in Int /\ Sum(f, X) = f[x] + Sum(f, X \ {x})
        /\ Sum(g, X \ {x}) \in Int /\ Sum(g, X) = g[x] + Sum(g, X \ {x})
    <2>1. \A y \in X : f[y] \in Int /\ g[y] \in Int
      BY <1>2
    <2> QED
      BY <1>2, <1>3, <2>1, SumOut DEF SplitsAt
  <1>6. f[x] \in Int /\ g[x] \in Int /\ f[x] <= g[x]
    BY <1>2, <1>3
  <1> QED
    BY <1>2, <1>4, <1>5, <1>6

LEMMA SumOfEqual ==
    ASSUME NEW f, NEW g, NEW S, IsFiniteSet(S), \A x \in S : f[x] \in Int /\ f[x] = g[x]
    PROVE  Sum(f, S) = Sum(g, S)
  <1>1. Sum(f, S) <= Sum(g, S) /\ Sum(g, S) <= Sum(f, S)
    BY SumAtMost
  <1>2. Sum(f, S) \in Int /\ Sum(g, S) \in Int
    BY SumType
  <1> QED
    BY <1>1, <1>2

LEMMA SumOfZeros ==
    ASSUME NEW f, NEW S, IsFiniteSet(S), \A x \in S : f[x] = 0
    PROVE  Sum(f, S) = 0
  <1> DEFINE Bad == {X \in SUBSET S : Sum(f, X) # 0}
  <1> SUFFICES ASSUME Bad # {} PROVE FALSE
    OBVIOUS
  <1>1. PICK X \in Bad : \A Y \in Bad : Y \subseteq X => Y = X
    <2>1. Bad \subseteq SUBSET S
      OBVIOUS
    <2> HIDE DEF Bad
    <2> QED
      BY <2>1, Smallest
  <1>2. X \in SUBSET S /\ IsFiniteSet(X) /\ Sum(f, X) # 0
    BY <1>1, FS_Subset
  <1>3. PICK x \in X : TRUE
    <2>1. Sum(f, {}) = 0
      BY SumOfNone
    <2> QED
      BY <1>2, <2>1
  <1>4. Sum(f, X \ {x}) = 0
    BY <1>1, <1>2, <1>3
  <1>5. Sum(f, X) = f[x] + Sum(f, X \ {x})
    <2>1. \A y \in X : f[y] \in Int
      BY <1>2
    <2> QED
      BY <1>2, <1>3, <2>1, SumOut DEF SplitsAt
  <1> QED
    BY <1>2, <1>3, <1>4, <1>5

\* Sums add up pointwise.
LEMMA SumOfSums ==
    ASSUME NEW f, NEW g, NEW h, NEW S, IsFiniteSet(S),
           \A x \in S : f[x] \in Int /\ g[x] \in Int /\ h[x] = f[x] + g[x]
    PROVE  Sum(h, S) = Sum(f, S) + Sum(g, S)
  <1> DEFINE Bad == {X \in SUBSET S : Sum(h, X) # Sum(f, X) + Sum(g, X)}
  <1> SUFFICES ASSUME Bad # {} PROVE FALSE
    OBVIOUS
  <1>1. PICK X \in Bad : \A Y \in Bad : Y \subseteq X => Y = X
    <2>1. Bad \subseteq SUBSET S
      OBVIOUS
    <2> HIDE DEF Bad
    <2> QED
      BY <2>1, Smallest
  <1>2. X \in SUBSET S /\ IsFiniteSet(X) /\ Sum(h, X) # Sum(f, X) + Sum(g, X)
    BY <1>1, FS_Subset
  <1>3. PICK x \in X : TRUE
    <2>1. Sum(f, {}) = 0 /\ Sum(g, {}) = 0 /\ Sum(h, {}) = 0
      BY SumOfNone
    <2>2. ASSUME X = {} PROVE FALSE
      <3>1. Sum(f, X) = 0 /\ Sum(g, X) = 0 /\ Sum(h, X) = 0
        BY <2>1, <2>2
      <3> HIDE DEF Bad
      <3> QED
        BY <1>2, <3>1
    <2> QED
      BY <2>2
  <1>4. Sum(h, X \ {x}) = Sum(f, X \ {x}) + Sum(g, X \ {x})
    BY <1>1, <1>2, <1>3
  <1>5. /\ Sum(f, X \ {x}) \in Int /\ Sum(f, X) = f[x] + Sum(f, X \ {x})
        /\ Sum(g, X \ {x}) \in Int /\ Sum(g, X) = g[x] + Sum(g, X \ {x})
        /\ Sum(h, X \ {x}) \in Int /\ Sum(h, X) = h[x] + Sum(h, X \ {x})
    <2>1. \A y \in X : f[y] \in Int /\ g[y] \in Int /\ h[y] \in Int
      BY <1>2
    <2> QED
      BY <1>2, <1>3, <2>1, SumOut DEF SplitsAt
  <1>6. f[x] \in Int /\ g[x] \in Int /\ h[x] = f[x] + g[x]
    BY <1>2, <1>3
  <1> QED
    BY <1>2, <1>4, <1>5, <1>6

\* A sum of naturals bounds each of them, and is zero only when all are.
LEMMA SumOfNats ==
    ASSUME NEW f, NEW S, IsFiniteSet(S), \A x \in S : f[x] \in Nat
    PROVE  Sum(f, S) \in Nat /\ \A x \in S : f[x] <= Sum(f, S)
  <1>1. ASSUME NEW X, IsFiniteSet(X), \A x \in X : f[x] \in Nat PROVE Sum(f, X) \in Nat
    <2> DEFINE z == [x \in X |-> 0]
    <2>1. Sum(z, X) = 0
      BY <1>1, SumOfZeros
    <2>2. Sum(z, X) <= Sum(f, X)
      <3>1. \A x \in X : z[x] \in Int /\ f[x] \in Int /\ z[x] <= f[x]
        BY <1>1
      <3> HIDE DEF z
      <3> QED
        BY <1>1, <3>1, SumAtMost
    <2>3. Sum(f, X) \in Int
      BY <1>1, SumType
    <2> QED
      BY <2>1, <2>2, <2>3
  <1>2. ASSUME NEW x \in S PROVE f[x] <= Sum(f, S)
    <2>1. Sum(f, S) = f[x] + Sum(f, S \ {x}) /\ Sum(f, S) \in Int
      <3>1. \A y \in S : f[y] \in Int
        OBVIOUS
      <3> QED
        BY SMTT(30), <3>1, SumOut DEF SplitsAt
    <2>2. Sum(f, S \ {x}) \in Nat
      BY <1>1, FS_RemoveElement
    <2> QED
      BY <2>1, <2>2
  <1> QED
    BY <1>1, <1>2

\* A sum may leave out what adds nothing.
LEMMA SumWithin ==
    ASSUME NEW f, NEW S, IsFiniteSet(S), NEW T, T \subseteq S,
           \A x \in S : f[x] \in Int, \A x \in S \ T : f[x] = 0
    PROVE  Sum(f, S) = Sum(f, T)
  <1> DEFINE Bad == {X \in SUBSET S : T \subseteq X /\ Sum(f, X) # Sum(f, T)}
  <1> SUFFICES ASSUME Bad # {} PROVE FALSE
    OBVIOUS
  <1>1. PICK X \in Bad : \A Y \in Bad : Y \subseteq X => Y = X
    <2>1. Bad \subseteq SUBSET S
      OBVIOUS
    <2> HIDE DEF Bad
    <2> QED
      BY <2>1, Smallest
  <1>2. X \in SUBSET S /\ IsFiniteSet(X) /\ T \subseteq X /\ Sum(f, X) # Sum(f, T)
    BY <1>1, FS_Subset
  <1>3. PICK x \in X : x \notin T
    BY <1>2
  <1>4. Sum(f, X \ {x}) = Sum(f, T)
    BY <1>1, <1>2, <1>3
  <1>5. Sum(f, X) = f[x] + Sum(f, X \ {x}) /\ Sum(f, X) \in Int /\ Sum(f, X \ {x}) \in Int
    <2>1. (\A y \in X : f[y] \in Int) /\ IsFiniteSet(X) /\ x \in X
      BY <1>2, <1>3
    <2> HIDE DEF Bad
    <2>2. SplitsAt(f, X, x)
      BY <2>1, SumOut
    <2> QED
      BY <2>2 DEF SplitsAt
  <1> QED
    BY <1>2, <1>3, <1>4, <1>5

\* Two sums that differ at one place.
LEMMA SumMoves ==
    ASSUME NEW f, NEW g, NEW S, IsFiniteSet(S), NEW x \in S,
           \A y \in S : f[y] \in Int /\ g[y] \in Int, \A y \in S \ {x} : g[y] = f[y]
    PROVE  Sum(g, S) = Sum(f, S) - f[x] + g[x]
  <1>1. Sum(f, S) = f[x] + Sum(f, S \ {x}) /\ Sum(g, S) = g[x] + Sum(g, S \ {x})
        /\ Sum(f, S \ {x}) \in Int
    <2>1. (\A y \in S : f[y] \in Int) /\ \A y \in S : g[y] \in Int
      OBVIOUS
    <2>2. SplitsAt(f, S, x)
      BY <2>1, SumOut
    <2>3. SplitsAt(g, S, x)
      BY <2>1, SumOut
    <2> QED
      BY <2>2, <2>3 DEF SplitsAt
  <1>2. Sum(g, S \ {x}) = Sum(f, S \ {x})
    BY SumOfEqual, FS_RemoveElement
  <1>3. f[x] \in Int /\ g[x] \in Int
    OBVIOUS
  <1> QED
    BY <1>1, <1>2, <1>3

-----------------------------------------------------------------------------
(* Rows and queues of lots. *)

\* The rows of the lots.
LotRow == [granted : Nat, remaining : Nat, exp : 0..Never, frozen : Requests \cup {NoReq}]
IsLots(L) == /\ L \in [Lots -> LotRow]
             /\ \A l \in Lots : L[l].remaining <= L[l].granted /\ (L[l].frozen # NoReq => L[l].granted > 0)

\* A queue: every lot in it gives something, and no two share a place.
Entry == [credits : Nat \ {0}, place : Nat]
IsQueue(q) == /\ DOMAIN q \subseteq Lots /\ q \in [DOMAIN q -> Entry]
              /\ \A k, l \in DOMAIN q : q[k].place = q[l].place => k = l

\* The lesser and the greater of two, and the sum of a whole function.
LEMMA MinOfTwo == ASSUME NEW a \in Int, NEW b \in Int PROVE Min({a, b}) = IF a <= b THEN a ELSE b
  BY DEF Min

LEMMA MaxOfTwo == ASSUME NEW a \in Int, NEW b \in Int PROVE Max({a, b}) = IF a <= b THEN b ELSE a
  BY DEF Max

LEMMA OfAll == ASSUME NEW f, NEW S, f = [x \in S |-> f[x]] PROVE SumFunction(f) = Sum(f, S)
  <1>1. DOMAIN f = S
    OBVIOUS
  <1> QED
    BY <1>1, Zenon DEF SumFunction, Sum

\* The consumption order is a strict total order of the lots.
LEMMA Ordered ==
    ASSUME NEW L, IsLots(L), NEW k \in Lots, NEW l \in Lots, NEW m \in Lots
    PROVE  /\ ~ Before(L, l, l)
           /\ k # l => Before(L, k, l) \/ Before(L, l, k)
           /\ Before(L, k, l) /\ Before(L, l, m) => Before(L, k, m)
  <1>1. \A x \in Lots : L[x].exp \in Int /\ Rank(L, x) \in Int /\ x \in Int
    BY LotsAssumption DEF IsLots, LotRow, Rank, Never
  <1> QED
    BY <1>1 DEF Before

\* A queue of lots that have something left is a queue in this sense.
LEMMA Queues ==
    ASSUME NEW L, IsLots(L), NEW S, S \subseteq Lots, \A l \in S : L[l].remaining > 0
    PROVE  /\ IsQueue(Queue(L, S)) /\ DOMAIN Queue(L, S) = S
           /\ \A l \in S : Queue(L, S)[l].credits = L[l].remaining
  <1> DEFINE q == Queue(L, S)
             ahead(l) == {k \in S : Before(L, k, l)}
  <1>1. DOMAIN q = S /\ \A l \in S : q[l] = [credits |-> L[l].remaining, place |-> Cardinality(ahead(l))]
    BY Zenon DEF Queue
  <1>2. ASSUME NEW l \in S PROVE IsFiniteSet(ahead(l)) /\ Cardinality(ahead(l)) \in Nat
    <2>1. ahead(l) \in SUBSET Lots
      OBVIOUS
    <2> HIDE DEF ahead
    <2> QED
      BY <2>1, LotsAssumption, FS_Subset, FS_CardinalityType
  <1>3. ASSUME NEW k \in S, NEW l \in S, Before(L, k, l) PROVE Cardinality(ahead(k)) # Cardinality(ahead(l))
    <2>1. ahead(k) \in SUBSET ahead(l) /\ k \in ahead(l) /\ k \notin ahead(k)
      BY <1>3, Ordered
    <2> HIDE DEF ahead
    <2> QED
      BY <1>2, <2>1, FS_Subset
  <1>4. ASSUME NEW l \in S PROVE q[l] \in Entry /\ q[l].credits = L[l].remaining /\ q[l].place = Cardinality(ahead(l))
    <2>1. L[l].remaining \in Nat \ {0}
      BY DEF IsLots, LotRow
    <2> HIDE DEF ahead
    <2> QED
      BY <1>1, <1>2, <2>1 DEF Entry
  <1>5. q = [l \in S |-> q[l]]
    BY Zenon DEF Queue
  <1> HIDE DEF q
  <1>6. q \in [DOMAIN q -> Entry]
    BY <1>1, <1>4, <1>5
  <1>7. \A k, l \in S : q[k].place = q[l].place => k = l
    <2> HIDE DEF ahead
    <2> QED
      BY <1>3, <1>4, Ordered
  <1>8. IsQueue(q)
    BY <1>1, <1>6, <1>7 DEF IsQueue
  <1> QED
    BY <1>1, <1>4, <1>8 DEF q

\* A nonempty finite set of lots with different places has a last one.
LEMMA LastPlace ==
    ASSUME NEW q, IsQueue(q), NEW X, X \subseteq DOMAIN q, X # {}
    PROVE  \E m \in X : \A k \in X : k # m => q[k].place < q[m].place
  <1> DEFINE behind(l) == {k \in X : q[k].place > q[l].place}
             T == {behind(l) : l \in X}
  <1>1. IsFiniteSet(X)
    BY LotsAssumption, FS_Subset DEF IsQueue
  <1>2. T \subseteq SUBSET X /\ T # {}
    OBVIOUS
  <1>3. PICK Y \in T : \A Z \in T : Z \subseteq Y => Z = Y
    <2> HIDE DEF T
    <2> QED
      BY <1>1, <1>2, Smallest
  <1>4. PICK m \in X : Y = behind(m)
    OBVIOUS
  <1>5. \A k \in X : q[k].place \in Nat
    BY DEF IsQueue, Entry
  <1>6. ASSUME NEW k \in X, q[k].place > q[m].place PROVE FALSE
    <2>1. behind(k) \subseteq Y /\ behind(k) \in T /\ k \in Y /\ k \notin behind(k)
      BY <1>4, <1>5, <1>6
    <2> HIDE DEF T, behind
    <2> QED
      BY <1>3, <2>1
  <1>7. \A k \in X : k # m => q[k].place < q[m].place
    BY <1>5, <1>6 DEF IsQueue
  <1> QED
    BY <1>7

\* What a queue holds, and how much is ahead of a lot in it.
LEMMA CreditsIn ==
    ASSUME NEW q, IsQueue(q)
    PROVE  /\ IsFiniteSet(DOMAIN q) /\ DOMAIN Credits(q) = DOMAIN q
           /\ \A l \in DOMAIN q : Credits(q)[l] = q[l].credits /\ Credits(q)[l] \in Nat \ {0} /\ q[l].place \in Nat
           /\ Total(q) = Sum(Credits(q), DOMAIN q) /\ Total(q) \in Nat
  <1>1. IsFiniteSet(DOMAIN q)
    BY LotsAssumption, FS_Subset DEF IsQueue
  <1>2. DOMAIN Credits(q) = DOMAIN q /\ \A l \in DOMAIN q : Credits(q)[l] = q[l].credits
    BY Zenon DEF Credits
  <1>3. \A l \in DOMAIN q : Credits(q)[l] \in Nat \ {0} /\ q[l].place \in Nat
    BY <1>2 DEF IsQueue, Entry
  <1>4. Total(q) = Sum(Credits(q), DOMAIN q)
    BY <1>2, Zenon DEF Total, SumFunction, Sum
  <1> QED
    BY <1>1, <1>2, <1>3, <1>4, SumOfNats

LEMMA AheadIn ==
    ASSUME NEW q, IsQueue(q), NEW l \in DOMAIN q
    PROVE  Ahead(q, l) \in Nat
  <1> DEFINE A == {k \in DOMAIN q : q[k].place < q[l].place}
  <1>1. Ahead(q, l) = Sum(Credits(q), A)
    BY Zenon DEF Ahead, Sum
  <1>2. A \subseteq DOMAIN q
    OBVIOUS
  <1>3. IsFiniteSet(A)
    BY <1>2, CreditsIn, FS_Subset
  <1> HIDE DEF A
  <1> QED
    BY <1>1, <1>2, <1>3, CreditsIn, SumOfNats

\* A portion gives of each lot at most what the queue has of it.
LEMMA Portions ==
    ASSUME NEW q, IsQueue(q), NEW a \in Int
    PROVE  /\ IsQueue(Portion(q, a)) /\ DOMAIN Portion(q, a) \subseteq DOMAIN q
           /\ \A l \in DOMAIN Portion(q, a) :
                 /\ Portion(q, a)[l].credits <= q[l].credits
                 /\ Portion(q, a)[l].credits = Min({q[l].credits, a - Ahead(q, l)})
           /\ \A l \in DOMAIN q : l \in DOMAIN Portion(q, a) <=> Ahead(q, l) < a
  <1> DEFINE p == Portion(q, a)
             D == {k \in DOMAIN q : Ahead(q, k) < a}
  <1>1. DOMAIN p = D /\ p = [l \in D |-> p[l]]
        /\ \A l \in D : p[l] = [credits |-> Min({q[l].credits, a - Ahead(q, l)}), place |-> q[l].place]
    BY Zenon DEF Portion
  <1> HIDE DEF p
  <1>2. ASSUME NEW l \in D
        PROVE  /\ p[l] \in Entry /\ p[l].place = q[l].place /\ p[l].credits <= q[l].credits
               /\ p[l].credits = Min({q[l].credits, a - Ahead(q, l)})
    <2> DEFINE c == q[l].credits
               b == a - Ahead(q, l)
    <2>1. c \in Nat \ {0} /\ q[l].place \in Nat /\ b \in Nat \ {0}
      BY CreditsIn, AheadIn
    <2>2. p[l] = [credits |-> Min({c, b}), place |-> q[l].place]
      BY <1>1
    <2> HIDE DEF b, c
    <2>3. Min({c, b}) = IF c <= b THEN c ELSE b
      BY <2>1, MinOfTwo
    <2>4. Min({c, b}) \in Nat \ {0} /\ Min({c, b}) <= c
      BY <2>1, <2>3
    <2> QED
      BY <2>1, <2>2, <2>4 DEF Entry, b, c
  <1>3. IsQueue(p)
    <2>1. p \in [DOMAIN p -> Entry]
      BY <1>1, <1>2
    <2>2. \A k, l \in D : p[k].place = p[l].place => k = l
      BY <1>2 DEF IsQueue
    <2>3. D \subseteq Lots
      BY DEF IsQueue
    <2> HIDE DEF D
    <2> QED
      BY <1>1, <2>1, <2>2, <2>3 DEF IsQueue
  <1> QED
    BY <1>1, <1>2, <1>3 DEF p

\* What a queue gives of each lot, and of all of them.
LEMMA PartsIn ==
    ASSUME NEW q, IsQueue(q), NEW l
    PROVE  Part(q, l) \in Nat /\ (l \in DOMAIN q => Part(q, l) = q[l].credits) /\ (l \notin DOMAIN q => Part(q, l) = 0)
  BY CreditsIn DEF Part

Parts(q) == [l \in Lots |-> Part(q, l)]

\* Spread over all lots, a queue adds up to its total.
LEMMA PartsTotal ==
    ASSUME NEW q, IsQueue(q)
    PROVE  Sum(Parts(q), Lots) = Total(q)
  <1>1. \A l \in Lots : Parts(q)[l] = Part(q, l)
    BY DEF Parts
  <1>2. \A l \in Lots : Parts(q)[l] \in Int /\ (l \notin DOMAIN q => Parts(q)[l] = 0)
    BY <1>1, PartsIn
  <1>3. DOMAIN q \subseteq Lots /\ IsFiniteSet(Lots)
    BY LotsAssumption DEF IsQueue
  <1>4. Sum(Parts(q), Lots) = Sum(Parts(q), DOMAIN q)
    BY <1>2, <1>3, SumWithin
  <1>5. \A l \in DOMAIN q : Parts(q)[l] \in Int /\ Parts(q)[l] = Credits(q)[l]
    BY <1>1, <1>2, <1>3, PartsIn, CreditsIn
  <1>6. Sum(Parts(q), DOMAIN q) = Sum(Credits(q), DOMAIN q)
    BY <1>5, CreditsIn, SumOfEqual
  <1> QED
    BY <1>4, <1>6, CreditsIn

\* A portion makes up the amount, or all the queue has.
LEMMA PortionTotal ==
    ASSUME NEW q, IsQueue(q), NEW a \in Nat
    PROVE  Total(Portion(q, a)) = IF a <= Total(q) THEN a ELSE Total(q)
  <1> DEFINE p == Portion(q, a)
             c == Credits(q)
             v == Parts(p)
             Prefix(X) == \A l \in X : \A k \in DOMAIN q : q[k].place < q[l].place => k \in X
             Full(X) == Sum(v, X) = IF a <= Sum(c, X) THEN a ELSE Sum(c, X)
             Bad == {X \in SUBSET DOMAIN q : Prefix(X) /\ ~ Full(X)}
  <1>0. /\ IsQueue(p) /\ DOMAIN p \subseteq DOMAIN q
        /\ \A l \in DOMAIN p : p[l].credits = Min({q[l].credits, a - Ahead(q, l)})
        /\ \A l \in DOMAIN q : l \in DOMAIN p <=> Ahead(q, l) < a
    <2> HIDE DEF c, v, Prefix, Full, Bad
    <2>1. a \in Int
      OBVIOUS
    <2> QED
      BY <2>1, Portions
  <1> HIDE DEF p
  <1>1. IsQueue(p) /\ DOMAIN p \subseteq DOMAIN q /\ DOMAIN q \subseteq Lots
    BY <1>0 DEF IsQueue
  <1>2. ASSUME NEW l \in DOMAIN q
        PROVE  /\ c[l] \in Nat /\ Ahead(q, l) \in Nat /\ v[l] \in Nat
               /\ v[l] = IF a <= Ahead(q, l) THEN 0 ELSE IF c[l] <= a - Ahead(q, l) THEN c[l] ELSE a - Ahead(q, l)
    <2>1. c[l] \in Nat \ {0} /\ Ahead(q, l) \in Nat /\ c[l] = q[l].credits
      BY CreditsIn, AheadIn
    <2>2. v[l] = Part(p, l) /\ v[l] \in Nat
      BY <1>1, PartsIn DEF Parts
    <2>3. CASE Ahead(q, l) < a
      <3>1. l \in DOMAIN p /\ p[l].credits = Min({q[l].credits, a - Ahead(q, l)})
        BY <1>0, <2>3
      <3>2. Part(p, l) = p[l].credits
        BY <1>1, <3>1, PartsIn
      <3>3. Min({q[l].credits, a - Ahead(q, l)}) = IF q[l].credits <= a - Ahead(q, l) THEN q[l].credits ELSE a - Ahead(q, l)
        <4>1. q[l].credits \in Int /\ a - Ahead(q, l) \in Int
          BY <2>1
        <4> QED
          BY <4>1, MinOfTwo
      <3> HIDE DEF p, c, v
      <3> QED
        BY <2>1, <2>2, <2>3, <3>1, <3>2, <3>3
    <2>4. CASE ~ (Ahead(q, l) < a)
      <3>1. l \notin DOMAIN p
        BY <1>0, <2>4
      <3> QED
        BY <1>1, <2>1, <2>2, <2>4, <3>1, PartsIn
    <2> QED
      BY <2>3, <2>4
  <1>3. Bad = {}
    <2> SUFFICES ASSUME Bad # {} PROVE FALSE
      OBVIOUS
    <2>1. PICK X \in Bad : \A Y \in Bad : Y \subseteq X => Y = X
      <3>1. Bad \subseteq SUBSET DOMAIN q /\ IsFiniteSet(DOMAIN q)
        BY CreditsIn
      <3> HIDE DEF Bad
      <3> QED
        BY <3>1, Smallest
    <2>2. X \subseteq DOMAIN q /\ Prefix(X) /\ ~ Full(X) /\ IsFiniteSet(X)
      BY <2>1, CreditsIn, FS_Subset
    <2>3. X # {}
      <3>1. Sum(c, {}) = 0 /\ Sum(v, {}) = 0
        BY SumOfNone
      <3>2. Full({})
        BY <3>1
      <3> HIDE DEF Full
      <3> QED
        BY <2>2, <3>2
    <2>4. PICK m \in X : \A k \in X : k # m => q[k].place < q[m].place
      BY <2>2, <2>3, LastPlace
    <2> DEFINE Z == X \ {m}
    <2>5. Z = {k \in DOMAIN q : q[k].place < q[m].place}
      <3>1. \A k \in DOMAIN q : q[k].place \in Int
        BY CreditsIn
      <3> HIDE DEF Full
      <3> QED
        BY <2>2, <2>4, <3>1
    <2>6. Sum(c, Z) = Ahead(q, m)
      BY <2>5, Zenon DEF Ahead, Sum
    <2>7. Full(Z)
      <3>1. \A k \in DOMAIN q : q[k].place \in Int
        BY CreditsIn
      <3>2. Prefix(Z)
        BY <2>2, <2>5, <3>1
      <3>3. Z \in SUBSET DOMAIN q /\ Z \subseteq X /\ Z # X
        BY <2>2
      <3> HIDE DEF Full, Prefix, Z
      <3> QED
        BY <2>1, <3>2, <3>3
    <2>8. Sum(c, X) = c[m] + Sum(c, Z) /\ Sum(v, X) = v[m] + Sum(v, Z)
      <3>1. (\A l \in X : c[l] \in Int) /\ (\A l \in X : v[l] \in Int)
        <4> HIDE DEF c, v
        <4> QED
          BY <1>2, <2>2
      <3> HIDE DEF c, v, Full, Prefix, Z
      <3>2. Sum(c, X) = c[m] + Sum(c, X \ {m})
        BY <2>2, <3>1, SumOut DEF SplitsAt
      <3>3. Sum(v, X) = v[m] + Sum(v, X \ {m})
        BY <2>2, <3>1, SumOut DEF SplitsAt
      <3> QED
        BY <3>2, <3>3 DEF Z
    <2> HIDE DEF Z, c, v
    <2> QED
      BY <1>2, <2>2, <2>6, <2>7, <2>8
  <1>4. Full(DOMAIN q)
    <2>1. Prefix(DOMAIN q)
      OBVIOUS
    <2> HIDE DEF Full, Prefix
    <2> QED
      BY <1>3, <2>1
  <1>5. Sum(c, DOMAIN q) = Total(q)
    BY CreditsIn
  <1>6. Sum(v, DOMAIN q) = Total(p)
    <2>1. Sum(v, Lots) = Total(p) /\ IsFiniteSet(Lots)
      BY <1>1, PartsTotal, LotsAssumption
    <2>2. \A l \in Lots : v[l] \in Int /\ (l \notin DOMAIN q => v[l] = 0)
      BY <1>1, PartsIn DEF Parts
    <2> HIDE DEF v
    <2>3. Sum(v, Lots) = Sum(v, DOMAIN q)
      BY <1>1, <2>1, <2>2, SumWithin
    <2> QED
      BY <2>1, <2>3
  <1> QED
    BY <1>4, <1>5, <1>6 DEF p

-----------------------------------------------------------------------------
(* Spending and refunding, and what is gone. *)

\* What the guarded statements do where their guards hold.
LEMMA SpentRows ==
    ASSUME NEW L, IsLots(L), NEW q, IsQueue(q),
           \A l \in DOMAIN q : L[l].remaining >= q[l].credits /\ L[l].frozen = NoReq
    PROVE  /\ IsLots(Spent(L, q))
           /\ \A l \in Lots : /\ Spent(L, q)[l].granted = L[l].granted
                              /\ Spent(L, q)[l].remaining = L[l].remaining - Part(q, l)
                              /\ Spent(L, q)[l].exp = L[l].exp /\ Spent(L, q)[l].frozen = L[l].frozen
  <1> DEFINE M == Spent(L, q)
  <1>1. ASSUME NEW l \in Lots
        PROVE  /\ M[l] \in LotRow /\ M[l].granted = L[l].granted
               /\ M[l].remaining = L[l].remaining - Part(q, l)
               /\ M[l].exp = L[l].exp /\ M[l].frozen = L[l].frozen
    <2>1. M[l] = IF L[l].remaining >= Part(q, l) /\ L[l].frozen = NoReq
                 THEN [L[l] EXCEPT !.remaining = @ - Part(q, l)] ELSE L[l]
      BY DEF Spent
    <2>2. L[l] \in LotRow /\ Part(q, l) \in Nat /\ L[l].remaining \in Nat
      BY PartsIn DEF IsLots, LotRow
    <2>3. CASE L[l].remaining >= Part(q, l) /\ L[l].frozen = NoReq
      <3>1. L[l].remaining - Part(q, l) \in Nat
        BY <2>2, <2>3
      <3>2. M[l] = [L[l] EXCEPT !.remaining = @ - Part(q, l)]
        BY <2>1, <2>3
      <3> HIDE DEF M
      <3> QED
        BY <2>2, <3>1, <3>2 DEF LotRow
    <2>4. CASE ~ (L[l].remaining >= Part(q, l) /\ L[l].frozen = NoReq)
      <3>1. Part(q, l) = 0
        BY <2>2, <2>4, PartsIn
      <3>2. M[l] = L[l]
        BY <2>1, <2>4
      <3> HIDE DEF M
      <3> QED
        BY <2>2, <3>1, <3>2
    <2> QED
      BY <2>3, <2>4
  <1>2. M = [l \in Lots |-> M[l]]
    BY Zenon DEF Spent
  <1> HIDE DEF M
  <1>3. M \in [Lots -> LotRow]
    BY <1>1, <1>2
  <1>4. \A l \in Lots : M[l].remaining <= M[l].granted /\ (M[l].frozen # NoReq => M[l].granted > 0)
    <2> SUFFICES ASSUME NEW l \in Lots
                 PROVE  M[l].remaining <= M[l].granted /\ (M[l].frozen # NoReq => M[l].granted > 0)
      OBVIOUS
    <2>1. L[l].remaining \in Nat /\ L[l].granted \in Nat /\ Part(q, l) \in Nat /\ L[l].remaining <= L[l].granted
          /\ (L[l].frozen # NoReq => L[l].granted > 0)
      BY PartsIn DEF IsLots, LotRow
    <2> QED
      BY <1>1, <2>1
  <1> QED
    BY <1>1, <1>3, <1>4 DEF M, IsLots

\* Refunding the rows of a queue that fits under what they were granted.
LEMMA RefundedRows ==
    ASSUME NEW L, IsLots(L), NEW q, IsQueue(q),
           \A l \in DOMAIN q : L[l].remaining + q[l].credits <= L[l].granted
    PROVE  /\ IsLots(Refunded(L, q))
           /\ \A l \in Lots : /\ Refunded(L, q)[l].granted = L[l].granted
                              /\ Refunded(L, q)[l].remaining = L[l].remaining + Part(q, l)
                              /\ Refunded(L, q)[l].exp = L[l].exp /\ Refunded(L, q)[l].frozen = L[l].frozen
  <1> DEFINE M == Refunded(L, q)
  <1>1. ASSUME NEW l \in Lots
        PROVE  /\ M[l] \in LotRow /\ M[l].granted = L[l].granted /\ M[l].remaining <= M[l].granted
               /\ M[l].remaining = L[l].remaining + Part(q, l)
               /\ M[l].exp = L[l].exp /\ M[l].frozen = L[l].frozen
    <2>1. M[l] = IF L[l].remaining + Part(q, l) <= L[l].granted
                 THEN [L[l] EXCEPT !.remaining = @ + Part(q, l)] ELSE L[l]
      BY DEF Refunded
    <2>2. L[l] \in LotRow /\ Part(q, l) \in Nat /\ L[l].remaining \in Nat /\ L[l].granted \in Nat
      BY PartsIn DEF IsLots, LotRow
    <2>3. L[l].remaining + Part(q, l) <= L[l].granted
      <3>1. CASE l \in DOMAIN q
        BY <3>1, PartsIn
      <3>2. CASE l \notin DOMAIN q
        BY <2>2, <3>2, PartsIn DEF IsLots
      <3> QED
        BY <3>1, <3>2
    <2>4. M[l] = [L[l] EXCEPT !.remaining = @ + Part(q, l)]
      BY <2>1, <2>3
    <2>5. L[l].remaining + Part(q, l) \in Nat
      BY <2>2
    <2> HIDE DEF M
    <2> QED
      BY <2>2, <2>3, <2>4, <2>5 DEF LotRow
  <1>2. M = [l \in Lots |-> M[l]]
    BY Zenon DEF Refunded
  <1> HIDE DEF M
  <1>3. M \in [Lots -> LotRow]
    BY <1>1, <1>2
  <1>4. \A l \in Lots : M[l].frozen # NoReq => M[l].granted > 0
    BY <1>1 DEF IsLots
  <1> QED
    BY <1>1, <1>3, <1>4 DEF M, IsLots

\* What is gone from the lots is never negative.
LEMMA GoneIn ==
    ASSUME NEW L, IsLots(L)
    PROVE  /\ \A l \in Lots : Gone(L)[l] = L[l].granted - L[l].remaining /\ Gone(L)[l] \in Nat
           /\ SumFunction(Gone(L)) = Sum(Gone(L), Lots) /\ SumFunction(Gone(L)) \in Nat
  <1>1. \A l \in Lots : Gone(L)[l] = L[l].granted - L[l].remaining
    BY DEF Gone
  <1>2. \A l \in Lots : Gone(L)[l] \in Nat
    <2>1. \A l \in Lots : L[l].granted \in Nat /\ L[l].remaining \in Nat /\ L[l].remaining <= L[l].granted
      BY DEF IsLots, LotRow
    <2> QED
      BY <1>1, <2>1
  <1>3. SumFunction(Gone(L)) = Sum(Gone(L), Lots)
    <2>1. Gone(L) = [l \in Lots |-> Gone(L)[l]]
      BY DEF Gone
    <2> QED
      BY <2>1, OfAll
  <1>4. Sum(Gone(L), Lots) \in Nat
    BY <1>2, LotsAssumption, SumOfNats
  <1> QED
    BY <1>1, <1>2, <1>3, <1>4

\* Credits taken from the lots and given back show in what is gone.
LEMMA GoneMoves ==
    ASSUME NEW L, IsLots(L), NEW M, IsLots(M), NEW back, IsQueue(back), NEW out, IsQueue(out),
           \A l \in Lots : Gone(M)[l] = Gone(L)[l] - Part(back, l) + Part(out, l)
    PROVE  SumFunction(Gone(M)) = SumFunction(Gone(L)) - Total(back) + Total(out)
  <1> DEFINE f == Gone(L)
             b == Parts(back)
             o == Parts(out)
             g == Gone(M)
             h == [l \in Lots |-> g[l] + b[l]]
  <1>1. \A l \in Lots : f[l] \in Int /\ b[l] \in Int /\ o[l] \in Int /\ g[l] \in Int /\ g[l] = f[l] - b[l] + o[l]
    BY GoneIn, PartsIn DEF Parts
  <1>2. Sum(b, Lots) = Total(back) /\ Sum(o, Lots) = Total(out) /\ IsFiniteSet(Lots)
    BY PartsTotal, LotsAssumption
  <1>3. SumFunction(Gone(M)) = Sum(g, Lots) /\ SumFunction(Gone(L)) = Sum(f, Lots)
        /\ Sum(g, Lots) \in Int /\ Sum(f, Lots) \in Int
    BY GoneIn
  <1> HIDE DEF f, b, o, g
  <1>4. \A l \in Lots : h[l] = g[l] + b[l] /\ h[l] = f[l] + o[l]
    BY <1>1
  <1> HIDE DEF h
  <1>5. Sum(h, Lots) = Sum(g, Lots) + Sum(b, Lots)
    BY <1>1, <1>2, <1>4, SumOfSums
  <1>6. Sum(h, Lots) = Sum(f, Lots) + Sum(o, Lots)
    BY <1>1, <1>2, <1>4, SumOfSums
  <1> QED
    BY <1>2, <1>3, <1>5, <1>6, CreditsIn

-----------------------------------------------------------------------------
(* The invariant. *)

AdmFields == {"state", "hold", "debits", "eligible", "charged"}
IsAdm(x, j, c) ==
    /\ x = [f \in AdmFields |-> x[f]]
    /\ x.state \in {"none", "open", "settled"} /\ x.hold \in {0, Need[j]} /\ x.eligible \subseteq Lots
    /\ x.charged \in 0..c /\ (j \in Capped => x.charged <= x.hold)
    /\ IsQueue(x.debits)
    /\ DOMAIN x.debits # {} => Total(x.debits) = x.hold
    /\ x.state = "none" => DOMAIN x.debits = {}

Statuses == {"requested", "processing", "failed", "completed"}

LedgerShape ==
    /\ now \in 0..MaxTime /\ IsLots(lot)
    /\ adm = [j \in Jobs |-> adm[j]] /\ \A j \in Jobs : IsAdm(adm[j], j, cost[j])
    /\ cost \in [Jobs -> 0..MaxCost] /\ refund \in [Requests -> Statuses] /\ voided \in Nat

\* What each start of the admissions A holds of a lot.
Reserved(A, l) == [j \in Jobs |-> IF A[j].state = "open" THEN Part(A[j].debits, l) ELSE 0]

\* Whatever open starts hold of a lot is gone from its row.
Backed == \A l \in Lots : SumFunction(Reserved(adm, l)) <= Gone(lot)[l]

LedgerInv == LedgerShape /\ Backed /\ NothingReserved /\ Conserved

\* What a step of the account's work leaves of a frozen lot.
FrozenKept == \A l \in Lots : lot[l].frozen # NoReq => Gone(lot')[l] = Gone(lot)[l]

-----------------------------------------------------------------------------
AreAdms(A) == \A j \in Jobs : \E c \in Nat : IsAdm(A[j], j, c)

\* What open starts hold of a lot, and how one start's step changes it.
LEMMA ReservedIn ==
    ASSUME NEW A, AreAdms(A), NEW l
    PROVE  /\ \A j \in Jobs : /\ Reserved(A, l)[j] = IF A[j].state = "open" THEN Part(A[j].debits, l) ELSE 0
                              /\ Reserved(A, l)[j] \in Nat
           /\ SumFunction(Reserved(A, l)) = Sum(Reserved(A, l), Jobs) /\ SumFunction(Reserved(A, l)) \in Nat
           /\ \A j \in Jobs : Reserved(A, l)[j] <= SumFunction(Reserved(A, l))
  <1> DEFINE f == Reserved(A, l)
  <1>1. \A j \in Jobs : f[j] = IF A[j].state = "open" THEN Part(A[j].debits, l) ELSE 0
    BY DEF Reserved
  <1>2. f = [j \in Jobs |-> f[j]]
    BY DEF Reserved
  <1> HIDE DEF f
  <1>3. \A j \in Jobs : f[j] \in Nat
    <2>1. \A j \in Jobs : IsQueue(A[j].debits)
      BY DEF AreAdms, IsAdm
    <2> QED
      BY <1>1, <2>1, PartsIn
  <1>4. SumFunction(f) = Sum(f, Jobs)
    BY <1>2, OfAll
  <1>5. Sum(f, Jobs) \in Nat /\ \A j \in Jobs : f[j] <= Sum(f, Jobs)
    BY <1>3, LotsAssumption, SumOfNats
  <1> QED
    BY <1>1, <1>3, <1>4, <1>5 DEF f

LEMMA ReservedMoves ==
    ASSUME NEW A, AreAdms(A), NEW B, AreAdms(B), NEW j \in Jobs, \A k \in Jobs \ {j} : B[k] = A[k], NEW l
    PROVE  SumFunction(Reserved(B, l)) = SumFunction(Reserved(A, l)) - Reserved(A, l)[j] + Reserved(B, l)[j]
  <1> DEFINE f == Reserved(A, l)
             g == Reserved(B, l)
  <1>1. \A k \in Jobs \ {j} : g[k] = f[k]
    BY DEF Reserved
  <1>2. /\ \A k \in Jobs : f[k] \in Int /\ g[k] \in Int
        /\ SumFunction(f) = Sum(f, Jobs) /\ SumFunction(g) = Sum(g, Jobs)
    BY ReservedIn
  <1> HIDE DEF f, g
  <1>3. Sum(g, Jobs) = Sum(f, Jobs) - f[j] + g[j]
    BY <1>1, <1>2, LotsAssumption, SumMoves
  <1> QED
    BY <1>2, <1>3 DEF f, g

\* What starts have taken, and how one start's step changes it.
LEMMA TakenIn ==
    ASSUME NEW A, AreAdms(A)
    PROVE  /\ \A j \in Jobs : /\ Taken(A)[j] = IF DOMAIN A[j].debits = {} THEN 0
                                              ELSE IF A[j].state = "open" THEN A[j].hold ELSE A[j].charged
                              /\ Taken(A)[j] \in Nat
           /\ SumFunction(Taken(A)) = Sum(Taken(A), Jobs) /\ SumFunction(Taken(A)) \in Nat
  <1> DEFINE f == Taken(A)
  <1>1. \A j \in Jobs : f[j] = IF DOMAIN A[j].debits = {} THEN 0
                               ELSE IF A[j].state = "open" THEN A[j].hold ELSE A[j].charged
    BY DEF Taken
  <1>2. f = [j \in Jobs |-> f[j]]
    BY DEF Taken
  <1> HIDE DEF f
  <1>3. \A j \in Jobs : f[j] \in Nat
    <2>1. ASSUME NEW j \in Jobs PROVE A[j].hold \in Nat /\ A[j].charged \in Nat
      <3>1. PICK c \in Nat : IsAdm(A[j], j, c)
        BY DEF AreAdms
      <3> QED
        BY <3>1, LotsAssumption DEF IsAdm
    <2> QED
      BY <1>1, <2>1
  <1>4. SumFunction(f) = Sum(f, Jobs)
    BY <1>2, OfAll
  <1>5. Sum(f, Jobs) \in Nat
    BY <1>3, LotsAssumption, SumOfNats
  <1> QED
    BY <1>1, <1>3, <1>4, <1>5 DEF f

LEMMA TakenMoves ==
    ASSUME NEW A, AreAdms(A), NEW B, AreAdms(B), NEW j \in Jobs, \A k \in Jobs \ {j} : B[k] = A[k]
    PROVE  SumFunction(Taken(B)) = SumFunction(Taken(A)) - Taken(A)[j] + Taken(B)[j]
  <1> DEFINE f == Taken(A)
             g == Taken(B)
  <1>1. \A k \in Jobs \ {j} : g[k] = f[k]
    BY DEF Taken
  <1>2. /\ \A k \in Jobs : f[k] \in Int /\ g[k] \in Int
        /\ SumFunction(f) = Sum(f, Jobs) /\ SumFunction(g) = Sum(g, Jobs)
    BY TakenIn
  <1> HIDE DEF f, g
  <1>3. Sum(g, Jobs) = Sum(f, Jobs) - f[j] + g[j]
    BY <1>1, <1>2, LotsAssumption, SumMoves
  <1> QED
    BY <1>2, <1>3 DEF f, g

\* The admissions of the invariant are admissions.
LEMMA AdmsAre == ASSUME LedgerShape PROVE AreAdms(adm)
  <1>1. \A j \in Jobs : cost[j] \in Nat
    BY LotsAssumption DEF LedgerShape
  <1> QED
    BY <1>1 DEF LedgerShape, AreAdms

-----------------------------------------------------------------------------
\* A step of one start: what it takes from the lots and gives back to them.
LEMMA JobStep ==
    ASSUME LedgerInv, UNCHANGED <<now, cost, refund, voided>>, NEW j \in Jobs,
           adm' = [k \in Jobs |-> adm'[k]], \A k \in Jobs \ {j} : adm'[k] = adm[k],
           IsAdm(adm'[j], j, cost[j]), IsLots(lot'),
           \A l \in Lots : lot'[l].frozen = lot[l].frozen,
           adm'[j].state = "open" => \A l \in DOMAIN adm'[j].debits : lot'[l].frozen = NoReq,
           NEW back, IsQueue(back), NEW out, IsQueue(out),
           \A l \in Lots : Gone(lot')[l] = Gone(lot)[l] - Part(back, l) + Part(out, l),
           \A l \in Lots : Reserved(adm', l)[j] - Reserved(adm, l)[j] <= Part(out, l) - Part(back, l),
           Taken(adm')[j] = Taken(adm)[j] - Total(back) + Total(out),
           \A l \in Lots : l \in DOMAIN back \cup DOMAIN out => lot[l].frozen = NoReq
    PROVE  LedgerInv' /\ FrozenKept
  <1>1. LedgerShape'
    <2>1. \A k \in Jobs : IsAdm(adm'[k], k, cost'[k])
      BY DEF LedgerInv, LedgerShape
    <2> QED
      BY <2>1 DEF LedgerInv, LedgerShape
  <1>2. AreAdms(adm) /\ AreAdms(adm') /\ IsLots(lot)
    <2>1. AreAdms(adm')
      BY <1>1, AdmsAre, LotsAssumption DEF LedgerShape, AreAdms
    <2> QED
      BY <2>1, AdmsAre DEF LedgerInv, LedgerShape
  <1>3. Backed'
    <2> SUFFICES ASSUME NEW l \in Lots PROVE SumFunction(Reserved(adm', l)) <= Gone(lot')[l]
      BY DEF Backed
    <2>1. SumFunction(Reserved(adm', l)) = SumFunction(Reserved(adm, l)) - Reserved(adm, l)[j] + Reserved(adm', l)[j]
      BY <1>2, ReservedMoves
    <2>2. /\ SumFunction(Reserved(adm, l)) \in Nat /\ Reserved(adm, l)[j] \in Nat /\ Reserved(adm', l)[j] \in Nat
          /\ Gone(lot)[l] \in Nat /\ Gone(lot')[l] \in Nat /\ Part(back, l) \in Nat /\ Part(out, l) \in Nat
      BY <1>2, ReservedIn, GoneIn, PartsIn
    <2>3. SumFunction(Reserved(adm, l)) <= Gone(lot)[l]
      BY DEF LedgerInv, Backed
    <2>4. /\ Gone(lot')[l] = Gone(lot)[l] - Part(back, l) + Part(out, l)
          /\ Reserved(adm', l)[j] - Reserved(adm, l)[j] <= Part(out, l) - Part(back, l)
      OBVIOUS
    <2> QED
      BY <2>1, <2>2, <2>3, <2>4
  <1>4. NothingReserved'
    <2> SUFFICES ASSUME NEW k \in Jobs, adm'[k].state = "open", NEW l \in DOMAIN adm'[k].debits
                 PROVE  lot'[l].frozen = NoReq
      BY DEF NothingReserved
    <2>1. CASE k = j
      BY <2>1
    <2>2. CASE k # j
      <3>1. adm'[k] = adm[k] /\ l \in Lots
        BY <1>2, <2>2 DEF AreAdms, IsAdm, IsQueue
      <3> QED
        BY <3>1 DEF LedgerInv, NothingReserved
    <2> QED
      BY <2>1, <2>2
  <1>5. Conserved'
    <2>1. SumFunction(Gone(lot')) = SumFunction(Gone(lot)) - Total(back) + Total(out)
      BY <1>2, GoneMoves
    <2>2. SumFunction(Taken(adm')) = SumFunction(Taken(adm)) - Taken(adm)[j] + Taken(adm')[j]
      BY <1>2, TakenMoves
    <2>3. SumFunction(Gone(lot)) = voided + SumFunction(Taken(adm))
      BY DEF LedgerInv, Conserved
    <2>4. /\ SumFunction(Gone(lot)) \in Nat /\ SumFunction(Taken(adm)) \in Nat /\ Taken(adm)[j] \in Nat
          /\ Taken(adm')[j] \in Nat /\ Total(back) \in Nat /\ Total(out) \in Nat /\ voided \in Nat
      BY <1>2, GoneIn, TakenIn, CreditsIn DEF LedgerInv, LedgerShape
    <2>5. SumFunction(Gone(lot')) = voided + SumFunction(Taken(adm'))
      BY <2>1, <2>2, <2>3, <2>4
    <2> QED
      BY <2>5 DEF Conserved
  <1>6. FrozenKept
    <2> SUFFICES ASSUME NEW l \in Lots, lot[l].frozen # NoReq PROVE Gone(lot')[l] = Gone(lot)[l]
      BY DEF FrozenKept
    <2>1. Part(back, l) = 0 /\ Part(out, l) = 0
      BY PartsIn
    <2>2. Gone(lot')[l] = Gone(lot)[l] - Part(back, l) + Part(out, l) /\ Gone(lot)[l] \in Nat
      BY <1>2, GoneIn
    <2> QED
      BY <2>1, <2>2
  <1> QED
    BY <1>1, <1>3, <1>4, <1>5, <1>6 DEF LedgerInv

\* A step of no start.
LEMMA LotStep ==
    ASSUME LedgerInv, adm' = adm, cost' \in [Jobs -> 0..MaxCost], \A j \in Jobs : cost[j] <= cost'[j],
           now' \in 0..MaxTime, refund' \in [Requests -> Statuses], voided' \in Nat, IsLots(lot'),
           \A l \in Lots : Gone(lot)[l] <= Gone(lot')[l],
           SumFunction(Gone(lot')) = SumFunction(Gone(lot)) + (voided' - voided),
           NothingReserved'
    PROVE  LedgerInv'
  <1>1. LedgerShape'
    <2>1. ASSUME NEW j \in Jobs PROVE IsAdm(adm'[j], j, cost'[j])
      <3>1. IsAdm(adm[j], j, cost[j]) /\ cost[j] \in Nat /\ cost'[j] \in Nat /\ cost[j] <= cost'[j]
        BY LotsAssumption DEF LedgerInv, LedgerShape
      <3>2. adm[j].charged \in 0..cost'[j]
        BY <3>1 DEF IsAdm
      <3> QED
        BY <3>1, <3>2 DEF IsAdm
    <2> QED
      BY <2>1 DEF LedgerInv, LedgerShape
  <1>2. AreAdms(adm) /\ IsLots(lot)
    BY AdmsAre DEF LedgerInv, LedgerShape
  <1>3. Backed'
    <2> SUFFICES ASSUME NEW l \in Lots PROVE SumFunction(Reserved(adm, l)) <= Gone(lot')[l]
      BY DEF Backed
    <2>1. SumFunction(Reserved(adm, l)) \in Nat /\ Gone(lot)[l] \in Nat /\ Gone(lot')[l] \in Nat
      BY <1>2, ReservedIn, GoneIn
    <2>2. SumFunction(Reserved(adm, l)) <= Gone(lot)[l] /\ Gone(lot)[l] <= Gone(lot')[l]
      BY DEF LedgerInv, Backed
    <2> QED
      BY <2>1, <2>2
  <1>4. Conserved'
    <2>1. SumFunction(Gone(lot)) = voided + SumFunction(Taken(adm))
      BY DEF LedgerInv, Conserved
    <2>2. SumFunction(Taken(adm)) \in Nat /\ SumFunction(Gone(lot)) \in Nat /\ voided \in Nat
      BY <1>2, TakenIn, GoneIn DEF LedgerInv, LedgerShape
    <2>3. SumFunction(Gone(lot')) = voided' + SumFunction(Taken(adm))
      BY <2>1, <2>2
    <2> QED
      BY <2>3 DEF Conserved
  <1> QED
    BY <1>1, <1>3, <1>4 DEF LedgerInv

-----------------------------------------------------------------------------
(* Steps of no start. *)

\* An empty queue gives nothing.
LEMMA NoDebitsIn ==
    /\ IsQueue(NoDebits) /\ DOMAIN NoDebits = {} /\ \A l : Part(NoDebits, l) = 0
    /\ \A q : DOMAIN q = {} /\ IsQueue(q) => Total(q) = 0 /\ \A l : Part(q, l) = 0
  <1>1. DOMAIN NoDebits = {} /\ NoDebits = [l \in {} |-> 0]
    BY DEF NoDebits
  <1>2. IsQueue(NoDebits)
    BY <1>1 DEF IsQueue
  <1>3. ASSUME NEW q, DOMAIN q = {}, IsQueue(q) PROVE Total(q) = 0 /\ \A l : Part(q, l) = 0
    <2>1. Total(q) = Sum(Credits(q), {})
      BY <1>3, CreditsIn
    <2> QED
      BY <1>3, <2>1, SumOfNone DEF Part
  <1> QED
    BY <1>1, <1>2, <1>3

\* Rows that lose as much lose as much together.
LEMMA GoneSame ==
    ASSUME NEW L, IsLots(L), NEW M, IsLots(M), \A l \in Lots : Gone(M)[l] = Gone(L)[l]
    PROVE  SumFunction(Gone(M)) = SumFunction(Gone(L))
  <1> DEFINE f == Gone(L)
             g == Gone(M)
  <1>1. /\ \A l \in Lots : g[l] \in Int /\ g[l] = f[l]
        /\ SumFunction(f) = Sum(f, Lots) /\ SumFunction(g) = Sum(g, Lots)
    BY GoneIn
  <1> HIDE DEF f, g
  <1>2. Sum(g, Lots) = Sum(f, Lots)
    <2>1. IsFiniteSet(Lots) /\ \A l \in Lots : g[l] \in Int /\ g[l] = f[l]
      BY <1>1, LotsAssumption
    <2> QED
      BY <2>1, SumOfEqual
  <1> QED
    BY <1>1, <1>2 DEF f, g

\* A step that moves no credit.
LEMMA CreditsStay ==
    ASSUME LedgerInv, UNCHANGED <<adm, cost, voided>>, now' \in 0..MaxTime, refund' \in [Requests -> Statuses],
           IsLots(lot'), \A l \in Lots : Gone(lot')[l] = Gone(lot)[l],
           \A l \in Lots : lot'[l].frozen \in {lot[l].frozen, NoReq}
    PROVE  LedgerInv' /\ FrozenKept
  <1>1. IsLots(lot) /\ voided \in Nat /\ cost \in [Jobs -> 0..MaxCost]
    BY DEF LedgerInv, LedgerShape
  <1>2. NothingReserved'
    <2> SUFFICES ASSUME NEW k \in Jobs, adm[k].state = "open", NEW l \in DOMAIN adm[k].debits
                 PROVE  lot'[l].frozen = NoReq
      BY DEF NothingReserved
    <2>1. l \in Lots
      BY DEF LedgerInv, LedgerShape, IsAdm, IsQueue
    <2>2. lot[l].frozen = NoReq
      BY DEF LedgerInv, NothingReserved
    <2> QED
      BY <2>1, <2>2
  <1>3. \A l \in Lots : Gone(lot)[l] <= Gone(lot')[l]
    BY <1>1, GoneIn
  <1>4. SumFunction(Gone(lot')) = SumFunction(Gone(lot)) + (voided' - voided)
    <2>1. SumFunction(Gone(lot')) = SumFunction(Gone(lot)) /\ SumFunction(Gone(lot)) \in Nat
      BY <1>1, GoneSame, GoneIn
    <2> QED
      BY <1>1, <2>1
  <1>5. \A j \in Jobs : cost[j] <= cost'[j]
    BY <1>1, LotsAssumption
  <1> QED
    BY <1>1, <1>2, <1>3, <1>4, <1>5, LotStep DEF FrozenKept

\* One row is replaced.
LEMMA RowStep ==
    ASSUME NEW L, IsLots(L), NEW M \in [Lots -> LotRow], NEW l \in Lots, \A k \in Lots \ {l} : M[k] = L[k],
           M[l].remaining <= M[l].granted, M[l].frozen # NoReq => M[l].granted > 0
    PROVE  IsLots(M) /\ \A k \in Lots \ {l} : Gone(M)[k] = Gone(L)[k]
  BY DEF IsLots, Gone

LEMMA RowIn ==
    ASSUME NEW l \in Lots, NEW x \in LotRow, IsLots(lot), lot' = [lot EXCEPT ![l] = x]
    PROVE  lot' \in [Lots -> LotRow] /\ lot'[l] = x /\ \A k \in Lots \ {l} : lot'[k] = lot[k]
  BY DEF IsLots

\* A lot as it is issued.
LEMMA IssuedIn ==
    ASSUME NEW n \in Nat, NEW e \in 0..Never
    PROVE  Issued(n, e) \in LotRow /\ Issued(n, e).remaining = n /\ Issued(n, e).granted = n
           /\ Issued(n, e).frozen = NoReq
  BY DEF Issued, LotRow

\* A row that is not issued is empty and not frozen.
LEMMA Unissued ==
    ASSUME NEW L, IsLots(L), NEW l \in Lots, L[l].granted = 0
    PROVE  L[l].remaining = 0 /\ L[l].frozen = NoReq /\ Gone(L)[l] = 0
  <1>1. L[l].remaining = 0 /\ L[l].frozen = NoReq
    BY DEF IsLots, LotRow
  <1> QED
    BY <1>1, GoneIn

\* Grants, top-ups, revocations and recorded calls move no credit.
LEMMA GrantKeeps == ASSUME LedgerInv, NEW l \in Lots, Grant(l) PROVE LedgerInv' /\ FrozenKept
  <1> DEFINE x == Issued(Size[l], Closes[l])
  <1>1. lot' = [lot EXCEPT ![l] = x] /\ lot[l].granted = 0 /\ UNCHANGED <<now, adm, cost, refund, voided>>
    BY DEF Grant
  <1>2. IsLots(lot) /\ now \in 0..MaxTime /\ refund \in [Requests -> Statuses]
    BY DEF LedgerInv, LedgerShape
  <1>3. /\ x \in LotRow /\ x.remaining = x.granted /\ x.granted \in Nat /\ x.frozen = NoReq
        /\ x.remaining <= x.granted /\ (x.frozen # NoReq => x.granted > 0)
    BY LotsAssumption, IssuedIn
  <1> HIDE DEF x
  <1>7. lot' \in [Lots -> LotRow] /\ lot'[l] = x /\ \A k \in Lots \ {l} : lot'[k] = lot[k]
    BY <1>1, <1>2, <1>3, RowIn, Zenon
  <1>4. IsLots(lot') /\ \A k \in Lots \ {l} : Gone(lot')[k] = Gone(lot)[k]
    BY <1>2, <1>3, <1>7, RowStep
  <1>5. Gone(lot')[l] = 0 /\ Gone(lot)[l] = 0
    <2>1. Gone(lot')[l] = lot'[l].granted - lot'[l].remaining
      BY <1>4, GoneIn
    <2>2. Gone(lot)[l] = 0
      BY <1>1, <1>2, Unissued
    <2> QED
      BY <1>3, <1>7, <2>1, <2>2
  <1>6. \A k \in Lots : Gone(lot')[k] = Gone(lot)[k] /\ lot'[k].frozen \in {lot[k].frozen, NoReq}
    BY <1>3, <1>4, <1>5, <1>7
  <1> QED
    BY <1>1, <1>2, <1>4, <1>6, CreditsStay

LEMMA TopUpKeeps == ASSUME LedgerInv, NEW l \in Lots, TopUp(l) PROVE LedgerInv' /\ FrozenKept
  <1> DEFINE x == [lot[l] EXCEPT !.granted = lot[l].granted + 1, !.remaining = lot[l].remaining + 1]
  <1>1. lot' = [lot EXCEPT ![l] = x] /\ UNCHANGED <<now, adm, cost, refund, voided>>
    BY DEF TopUp, Raised
  <1>2. IsLots(lot) /\ now \in 0..MaxTime /\ refund \in [Requests -> Statuses]
    BY DEF LedgerInv, LedgerShape
  <1>3. lot[l] \in LotRow /\ lot[l].granted \in Nat /\ lot[l].remaining \in Nat /\ lot[l].remaining <= lot[l].granted
    BY <1>2 DEF IsLots, LotRow
  <1>4. x \in LotRow /\ x.granted = lot[l].granted + 1 /\ x.remaining = lot[l].remaining + 1 /\ x.frozen = lot[l].frozen
    <2> DEFINE y == lot[l]
               n == y.granted + 1
               m == y.remaining + 1
    <2>1. y \in LotRow /\ n \in Nat /\ m \in Nat
      BY <1>3
    <2>2. x = [y EXCEPT !.granted = n, !.remaining = m]
      OBVIOUS
    <2> HIDE DEF n, m, x, y
    <2>3. x \in LotRow /\ x.granted = n /\ x.remaining = m /\ x.frozen = y.frozen
      BY <2>1, <2>2 DEF LotRow
    <2> QED
      BY <2>3 DEF n, m, y
  <1> HIDE DEF x
  <1>8. lot' \in [Lots -> LotRow] /\ lot'[l] = x /\ \A k \in Lots \ {l} : lot'[k] = lot[k]
    BY <1>1, <1>2, <1>4, RowIn, Zenon
  <1>5. IsLots(lot') /\ \A k \in Lots \ {l} : Gone(lot')[k] = Gone(lot)[k]
    <2>1. x \in LotRow /\ x.remaining <= x.granted /\ (x.frozen # NoReq => x.granted > 0)
      BY <1>3, <1>4
    <2> QED
      BY <1>2, <1>8, <2>1, RowStep
  <1>6. Gone(lot')[l] = Gone(lot)[l]
    <2>1. Gone(lot')[l] = x.granted - x.remaining /\ Gone(lot)[l] = lot[l].granted - lot[l].remaining
      BY <1>2, <1>5, <1>8, GoneIn
    <2> QED
      BY <1>3, <1>4, <2>1
  <1>7. \A k \in Lots : Gone(lot')[k] = Gone(lot)[k] /\ lot'[k].frozen \in {lot[k].frozen, NoReq}
    BY <1>4, <1>5, <1>6, <1>8
  <1> QED
    BY <1>1, <1>2, <1>5, <1>7, CreditsStay

LEMMA RevokeKeeps == ASSUME LedgerInv, NEW l \in Lots, RevokeVoucher(l) PROVE LedgerInv' /\ FrozenKept
  <1> DEFINE x == [lot[l] EXCEPT !.exp = now]
  <1>1. lot' = [lot EXCEPT ![l] = x] /\ UNCHANGED <<now, adm, cost, refund, voided>>
    BY DEF RevokeVoucher
  <1>2. IsLots(lot) /\ now \in 0..MaxTime /\ refund \in [Requests -> Statuses]
    BY DEF LedgerInv, LedgerShape
  <1>3. lot[l] \in LotRow /\ lot[l].remaining <= lot[l].granted /\ (lot[l].frozen # NoReq => lot[l].granted > 0)
    BY <1>2 DEF IsLots
  <1>4. x \in LotRow /\ x.granted = lot[l].granted /\ x.remaining = lot[l].remaining /\ x.frozen = lot[l].frozen
    BY <1>2, <1>3, LotsAssumption DEF LotRow, Never
  <1> HIDE DEF x
  <1>8. x \in LotRow /\ x.remaining <= x.granted /\ (x.frozen # NoReq => x.granted > 0)
    BY <1>3, <1>4
  <1>9. lot' \in [Lots -> LotRow] /\ lot'[l] = x /\ \A k \in Lots \ {l} : lot'[k] = lot[k]
    BY <1>1, <1>2, <1>4, RowIn, Zenon
  <1>5. IsLots(lot') /\ \A k \in Lots \ {l} : Gone(lot')[k] = Gone(lot)[k]
    BY <1>2, <1>8, <1>9, RowStep
  <1>6. Gone(lot')[l] = Gone(lot)[l]
    BY <1>2, <1>4, <1>5, <1>9, GoneIn
  <1>7. \A k \in Lots : Gone(lot')[k] = Gone(lot)[k] /\ lot'[k].frozen \in {lot[k].frozen, NoReq}
    BY <1>4, <1>5, <1>6, <1>9
  <1> QED
    BY <1>1, <1>2, <1>5, <1>7, CreditsStay

LEMMA RecordKeeps == ASSUME LedgerInv, NEW j \in Jobs, Record(j) PROVE LedgerInv' /\ FrozenKept
  <1>1. /\ cost' = [cost EXCEPT ![j] = cost[j] + 1] /\ cost[j] < MaxCost
        /\ UNCHANGED <<now, lot, adm, refund, voided>>
    BY DEF Record
  <1>2. /\ cost \in [Jobs -> 0..MaxCost] /\ MaxCost \in Nat /\ IsLots(lot) /\ now \in 0..MaxTime
        /\ refund \in [Requests -> Statuses] /\ voided \in Nat /\ NothingReserved
    BY LotsAssumption DEF LedgerInv, LedgerShape
  <1>3. cost' \in [Jobs -> 0..MaxCost] /\ \A k \in Jobs : cost[k] <= cost'[k]
    BY <1>1, <1>2
  <1>4. \A l \in Lots : Gone(lot)[l] <= Gone(lot')[l]
    BY <1>1, <1>2, GoneIn
  <1>5. SumFunction(Gone(lot')) = SumFunction(Gone(lot)) + (voided' - voided)
    BY <1>1, <1>2, GoneIn
  <1>6. NothingReserved'
    BY <1>1, <1>2 DEF NothingReserved
  <1> QED
    BY <1>1, <1>2, <1>3, <1>4, <1>5, <1>6, LotStep DEF FrozenKept

-----------------------------------------------------------------------------
(* Starts, releases and settlements. *)

\* Opening windows moves no credit that was there.
LEMMA OpenedIn ==
    ASSUME LedgerShape, NEW S
    PROVE  IsLots(Opened(S)) /\ \A l \in Lots : Gone(Opened(S))[l] = Gone(lot)[l] /\ Opened(S)[l].frozen = lot[l].frozen
  <1> DEFINE M == Opened(S)
  <1>1. ASSUME NEW l \in Lots
        PROVE  /\ M[l] \in LotRow /\ M[l].remaining <= M[l].granted
               /\ (M[l].frozen # NoReq => M[l].granted > 0)
               /\ M[l].granted - M[l].remaining = lot[l].granted - lot[l].remaining /\ M[l].frozen = lot[l].frozen
    <2>1. \/ lot[l].granted = 0 /\ M[l] = Issued(Size[l], Closes[l])
          \/ M[l] = [lot[l] EXCEPT !.exp = Max({lot[l].exp, Closes[l]})]
          \/ M[l] = lot[l]
      BY DEF Opened
    <2>2. /\ IsLots(lot) /\ lot[l] \in LotRow /\ lot[l].remaining <= lot[l].granted /\ lot[l].granted \in Nat
          /\ lot[l].remaining \in Nat /\ (lot[l].frozen # NoReq => lot[l].granted > 0)
          /\ lot[l].exp \in 0..Never /\ Closes[l] \in 0..Never /\ Size[l] \in Nat /\ Never \in Nat
      BY LotsAssumption DEF LedgerShape, IsLots, LotRow, Never
    <2> HIDE DEF M
    <2>3. CASE lot[l].granted = 0 /\ M[l] = Issued(Size[l], Closes[l])
      BY <2>2, <2>3, IssuedIn, Unissued
    <2>4. CASE M[l] = [lot[l] EXCEPT !.exp = Max({lot[l].exp, Closes[l]})]
      <3> DEFINE e == Max({lot[l].exp, Closes[l]})
      <3>1. e \in 0..Never
        <4>1. lot[l].exp \in Int /\ Closes[l] \in Int
          BY <2>2
        <4>2. e = IF lot[l].exp <= Closes[l] THEN Closes[l] ELSE lot[l].exp
          BY <4>1, MaxOfTwo
        <4> QED
          BY <2>2, <4>2
      <3>2. M[l] = [lot[l] EXCEPT !.exp = e]
        BY <2>4
      <3> HIDE DEF e
      <3>3. M[l] \in LotRow /\ M[l].granted = lot[l].granted /\ M[l].remaining = lot[l].remaining
            /\ M[l].frozen = lot[l].frozen
        BY <2>2, <3>1, <3>2 DEF LotRow
      <3> QED
        BY <2>2, <3>3
    <2>5. CASE M[l] = lot[l]
      BY <2>2, <2>5
    <2> QED
      BY <2>1, <2>3, <2>4, <2>5
  <1>2. M = [l \in Lots |-> M[l]]
    BY Zenon DEF Opened
  <1>3. IsLots(lot)
    BY DEF LedgerShape
  <1> HIDE DEF M
  <1>4. IsLots(M)
    <2>1. M \in [Lots -> LotRow]
      BY <1>1, <1>2
    <2> QED
      BY <1>1, <2>1 DEF IsLots
  <1>5. \A l \in Lots : Gone(M)[l] = Gone(lot)[l]
    <2> SUFFICES ASSUME NEW l \in Lots PROVE Gone(M)[l] = Gone(lot)[l]
      OBVIOUS
    <2>1. Gone(M)[l] = M[l].granted - M[l].remaining /\ Gone(lot)[l] = lot[l].granted - lot[l].remaining
      BY <1>3, <1>4, GoneIn
    <2> QED
      BY <1>1, <2>1
  <1> QED
    BY <1>1, <1>4, <1>5 DEF M

LEMMA UpgradeKeeps == ASSUME LedgerInv, NEW l \in Lots, AddUpgradeBonus(l) PROVE LedgerInv' /\ FrozenKept
  <1>1. lot' = Opened(Windows \cup {l}) /\ UNCHANGED <<now, adm, cost, refund, voided>>
    BY DEF AddUpgradeBonus
  <1>2. IsLots(lot') /\ \A k \in Lots : Gone(lot')[k] = Gone(lot)[k] /\ lot'[k].frozen \in {lot[k].frozen, NoReq}
    BY <1>1, OpenedIn DEF LedgerInv
  <1>3. IsLots(lot) /\ now \in 0..MaxTime /\ refund \in [Requests -> Statuses]
    BY DEF LedgerInv, LedgerShape
  <1> QED
    BY <1>1, <1>2, <1>3, CreditsStay

\* A start takes what it holds, from lots that have it and are not frozen.
LEMMA HoldKeeps ==
    ASSUME LedgerInv, NEW j \in Jobs, NEW plan \in {"free", "paid", "master"}, Hold(j, plan)
    PROVE  LedgerInv' /\ FrozenKept
  <1> DEFINE L == IF plan = "paid" THEN Renewed ELSE lot
             eligible == IF plan = "master" THEN {} ELSE {l \in Lots : Spendable(L[l])}
             queue == Queue(L, eligible)
             debits == IF plan = "master" THEN NoDebits ELSE Portion(queue, Need[j])
             a == [state |-> "open", hold |-> Need[j], debits |-> debits, eligible |-> eligible, charged |-> 0]
  <1>1. /\ adm[j].state = "none" /\ (plan = "master" \/ Total(queue) >= Need[j])
        /\ adm' = [adm EXCEPT ![j] = a] /\ lot' = Spent(L, debits) /\ UNCHANGED <<now, cost, refund, voided>>
    BY Zenon DEF Hold
  <1>2. IsLots(lot) /\ IsLots(L) /\ \A l \in Lots : Gone(L)[l] = Gone(lot)[l] /\ L[l].frozen = lot[l].frozen
    BY OpenedIn DEF LedgerInv, LedgerShape, Renewed
  <1>3. eligible \subseteq Lots /\ \A l \in eligible : L[l].remaining > 0 /\ L[l].frozen = NoReq
    BY DEF Spendable
  <1> HIDE DEF L, eligible
  <1>4. IsQueue(queue) /\ DOMAIN queue = eligible /\ \A l \in eligible : queue[l].credits = L[l].remaining
    BY <1>2, <1>3, Queues
  <1>5. Need[j] \in Nat
    BY LotsAssumption
  <1> HIDE DEF queue
  <1>6. /\ IsQueue(debits) /\ DOMAIN debits \subseteq eligible
        /\ \A l \in DOMAIN debits : debits[l].credits <= queue[l].credits
        /\ DOMAIN debits # {} => Total(debits) = Need[j]
    <2>1. CASE plan = "master"
      BY <2>1, NoDebitsIn
    <2>2. CASE plan # "master"
      <3>1. debits = Portion(queue, Need[j])
        BY <2>2
      <3> HIDE DEF debits
      <3>2. IsQueue(debits) /\ DOMAIN debits \subseteq eligible
            /\ \A l \in DOMAIN debits : debits[l].credits <= queue[l].credits
        <4>1. Need[j] \in Int
          BY <1>5
        <4> DEFINE p == Portion(queue, Need[j])
        <4>2. IsQueue(p) /\ DOMAIN p \subseteq DOMAIN queue /\ \A l \in DOMAIN p : p[l].credits <= queue[l].credits
          BY <1>4, <4>1, Portions
        <4>3. debits = p
          BY <3>1
        <4> HIDE DEF p
        <4> QED
          BY <1>4, <4>2, <4>3
      <3>3. Total(debits) = Need[j]
        <4>1. Total(queue) >= Need[j] /\ Total(queue) \in Nat
          BY <1>1, <1>4, <2>2, CreditsIn
        <4>2. Total(debits) = IF Need[j] <= Total(queue) THEN Need[j] ELSE Total(queue)
          BY <1>4, <1>5, <3>1, PortionTotal
        <4> QED
          BY <1>5, <4>1, <4>2
      <3> QED
        BY <3>2, <3>3
    <2> QED
      BY <2>1, <2>2
  <1> HIDE DEF debits
  <1>7. \A l \in DOMAIN debits : L[l].remaining >= debits[l].credits /\ L[l].frozen = NoReq
    <2> SUFFICES ASSUME NEW l \in DOMAIN debits PROVE L[l].remaining >= debits[l].credits /\ L[l].frozen = NoReq
      OBVIOUS
    <2>1. debits[l].credits <= L[l].remaining /\ l \in Lots /\ L[l].frozen = NoReq
      BY <1>3, <1>4, <1>6
    <2>2. debits[l].credits \in Int /\ L[l].remaining \in Int
      BY <1>2, <1>6, <2>1, CreditsIn DEF IsLots, LotRow
    <2> QED
      BY <2>1, <2>2
  <1>8. /\ IsLots(lot') /\ \A l \in Lots : /\ lot'[l].granted = L[l].granted
                                          /\ lot'[l].remaining = L[l].remaining - Part(debits, l)
                                          /\ lot'[l].frozen = lot[l].frozen
    BY <1>1, <1>2, <1>6, <1>7, SpentRows
  <1>9. \A l \in Lots : Gone(lot')[l] = Gone(lot)[l] - Part(NoDebits, l) + Part(debits, l)
    <2> SUFFICES ASSUME NEW l \in Lots PROVE Gone(lot')[l] = Gone(lot)[l] - Part(NoDebits, l) + Part(debits, l)
      OBVIOUS
    <2>1. /\ Gone(lot')[l] = lot'[l].granted - lot'[l].remaining /\ Gone(L)[l] = L[l].granted - L[l].remaining
          /\ Gone(lot)[l] = Gone(L)[l] /\ Gone(L)[l] \in Nat /\ Part(debits, l) \in Nat /\ Part(NoDebits, l) = 0
          /\ L[l].granted \in Nat /\ L[l].remaining \in Nat
      BY <1>2, <1>6, <1>8, GoneIn, PartsIn, NoDebitsIn DEF IsLots, LotRow
    <2> QED
      BY <1>8, <2>1
  <1>10. a = [f \in AdmFields |-> a[f]] /\ a.state = "open" /\ a.hold = Need[j] /\ a.debits = debits
         /\ a.eligible = eligible /\ a.charged = 0
    BY DEF AdmFields
  <1> HIDE DEF a
  <1>11. adm' = [k \in Jobs |-> adm'[k]] /\ adm'[j] = a /\ \A k \in Jobs \ {j} : adm'[k] = adm[k]
    BY <1>1 DEF LedgerInv, LedgerShape
  <1>12. IsAdm(adm'[j], j, cost[j])
    <2>1. cost[j] \in Nat /\ (0 <= a.hold)
      BY <1>5, <1>10, LotsAssumption DEF LedgerInv, LedgerShape
    <2> QED
      BY <1>3, <1>6, <1>10, <1>11, <2>1 DEF IsAdm
  <1>13. AreAdms(adm) /\ IsAdm(adm[j], j, cost[j]) /\ DOMAIN adm[j].debits = {}
    BY <1>1, AdmsAre DEF LedgerInv, LedgerShape, IsAdm
  <1>14. AreAdms(adm')
    <2>1. \A k \in Jobs : cost[k] \in Nat /\ IsAdm(adm'[k], k, cost[k])
      BY <1>11, <1>12, LotsAssumption DEF LedgerInv, LedgerShape
    <2> QED
      BY <2>1 DEF AreAdms
  <1>15. \A l \in Lots : Reserved(adm', l)[j] - Reserved(adm, l)[j] <= Part(debits, l) - Part(NoDebits, l)
    <2> SUFFICES ASSUME NEW l \in Lots
                 PROVE  Reserved(adm', l)[j] - Reserved(adm, l)[j] <= Part(debits, l) - Part(NoDebits, l)
      OBVIOUS
    <2>1. Reserved(adm', l)[j] = Part(debits, l) /\ Reserved(adm, l)[j] = 0 /\ Part(NoDebits, l) = 0
          /\ Part(debits, l) \in Nat
      BY <1>1, <1>6, <1>10, <1>11, <1>13, <1>14, ReservedIn, PartsIn, NoDebitsIn
    <2> QED
      BY <2>1
  <1>16. Taken(adm')[j] = Taken(adm)[j] - Total(NoDebits) + Total(debits)
    <2>1. Taken(adm)[j] = 0 /\ Total(NoDebits) = 0
      BY <1>13, TakenIn, NoDebitsIn
    <2>2. Taken(adm')[j] = IF DOMAIN debits = {} THEN 0 ELSE Need[j]
      BY <1>10, <1>11, <1>14, TakenIn
    <2>3. Total(debits) = IF DOMAIN debits = {} THEN 0 ELSE Need[j]
      BY <1>6, NoDebitsIn
    <2> QED
      BY <1>5, <2>1, <2>2, <2>3
  <1>17. \A l \in DOMAIN adm'[j].debits : lot'[l].frozen = NoReq
    BY <1>2, <1>3, <1>6, <1>8, <1>10, <1>11
  <1>18. \A l \in Lots : lot'[l].frozen = lot[l].frozen
    BY <1>8
  <1>19. \A l \in Lots : l \in DOMAIN NoDebits \cup DOMAIN debits => lot[l].frozen = NoReq
    BY <1>2, <1>7, NoDebitsIn
  <1> QED
    BY <1>1, <1>6, <1>8, <1>9, <1>11, <1>12, <1>15, <1>16, <1>17, <1>18, <1>19, NoDebitsIn, JobStep

\* What an open start holds of a lot is gone from its row.
LEMMA HeldIsGone ==
    ASSUME LedgerInv, NEW j \in Jobs, adm[j].state = "open", NEW l \in DOMAIN adm[j].debits
    PROVE  l \in Lots /\ adm[j].debits[l].credits <= Gone(lot)[l] /\ lot[l].frozen = NoReq
  <1>1. IsQueue(adm[j].debits) /\ AreAdms(adm) /\ l \in Lots
    BY AdmsAre DEF LedgerInv, LedgerShape, IsAdm, IsQueue
  <1>2. Reserved(adm, l)[j] = adm[j].debits[l].credits
    BY <1>1, ReservedIn, PartsIn
  <1>3. Reserved(adm, l)[j] <= SumFunction(Reserved(adm, l)) /\ SumFunction(Reserved(adm, l)) <= Gone(lot)[l]
    BY <1>1, ReservedIn DEF LedgerInv, Backed
  <1>4. Reserved(adm, l)[j] \in Nat /\ SumFunction(Reserved(adm, l)) \in Nat /\ Gone(lot)[l] \in Nat
    BY <1>1, ReservedIn, GoneIn DEF LedgerInv, LedgerShape
  <1> QED
    BY <1>1, <1>2, <1>3, <1>4 DEF LedgerInv, NothingReserved

\* Giving back part of what an open start holds.
LEMMA GivesBack ==
    ASSUME LedgerInv, NEW j \in Jobs, adm[j].state = "open", NEW q, IsQueue(q),
           DOMAIN q \subseteq DOMAIN adm[j].debits,
           \A l \in DOMAIN q : q[l].credits <= adm[j].debits[l].credits
    PROVE  /\ IsLots(Refunded(lot, q))
           /\ \A l \in Lots : /\ Refunded(lot, q)[l].granted = lot[l].granted
                              /\ Refunded(lot, q)[l].remaining = lot[l].remaining + Part(q, l)
                              /\ Refunded(lot, q)[l].exp = lot[l].exp
                              /\ Refunded(lot, q)[l].frozen = lot[l].frozen
           /\ \A l \in Lots : Part(q, l) <= Part(adm[j].debits, l)
  <1>1. IsLots(lot) /\ IsQueue(adm[j].debits)
    BY DEF LedgerInv, LedgerShape, IsAdm
  <1>2. ASSUME NEW l \in DOMAIN q PROVE lot[l].remaining + q[l].credits <= lot[l].granted
    <2>1. l \in DOMAIN adm[j].debits /\ q[l].credits <= adm[j].debits[l].credits
      OBVIOUS
    <2>2. l \in Lots /\ adm[j].debits[l].credits <= Gone(lot)[l]
      BY <2>1, HeldIsGone
    <2>3. Gone(lot)[l] = lot[l].granted - lot[l].remaining /\ lot[l].granted \in Nat /\ lot[l].remaining \in Nat
          /\ q[l].credits \in Nat /\ adm[j].debits[l].credits \in Nat
      BY <1>1, <2>1, <2>2, GoneIn, CreditsIn DEF IsLots, LotRow
    <2> QED
      BY <2>1, <2>2, <2>3
  <1>3. ASSUME NEW l \in Lots PROVE Part(q, l) <= Part(adm[j].debits, l)
    <2>1. CASE l \in DOMAIN q
      BY <1>1, <2>1, PartsIn
    <2>2. CASE l \notin DOMAIN q
      <3>1. Part(q, l) = 0 /\ Part(adm[j].debits, l) \in Nat
        BY <1>1, <2>2, PartsIn
      <3> QED
        BY <3>1
    <2> QED
      BY <2>1, <2>2
  <1>4. /\ IsLots(Refunded(lot, q))
        /\ \A l \in Lots : /\ Refunded(lot, q)[l].granted = lot[l].granted
                           /\ Refunded(lot, q)[l].remaining = lot[l].remaining + Part(q, l)
                           /\ Refunded(lot, q)[l].exp = lot[l].exp
                           /\ Refunded(lot, q)[l].frozen = lot[l].frozen
    BY <1>1, <1>2, RefundedRows
  <1> QED
    BY <1>3, <1>4

\* A release gives back all of it.
LEMMA ReleaseKeeps == ASSUME LedgerInv, NEW j \in Jobs, Release(j) PROVE LedgerInv' /\ FrozenKept
  <1> DEFINE d == adm[j].debits
             q == Portion(d, adm[j].hold)
  <1>1. adm[j].state = "open" /\ lot' = Refunded(lot, q) /\ adm' = [adm EXCEPT ![j] = NoAdm]
        /\ UNCHANGED <<now, cost, refund, voided>>
    BY DEF Release
  <1>2. /\ IsLots(lot) /\ IsQueue(d) /\ adm[j].hold \in Nat /\ (DOMAIN d # {} => Total(d) = adm[j].hold)
        /\ AreAdms(adm)
    BY AdmsAre, LotsAssumption DEF LedgerInv, LedgerShape, IsAdm
  <1> HIDE DEF d
  <1>3. IsQueue(q) /\ DOMAIN q \subseteq DOMAIN d /\ \A l \in DOMAIN q : q[l].credits <= d[l].credits
    <2>1. adm[j].hold \in Int
      BY <1>2
    <2> QED
      BY <1>2, <2>1, Portions
  <1>4. Total(q) = IF DOMAIN d = {} THEN 0 ELSE adm[j].hold
    <2>1. CASE DOMAIN d = {}
      BY <1>3, <2>1, NoDebitsIn
    <2>2. CASE DOMAIN d # {}
      BY <1>2, <2>2, PortionTotal
    <2> QED
      BY <2>1, <2>2
  <1> HIDE DEF q
  <1>5. /\ IsLots(lot') /\ \A l \in Lots : /\ lot'[l].granted = lot[l].granted
                                          /\ lot'[l].remaining = lot[l].remaining + Part(q, l)
                                          /\ lot'[l].frozen = lot[l].frozen
                                          /\ Part(q, l) <= Part(d, l)
    BY <1>1, <1>3, GivesBack DEF d
  <1>6. \A l \in Lots : Gone(lot')[l] = Gone(lot)[l] - Part(q, l) + Part(NoDebits, l)
    <2> SUFFICES ASSUME NEW l \in Lots PROVE Gone(lot')[l] = Gone(lot)[l] - Part(q, l) + Part(NoDebits, l)
      OBVIOUS
    <2>1. /\ Gone(lot')[l] = lot'[l].granted - lot'[l].remaining /\ Gone(lot)[l] = lot[l].granted - lot[l].remaining
          /\ Part(q, l) \in Nat /\ Part(NoDebits, l) = 0 /\ lot[l].granted \in Nat /\ lot[l].remaining \in Nat
      BY <1>2, <1>3, <1>5, GoneIn, PartsIn, NoDebitsIn DEF IsLots, LotRow
    <2> QED
      BY <1>5, <2>1
  <1>7. /\ NoAdm = [f \in AdmFields |-> NoAdm[f]] /\ NoAdm.state = "none" /\ NoAdm.hold = 0
        /\ NoAdm.debits = NoDebits /\ NoAdm.eligible = {} /\ NoAdm.charged = 0
    BY DEF NoAdm, AdmFields
  <1>8. adm' = [k \in Jobs |-> adm'[k]] /\ adm'[j] = NoAdm /\ \A k \in Jobs \ {j} : adm'[k] = adm[k]
    BY <1>1 DEF LedgerInv, LedgerShape
  <1>9. IsAdm(adm'[j], j, cost[j])
    <2>1. cost[j] \in Nat
      BY LotsAssumption DEF LedgerInv, LedgerShape
    <2> QED
      BY <1>7, <1>8, <2>1, NoDebitsIn DEF IsAdm
  <1>10. AreAdms(adm')
    <2>1. \A k \in Jobs : cost[k] \in Nat /\ IsAdm(adm'[k], k, cost[k])
      BY <1>8, <1>9, LotsAssumption DEF LedgerInv, LedgerShape
    <2> QED
      BY <2>1 DEF AreAdms
  <1>11. \A l \in Lots : Reserved(adm', l)[j] - Reserved(adm, l)[j] <= Part(NoDebits, l) - Part(q, l)
    <2> SUFFICES ASSUME NEW l \in Lots
                 PROVE  Reserved(adm', l)[j] - Reserved(adm, l)[j] <= Part(NoDebits, l) - Part(q, l)
      OBVIOUS
    <2>1. Reserved(adm', l)[j] = 0 /\ Reserved(adm, l)[j] = Part(d, l)
      BY <1>1, <1>2, <1>7, <1>8, <1>10, ReservedIn DEF d
    <2>2. Part(NoDebits, l) = 0 /\ Part(q, l) \in Nat /\ Part(d, l) \in Nat
      BY <1>2, <1>3, PartsIn, NoDebitsIn
    <2> QED
      BY <1>5, <2>1, <2>2
  <1>12. Taken(adm')[j] = Taken(adm)[j] - Total(q) + Total(NoDebits)
    <2>1. Taken(adm')[j] = 0 /\ Total(NoDebits) = 0
      BY <1>7, <1>8, <1>10, TakenIn, NoDebitsIn
    <2>2. Taken(adm)[j] = IF DOMAIN d = {} THEN 0 ELSE adm[j].hold
      BY <1>1, <1>2, TakenIn DEF d
    <2> QED
      BY <1>2, <1>4, <2>1, <2>2
  <1>13. \A l \in Lots : l \in DOMAIN q \cup DOMAIN NoDebits => lot[l].frozen = NoReq
    BY <1>1, <1>3, HeldIsGone, NoDebitsIn DEF d
  <1>14. /\ adm'[j].state # "open" /\ IsLots(lot') /\ \A l \in Lots : lot'[l].frozen = lot[l].frozen
         /\ IsQueue(q) /\ IsQueue(NoDebits)
    BY <1>3, <1>5, <1>7, <1>8, NoDebitsIn
  <1>15. /\ adm' = [k \in Jobs |-> adm'[k]] /\ \A k \in Jobs \ {j} : adm'[k] = adm[k]
         /\ UNCHANGED <<now, cost, refund, voided>>
    BY <1>1, <1>8
  <1> QED
    BY <1>6, <1>9, <1>11, <1>12, <1>13, <1>14, <1>15, JobStep

\* What a settlement asks for, gives back and takes.
LEMMA ActualIn ==
    ASSUME LedgerInv, NEW j \in Jobs
    PROVE  Actual(j) \in 0..cost[j] /\ adm[j].hold \in Nat /\ cost[j] \in Nat /\ cost[j] <= MaxCost
           /\ (j \in Capped => Actual(j) <= adm[j].hold)
  <1>1. adm[j].hold \in Nat /\ cost[j] \in Nat /\ cost[j] <= MaxCost
    BY LotsAssumption DEF LedgerInv, LedgerShape, IsAdm
  <1>2. Min({cost[j], adm[j].hold}) = IF cost[j] <= adm[j].hold THEN cost[j] ELSE adm[j].hold
    BY <1>1, MinOfTwo
  <1> QED
    BY <1>1, <1>2 DEF Actual

\* What comes back is part of what the start holds.
LEMMA UnusedIn ==
    ASSUME LedgerInv, NEW j \in Jobs
    PROVE  /\ IsQueue(Unused(j)) /\ DOMAIN Unused(j) \subseteq DOMAIN adm[j].debits
           /\ \A l \in DOMAIN Unused(j) : Unused(j)[l].credits <= adm[j].debits[l].credits
           /\ Total(Unused(j)) = IF DOMAIN adm[j].debits # {} /\ Actual(j) < adm[j].hold
                                 THEN adm[j].hold - Actual(j) ELSE 0
  <1> DEFINE d == adm[j].debits
             n == adm[j].hold - Actual(j)
  <1>1. IsQueue(d) /\ (DOMAIN d # {} => Total(d) = adm[j].hold)
    BY DEF LedgerInv, LedgerShape, IsAdm
  <1>2. CASE Actual(j) < adm[j].hold
    <2>1. Unused(j) = Portion(d, n)
      BY <1>2 DEF Unused
    <2>2. n \in Nat /\ n \in Int /\ n <= adm[j].hold
      BY <1>2, ActualIn
    <2> HIDE DEF d, n
    <2>3. IsQueue(Portion(d, n)) /\ DOMAIN Portion(d, n) \subseteq DOMAIN d
          /\ \A l \in DOMAIN Portion(d, n) : Portion(d, n)[l].credits <= d[l].credits
      BY <1>1, <2>2, Portions
    <2>4. Total(Portion(d, n)) = IF DOMAIN d # {} THEN n ELSE 0
      <3>1. CASE DOMAIN d = {}
        BY <2>3, <3>1, NoDebitsIn
      <3>2. CASE DOMAIN d # {}
        BY <1>1, <2>2, <3>2, PortionTotal
      <3> QED
        BY <3>1, <3>2
    <2> QED
      BY <1>2, <2>1, <2>3, <2>4 DEF d, n
  <1>3. CASE ~ (Actual(j) < adm[j].hold)
    <2>1. Unused(j) = NoDebits
      BY <1>3 DEF Unused
    <2> QED
      BY <1>3, <2>1, NoDebitsIn
  <1> QED
    BY <1>2, <1>3

\* What an overrun takes is there, and not frozen.
LEMMA OverrunIn ==
    ASSUME LedgerInv, NEW j \in Jobs
    PROVE  /\ IsQueue(Overrun(j))
           /\ \A l \in DOMAIN Overrun(j) :
                 l \in Lots /\ Overrun(j)[l].credits <= lot[l].remaining /\ lot[l].frozen = NoReq
           /\ ~ (DOMAIN adm[j].debits # {} /\ Actual(j) > adm[j].hold) => Total(Overrun(j)) = 0
           /\ Actual(j) > adm[j].hold => Total(Overrun(j)) \in 0..(Actual(j) - adm[j].hold)
  <1> DEFINE S == {l \in adm[j].eligible : Drawable(lot[l])}
             q == Queue(lot, S)
             n == Actual(j) - adm[j].hold
  <1>1. IsLots(lot) /\ S \subseteq Lots /\ \A l \in S : lot[l].remaining > 0 /\ lot[l].frozen = NoReq
    BY DEF LedgerInv, LedgerShape, IsAdm, Drawable
  <1>2. CASE Actual(j) > adm[j].hold /\ DOMAIN adm[j].debits # {}
    <2>1. Overrun(j) = Portion(q, n)
      BY <1>2 DEF Overrun
    <2>2. n \in Nat /\ n \in Int
      BY <1>2, ActualIn
    <2> HIDE DEF S
    <2>3. IsQueue(q) /\ DOMAIN q = S /\ \A l \in S : q[l].credits = lot[l].remaining
      BY <1>1, Queues
    <2> HIDE DEF q, n
    <2>4. IsQueue(Portion(q, n)) /\ DOMAIN Portion(q, n) \subseteq S
          /\ \A l \in DOMAIN Portion(q, n) : Portion(q, n)[l].credits <= q[l].credits
      BY <2>2, <2>3, Portions
    <2>5. Total(Portion(q, n)) \in 0..n
      <3>1. Total(q) \in Nat
        BY <2>3, CreditsIn
      <3>2. Total(Portion(q, n)) = IF n <= Total(q) THEN n ELSE Total(q)
        BY <2>2, <2>3, PortionTotal
      <3> QED
        BY <2>2, <3>1, <3>2
    <2>6. \A l \in DOMAIN Overrun(j) :
             l \in Lots /\ Overrun(j)[l].credits <= lot[l].remaining /\ lot[l].frozen = NoReq
      BY <1>1, <2>1, <2>3, <2>4
    <2> QED
      BY <1>2, <2>1, <2>4, <2>5, <2>6 DEF n
  <1>3. CASE ~ (Actual(j) > adm[j].hold /\ DOMAIN adm[j].debits # {})
    <2>1. Overrun(j) = NoDebits
      BY <1>3 DEF Overrun
    <2>2. Actual(j) > adm[j].hold => Total(NoDebits) \in 0..(Actual(j) - adm[j].hold)
      BY ActualIn, NoDebitsIn
    <2> QED
      BY <1>3, <2>1, <2>2, NoDebitsIn
  <1> QED
    BY <1>2, <1>3

\* A settlement charges what left the lots for its start, and no more than was
\* confirmed.
LEMMA ChargedIn ==
    ASSUME LedgerInv, NEW j \in Jobs
    PROVE  /\ Charged(j) \in 0..cost[j] /\ (j \in Capped => Charged(j) <= adm[j].hold)
           /\ DOMAIN adm[j].debits # {} => Charged(j) = adm[j].hold - Total(Unused(j)) + Total(Overrun(j))
           /\ DOMAIN adm[j].debits = {} => Total(Unused(j)) = 0 /\ Total(Overrun(j)) = 0
  <1>1. /\ Actual(j) \in 0..cost[j] /\ adm[j].hold \in Nat /\ cost[j] \in Nat
        /\ (j \in Capped => Actual(j) <= adm[j].hold)
    BY ActualIn
  <1>2. Total(Unused(j)) = IF DOMAIN adm[j].debits # {} /\ Actual(j) < adm[j].hold
                           THEN adm[j].hold - Actual(j) ELSE 0
    BY UnusedIn
  <1>3. /\ ~ (DOMAIN adm[j].debits # {} /\ Actual(j) > adm[j].hold) => Total(Overrun(j)) = 0
        /\ Actual(j) > adm[j].hold => Total(Overrun(j)) \in 0..(Actual(j) - adm[j].hold)
    BY OverrunIn
  <1>4. Charged(j) = IF Actual(j) > adm[j].hold /\ DOMAIN adm[j].debits # {}
                     THEN adm[j].hold + Total(Overrun(j)) ELSE Actual(j)
    BY DEF Charged
  <1> QED
    BY <1>1, <1>2, <1>3, <1>4

\* The lots after a settlement, before its compensation.
SettledLots(j) == Spent(Refunded(lot, Unused(j)), Overrun(j))

\* The spend and refund statements of a settlement all take effect.
LEMMA SettledLotsIn ==
    ASSUME LedgerInv, NEW j \in Jobs, adm[j].state = "open"
    PROVE  /\ IsLots(SettledLots(j))
           /\ \A l \in Lots :
                 /\ Gone(SettledLots(j))[l] = Gone(lot)[l] - Part(Unused(j), l) + Part(Overrun(j), l)
                 /\ Part(Unused(j), l) <= Part(adm[j].debits, l)
                 /\ SettledLots(j)[l].granted = lot[l].granted
                 /\ SettledLots(j)[l].frozen = lot[l].frozen
  <1> DEFINE u == Unused(j)
             o == Overrun(j)
             L == Refunded(lot, u)
             M == Spent(L, o)
  <1>1. IsQueue(u) /\ IsQueue(o) /\ IsLots(lot)
    BY UnusedIn, OverrunIn DEF LedgerInv, LedgerShape
  <1>2. /\ IsLots(L) /\ \A l \in Lots : /\ L[l].granted = lot[l].granted
                                       /\ L[l].remaining = lot[l].remaining + Part(u, l)
                                       /\ L[l].frozen = lot[l].frozen
                                       /\ Part(u, l) <= Part(adm[j].debits, l)
    BY UnusedIn, GivesBack
  <1>3. ASSUME NEW l \in DOMAIN o PROVE L[l].remaining >= o[l].credits /\ L[l].frozen = NoReq
    <2>1. l \in Lots /\ o[l].credits <= lot[l].remaining /\ lot[l].frozen = NoReq
      BY OverrunIn
    <2>2. o[l].credits \in Nat /\ lot[l].remaining \in Nat /\ Part(u, l) \in Nat
      BY <1>1, <2>1, CreditsIn, PartsIn DEF IsLots, LotRow
    <2>3. L[l].remaining = lot[l].remaining + Part(u, l) /\ L[l].frozen = lot[l].frozen
      BY <1>2, <2>1
    <2> QED
      BY <2>1, <2>2, <2>3
  <1> HIDE DEF L, u, o
  <1>4. /\ IsLots(M) /\ \A l \in Lots : /\ M[l].granted = L[l].granted
                                       /\ M[l].remaining = L[l].remaining - Part(o, l)
                                       /\ M[l].frozen = L[l].frozen
    BY <1>1, <1>2, <1>3, SpentRows
  <1> HIDE DEF M
  <1>5. ASSUME NEW l \in Lots PROVE Gone(M)[l] = Gone(lot)[l] - Part(u, l) + Part(o, l)
    <2>1. /\ Gone(M)[l] = M[l].granted - M[l].remaining /\ Gone(lot)[l] = lot[l].granted - lot[l].remaining
          /\ Part(u, l) \in Nat /\ Part(o, l) \in Nat /\ lot[l].granted \in Nat /\ lot[l].remaining \in Nat
      BY <1>1, <1>4, GoneIn, PartsIn DEF IsLots, LotRow
    <2> QED
      BY <1>2, <1>4, <2>1
  <1> QED
    BY <1>2, <1>4, <1>5 DEF SettledLots, M, L, u, o

\* A settlement; its compensation is a lot that was not there.
LEMMA SettleKeeps ==
    ASSUME LedgerInv, NEW j \in Jobs, NEW outcome, NEW cause, Settle(j, outcome, cause)
    PROVE  LedgerInv' /\ FrozenKept
  <1> DEFINE M == SettledLots(j)
             c == Comp[j]
             x == Issued((Charged(j) + 1) \div 2, Min({now + 1, MaxTime}))
             d == adm[j].debits
  <1>1. /\ adm[j].state = "open"
        /\ adm' = [adm EXCEPT ![j].state = "settled", ![j].charged = Charged(j), ![j].eligible = {}]
        /\ lot' = M \/ (lot[c].granted = 0 /\ lot' = [M EXCEPT ![c] = x])
        /\ UNCHANGED <<now, cost, refund, voided>>
    BY Zenon DEF Settle, SettledLots
  <1>2. /\ IsLots(M) /\ \A l \in Lots : /\ Gone(M)[l] = Gone(lot)[l] - Part(Unused(j), l) + Part(Overrun(j), l)
                                       /\ Part(Unused(j), l) <= Part(d, l)
                                       /\ M[l].granted = lot[l].granted /\ M[l].frozen = lot[l].frozen
    BY <1>1, SettledLotsIn
  <1>3. /\ IsLots(lot) /\ c \in Lots /\ AreAdms(adm) /\ IsAdm(adm[j], j, cost[j]) /\ now \in 0..MaxTime
        /\ MaxTime \in Nat
    BY AdmsAre, LotsAssumption DEF LedgerInv, LedgerShape
  <1>4. IsQueue(Unused(j)) /\ IsQueue(Overrun(j)) /\ IsQueue(d)
    BY <1>3, UnusedIn, OverrunIn DEF IsAdm
  <1>5. /\ Charged(j) \in 0..cost[j] /\ (j \in Capped => Charged(j) <= adm[j].hold)
        /\ DOMAIN d # {} => Charged(j) = adm[j].hold - Total(Unused(j)) + Total(Overrun(j))
        /\ DOMAIN d = {} => Total(Unused(j)) = 0 /\ Total(Overrun(j)) = 0
    BY ChargedIn
  <1>6. cost[j] \in Nat /\ adm[j].hold \in Nat
    BY ActualIn
  <1>7. x \in LotRow /\ x.remaining = x.granted /\ x.frozen = NoReq /\ x.granted \in Nat
    <2> DEFINE n == (Charged(j) + 1) \div 2
               e == Min({now + 1, MaxTime})
    <2>1. n \in Nat
      BY <1>5, <1>6
    <2>2. e \in 0..Never
      <3>1. e = IF now + 1 <= MaxTime THEN now + 1 ELSE MaxTime
        BY <1>3, MinOfTwo
      <3> QED
        BY <1>3, <3>1 DEF Never
    <2> HIDE DEF n, e
    <2>3. Issued(n, e) \in LotRow /\ Issued(n, e).remaining = n /\ Issued(n, e).granted = n /\ Issued(n, e).frozen = NoReq
      BY <2>1, <2>2, IssuedIn
    <2> QED
      BY <2>1, <2>3 DEF n, e
  <1> HIDE DEF M, x, c, d
  <1>8. /\ IsLots(lot') /\ \A l \in Lots : /\ Gone(lot')[l] = Gone(lot)[l] - Part(Unused(j), l) + Part(Overrun(j), l)
                                          /\ lot'[l].frozen = lot[l].frozen
    <2>1. CASE lot' = M
      BY <1>2, <2>1
    <2>2. CASE lot[c].granted = 0 /\ lot' = [M EXCEPT ![c] = x]
      <3>1. lot' \in [Lots -> LotRow] /\ lot'[c] = x /\ \A k \in Lots \ {c} : lot'[k] = M[k]
        BY <1>2, <1>3, <1>7, <2>2 DEF IsLots
      <3>2. M[c].granted = 0 /\ M[c].frozen = NoReq /\ Gone(M)[c] = 0 /\ lot[c].frozen = NoReq
        BY <1>2, <1>3, <2>2, Unissued
      <3>3. x.remaining <= x.granted
        BY <1>7
      <3>4. IsLots(lot') /\ \A k \in Lots \ {c} : Gone(lot')[k] = Gone(M)[k]
        BY <1>2, <1>3, <1>7, <3>1, <3>3, RowStep
      <3>5. Gone(lot')[c] = 0
        <4>1. Gone(lot')[c] = lot'[c].granted - lot'[c].remaining
          BY <1>3, <3>4, GoneIn
        <4> QED
          BY <1>7, <3>1, <4>1
      <3>6. \A l \in Lots : Gone(lot')[l] = Gone(M)[l] /\ lot'[l].frozen = M[l].frozen
        BY <1>7, <3>1, <3>2, <3>4, <3>5
      <3> QED
        BY <1>2, <3>4, <3>6
    <2> QED
      BY <1>1, <2>1, <2>2
  <1>9. /\ adm' = [k \in Jobs |-> adm'[k]] /\ \A k \in Jobs \ {j} : adm'[k] = adm[k]
        /\ adm'[j] = [adm[j] EXCEPT !.state = "settled", !.charged = Charged(j), !.eligible = {}]
    BY <1>1 DEF LedgerInv, LedgerShape
  <1>10. /\ adm'[j] = [f \in AdmFields |-> adm'[j][f]] /\ adm'[j].state = "settled" /\ adm'[j].hold = adm[j].hold
         /\ adm'[j].debits = d /\ adm'[j].eligible = {} /\ adm'[j].charged = Charged(j)
    BY <1>3, <1>9 DEF IsAdm, AdmFields, d
  <1>11. IsAdm(adm'[j], j, cost[j])
    BY <1>3, <1>5, <1>10 DEF IsAdm, d
  <1>12. AreAdms(adm')
    <2>1. \A k \in Jobs : cost[k] \in Nat /\ IsAdm(adm'[k], k, cost[k])
      BY <1>9, <1>11, LotsAssumption DEF LedgerInv, LedgerShape
    <2> QED
      BY <2>1 DEF AreAdms
  <1>13. \A l \in Lots : Reserved(adm', l)[j] - Reserved(adm, l)[j] <= Part(Overrun(j), l) - Part(Unused(j), l)
    <2> SUFFICES ASSUME NEW l \in Lots
                 PROVE  Reserved(adm', l)[j] - Reserved(adm, l)[j] <= Part(Overrun(j), l) - Part(Unused(j), l)
      OBVIOUS
    <2>1. Reserved(adm', l)[j] = 0
      BY <1>10, <1>12, ReservedIn
    <2>3. Reserved(adm, l)[j] = Part(d, l)
      BY <1>1, <1>3, ReservedIn DEF d
    <2>2. Part(Overrun(j), l) \in Nat /\ Part(Unused(j), l) \in Nat /\ Part(d, l) \in Nat
      BY <1>4, PartsIn
    <2> QED
      BY <1>2, <2>1, <2>2, <2>3
  <1>14. Taken(adm')[j] = Taken(adm)[j] - Total(Unused(j)) + Total(Overrun(j))
    <2>1. Taken(adm')[j] = IF DOMAIN d = {} THEN 0 ELSE Charged(j)
      BY <1>10, <1>12, TakenIn
    <2>2. Taken(adm)[j] = IF DOMAIN d = {} THEN 0 ELSE adm[j].hold
      BY <1>1, <1>3, TakenIn DEF d
    <2>3. Total(Unused(j)) \in Nat /\ Total(Overrun(j)) \in Nat
      BY <1>4, CreditsIn
    <2>4. CASE DOMAIN d = {}
      BY <1>5, <2>1, <2>2, <2>4
    <2>5. CASE DOMAIN d # {}
      <3>1. Charged(j) = adm[j].hold - Total(Unused(j)) + Total(Overrun(j))
        BY <1>5, <2>5
      <3> QED
        BY <2>1, <2>2, <2>5, <3>1
    <2> QED
      BY <2>4, <2>5
  <1>15. adm'[j].state # "open"
    BY <1>10
  <1>16. \A l \in Lots : l \in DOMAIN Unused(j) \cup DOMAIN Overrun(j) => lot[l].frozen = NoReq
    BY <1>1, UnusedIn, OverrunIn, HeldIsGone
  <1>17. IsLots(lot') /\ \A l \in Lots : lot'[l].frozen = lot[l].frozen
    BY <1>8
  <1>18. \A l \in Lots : Gone(lot')[l] = Gone(lot)[l] - Part(Unused(j), l) + Part(Overrun(j), l)
    BY <1>8
  <1>19. /\ adm' = [k \in Jobs |-> adm'[k]] /\ \A k \in Jobs \ {j} : adm'[k] = adm[k]
         /\ UNCHANGED <<now, cost, refund, voided>> /\ IsQueue(Unused(j)) /\ IsQueue(Overrun(j))
    BY <1>1, <1>4, <1>9
  <1> QED
    BY <1>11, <1>13, <1>14, <1>15, <1>16, <1>17, <1>18, <1>19, JobStep

-----------------------------------------------------------------------------
(* Refunds of payments. *)

\* The clock moves no credit, though lots expire.
LEMMA TickKeeps == ASSUME LedgerInv, Tick PROVE LedgerInv' /\ FrozenKept
  <1>1. now' \in 0..MaxTime /\ UNCHANGED <<lot, adm, cost, refund, voided>>
    BY LotsAssumption DEF Tick, LedgerInv, LedgerShape
  <1>2. IsLots(lot') /\ refund' \in [Requests -> Statuses]
        /\ \A l \in Lots : Gone(lot')[l] = Gone(lot)[l] /\ lot'[l].frozen \in {lot[l].frozen, NoReq}
    BY <1>1 DEF LedgerInv, LedgerShape
  <1> QED
    BY <1>1, <1>2, CreditsStay

\* What an open start holds of a payment's lots is in the reviewer's evidence.
LEMMA SeenInUse ==
    ASSUME LedgerInv, NEW r \in Requests, NEW j \in Jobs, adm[j].state = "open",
           NEW l \in Funds[r], l \in DOMAIN adm[j].debits
    PROVE  InUse(r)
  <1> DEFINE S == Funds[r]
             of(k) == [m \in S |-> Part(adm[k].debits, m)]
             Open == {k \in Jobs : adm[k].state = "open"}
             f == [k \in Open |-> SumFunction(of(k))]
  <1>1. S \subseteq Lots /\ IsFiniteSet(S) /\ Open \subseteq Jobs /\ IsFiniteSet(Open) /\ j \in Open
    <2>1. S \in SUBSET Lots /\ Open \in SUBSET Jobs
      BY FundsAssumption
    <2> HIDE DEF S, Open
    <2>2. IsFiniteSet(S) /\ IsFiniteSet(Open)
      BY <2>1, LotsAssumption, FS_Subset
    <2> QED
      BY <2>1, <2>2 DEF Open
  <1>2. ASSUME NEW k \in Open
        PROVE  SumFunction(of(k)) \in Nat /\ \A m \in S : of(k)[m] <= SumFunction(of(k))
    <2>1. \A m \in S : of(k)[m] = Part(adm[k].debits, m) /\ Part(adm[k].debits, m) \in Nat
      BY PartsIn DEF LedgerInv, LedgerShape, IsAdm
    <2>2. of(k) = [m \in S |-> of(k)[m]]
      OBVIOUS
    <2> HIDE DEF of, S
    <2>3. SumFunction(of(k)) = Sum(of(k), S)
      BY <2>2, OfAll
    <2> QED
      BY <1>1, <2>1, <2>3, SumOfNats
  <1>3. of(j)[l] = Part(adm[j].debits, l) /\ Part(adm[j].debits, l) \in Nat \ {0}
    <2>1. IsQueue(adm[j].debits)
      BY DEF LedgerInv, LedgerShape, IsAdm
    <2> QED
      BY <2>1, PartsIn, CreditsIn
  <1>4. f[j] = SumFunction(of(j)) /\ \A k \in Open : f[k] = SumFunction(of(k))
    BY <1>1
  <1>5. f = [k \in Open |-> f[k]]
    OBVIOUS
  <1>6. ReservedFrom(S) = SumFunction(f)
    BY Zenon DEF ReservedFrom
  <1> HIDE DEF f, of, Open
  <1>7. SumFunction(f) = Sum(f, Open)
    BY <1>5, OfAll
  <1>8. Sum(f, Open) \in Nat /\ f[j] <= Sum(f, Open)
    BY <1>1, <1>2, <1>4, SumOfNats
  <1>9. f[j] \in Nat /\ f[j] > 0
    <2>1. of(j)[l] <= SumFunction(of(j)) /\ SumFunction(of(j)) \in Nat
      BY <1>1, <1>2
    <2> QED
      BY <1>3, <1>4, <2>1
  <1> QED
    BY <1>6, <1>7, <1>8, <1>9 DEF InUse

\* An approval freezes no lot that an open start holds.
LEMMA ApproveKeeps == ASSUME LedgerInv, NEW r \in Requests, ApproveRefund(r) PROVE LedgerInv'
  <1> DEFINE g(l) == l \in Funds[r] /\ lot[l].granted > 0 /\ lot[l].frozen = NoReq
  <1>1. /\ ~ InUse(r) /\ refund' = [refund EXCEPT ![r] = "processing"]
        /\ lot' = [l \in Lots |-> IF g(l) THEN [lot[l] EXCEPT !.frozen = r] ELSE lot[l]]
        /\ UNCHANGED <<now, adm, cost, voided>>
    BY DEF ApproveRefund
  <1>2. /\ IsLots(lot) /\ now \in 0..MaxTime /\ refund \in [Requests -> Statuses] /\ voided \in Nat
        /\ cost \in [Jobs -> 0..MaxCost]
    BY DEF LedgerInv, LedgerShape
  <1>3. ASSUME NEW l \in Lots
        PROVE  /\ lot'[l] \in LotRow /\ lot'[l].granted = lot[l].granted /\ lot'[l].remaining = lot[l].remaining
               /\ (~ g(l) => lot'[l].frozen = lot[l].frozen)
    <2>1. lot[l] \in LotRow /\ lot'[l] = IF g(l) THEN [lot[l] EXCEPT !.frozen = r] ELSE lot[l]
      BY <1>1, <1>2 DEF IsLots
    <2> QED
      BY <2>1 DEF LotRow
  <1>4. IsLots(lot')
    <2>1. lot' = [l \in Lots |-> lot'[l]]
      BY <1>1
    <2>2. lot' \in [Lots -> LotRow]
      BY <1>3, <2>1
    <2> QED
      BY <1>2, <1>3, <2>2 DEF IsLots
  <1>5. \A l \in Lots : Gone(lot')[l] = Gone(lot)[l]
    BY <1>2, <1>3, <1>4, GoneIn
  <1>6. NothingReserved'
    <2> SUFFICES ASSUME NEW k \in Jobs, adm[k].state = "open", NEW l \in DOMAIN adm[k].debits
                 PROVE  lot'[l].frozen = NoReq
      BY <1>1 DEF NothingReserved
    <2>1. l \in Lots /\ lot[l].frozen = NoReq
      BY HeldIsGone
    <2>2. l \notin Funds[r]
      BY <1>1, SeenInUse
    <2> QED
      BY <1>3, <2>1, <2>2
  <1>7. /\ SumFunction(Gone(lot')) = SumFunction(Gone(lot)) + (voided' - voided)
        /\ \A l \in Lots : Gone(lot)[l] <= Gone(lot')[l]
    <2>1. SumFunction(Gone(lot')) = SumFunction(Gone(lot)) /\ SumFunction(Gone(lot)) \in Nat
      BY <1>2, <1>4, <1>5, GoneSame, GoneIn
    <2>2. \A l \in Lots : Gone(lot)[l] \in Nat
      BY <1>2, GoneIn
    <2> QED
      BY <1>1, <1>2, <1>5, <2>1, <2>2
  <1>8. refund' \in [Requests -> Statuses] /\ \A j \in Jobs : cost[j] <= cost'[j]
    BY <1>1, <1>2, LotsAssumption DEF Statuses
  <1> QED
    BY <1>1, <1>2, <1>4, <1>5, <1>6, <1>7, <1>8, LotStep

\* A failed refund thaws what it froze.
LEMMA FailKeeps == ASSUME LedgerInv, NEW r \in Requests, FailRefund(r) PROVE LedgerInv'
  <1>1. /\ refund' = [refund EXCEPT ![r] = "failed"]
        /\ lot' = [l \in Lots |-> IF lot[l].frozen = r THEN [lot[l] EXCEPT !.frozen = NoReq] ELSE lot[l]]
        /\ UNCHANGED <<now, adm, cost, voided>>
    BY DEF FailRefund
  <1>2. IsLots(lot) /\ now \in 0..MaxTime /\ refund \in [Requests -> Statuses]
    BY DEF LedgerInv, LedgerShape
  <1>3. ASSUME NEW l \in Lots
        PROVE  /\ lot'[l] \in LotRow /\ lot'[l].granted = lot[l].granted /\ lot'[l].remaining = lot[l].remaining
               /\ lot'[l].frozen \in {lot[l].frozen, NoReq}
    <2>1. lot[l] \in LotRow /\ lot'[l] = IF lot[l].frozen = r THEN [lot[l] EXCEPT !.frozen = NoReq] ELSE lot[l]
      BY <1>1, <1>2 DEF IsLots
    <2> QED
      BY <2>1 DEF LotRow
  <1>4. IsLots(lot')
    <2>1. lot' = [l \in Lots |-> lot'[l]]
      BY <1>1
    <2>2. lot' \in [Lots -> LotRow]
      BY <1>3, <2>1
    <2> QED
      BY <1>2, <1>3, <2>2 DEF IsLots
  <1>5. \A l \in Lots : Gone(lot')[l] = Gone(lot)[l]
    BY <1>2, <1>3, <1>4, GoneIn
  <1>6. refund' \in [Requests -> Statuses]
    BY <1>1, <1>2 DEF Statuses
  <1> QED
    BY <1>1, <1>2, <1>3, <1>4, <1>5, <1>6, CreditsStay

\* A confirmed refund voids what is left of what it froze.
LEMMA ConfirmKeeps == ASSUME LedgerInv, NEW r \in Requests, ConfirmRefund(r) PROVE LedgerInv'
  <1> DEFINE V == {k \in Lots : lot[k].frozen = r}
             v == [l \in V |-> lot[l].remaining - Void(l).remaining]
             w == [l \in Lots |-> IF l \in V THEN v[l] ELSE 0]
  <1>1. /\ refund' = [refund EXCEPT ![r] = "completed"]
        /\ lot' = [l \in Lots |-> IF lot[l].frozen = r THEN Void(l) ELSE lot[l]]
        /\ voided' = voided + SumFunction(v) /\ UNCHANGED <<now, adm, cost>>
    BY Zenon DEF ConfirmRefund
  <1>2. /\ IsLots(lot) /\ now \in 0..MaxTime /\ now \in 0..Never /\ refund \in [Requests -> Statuses] /\ voided \in Nat
        /\ cost \in [Jobs -> 0..MaxCost]
    BY LotsAssumption DEF LedgerInv, LedgerShape, Never
  <1>3. ASSUME NEW l \in Lots
        PROVE  /\ lot'[l] \in LotRow /\ lot'[l].granted = lot[l].granted /\ lot'[l].frozen = lot[l].frozen
               /\ lot'[l].remaining <= lot[l].remaining
               /\ lot'[l].remaining = lot[l].remaining - w[l] /\ w[l] \in Nat
    <2>1. lot[l] \in LotRow /\ lot'[l] = IF lot[l].frozen = r THEN Void(l) ELSE lot[l]
      BY <1>1, <1>2 DEF IsLots
    <2>2. /\ Void(l) \in LotRow /\ Void(l).granted = lot[l].granted /\ Void(l).frozen = lot[l].frozen
          /\ Void(l).remaining <= lot[l].remaining /\ Void(l).remaining \in Nat
      BY <1>2, <2>1 DEF Void, LotRow
    <2>3. CASE lot[l].frozen = r
      <3>1. w[l] = lot[l].remaining - Void(l).remaining /\ lot'[l] = Void(l) /\ lot[l].remaining \in Nat
        BY <2>1, <2>3 DEF LotRow
      <3> HIDE DEF w
      <3> QED
        BY <2>2, <3>1
    <2>4. CASE lot[l].frozen # r
      <3>1. w[l] = 0 /\ lot'[l] = lot[l] /\ lot[l].remaining \in Nat
        BY <2>1, <2>4 DEF LotRow
      <3> HIDE DEF w
      <3> QED
        BY <2>1, <3>1
    <2> QED
      BY <2>3, <2>4
  <1>4. IsLots(lot')
    <2>1. lot' = [l \in Lots |-> lot'[l]]
      BY <1>1
    <2>2. lot' \in [Lots -> LotRow]
      BY <1>3, <2>1
    <2>3. \A l \in Lots : lot'[l].remaining <= lot'[l].granted
      <3> SUFFICES ASSUME NEW l \in Lots PROVE lot'[l].remaining <= lot'[l].granted
        OBVIOUS
      <3>1. lot[l].remaining \in Nat /\ lot[l].granted \in Nat /\ lot'[l].remaining \in Nat
            /\ lot[l].remaining <= lot[l].granted
        BY <1>2, <2>2 DEF IsLots, LotRow
      <3>2. lot'[l].granted = lot[l].granted /\ lot'[l].remaining <= lot[l].remaining
        BY <1>3
      <3> QED
        BY <3>1, <3>2
    <2> QED
      BY <1>2, <1>3, <2>2, <2>3 DEF IsLots
  <1>5. ASSUME NEW l \in Lots PROVE Gone(lot')[l] = Gone(lot)[l] + w[l] /\ Gone(lot)[l] \in Nat /\ w[l] \in Nat
    <2>1. /\ Gone(lot')[l] = lot'[l].granted - lot'[l].remaining /\ Gone(lot)[l] = lot[l].granted - lot[l].remaining
          /\ Gone(lot)[l] \in Nat /\ lot[l].granted \in Nat /\ lot[l].remaining \in Nat
      BY <1>2, <1>4, GoneIn DEF IsLots, LotRow
    <2>2. lot'[l].granted = lot[l].granted /\ lot'[l].remaining = lot[l].remaining - w[l] /\ w[l] \in Nat
      BY <1>3
    <2> HIDE DEF w
    <2> QED
      BY <2>1, <2>2
  <1>6. SumFunction(v) = Sum(w, Lots) /\ Sum(w, Lots) \in Nat
    <2>1. V \subseteq Lots /\ IsFiniteSet(Lots) /\ IsFiniteSet(V)
      BY LotsAssumption, FS_Subset
    <2>2. (\A l \in Lots : w[l] \in Int) /\ (\A l \in Lots : w[l] \in Nat)
      BY <1>5
    <2>3. (\A l \in Lots \ V : w[l] = 0) /\ \A l \in V : w[l] = v[l]
      OBVIOUS
    <2>4. v = [l \in V |-> v[l]]
      OBVIOUS
    <2> HIDE DEF w, v, V
    <2>5. Sum(w, Lots) = Sum(w, V)
      BY <2>1, <2>2, <2>3, SumWithin
    <2>6. Sum(w, V) = Sum(v, V)
      <3>1. \A l \in V : w[l] \in Int /\ w[l] = v[l]
        BY <2>1, <2>2, <2>3
      <3> QED
        BY <2>1, <3>1, SumOfEqual
    <2>7. SumFunction(v) = Sum(v, V)
      BY <2>4, OfAll
    <2>8. Sum(w, Lots) \in Nat
      BY <2>1, <2>2, SumOfNats
    <2> QED
      BY <2>5, <2>6, <2>7, <2>8
  <1> HIDE DEF w, v, V
  <1>7. SumFunction(Gone(lot')) = SumFunction(Gone(lot)) + (voided' - voided) /\ voided' \in Nat
    <2> DEFINE f == Gone(lot)
               g == Gone(lot')
    <2>1. SumFunction(f) = Sum(f, Lots) /\ SumFunction(g) = Sum(g, Lots) /\ Sum(f, Lots) \in Nat
      BY <1>2, <1>4, GoneIn
    <2>2. \A l \in Lots : f[l] \in Int /\ w[l] \in Int /\ g[l] = f[l] + w[l]
      BY <1>5
    <2> HIDE DEF f, g
    <2>3. Sum(g, Lots) = Sum(f, Lots) + Sum(w, Lots)
      <3>1. IsFiniteSet(Lots)
        BY LotsAssumption
      <3> QED
        BY SMTT(30), <2>2, <3>1, SumOfSums
    <2>4. voided' = voided + Sum(w, Lots)
      BY <1>1, <1>6
    <2>5. SumFunction(g) = SumFunction(f) + (voided' - voided) /\ voided' \in Nat
      BY <1>2, <1>6, <2>1, <2>3, <2>4
    <2> QED
      BY <2>5 DEF f, g
  <1>8. NothingReserved'
    <2> SUFFICES ASSUME NEW k \in Jobs, adm[k].state = "open", NEW l \in DOMAIN adm[k].debits
                 PROVE  lot'[l].frozen = NoReq
      BY <1>1 DEF NothingReserved
    <2>1. l \in Lots /\ lot[l].frozen = NoReq
      BY HeldIsGone
    <2> QED
      BY <1>3, <2>1
  <1>9. /\ refund' \in [Requests -> Statuses] /\ \A j \in Jobs : cost[j] <= cost'[j]
        /\ \A l \in Lots : Gone(lot)[l] <= Gone(lot')[l]
    BY <1>1, <1>2, <1>5, LotsAssumption DEF Statuses
  <1> QED
    BY <1>1, <1>2, <1>4, <1>7, <1>8, <1>9, LotStep

-----------------------------------------------------------------------------
(* The theorems. *)

\* An account starts with nothing.
LEMMA LedgerInit == Init => LedgerInv
  <1> SUFFICES ASSUME Init PROVE LedgerInv
    OBVIOUS
  <1>1. /\ now = 0 /\ lot = [l \in Lots |-> [granted |-> 0, remaining |-> 0, exp |-> Closes[l], frozen |-> NoReq]]
        /\ adm = [j \in Jobs |-> NoAdm] /\ cost = [j \in Jobs |-> 0]
        /\ refund = [r \in Requests |-> "requested"] /\ voided = 0
    BY DEF Init
  <1>2. IsLots(lot) /\ \A l \in Lots : lot[l].granted = 0
    <2>1. \A l \in Lots : lot[l] \in LotRow /\ lot[l].granted = 0 /\ lot[l].remaining = 0 /\ lot[l].frozen = NoReq
      BY <1>1, LotsAssumption DEF LotRow
    <2>2. lot \in [Lots -> LotRow]
      BY <1>1, <2>1
    <2> QED
      BY <2>1, <2>2 DEF IsLots
  <1>3. /\ NoAdm = [f \in AdmFields |-> NoAdm[f]] /\ NoAdm.state = "none" /\ NoAdm.hold = 0
        /\ NoAdm.debits = NoDebits /\ NoAdm.eligible = {} /\ NoAdm.charged = 0
    BY DEF NoAdm, AdmFields
  <1>4. \A j \in Jobs : adm[j] = NoAdm /\ cost[j] = 0
    BY <1>1
  <1>5. \A j \in Jobs : IsAdm(adm[j], j, cost[j])
    <2> SUFFICES ASSUME NEW j \in Jobs PROVE IsAdm(NoAdm, j, 0)
      BY <1>4
    <2> QED
      BY <1>3, NoDebitsIn DEF IsAdm
  <1>6. LedgerShape
    BY <1>1, <1>2, <1>5, LotsAssumption DEF LedgerShape, Statuses
  <1>7. AreAdms(adm)
    BY <1>6, AdmsAre
  <1>8. Backed
    <2> SUFFICES ASSUME NEW l \in Lots PROVE SumFunction(Reserved(adm, l)) <= Gone(lot)[l]
      BY DEF Backed
    <2>1. \A j \in Jobs : Reserved(adm, l)[j] = 0
      BY <1>3, <1>4, <1>7, ReservedIn
    <2>2. Sum(Reserved(adm, l), Jobs) = 0
      BY <2>1, LotsAssumption, SumOfZeros
    <2>3. SumFunction(Reserved(adm, l)) = 0
      BY <1>7, <2>2, ReservedIn
    <2>4. Gone(lot)[l] = 0
      BY <1>2, Unissued
    <2> QED
      BY <2>3, <2>4
  <1>9. Conserved
    <2>1. \A l \in Lots : Gone(lot)[l] = 0
      BY <1>2, Unissued
    <2>2. Sum(Gone(lot), Lots) = 0
      BY <2>1, LotsAssumption, SumOfZeros
    <2>3. SumFunction(Gone(lot)) = 0
      BY <1>2, <2>2, GoneIn
    <2>4. \A j \in Jobs : Taken(adm)[j] = 0
      BY <1>3, <1>4, <1>7, NoDebitsIn, TakenIn
    <2>5. Sum(Taken(adm), Jobs) = 0
      BY <2>4, LotsAssumption, SumOfZeros
    <2>6. SumFunction(Taken(adm)) = 0
      BY <1>7, <2>5, TakenIn
    <2> QED
      BY <1>1, <2>3, <2>6 DEF Conserved
  <1>10. NothingReserved
    BY <1>3, <1>4 DEF NothingReserved
  <1> QED
    BY <1>6, <1>8, <1>9, <1>10 DEF LedgerInv

\* Every step keeps the invariant, and one that decides no refund moves no
\* credit of a frozen lot.
LEMMA WorkKeeps == ASSUME LedgerInv, Work PROVE LedgerInv' /\ FrozenKept
  <1>1. ASSUME NEW l \in Lots, Grant(l) \/ TopUp(l) \/ AddUpgradeBonus(l) \/ RevokeVoucher(l) PROVE LedgerInv' /\ FrozenKept
    BY <1>1, GrantKeeps, TopUpKeeps, UpgradeKeeps, RevokeKeeps
  <1>2. ASSUME NEW j \in Jobs, Record(j) \/ Release(j) PROVE LedgerInv' /\ FrozenKept
    BY <1>2, RecordKeeps, ReleaseKeeps
  <1>3. ASSUME NEW j \in Jobs, NEW plan \in {"free", "paid", "master"}, Hold(j, plan)
        PROVE  LedgerInv' /\ FrozenKept
    BY <1>3, HoldKeeps
  <1>4. ASSUME NEW j \in Jobs, NEW outcome, NEW cause, Settle(j, outcome, cause) PROVE LedgerInv' /\ FrozenKept
    BY <1>4, SettleKeeps
  <1> QED
    BY <1>1, <1>2, <1>3, <1>4 DEF Work

LEMMA LedgerStep == ASSUME LedgerInv, [Next]_vars PROVE LedgerInv' /\ (refund' = refund => FrozenKept)
  <1>1. CASE Work
    BY <1>1, WorkKeeps
  <1>2. CASE Tick
    BY <1>2, TickKeeps
  <1>3. ASSUME NEW r \in Requests, ApproveRefund(r) \/ FailRefund(r) \/ ConfirmRefund(r)
        PROVE  LedgerInv' /\ refund' # refund
    <2>1. LedgerInv'
      BY <1>3, ApproveKeeps, FailKeeps, ConfirmKeeps
    <2>2. refund \in [Requests -> Statuses]
      BY DEF LedgerInv, LedgerShape
    <2>3. refund' # refund
      BY <1>3, <2>2 DEF ApproveRefund, FailRefund, ConfirmRefund
    <2> QED
      BY <2>1, <2>3
  <1>4. CASE UNCHANGED vars
    <2>1. UNCHANGED <<now, lot, adm, cost, refund, voided>>
      BY <1>4 DEF vars
    <2>2. /\ now' \in 0..MaxTime /\ refund' \in [Requests -> Statuses] /\ IsLots(lot')
          /\ \A l \in Lots : Gone(lot')[l] = Gone(lot)[l] /\ lot'[l].frozen \in {lot[l].frozen, NoReq}
      BY <2>1 DEF LedgerInv, LedgerShape
    <2> QED
      BY <2>1, <2>2, CreditsStay
  <1> QED
    BY <1>1, <1>2, <1>3, <1>4 DEF Next

\* The inductive invariant of the ledger (usage/service.go): the debits of a
\* hold are what it holds, in its order, from lots its start could see; what
\* open holds have of a lot is gone from its row; none of it is frozen; and
\* what is gone is held, charged or voided.
THEOREM LedgerInvariance == Spec => []LedgerInv
  <1>1. Init => LedgerInv
    BY LedgerInit
  <1>2. LedgerInv /\ [Next]_vars => LedgerInv'
    BY LedgerStep
  <1> QED
    BY <1>1, <1>2, PTL DEF Spec

LEMMA LedgerTypes == LedgerInv => TypeOK
  <1> SUFFICES ASSUME LedgerInv PROVE TypeOK
    OBVIOUS
  <1>1. ASSUME NEW l \in Lots
        PROVE  lot[l].remaining \in 0..lot[l].granted /\ lot[l].exp \in 0..Never /\ lot[l].frozen \in Requests \cup {NoReq}
    BY DEF LedgerInv, LedgerShape, IsLots, LotRow
  <1>2. ASSUME NEW j \in Jobs
        PROVE  /\ adm[j].state \in {"none", "open", "settled"}
               /\ adm[j].hold \in {0, Need[j]} /\ adm[j].eligible \subseteq Lots
               /\ adm[j].charged \in 0..MaxCost /\ DOMAIN adm[j].debits \subseteq Lots
    <2>1. IsAdm(adm[j], j, cost[j]) /\ cost[j] \in 0..MaxCost /\ MaxCost \in Nat
      BY LotsAssumption DEF LedgerInv, LedgerShape
    <2> QED
      BY <2>1 DEF IsAdm, IsQueue
  <1> QED
    BY <1>1, <1>2 DEF LedgerInv, LedgerShape, TypeOK, Statuses

\* Every lot keeps between nothing and what it granted, and every admission
\* is charged within what was recorded of it (usage/service.go).
THEOREM LedgerTyped == Spec => []TypeOK
  BY LedgerInvariance, LedgerTypes, PTL

\* No release, settlement, overrun or refund loses or invents a credit
\* (usage/service.go:575-964).
THEOREM CreditsConserved == Spec => []Conserved
  <1>1. LedgerInv => Conserved
    BY DEF LedgerInv
  <1> QED
    BY <1>1, LedgerInvariance, PTL

\* The invariant bounds what is charged.
LEMMA ChargesAreConfirmed == LedgerInv => ChargedAsConfirmed
  BY DEF LedgerInv, LedgerShape, IsAdm, ChargedAsConfirmed

\* An approved start is charged no more than it reserved, and no start more
\* than the calls confirmed for it (usage/service.go:800-870).
THEOREM ChargesConfirmed == Spec => []ChargedAsConfirmed
  BY LedgerInvariance, ChargesAreConfirmed, PTL

\* No open start holds credits of a payment whose refund is under way or
\* confirmed (usage/store/refund_funding.go).
THEOREM FrozenUnreserved == Spec => []NothingReserved
  <1>1. LedgerInv => NothingReserved
    BY DEF LedgerInv
  <1> QED
    BY <1>1, LedgerInvariance, PTL

\* A step that decides no refund.
LEMMA FrozenStep ==
    ASSUME LedgerInv, [Next]_vars, NEW l \in Lots, lot[l].frozen # NoReq, refund' = refund
    PROVE  lot'[l].granted - lot'[l].remaining = lot[l].granted - lot[l].remaining
  <1>1. LedgerInv' /\ FrozenKept
    BY LedgerStep
  <1>2. IsLots(lot) /\ IsLots(lot')
    BY <1>1 DEF LedgerInv, LedgerShape
  <1>3. Gone(lot')[l] = Gone(lot)[l]
    BY <1>1 DEF FrozenKept
  <1> QED
    BY <1>2, <1>3, GoneIn

\* The credits a refund was decided on stay as the reviewer saw them
\* (usage/store/queries/usage.sql).
THEOREM FrozenStays == Spec => FrozenStill
  <1>1. LedgerInv /\ [Next]_vars =>
          [\A l \in Lots : lot[l].frozen # NoReq /\ refund' = refund =>
             lot'[l].granted - lot'[l].remaining = lot[l].granted - lot[l].remaining]_vars
    BY FrozenStep
  <1> QED
    BY <1>1, LedgerInvariance, PTL DEF Spec, FrozenStill
=============================================================================

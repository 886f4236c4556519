--------------------------- MODULE BudgetLedgerProofs ---------------------------
(***************************************************************************)
(* For any deposits, payments, children, destinations and policies:        *)
(* BudgetInv is inductive, and bounds what a day and a child spend; with   *)
(* it MoneyInv is, so the balance matches the books and no debit takes a   *)
(* destination over its cap.  The sums over finite sets come first.        *)
(***************************************************************************)
EXTENDS BudgetLedger, FiniteSetTheorems, WellFoundedInduction, TLAPS

-----------------------------------------------------------------------------
(* Sums over finite sets.                                                   *)

\* Induction on the subsets of a finite set, for the members of a set G.
LEMMA SubsetInduction ==
    ASSUME NEW S, IsFiniteSet(S), NEW G,
           \A T \in SUBSET S : (\A U \in SUBSET T : U # T => U \in G) => T \in G
    PROVE  \A T \in SUBSET S : T \in G
<1> DEFINE Bad == {T \in SUBSET S : T \notin G}
<1> SUFFICES ASSUME Bad # {} PROVE FALSE
    OBVIOUS
<1> DEFINE R == StrictSubsetOrdering(S)
<1>1. IsWellFoundedOn(R, SUBSET S)
  <2>1. IsWellFoundedOn(StrictSubsetOrdering(S), FiniteSubsetsOf(S))
      BY FS_StrictSubsetOrderingWellFounded
  <2>2. FiniteSubsetsOf(S) = SUBSET S
      BY FS_FiniteSubsetsOfFinite
  <2> QED BY <2>1, <2>2
<1>2. \E T \in Bad : \A U \in Bad : <<U, T>> \notin R
  <2> HIDE DEF R
  <2>1. Bad \subseteq SUBSET S
      OBVIOUS
  <2> HIDE DEF Bad
  <2> QED BY <1>1, <2>1, WFMin
<1>3. PICK T \in Bad : \A U \in Bad : <<U, T>> \notin R
    BY <1>2
<1>4. \A U \in SUBSET T : U # T => U \in G
    BY <1>3 DEF StrictSubsetOrdering
<1> QED BY <1>3, <1>4

\* The same, one element at a time.
LEMMA SetInduction ==
    ASSUME NEW S, IsFiniteSet(S), NEW G, {} \in G,
           \A T \in SUBSET S : \A x \in S \ T : T \in G => T \cup {x} \in G
    PROVE  S \in G
<1>1. ASSUME NEW T \in SUBSET S, \A U \in SUBSET T : U # T => U \in G
      PROVE  T \in G
  <2>1. CASE T = {}
      BY <2>1
  <2>2. CASE T # {}
    <3>1. PICK x \in T : TRUE
        BY <2>2
    <3>2. T \ {x} \in G /\ T \ {x} \in SUBSET S /\ x \in S \ (T \ {x})
        BY <1>1, <3>1
    <3>3. T = (T \ {x}) \cup {x}
        BY <3>1
    <3> QED BY <3>2, <3>3
  <2> QED BY <2>1, <2>2
<1>2. \A T \in SUBSET S : T \in G
    BY <1>1, SubsetInduction
<1> QED BY <1>2

\* The function on the subsets of S that SumFunctionOnSet chooses, and its value.
First(s) == CHOOSE x \in s : TRUE
Fix(g, f, S) ==
    g = [s \in SUBSET S |-> IF s = {} THEN 0 ELSE f[First(s)] + g[s \ {First(s)}]]

LEMMA SumIs ==
    ASSUME NEW f, NEW S
    PROVE  SumFunctionOnSet(f, S) = (CHOOSE g : Fix(g, f, S))[S]
BY DEF SumFunctionOnSet, FoldFunctionOnSet, MapThenFoldSet, Fix, First

\* The first element of a set is one of its elements.
LEMMA FirstIn == ASSUME NEW s, s # {} PROVE First(s) \in s
BY DEF First

\* Two such functions agree where both are defined.
LEMMA FixUnique ==
    ASSUME NEW S, IsFiniteSet(S), NEW f, NEW g, NEW h, NEW T \in SUBSET S, Fix(g, f, S), Fix(h, f, T)
    PROVE  \A s \in SUBSET T : g[s] = h[s]
<1> DEFINE G == {s \in SUBSET T : g[s] = h[s]}
<1>0. IsFiniteSet(T)
    BY FS_Subset
<1>1. ASSUME NEW s \in SUBSET T, \A u \in SUBSET s : u # s => u \in G
      PROVE  s \in G
  <2>1. CASE s = {}
    BY <2>1 DEF Fix
  <2>2. CASE s # {}
    <3>1. First(s) \in s
        BY <2>2, FirstIn
    <3>2. g[s \ {First(s)}] = h[s \ {First(s)}]
        BY <1>1, <3>1
    <3>3. g[s] = f[First(s)] + g[s \ {First(s)}] /\ h[s] = f[First(s)] + h[s \ {First(s)}]
        BY <2>2 DEF Fix
    <3> QED BY <3>2, <3>3
  <2> QED BY <2>1, <2>2
<1>2. \A s \in SUBSET T : s \in G
  <2> HIDE DEF G
  <2> QED BY <1>0, <1>1, SubsetInduction
<1> QED BY <1>2

\* There is one for every finite set.
LEMMA FixExists ==
    ASSUME NEW S, IsFiniteSet(S), NEW f
    PROVE  \E g : Fix(g, f, S)
<1> DEFINE G == {T \in SUBSET S : \E g : Fix(g, f, T)}
<1>1. ASSUME NEW T \in SUBSET S, \A U \in SUBSET T : U # T => U \in G
      PROVE  T \in G
  <2> DEFINE k(U) == CHOOSE g : Fix(g, f, U)
             v(s) == IF s = {} THEN 0 ELSE f[First(s)] + k(s \ {First(s)})[s \ {First(s)}]
             h == [s \in SUBSET T |-> v(s)]
  <2>1. \A U \in SUBSET T : U # T => Fix(k(U), f, U)
      BY <1>1
  <2>2. ASSUME NEW s \in SUBSET T, s # {}
        PROVE  h[s] = f[First(s)] + h[s \ {First(s)}]
    <3> DEFINE u == s \ {First(s)}
    <3>1. First(s) \in s /\ u \in SUBSET T /\ u # T
        BY <2>2, FirstIn
    <3>2. Fix(k(u), f, u)
        BY <2>1, <3>1
    <3>3. CASE u = {}
      <4>1. k(u)[u] = 0
          BY <3>2, <3>3 DEF Fix
      <4>2. h[u] = 0
          BY <3>3
      <4> QED BY <4>1, <4>2, <2>2
    <3>4. CASE u # {}
      <4> DEFINE w == u \ {First(u)}
      <4>1. First(u) \in u /\ w \in SUBSET u /\ w \in SUBSET T /\ w # T
          BY <3>1, <3>4, FirstIn
      <4>2. Fix(k(w), f, w)
          BY <2>1, <4>1
      <4>3. k(u)[u] = f[First(u)] + k(u)[w]
          BY <3>2, <3>4 DEF Fix
      <4>4. k(u)[w] = k(w)[w]
        <5>1. IsFiniteSet(u)
            BY <3>1, FS_Subset
        <5> HIDE DEF k, u, w
        <5> QED BY <3>2, <4>1, <4>2, <5>1, FixUnique
      <4>5. h[u] = f[First(u)] + k(w)[w]
          BY <3>1, <3>4
      <4>6. h[s] = f[First(s)] + k(u)[u]
          BY <2>2
      <4> QED BY <4>3, <4>4, <4>5, <4>6
    <3> QED BY <3>3, <3>4
  <2>3. h = [s \in SUBSET T |-> IF s = {} THEN 0 ELSE f[First(s)] + h[s \ {First(s)}]]
    <3> DEFINE e(s) == IF s = {} THEN 0 ELSE f[First(s)] + h[s \ {First(s)}]
    <3>1. \A s \in SUBSET T : v(s) = e(s)
        BY <2>2
    <3>2. h = [s \in SUBSET T |-> e(s)]
      <4>1. h = [s \in SUBSET T |-> v(s)]
          OBVIOUS
      <4> HIDE DEF v, h, e
      <4> QED BY <3>1, <4>1
    <3> QED BY <3>2
  <2>4. Fix(h, f, T)
      BY <2>3 DEF Fix
  <2> QED BY <2>4
<1>2. \A T \in SUBSET S : T \in G
  <2> HIDE DEF G
  <2> QED BY <1>1, SubsetInduction
<1> QED BY <1>2

\* The empty sum.
LEMMA SumEmpty == ASSUME NEW f PROVE SumFunctionOnSet(f, {}) = 0
<1> DEFINE g == CHOOSE g : Fix(g, f, {})
<1>1. Fix(g, f, {})
    BY FixExists, FS_EmptySet
<1>2. g[{}] = 0
  <2> HIDE DEF g
  <2> QED BY <1>1 DEF Fix
<1> QED BY <1>2, SumIs

\* The recursion of a sum.
LEMMA SumFirst ==
    ASSUME NEW S, IsFiniteSet(S), NEW f, S # {}
    PROVE  SumFunctionOnSet(f, S) = f[First(S)] + SumFunctionOnSet(f, S \ {First(S)})
<1> DEFINE T == S \ {First(S)}
           g == CHOOSE g : Fix(g, f, S)
           h == CHOOSE h : Fix(h, f, T)
<1>1. Fix(g, f, S) /\ IsFiniteSet(T)
    BY FixExists, FS_Subset
<1>2. Fix(h, f, T)
    BY <1>1, FixExists
<1>3. T \in SUBSET S
    OBVIOUS
<1>4. g[T] = h[T]
  <2> HIDE DEF g, h, T
  <2> QED BY <1>1, <1>2, <1>3, FixUnique
<1>5. g[S] = f[First(S)] + g[T]
  <2> HIDE DEF g
  <2> QED BY <1>1 DEF Fix
<1>6. SumFunctionOnSet(f, S) = g[S] /\ SumFunctionOnSet(f, T) = h[T]
    BY SumIs
<1> QED BY <1>4, <1>5, <1>6

\* A sum of integers is one, of naturals a natural.
LEMMA SumInt ==
    ASSUME NEW S, IsFiniteSet(S), NEW f, \A x \in S : f[x] \in Int
    PROVE  /\ SumFunctionOnSet(f, S) \in Int
           /\ (\A x \in S : f[x] >= 0) => SumFunctionOnSet(f, S) >= 0
<1> DEFINE G == {T \in SUBSET S : /\ SumFunctionOnSet(f, T) \in Int
                                  /\ (\A x \in S : f[x] >= 0) => SumFunctionOnSet(f, T) >= 0}
<1>1. ASSUME NEW T \in SUBSET S, \A U \in SUBSET T : U # T => U \in G
      PROVE  T \in G
  <2>1. CASE T = {}
      BY <2>1, SumEmpty
  <2>2. CASE T # {}
    <3> DEFINE U == T \ {First(T)}
    <3>1. First(T) \in T /\ IsFiniteSet(T)
        BY <2>2, FirstIn, FS_Subset
    <3>2. SumFunctionOnSet(f, T) = f[First(T)] + SumFunctionOnSet(f, U)
        BY <2>2, <3>1, SumFirst
    <3>3. U \in G /\ f[First(T)] \in Int /\ First(T) \in S
        BY <1>1, <3>1
    <3> HIDE DEF U
    <3> QED BY <3>2, <3>3
  <2> QED BY <2>1, <2>2
<1>2. \A T \in SUBSET S : T \in G
  <2> HIDE DEF G
  <2> QED BY <1>1, SubsetInduction
<1> QED BY <1>2

\* Whichever element is taken first.
LEMMA SumAdd ==
    ASSUME NEW S, IsFiniteSet(S), NEW f, \A x \in S : f[x] \in Int, NEW y \in S
    PROVE  SumFunctionOnSet(f, S) = f[y] + SumFunctionOnSet(f, S \ {y})
<1> DEFINE G == {T \in SUBSET S : \A x \in T :
                   SumFunctionOnSet(f, T) = f[x] + SumFunctionOnSet(f, T \ {x})}
<1>1. ASSUME NEW T \in SUBSET S, \A U \in SUBSET T : U # T => U \in G
      PROVE  T \in G
  <2> SUFFICES ASSUME NEW x \in T
               PROVE  SumFunctionOnSet(f, T) = f[x] + SumFunctionOnSet(f, T \ {x})
      OBVIOUS
  <2> DEFINE z == First(T)
             U == T \ {z}
             V == T \ {x}
             W == U \ {x}
  <2>1. z \in T /\ IsFiniteSet(T) /\ IsFiniteSet(V) /\ IsFiniteSet(W)
      BY FirstIn, FS_Subset
  <2>2. SumFunctionOnSet(f, T) = f[z] + SumFunctionOnSet(f, U)
      BY <2>1, SumFirst
  <2>3. CASE x = z
      BY <2>2, <2>3
  <2>4. CASE x # z
    <3>1. SumFunctionOnSet(f, U) = f[x] + SumFunctionOnSet(f, W)
        BY <1>1, <2>1, <2>4
    <3>2. SumFunctionOnSet(f, V) = f[z] + SumFunctionOnSet(f, W)
      <4>1. SumFunctionOnSet(f, V) = f[z] + SumFunctionOnSet(f, V \ {z})
          BY <1>1, <2>1, <2>4
      <4>2. V \ {z} = W
          OBVIOUS
      <4> QED BY <4>1, <4>2
    <3>3. SumFunctionOnSet(f, W) \in Int /\ f[x] \in Int /\ f[z] \in Int
        BY <2>1, SumInt
    <3> HIDE DEF z, U, V, W
    <3>4. SumFunctionOnSet(f, T) = f[x] + SumFunctionOnSet(f, V)
        BY <2>2, <3>1, <3>2, <3>3
    <3> QED BY <3>4 DEF V
  <2> QED BY <2>3, <2>4
<1>2. \A T \in SUBSET S : T \in G
  <2> HIDE DEF G
  <2> QED BY <1>1, SubsetInduction
<1> QED BY <1>2

\* Only the values on the set count.
LEMMA SumEq ==
    ASSUME NEW S, IsFiniteSet(S), NEW f, NEW g, \A x \in S : f[x] = g[x]
    PROVE  SumFunctionOnSet(f, S) = SumFunctionOnSet(g, S)
<1> DEFINE G == {T \in SUBSET S : SumFunctionOnSet(f, T) = SumFunctionOnSet(g, T)}
<1>1. ASSUME NEW T \in SUBSET S, \A U \in SUBSET T : U # T => U \in G
      PROVE  T \in G
  <2>1. CASE T = {}
      BY <2>1, SumEmpty
  <2>2. CASE T # {}
    <3>1. First(T) \in T /\ IsFiniteSet(T)
        BY <2>2, FirstIn, FS_Subset
    <3>2. SumFunctionOnSet(f, T) = f[First(T)] + SumFunctionOnSet(f, T \ {First(T)})
        BY <2>2, <3>1, SumFirst
    <3>3. SumFunctionOnSet(g, T) = g[First(T)] + SumFunctionOnSet(g, T \ {First(T)})
        BY <2>2, <3>1, SumFirst
    <3>4. T \ {First(T)} \in G
        BY <1>1, <3>1
    <3> QED BY <3>1, <3>2, <3>3, <3>4
  <2> QED BY <2>1, <2>2
<1>2. \A T \in SUBSET S : T \in G
  <2> HIDE DEF G
  <2> QED BY <1>1, SubsetInduction
<1> QED BY <1>2

\* One element more.
LEMMA SumGrow ==
    ASSUME NEW S, IsFiniteSet(S), NEW f, NEW y, y \notin S, \A x \in S \cup {y} : f[x] \in Int
    PROVE  SumFunctionOnSet(f, S \cup {y}) = SumFunctionOnSet(f, S) + f[y]
<1> DEFINE T == S \cup {y}
<1>1. IsFiniteSet(T) /\ T \ {y} = S /\ y \in T
    BY FS_AddElement
<1>2. SumFunctionOnSet(f, T) = f[y] + SumFunctionOnSet(f, S)
  <2>1. SumFunctionOnSet(f, T) = f[y] + SumFunctionOnSet(f, T \ {y})
      BY <1>1, SumAdd
  <2> HIDE DEF T
  <2> QED BY <1>1, <2>1
<1>3. SumFunctionOnSet(f, S) \in Int
    BY SumInt
<1> QED BY <1>2, <1>3

\* The same, within a set.
LEMMA SumGrowIn ==
    ASSUME NEW S, IsFiniteSet(S), NEW f, \A x \in S : f[x] \in Int,
           NEW T \in SUBSET S, NEW y \in S \ T
    PROVE  SumFunctionOnSet(f, T \cup {y}) = SumFunctionOnSet(f, T) + f[y]
<1>1. IsFiniteSet(T) /\ y \notin T /\ \A x \in T \cup {y} : f[x] \in Int
    BY FS_Subset
<1> QED BY <1>1, SumGrow

\* One value changed.
LEMMA SumChange ==
    ASSUME NEW S, IsFiniteSet(S), NEW f, NEW g, NEW y \in S,
           \A x \in S : f[x] \in Int /\ g[x] \in Int,
           \A x \in S : x # y => f[x] = g[x]
    PROVE  SumFunctionOnSet(g, S) = SumFunctionOnSet(f, S) + g[y] - f[y]
<1> DEFINE U == S \ {y}
<1>1. IsFiniteSet(U)
    BY FS_Subset
<1>2. /\ SumFunctionOnSet(f, S) = f[y] + SumFunctionOnSet(f, U)
      /\ SumFunctionOnSet(g, S) = g[y] + SumFunctionOnSet(g, U)
    BY SumAdd
<1>3. SumFunctionOnSet(f, U) = SumFunctionOnSet(g, U)
    BY <1>1, SumEq
<1>4. SumFunctionOnSet(f, U) \in Int /\ f[y] \in Int /\ g[y] \in Int
    BY <1>1, SumInt
<1> HIDE DEF U
<1> QED BY <1>2, <1>3, <1>4

\* The sum of differences is the difference of the sums.
LEMMA SumMinus ==
    ASSUME NEW S, IsFiniteSet(S), NEW f, NEW g, NEW h,
           \A x \in S : f[x] \in Int /\ g[x] \in Int /\ h[x] = f[x] - g[x]
    PROVE  SumFunctionOnSet(h, S) = SumFunctionOnSet(f, S) - SumFunctionOnSet(g, S)
<1> DEFINE G == {T \in SUBSET S :
                   SumFunctionOnSet(h, T) = SumFunctionOnSet(f, T) - SumFunctionOnSet(g, T)}
<1>1. {} \in G
    BY SumEmpty
<1>2. ASSUME NEW T \in SUBSET S, NEW y \in S \ T, T \in G
      PROVE  T \cup {y} \in G
  <2>1. IsFiniteSet(T)
      BY FS_Subset
  <2>2. SumFunctionOnSet(f, T \cup {y}) = SumFunctionOnSet(f, T) + f[y]
      BY SumGrowIn
  <2>3. SumFunctionOnSet(g, T \cup {y}) = SumFunctionOnSet(g, T) + g[y]
      BY SumGrowIn
  <2>4. SumFunctionOnSet(h, T \cup {y}) = SumFunctionOnSet(h, T) + h[y]
    <3>1. \A x \in S : h[x] \in Int
        OBVIOUS
    <3> QED BY <3>1, SumGrowIn
  <2>5. SumFunctionOnSet(f, T) \in Int /\ SumFunctionOnSet(g, T) \in Int
      BY <2>1, SumInt
  <2>6. f[y] \in Int /\ g[y] \in Int /\ h[y] = f[y] - g[y]
      OBVIOUS
  <2> QED BY <1>2, <2>2, <2>3, <2>4, <2>5, <2>6
<1>3. S \in G
  <2> HIDE DEF G
  <2> QED BY <1>1, <1>2, SetInduction
<1> QED BY <1>3

\* A set is split in two.
LEMMA SumUnion ==
    ASSUME NEW S, IsFiniteSet(S), NEW T, IsFiniteSet(T), S \cap T = {}, NEW f,
           \A x \in S \cup T : f[x] \in Int
    PROVE  SumFunctionOnSet(f, S \cup T) = SumFunctionOnSet(f, S) + SumFunctionOnSet(f, T)
<1> DEFINE G == {U \in SUBSET S :
              SumFunctionOnSet(f, U \cup T) = SumFunctionOnSet(f, U) + SumFunctionOnSet(f, T)}
<1>0. SumFunctionOnSet(f, T) \in Int
    BY SumInt
<1>1. IsFiniteSet(S \cup T)
    BY FS_Union
<1>2. {} \in G
    BY <1>0, SumEmpty
<1>3. ASSUME NEW U \in SUBSET S, NEW y \in S \ U, U \in G
      PROVE  U \cup {y} \in G
  <2>1. IsFiniteSet(U)
      BY FS_Subset
  <2>2. SumFunctionOnSet(f, U \cup {y}) = SumFunctionOnSet(f, U) + f[y]
      BY <2>1, SumGrow
  <2>3. SumFunctionOnSet(f, (U \cup {y}) \cup T) = SumFunctionOnSet(f, U \cup T) + f[y]
    <3>1. SumFunctionOnSet(f, (U \cup T) \cup {y}) = SumFunctionOnSet(f, U \cup T) + f[y]
      <4> DEFINE V == U \cup T
                 R == S \cup T
      <4>1. V \in SUBSET R /\ y \in R \ V
          OBVIOUS
      <4>2. IsFiniteSet(R) /\ \A x \in R : f[x] \in Int
          BY <1>1
      <4> HIDE DEF R, V
      <4>3. SumFunctionOnSet(f, V \cup {y}) = SumFunctionOnSet(f, V) + f[y]
          BY <4>1, <4>2, SumGrowIn
      <4> QED BY <4>3 DEF V
    <3>2. (U \cup {y}) \cup T = (U \cup T) \cup {y}
        OBVIOUS
    <3> QED BY <3>1, <3>2
  <2>4. SumFunctionOnSet(f, U) \in Int /\ f[y] \in Int
      BY <2>1, SumInt
  <2> QED BY <1>0, <1>3, <2>2, <2>3, <2>4
<1>4. S \in G
  <2> HIDE DEF G
  <2> QED BY <1>2, <1>3, SetInduction
<1> QED BY <1>4

-----------------------------------------------------------------------------
(* The counters.                                                            *)

\* Days only go forward.
LEMMA DaysGoForward ==
    ASSUME NEW t \in Nat
    PROVE  t \div Day \in Nat /\ t \div Day <= (t + 1) \div Day
BY AmountsAssumption

\* No debit can have been made: BudgetInv holds at the start.
LEMMA InitInv == Init => BudgetInv
<1> SUFFICES ASSUME Init PROVE BudgetInv
    OBVIOUS
<1> USE SetsAssumption, AmountsAssumption DEF Init
<1>1. TypeOK
    BY DEF TypeOK, Never
<1>2. Today = 0
    BY DEF Today
<1> QED BY <1>1, <1>2 DEF BudgetInv, DailyLimitUpToRefunds, ChildSpendsWithinMax, ResetDue

\* A debit stays under the daily limit and the child's total.
LEMMA DebitKeepsInv ==
    ASSUME BudgetInv, NEW p \in Payments, Debit(p)
    PROVE  BudgetInv'
<1> USE SetsAssumption, AmountsAssumption
<1>0. Amount[p] \in Nat \ {0} /\ Today \in Nat /\ Today' = Today
    BY DaysGoForward DEF BudgetInv, TypeOK, Today, Debit
<1>1. resetDay' = Today /\ SpentToday \in Nat
    BY <1>0 DEF Debit, Advanced, ResetDue, SpentToday, BudgetInv, TypeOK
<1>2. TypeOK'
  <2>1. budget' \in Nat /\ dailySpent' \in Nat /\ today' \in Int
      BY <1>0, <1>1 DEF BudgetInv, TypeOK, Debit
  <2>2. spent' \in [Children -> Nat] /\ net' \in [Children -> Int]
      BY <1>0 DEF BudgetInv, TypeOK, Debit, Moved
  <2> QED BY <1>0, <1>1, <2>1, <2>2 DEF BudgetInv, TypeOK, Debit
<1>3. /\ DailyLimitUpToRefunds'
      /\ ~ResetDue' /\ resetDay' <= Today' /\ today' <= dailySpent' + carried'
    BY <1>0, <1>1 DEF BudgetInv, TypeOK, DailyLimitUpToRefunds, Debit, ResetDue, SpentToday
<1>4. ChildSpendsWithinMax'
    BY <1>0 DEF BudgetInv, TypeOK, ChildSpendsWithinMax, Debit, Moved, ChildAllows
<1>5. \A q \in Payments : back'[q] <= Amount[q]
    BY <1>0 DEF BudgetInv, TypeOK, Debit
<1> QED BY <1>2, <1>3, <1>4, <1>5 DEF BudgetInv

\* A refund lowers the counters by no more than what it returns.
LEMMA RefundKeepsInv ==
    ASSUME BudgetInv, NEW p \in Payments, NEW through \in BOOLEAN,
           NEW a \in 1..Amount[p], Refund(p, a, through)
    PROVE  BudgetInv'
<1> USE SetsAssumption, AmountsAssumption
<1>0. a \in Nat /\ a <= Amount[p] /\ Today \in Nat /\ Today' = Today
    BY DaysGoForward DEF BudgetInv, TypeOK, Today, Refund
<1>1. TypeOK'
  <2>1. budget' \in Nat /\ dailySpent' \in Nat
      BY <1>0 DEF BudgetInv, TypeOK, Refund, Clamped
  <2>2. spent' \in [Children -> Nat]
      BY <1>0 DEF BudgetInv, TypeOK, Refund, ChildReturn, Clamped
  <2>3. net' \in [Children -> Int] /\ today' \in Int /\ carried' \in Nat
      BY <1>0 DEF BudgetInv, TypeOK, Refund, Moved
  <2> QED BY <1>0, <2>1, <2>2, <2>3 DEF BudgetInv, TypeOK, Refund
<1>2. /\ DailyLimitUpToRefunds'
      /\ ResetDue' <=> ResetDue
      /\ resetDay' <= Today' /\ (IF ResetDue THEN today' <= 0 ELSE today' <= dailySpent' + carried')
    BY <1>0 DEF BudgetInv, TypeOK, DailyLimitUpToRefunds, Refund, ResetDue, Clamped
<1>3. ChildSpendsWithinMax'
    BY <1>0 DEF BudgetInv, TypeOK, ChildSpendsWithinMax, Refund, ChildReturn, Moved, Clamped
<1>4. \A q \in Payments : back'[q] <= Amount[q]
    BY <1>0 DEF BudgetInv, TypeOK, Refund
<1> QED BY <1>1, <1>2, <1>3, <1>4 DEF BudgetInv

\* A new day finds the counter due for its reset.
LEMMA TickKeepsInv ==
    ASSUME BudgetInv, Tick
    PROVE  BudgetInv'
<1> USE SetsAssumption, AmountsAssumption
<1>1. Today \in Nat /\ Today' \in Nat /\ Today <= Today'
  <2>1. now \in Nat /\ now + 1 \in Nat /\ now' = now + 1
      BY DEF BudgetInv, TypeOK, Tick
  <2>2. /\ now \div Day \in Nat /\ now \div Day <= (now + 1) \div Day
        /\ (now + 1) \div Day \in Nat
      BY <2>1, DaysGoForward
  <2> QED BY <2>1, <2>2 DEF Today
<1>2. CASE Today' = Today
    BY <1>1, <1>2 DEF BudgetInv, TypeOK, DailyLimitUpToRefunds, ChildSpendsWithinMax, Tick,
       ResetDue, keyVars, rowVars
<1>3. CASE Today' # Today
    BY <1>1, <1>3 DEF BudgetInv, TypeOK, DailyLimitUpToRefunds, ChildSpendsWithinMax, Tick,
       ResetDue, keyVars, rowVars
<1> QED BY <1>2, <1>3

\* Every step keeps BudgetInv.
LEMMA StepKeepsInv == BudgetInv /\ [Next]_vars => BudgetInv'
<1> SUFFICES ASSUME BudgetInv, [Next]_vars PROVE BudgetInv'
    OBVIOUS
<1> USE SetsAssumption, AmountsAssumption
<1>1. ASSUME NEW x \in Deposits, Deposit(x) PROVE BudgetInv'
    BY <1>1 DEF BudgetInv, TypeOK, DailyLimitUpToRefunds, ChildSpendsWithinMax, Deposit, ResetDue,
       Today, rowVars, historyVars
<1>2. ASSUME NEW d \in Destinations, NEW w \in {"none", "total", "rolling"}, SetPolicy(d, w)
      PROVE  BudgetInv'
    BY <1>2 DEF BudgetInv, TypeOK, DailyLimitUpToRefunds, ChildSpendsWithinMax, SetPolicy, ResetDue,
       Today, keyVars, rowVars, historyVars
<1>3. ASSUME NEW c \in Children, CloseChild(c) PROVE BudgetInv'
    BY <1>3 DEF BudgetInv, TypeOK, DailyLimitUpToRefunds, ChildSpendsWithinMax, CloseChild, ResetDue,
       Today, keyVars, rowVars, historyVars
<1>4. CASE Deactivate
    BY <1>4 DEF BudgetInv, TypeOK, DailyLimitUpToRefunds, ChildSpendsWithinMax, Deactivate, ResetDue,
       Today, rowVars, historyVars
<1>5. CASE UNCHANGED vars
    BY <1>5 DEF BudgetInv, TypeOK, DailyLimitUpToRefunds, ChildSpendsWithinMax, ResetDue,
       Today, vars, keyVars, rowVars, historyVars
<1> QED BY <1>1, <1>2, <1>3, <1>4, <1>5, DebitKeepsInv, RefundKeepsInv, TickKeepsInv DEF Next

\* The invariant the two bounds rest on.
THEOREM BudgetInvariant == Spec => []BudgetInv
BY InitInv, StepKeepsInv, PTL DEF Spec

\* What a key spends in a day is bounded by its limit and the refunds of earlier days
\* that arrived in it, whatever the clock, the policies and the amounts.
THEOREM DayIsBounded == Spec => []DailyLimitUpToRefunds
<1>1. BudgetInv => DailyLimitUpToRefunds
    BY DEF BudgetInv
<1> QED BY <1>1, BudgetInvariant, PTL

\* No delegation or key-session spends past its total, even when refunds credit the key
\* alone.
THEOREM ChildIsBounded == Spec => []ChildSpendsWithinMax
<1>1. BudgetInv => ChildSpendsWithinMax
    BY DEF BudgetInv
<1> QED BY <1>1, BudgetInvariant, PTL

-----------------------------------------------------------------------------
(* The money.                                                               *)

\* What each sum of the books is over.
LEMMA SumsAreFinite ==
    ASSUME MoneyInv
    PROVE  /\ IsFiniteSet(seen) /\ \A x \in Deposits : DepositOf[x] \in Int
           /\ IsFiniteSet(debited) /\ \A p \in Payments : Kept[p] = Amount[p] - back[p]
           /\ \A p \in Payments : Amount[p] \in Int /\ back[p] \in Int /\ Kept[p] \in Int
<1>1. IsFiniteSet(debited)
    BY SetsAssumption, FS_Subset DEF MoneyInv, BudgetInv, TypeOK
<1>2. \A p \in Payments : Amount[p] \in Int /\ back[p] \in Int
    BY AmountsAssumption DEF MoneyInv, BudgetInv, TypeOK
<1>3. \A p \in Payments : Kept[p] = Amount[p] - back[p]
    BY DEF Kept
<1> QED BY <1>1, <1>2, <1>3, AmountsAssumption DEF MoneyInv

\* Nothing deposited, nothing spent.
LEMMA InitMoney == Init => MoneyInv
<1> SUFFICES ASSUME Init PROVE MoneyInv
    OBVIOUS
<1>1. BudgetInv
    BY InitInv
<1>2. SumFunctionOnSet(DepositOf, {}) = 0 /\ SumFunctionOnSet(Kept, {}) = 0
    BY SumEmpty
<1>3. BooksBalance
    BY <1>2 DEF Init, BooksBalance
<1>4. IsFiniteSet(seen)
    BY FS_EmptySet DEF Init
<1> QED BY <1>1, <1>3, <1>4 DEF MoneyInv, Init

\* A deposit is one element more of the first sum.
LEMMA DepositBalances ==
    ASSUME MoneyInv, NEW x \in Deposits, Deposit(x)
    PROVE  BooksBalance' /\ IsFiniteSet(seen')
<1>1. seen' = seen \cup {x} /\ x \notin seen /\ debited' = debited /\ Kept' = Kept
    BY DEF Deposit, Uncredited, Kept
<1>2. IsFiniteSet(seen) /\ \A y \in seen \cup {x} : DepositOf[y] \in Int
    BY SumsAreFinite DEF MoneyInv, BudgetInv, TypeOK
<1>3. SumFunctionOnSet(DepositOf, seen') = SumFunctionOnSet(DepositOf, seen) + DepositOf[x]
    BY <1>1, <1>2, SumGrow
<1>4. SumFunctionOnSet(DepositOf, seen) \in Int /\ SumFunctionOnSet(Kept, debited) \in Int
  <2>1. \A p \in debited : Kept[p] \in Int
      BY SumsAreFinite DEF MoneyInv, BudgetInv, TypeOK
  <2> QED BY <1>2, <2>1, SumsAreFinite, SumInt
<1>5. budget' = budget + DepositOf[x] /\ DepositOf[x] \in Int
    BY SumsAreFinite DEF Deposit
<1>6. BooksBalance'
    BY <1>1, <1>3, <1>4, <1>5 DEF BooksBalance, MoneyInv
<1>7. IsFiniteSet(seen')
    BY <1>1, <1>2, FS_AddElement
<1> QED BY <1>6, <1>7

\* A debit is one element more of the second sum, and its whole amount.
LEMMA DebitBalances ==
    ASSUME MoneyInv, NEW p \in Payments, Debit(p)
    PROVE  BooksBalance'
<1>1. debited' = debited \cup {p} /\ p \notin debited /\ seen' = seen /\ Kept' = Kept
    BY DEF Debit, Kept
<1>2. IsFiniteSet(debited) /\ \A q \in debited \cup {p} : Kept[q] \in Int
    BY SumsAreFinite DEF MoneyInv, BudgetInv, TypeOK
<1>3. SumFunctionOnSet(Kept, debited') = SumFunctionOnSet(Kept, debited) + Kept[p]
    BY <1>1, <1>2, SumGrow
<1>4. SumFunctionOnSet(DepositOf, seen) \in Int /\ SumFunctionOnSet(Kept, debited) \in Int
  <2>1. \A x \in seen : DepositOf[x] \in Int
      BY SumsAreFinite DEF MoneyInv, BudgetInv, TypeOK
  <2> QED BY <1>2, <2>1, SumsAreFinite, SumInt
<1>5. budget' = budget - Amount[p] /\ Kept[p] = Amount[p] /\ Amount[p] \in Int
  <2>1. back[p] = 0
      BY <1>1 DEF MoneyInv
  <2> QED BY <2>1, SumsAreFinite DEF Debit
<1> QED BY <1>1, <1>3, <1>4, <1>5 DEF BooksBalance, MoneyInv

\* A refund lowers one term of it, by what it returns.
LEMMA RefundBalances ==
    ASSUME MoneyInv, NEW p \in Payments, NEW through \in BOOLEAN,
           NEW a \in 1..Amount[p], Refund(p, a, through)
    PROVE  BooksBalance'
<1>1. p \in debited /\ debited' = debited /\ seen' = seen /\ debited \subseteq Payments
    BY DEF Refund, MoneyInv, BudgetInv, TypeOK
<1>2. a \in Int /\ Amount[p] \in Int
    BY SumsAreFinite
<1>3. \A q \in Payments : Kept'[q] = IF q = p THEN Amount[p] - a ELSE Kept[q]
    BY DEF Kept, Refund, MoneyInv, BudgetInv, TypeOK
<1>4. IsFiniteSet(debited) /\ \A q \in debited : Kept[q] \in Int
    BY <1>1, SumsAreFinite
<1>5. \A q \in debited : Kept'[q] \in Int
    BY <1>1, <1>2, <1>3, <1>4
<1>6. SumFunctionOnSet(Kept', debited) = SumFunctionOnSet(Kept, debited) + Kept'[p] - Kept[p]
  <2>1. \A q \in debited : q # p => Kept[q] = Kept'[q]
      BY <1>1, <1>3
  <2>2. \A q \in debited : Kept[q] \in Int /\ Kept'[q] \in Int
      BY <1>4, <1>5
  <2> QED BY <1>1, <1>4, <2>1, <2>2, SumChange
<1>7. SumFunctionOnSet(DepositOf, seen) \in Int /\ SumFunctionOnSet(Kept, debited) \in Int
  <2>1. \A x \in seen : DepositOf[x] \in Int
      BY SumsAreFinite DEF MoneyInv, BudgetInv, TypeOK
  <2> QED BY <1>4, <2>1, SumsAreFinite, SumInt
<1>8. Kept'[p] - Kept[p] = -a /\ budget' = budget + a
  <2>1. back[p] = 0
      BY DEF Refund, Claimed
  <2> QED BY <1>2, <1>3, <2>1, SumsAreFinite DEF Refund
<1>9. Kept'[p] \in Int /\ Kept[p] \in Int
    BY <1>1, <1>4, <1>5
<1> QED BY <1>1, <1>2, <1>6, <1>7, <1>8, <1>9 DEF BooksBalance, MoneyInv

\* Only a debit, then its refund, touch a payment's rows.
LEMMA UndebitedUntouched ==
    ASSUME MoneyInv, Next, NEW q \in Payments, q \notin debited'
    PROVE  back'[q] = 0 /\ debitRow'[q] = Never /\ refundRow'[q] = Never
<1> USE DEF MoneyInv, BudgetInv, TypeOK
<1>1. ASSUME NEW x \in Deposits, Deposit(x)
      PROVE  back'[q] = 0 /\ debitRow'[q] = Never /\ refundRow'[q] = Never
    BY <1>1 DEF Deposit, rowVars
<1>2. ASSUME NEW p \in Payments, Debit(p)
      PROVE  back'[q] = 0 /\ debitRow'[q] = Never /\ refundRow'[q] = Never
    BY <1>2 DEF Debit
<1>3. ASSUME NEW p \in Payments, NEW through \in BOOLEAN, NEW a \in 1..Amount[p],
             Refund(p, a, through)
      PROVE  back'[q] = 0 /\ debitRow'[q] = Never /\ refundRow'[q] = Never
    BY <1>3 DEF Refund
<1>4. ASSUME UNCHANGED <<debited, back, rowVars>>
      PROVE  back'[q] = 0 /\ debitRow'[q] = Never /\ refundRow'[q] = Never
    BY <1>4 DEF rowVars
<1> QED BY <1>1, <1>2, <1>3, <1>4 DEF Next, SetPolicy, CloseChild, Deactivate, Tick, rowVars

\* Every step keeps the books.
LEMMA StepKeepsMoney == MoneyInv /\ [Next]_vars => MoneyInv'
<1> SUFFICES ASSUME MoneyInv, [Next]_vars PROVE MoneyInv'
    OBVIOUS
<1>1. BudgetInv'
    BY StepKeepsInv DEF MoneyInv
<1>2. ASSUME UNCHANGED <<budget, seen, debited, back>>
      PROVE  BooksBalance' /\ IsFiniteSet(seen')
    BY <1>2 DEF MoneyInv, BooksBalance, Kept
<1>3. BooksBalance' /\ IsFiniteSet(seen')
  <2>1. ASSUME NEW x \in Deposits, Deposit(x) PROVE BooksBalance' /\ IsFiniteSet(seen')
      BY <2>1, DepositBalances
  <2>2. ASSUME NEW p \in Payments, Debit(p) PROVE BooksBalance' /\ IsFiniteSet(seen')
      BY <2>2, DebitBalances DEF Debit, MoneyInv
  <2>3. ASSUME NEW p \in Payments, NEW through \in BOOLEAN, NEW a \in 1..Amount[p],
               Refund(p, a, through)
        PROVE  BooksBalance' /\ IsFiniteSet(seen')
      BY <2>3, RefundBalances DEF Refund, MoneyInv
  <2>4. CASE Next
      BY <1>2, <2>1, <2>2, <2>3, <2>4
         DEF Next, SetPolicy, CloseChild, Deactivate, Tick, keyVars
  <2>5. CASE UNCHANGED vars
      BY <1>2, <2>5 DEF vars, keyVars
  <2> QED BY <2>4, <2>5
<1>4. \A q \in Payments : q \notin debited'
        => back'[q] = 0 /\ debitRow'[q] = Never /\ refundRow'[q] = Never
  <2>1. CASE Next
      BY <2>1, UndebitedUntouched
  <2>2. CASE UNCHANGED vars
      BY <2>2 DEF vars, rowVars, MoneyInv
  <2> QED BY <2>1, <2>2
<1> QED BY <1>1, <1>3, <1>4 DEF MoneyInv

\* The invariant the books and the cap rest on.
THEOREM MoneyInvariant == Spec => []MoneyInv
BY InitMoney, StepKeepsMoney, PTL DEF Spec

\* The balance of a key is always what it deposited less what it spent and did not get
\* back, whatever the deposits, the payments and the order of their refunds.
THEOREM BooksAlwaysBalance == Spec => []BooksBalance
<1>1. MoneyInv => BooksBalance
    BY DEF MoneyInv
<1> QED BY <1>1, MoneyInvariant, PTL

-----------------------------------------------------------------------------
(* The cap of a destination.                                                *)

\* The payments the policy of a destination counts, and those it sees refunded.
Counted(d) == {p \in Payments : Counts(d, p)}
Returned(d) == {p \in To(d) : InWindow(d, refundRow[p])}

\* What a destination keeps is what it was sent less what of it came back.
LEMMA OutstandingIs ==
    ASSUME MoneyInv, NEW d \in Destinations
    PROVE  /\ Outstanding(d) = SumFunctionOnSet(Amount, Counted(d))
                               - SumFunctionOnSet(back, Counted(d))
           /\ Accumulated(d) = SumFunctionOnSet(Amount, Counted(d))
                               - SumFunctionOnSet(back, Returned(d))
           /\ Overhang(d) = SumFunctionOnSet(back, Returned(d) \ Counted(d))
<1>1. Counted(d) \subseteq Payments /\ IsFiniteSet(Counted(d))
    BY SetsAssumption, FS_Subset DEF Counted
<1>2. \A p \in Counted(d) : Amount[p] \in Int /\ back[p] \in Int /\ Kept[p] = Amount[p] - back[p]
    BY <1>1, SumsAreFinite
<1>3. SumFunctionOnSet(Kept, Counted(d))
        = SumFunctionOnSet(Amount, Counted(d)) - SumFunctionOnSet(back, Counted(d))
    BY <1>1, <1>2, SumMinus
<1>4. {p \in To(d) : InWindow(d, debitRow[p])} = Counted(d)
    BY DEF To, Counted, Counts
<1>5. {p \in To(d) : ~Counts(d, p) /\ InWindow(d, refundRow[p])} = Returned(d) \ Counted(d)
    BY DEF To, Counted, Returned
<1>6. Outstanding(d) = SumFunctionOnSet(Kept, Counted(d))
    BY DEF Outstanding, Counted
<1>7. Accumulated(d) = SumFunctionOnSet(Amount, Counted(d)) - SumFunctionOnSet(back, Returned(d))
    BY <1>4 DEF Accumulated, Returned
<1>8. Overhang(d) = SumFunctionOnSet(back, Returned(d) \ Counted(d))
    BY <1>5 DEF Overhang
<1> QED BY <1>3, <1>6, <1>7, <1>8

\* What came back is at most what came back of the payments counted and of the others.
LEMMA ReturnedIsSplit ==
    ASSUME MoneyInv, NEW d \in Destinations
    PROVE  SumFunctionOnSet(back, Returned(d))
             <= SumFunctionOnSet(back, Counted(d))
                + SumFunctionOnSet(back, Returned(d) \ Counted(d))
<1> DEFINE C == Counted(d)
           R == Returned(d)
<1>1. /\ C \in SUBSET Payments /\ R \in SUBSET Payments /\ IsFiniteSet(C) /\ IsFiniteSet(R)
      /\ IsFiniteSet(R \ C) /\ IsFiniteSet(C \ R) /\ IsFiniteSet(R \cap C)
  <2>1. C \in SUBSET Payments /\ R \in SUBSET Payments
      BY DEF Counted, Returned, To
  <2> HIDE DEF C, R
  <2> QED BY <2>1, SetsAssumption, FS_Subset
<1>2. \A p \in Payments : back[p] \in Int /\ back[p] >= 0
    BY DEF MoneyInv, BudgetInv, TypeOK
<1> HIDE DEF C, R
<1>3. SumFunctionOnSet(back, R) = SumFunctionOnSet(back, R \ C) + SumFunctionOnSet(back, R \cap C)
  <2>1. \A p \in (R \ C) \cup (R \cap C) : back[p] \in Int
      BY <1>1, <1>2
  <2>2. (R \ C) \cap (R \cap C) = {}
      OBVIOUS
  <2>3. SumFunctionOnSet(back, (R \ C) \cup (R \cap C))
          = SumFunctionOnSet(back, R \ C) + SumFunctionOnSet(back, R \cap C)
      BY <1>1, <2>1, <2>2, SumUnion
  <2>4. (R \ C) \cup (R \cap C) = R
      OBVIOUS
  <2> QED BY <2>3, <2>4
<1>4. SumFunctionOnSet(back, C) = SumFunctionOnSet(back, C \ R) + SumFunctionOnSet(back, R \cap C)
  <2>1. \A p \in (C \ R) \cup (R \cap C) : back[p] \in Int
      BY <1>1, <1>2
  <2>2. (C \ R) \cap (R \cap C) = {}
      OBVIOUS
  <2>3. SumFunctionOnSet(back, (C \ R) \cup (R \cap C))
          = SumFunctionOnSet(back, C \ R) + SumFunctionOnSet(back, R \cap C)
      BY <1>1, <2>1, <2>2, SumUnion
  <2>4. (C \ R) \cup (R \cap C) = C
      OBVIOUS
  <2> QED BY <2>3, <2>4
<1>5. SumFunctionOnSet(back, C \ R) \in Int /\ SumFunctionOnSet(back, C \ R) >= 0
  <2>1. \A p \in C \ R : back[p] \in Int /\ back[p] >= 0
      BY <1>1, <1>2
  <2> QED BY <1>1, <2>1, SumInt
<1>6. SumFunctionOnSet(back, R \ C) \in Int /\ SumFunctionOnSet(back, R \cap C) \in Int
  <2>1. \A p \in R : back[p] \in Int
      BY <1>1, <1>2
  <2> QED BY <1>1, <2>1, SumInt
<1> QED BY <1>3, <1>4, <1>5, <1>6 DEF C, R

\* A debit leaves its destination within the cap and the refunds the policy sees of
\* debits it does not.
LEMMA DebitRespectsTheCap ==
    ASSUME MoneyInv, MoneyInv', NEW p \in Payments, Debit(p), policy[Goal[p]] # "none"
    PROVE  Outstanding(Goal[p])' <= Cap + Overhang(Goal[p])'
<1> DEFINE d == Goal[p]
           C == Counted(d)
           R == Returned(d)
<1>0. d \in Destinations
    BY SetsAssumption
<1>1. /\ now' = now /\ policy' = policy /\ back' = back /\ refundRow' = refundRow
      /\ p \notin debited /\ debitRow' = [debitRow EXCEPT ![p] = now]
      /\ now \in Nat /\ Window \in Nat
    BY AmountsAssumption DEF Debit, MoneyInv, BudgetInv, TypeOK
<1>2. back[p] = 0 /\ debitRow[p] = Never /\ refundRow[p] = Never
    BY <1>1 DEF MoneyInv
<1>3. Counted(d)' = C \cup {p}
  <2>1. InWindow(d, debitRow[p])'
      BY <1>1 DEF InWindow, Never, MoneyInv, BudgetInv, TypeOK
  <2>2. \A q \in Payments : q # p => (Counts(d, q)' <=> Counts(d, q))
      BY <1>1 DEF Counts, InWindow, MoneyInv, BudgetInv, TypeOK
  <2>3. Counts(d, p)'
      BY <2>1 DEF Counts
  <2> QED BY <2>2, <2>3 DEF Counted
<1>4. p \notin C /\ p \notin R
    BY <1>2 DEF Counted, Returned, Counts, InWindow
<1>5. Returned(d)' = R
    BY <1>1 DEF Returned, To, InWindow
<1>6. IsFiniteSet(C) /\ IsFiniteSet(R) /\ C \in SUBSET Payments /\ R \in SUBSET Payments
  <2>1. C \in SUBSET Payments /\ R \in SUBSET Payments
      BY DEF Counted, Returned, To
  <2> HIDE DEF C, R
  <2> QED BY <2>1, SetsAssumption, FS_Subset
<1>7. SumFunctionOnSet(Amount, C) - SumFunctionOnSet(back, R) + Amount[p] <= Cap
  <2>1. Accumulated(d) + Amount[p] <= Cap
      BY DEF Debit, UnderCap
  <2>2. Accumulated(d) = SumFunctionOnSet(Amount, C) - SumFunctionOnSet(back, R)
      BY <1>0, OutstandingIs
  <2> QED BY <2>1, <2>2
<1>8. /\ Outstanding(d)' = SumFunctionOnSet(Amount, C \cup {p}) - SumFunctionOnSet(back, C \cup {p})
      /\ Overhang(d)' = SumFunctionOnSet(back, R \ C)
  <2>1. /\ Outstanding(d)' = SumFunctionOnSet(Kept', Counted(d)')
        /\ Overhang(d)' = SumFunctionOnSet(back, R \ (C \cup {p}))
    <3>1. {q \in To(d) : ~Counts(d, q) /\ InWindow(d, refundRow[q])}'
            = Returned(d)' \ Counted(d)'
        BY DEF To, Counted, Returned
    <3> QED BY <1>1, <1>3, <1>5, <3>1 DEF Outstanding, Overhang, Counted
  <2>2. R \ (C \cup {p}) = R \ C
      BY <1>4
  <2>3. SumFunctionOnSet(Kept', C \cup {p})
          = SumFunctionOnSet(Amount, C \cup {p}) - SumFunctionOnSet(back, C \cup {p})
    <3>1. \A q \in Payments : /\ Amount[q] \in Int /\ back[q] \in Int
                              /\ Kept'[q] = Amount[q] - back[q]
        BY <1>1, SumsAreFinite DEF Kept
    <3>2. IsFiniteSet(C \cup {p})
        BY <1>6, FS_AddElement
    <3>3. \A q \in C \cup {p} : /\ Amount[q] \in Int /\ back[q] \in Int
                                /\ Kept'[q] = Amount[q] - back[q]
        BY <1>6, <3>1
    <3> HIDE DEF C
    <3> QED BY <3>2, <3>3, SumMinus
  <2> QED BY <1>3, <2>1, <2>2, <2>3
<1>9. /\ SumFunctionOnSet(Amount, C \cup {p}) = SumFunctionOnSet(Amount, C) + Amount[p]
      /\ SumFunctionOnSet(back, C \cup {p}) = SumFunctionOnSet(back, C)
  <2>1. \A q \in C \cup {p} : Amount[q] \in Int /\ back[q] \in Int
      BY <1>6, SumsAreFinite
  <2> HIDE DEF C
  <2>2. SumFunctionOnSet(Amount, C \cup {p}) = SumFunctionOnSet(Amount, C) + Amount[p]
      BY <1>4, <1>6, <2>1, SumGrow
  <2>3. SumFunctionOnSet(back, C \cup {p}) = SumFunctionOnSet(back, C) + back[p]
      BY <1>4, <1>6, <2>1, SumGrow
  <2>4. SumFunctionOnSet(back, C) \in Int
      BY <1>6, <2>1, SumInt
  <2> QED BY <1>2, <2>2, <2>3, <2>4
<1>10. SumFunctionOnSet(back, R) <= SumFunctionOnSet(back, C) + SumFunctionOnSet(back, R \ C)
    BY <1>0, ReturnedIsSplit
<1>11. /\ SumFunctionOnSet(Amount, C) \in Int /\ SumFunctionOnSet(back, C) \in Int
       /\ SumFunctionOnSet(back, R) \in Int /\ SumFunctionOnSet(back, R \ C) \in Int
       /\ Amount[p] \in Int /\ Cap \in Int
  <2>1. \A q \in Payments : Amount[q] \in Int /\ back[q] \in Int
      BY SumsAreFinite
  <2>2. IsFiniteSet(R \ C)
      BY <1>6, FS_Subset
  <2> HIDE DEF C, R
  <2> QED BY <1>6, <2>1, <2>2, SumInt, AmountsAssumption
<1> HIDE DEF d, C, R
<1>12. Outstanding(d)' <= Cap + Overhang(d)'
    BY <1>7, <1>8, <1>9, <1>10, <1>11
<1> QED BY <1>12 DEF d

\* No debit leaves a destination above its cap, but by what its policy sees returned of
\* debits it does not count, for any mix of policies, windows, deposits and refunds.
THEOREM CapIsRespected == Spec => DebitsRespectTheCap
<1> DEFINE Respected == \A p \in Payments :
                            debited' = debited \cup {p} /\ debited' # debited
                              /\ policy[Goal[p]] # "none"
                            => Outstanding(Goal[p])' <= Cap + Overhang(Goal[p])'
<1>1. MoneyInv /\ MoneyInv' /\ [Next]_vars => [Respected]_vars
  <2> SUFFICES ASSUME MoneyInv, MoneyInv', [Next]_vars, NEW p \in Payments,
                      debited' = debited \cup {p}, debited' # debited, policy[Goal[p]] # "none"
               PROVE  Outstanding(Goal[p])' <= Cap + Overhang(Goal[p])'
      OBVIOUS
  <2>1. PICK q \in Payments : Debit(q)
      BY DEF Next, vars, Deposit, Refund, SetPolicy, CloseChild, Deactivate, Tick
  <2>2. q = p
      BY <2>1 DEF Debit
  <2> QED BY <2>1, <2>2, DebitRespectsTheCap
<1>2. Spec => [][Respected]_vars
    BY <1>1, MoneyInvariant, PTL DEF Spec
<1> QED BY <1>2 DEF DebitsRespectTheCap
=============================================================================

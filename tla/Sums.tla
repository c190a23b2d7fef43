--------------------------------- MODULE Sums ---------------------------------
(***************************************************************************)
(* Facts about SumFunctionOnSet(f, S), the sum of f[x] for the x in S, for *)
(* proofs to cite.  The fold is a recursive function over the subsets of   *)
(* S; what it computes is shown by induction over finite sets, in the form *)
(* of Induction: a class of sets that has every set whose parts it has.    *)
(***************************************************************************)
EXTENDS FiniteSetsExt, FiniteSetTheorems, WellFoundedInduction, TLAPS

(* A finite set has no endless chain of ever smaller subsets. *)
LEMMA SubsetsWellFounded ==
    ASSUME NEW S, IsFiniteSet(S)
    PROVE  IsWellFoundedOn(StrictSubsetOrdering(S), SUBSET S)
BY FS_StrictSubsetOrderingWellFounded, FS_FiniteSubsetsOfFinite

(* A class that has each set whose strict subsets it has, has them all. *)
LEMMA StrongInduction ==
    ASSUME NEW S, IsFiniteSet(S), NEW C,
           \A T \in SUBSET S : (\A U \in SUBSET T : U # T => U \in C) => T \in C
    PROVE  S \in C
<1> DEFINE Bad == {T \in SUBSET S : T \notin C}
<1> SUFFICES ASSUME Bad # {} PROVE FALSE
    OBVIOUS
<1>1. IsWellFoundedOn(StrictSubsetOrdering(S), SUBSET S)
    BY SubsetsWellFounded
<1>2. Bad \subseteq SUBSET S
    OBVIOUS
<1>3. \E T \in Bad : \A U \in Bad : <<U, T>> \notin StrictSubsetOrdering(S)
  <2> HIDE DEF Bad
  <2> QED BY <1>1, <1>2, WFMin
<1>4. PICK T \in Bad : \A U \in Bad : <<U, T>> \notin StrictSubsetOrdering(S)
    BY <1>3
<1>5. ASSUME NEW U \in SUBSET T, U # T PROVE U \in C
  <2>1. <<U, T>> \in StrictSubsetOrdering(S)
      BY <1>4, <1>5 DEF StrictSubsetOrdering
  <2> QED BY <1>4, <2>1
<1> QED BY <1>4, <1>5

(* The same by single elements: {}, and each set that grows by one. *)
LEMMA Induction ==
    ASSUME NEW S, IsFiniteSet(S), NEW C, {} \in C,
           \A T \in SUBSET S : T # {} /\ (\A x \in T : T \ {x} \in C) => T \in C
    PROVE  S \in C
<1>1. ASSUME NEW T \in SUBSET S, \A U \in SUBSET T : U # T => U \in C PROVE T \in C
  <2>1. ASSUME NEW x \in T PROVE T \ {x} \in C
    <3>1. T \ {x} \in SUBSET T /\ T \ {x} # T
        OBVIOUS
    <3> QED BY <3>1, <1>1
  <2> QED BY <2>1
<1> QED BY <1>1, StrongInduction

-----------------------------------------------------------------------------
(* The fold is well defined *)

Any(s) == CHOOSE x \in s : TRUE
IsSum(g, f, S) ==
    g = [s \in SUBSET S |-> IF s = {} THEN 0 ELSE f[Any(s)] + g[s \ {Any(s)}]]
Sum(f, S) == (CHOOSE g : IsSum(g, f, S))[S]

(* What the community module folds is this recursive function. *)
LEMMA FoldIsSum == ASSUME NEW f, NEW S PROVE SumFunctionOnSet(f, S) = Sum(f, S)
BY DEF SumFunctionOnSet, FoldFunctionOnSet, MapThenFoldSet, Sum, IsSum, Any

(* An arbitrary element of a set that has one. *)
LEMMA AnyIn == ASSUME NEW s, s # {} PROVE Any(s) \in s
BY DEF Any

(* A sum of S has the sums of its subsets. *)
LEMMA Below ==
    ASSUME NEW f, NEW S, NEW g, IsSum(g, f, S), NEW T \in SUBSET S
    PROVE  IsSum([s \in SUBSET T |-> g[s]], f, T)
<1> DEFINE h == [s \in SUBSET T |-> g[s]]
<1>1. ASSUME NEW s \in SUBSET T
      PROVE  h[s] = IF s = {} THEN 0 ELSE f[Any(s)] + h[s \ {Any(s)}]
  <2>1. g[s] = IF s = {} THEN 0 ELSE f[Any(s)] + g[s \ {Any(s)}]
      BY DEF IsSum
  <2>2. s \ {Any(s)} \in SUBSET T
      OBVIOUS
  <2> QED BY <2>1, <2>2
<1>2. h = [s \in SUBSET T |-> IF s = {} THEN 0 ELSE f[Any(s)] + h[s \ {Any(s)}]]
    BY <1>1
<1> QED BY <1>2 DEF IsSum

(* Two functions that satisfy the recursion are worth the same at S. *)
LEMMA Unique ==
    ASSUME NEW f, NEW S, IsFiniteSet(S), NEW g, IsSum(g, f, S), NEW h, IsSum(h, f, S)
    PROVE  g[S] = h[S]
<1> DEFINE C == {s \in SUBSET S : g[s] = h[s]}
<1>1. {} \in C
    BY DEF IsSum
<1>2. ASSUME NEW T \in SUBSET S, T # {}, \A x \in T : T \ {x} \in C PROVE T \in C
  <2>1. Any(T) \in T /\ T \ {Any(T)} \in C
      BY <1>2, AnyIn
  <2>2. g[T] = f[Any(T)] + g[T \ {Any(T)}]
      BY <1>2 DEF IsSum
  <2>3. h[T] = f[Any(T)] + h[T \ {Any(T)}]
      BY <1>2 DEF IsSum
  <2> QED BY <2>1, <2>2, <2>3
<1>3. S \in C
  <2> HIDE DEF C
  <2> QED BY <1>1, <1>2, Induction
<1> QED BY <1>3

(* What the sum of S is worth at a subset is the sum of the subset. *)
LEMMA Within ==
    ASSUME NEW f, NEW S, IsFiniteSet(S), NEW g, IsSum(g, f, S), NEW T \in SUBSET S
    PROVE  g[T] = Sum(f, T)
<1> DEFINE h == [s \in SUBSET T |-> g[s]]
           k == CHOOSE e : IsSum(e, f, T)
<1>1. IsSum(h, f, T)
    BY Below
<1>2. IsSum(k, f, T)
    BY <1>1
<1>3. IsFiniteSet(T)
    BY FS_Subset
<1>4. h[T] = k[T]
  <2> HIDE DEF h, k
  <2> QED BY <1>1, <1>2, <1>3, Unique
<1> QED BY <1>4 DEF Sum

(* Some function satisfies the recursion. *)
LEMMA Exists == ASSUME NEW f, NEW S, IsFiniteSet(S) PROVE \E g : IsSum(g, f, S)
<1> DEFINE C == {T \in SUBSET S : \E g : IsSum(g, f, T)}
<1>1. ASSUME NEW T \in SUBSET S, \A U \in SUBSET T : U # T => U \in C PROVE T \in C
  <2> DEFINE g == [s \in SUBSET T |-> IF s = {} THEN 0
                                      ELSE f[Any(s)] + Sum(f, s \ {Any(s)})]
  <2>1. ASSUME NEW s \in SUBSET T, s # T PROVE g[s] = Sum(f, s)
    <3>1. PICK h : IsSum(h, f, s)
        BY <1>1, <2>1
    <3>2. IsFiniteSet(s)
        BY FS_Subset
    <3>3. \A U \in SUBSET s : h[U] = Sum(f, U)
        BY <3>1, <3>2, Within
    <3>4. h[s] = IF s = {} THEN 0 ELSE f[Any(s)] + h[s \ {Any(s)}]
        BY <3>1 DEF IsSum
    <3>5. h[s] = Sum(f, s) /\ h[s \ {Any(s)}] = Sum(f, s \ {Any(s)})
        BY <3>3
    <3> QED BY <3>4, <3>5
  <2>2. ASSUME NEW s \in SUBSET T, s # {} PROVE g[s \ {Any(s)}] = Sum(f, s \ {Any(s)})
    <3>1. s \ {Any(s)} \in SUBSET T /\ s \ {Any(s)} # T
        BY <2>2, AnyIn
    <3> HIDE DEF g
    <3> QED BY <2>1, <3>1
  <2>3. g = [s \in SUBSET T |-> IF s = {} THEN 0 ELSE f[Any(s)] + g[s \ {Any(s)}]]
      BY <2>2
  <2>4. IsSum(g, f, T)
      BY <2>3 DEF IsSum
  <2> QED BY <2>4
<1>2. S \in C
  <2> HIDE DEF C
  <2> QED BY <1>1, StrongInduction
<1> QED BY <1>2

(* The recursion, of the fold itself. *)
LEMMA SumUnfolds ==
    ASSUME NEW f, NEW S, IsFiniteSet(S)
    PROVE  Sum(f, S) = IF S = {} THEN 0 ELSE f[Any(S)] + Sum(f, S \ {Any(S)})
<1>1. PICK g : IsSum(g, f, S)
    BY Exists
<1>2. g[S] = IF S = {} THEN 0 ELSE f[Any(S)] + g[S \ {Any(S)}]
    BY <1>1 DEF IsSum
<1>3. g[S] = Sum(f, S) /\ g[S \ {Any(S)}] = Sum(f, S \ {Any(S)})
    BY <1>1, Within
<1> QED BY <1>2, <1>3
-----------------------------------------------------------------------------
(* What the other proofs cite.  Every fact is about SumFunctionOnSet.  *)

(* Nothing adds up to nothing. *)
LEMMA SumEmpty == ASSUME NEW f PROVE SumFunctionOnSet(f, {}) = 0
BY FS_EmptySet, SumUnfolds, FoldIsSum

(* The arbitrary term that the fold takes out first. *)
LEMMA SumAny ==
    ASSUME NEW f, NEW S, IsFiniteSet(S), S # {}
    PROVE  SumFunctionOnSet(f, S) = f[Any(S)] + SumFunctionOnSet(f, S \ {Any(S)})
BY SumUnfolds, FoldIsSum

(* A sum of integers is one. *)
LEMMA SumInt ==
    ASSUME NEW S, IsFiniteSet(S), NEW f, \A x \in S : f[x] \in Int
    PROVE  SumFunctionOnSet(f, S) \in Int
<1> DEFINE C == {T \in SUBSET S : SumFunctionOnSet(f, T) \in Int}
<1>1. {} \in C
    BY SumEmpty
<1>2. ASSUME NEW T \in SUBSET S, T # {}, \A x \in T : T \ {x} \in C PROVE T \in C
  <2>1. Any(T) \in T /\ T \ {Any(T)} \in C
      BY <1>2, AnyIn
  <2>2. IsFiniteSet(T)
      BY FS_Subset
  <2> QED BY <1>2, <2>1, <2>2, SumAny
<1>3. S \in C
  <2> HIDE DEF C
  <2> QED BY <1>1, <1>2, Induction
<1> QED BY <1>3

(* Any term may be taken out first. *)
LEMMA SumRemove ==
    ASSUME NEW S, IsFiniteSet(S), NEW f, \A x \in S : f[x] \in Int, NEW y \in S
    PROVE  SumFunctionOnSet(f, S) = f[y] + SumFunctionOnSet(f, S \ {y})
<1> DEFINE C == {T \in SUBSET S : \A x \in T :
                     SumFunctionOnSet(f, T) = f[x] + SumFunctionOnSet(f, T \ {x})}
<1>1. {} \in C
    OBVIOUS
<1>2. ASSUME NEW T \in SUBSET S, T # {}, \A x \in T : T \ {x} \in C PROVE T \in C
  <2> SUFFICES ASSUME NEW x \in T
               PROVE  SumFunctionOnSet(f, T) = f[x] + SumFunctionOnSet(f, T \ {x})
      OBVIOUS
  <2>1. PICK a \in T : a = Any(T)
      BY <1>2, AnyIn
  <2>2. IsFiniteSet(T) /\ IsFiniteSet(T \ {x}) 
      BY FS_Subset, FS_RemoveElement
  <2>3. SumFunctionOnSet(f, T) = f[a] + SumFunctionOnSet(f, T \ {a})
      BY <1>2, <2>1, <2>2, SumAny
  <2>4. CASE x = a
      BY <2>3, <2>4
  <2>5. CASE x # a
    <3>1. SumFunctionOnSet(f, T \ {a}) = f[x] + SumFunctionOnSet(f, (T \ {a}) \ {x})
        BY <1>2, <2>5
    <3>2. SumFunctionOnSet(f, T \ {x}) = f[a] + SumFunctionOnSet(f, (T \ {x}) \ {a})
        BY <1>2, <2>5
    <3>3. PICK U \in SUBSET T : U = (T \ {a}) \ {x} /\ U = (T \ {x}) \ {a}
        OBVIOUS
    <3>4. f[a] \in Int /\ f[x] \in Int
        OBVIOUS
    <3>5. IsFiniteSet(U) /\ \A z \in U : f[z] \in Int
        BY <2>2, <3>3, FS_Subset
    <3>6. SumFunctionOnSet(f, U) \in Int
        BY <3>5, SumInt
    <3>7. /\ SumFunctionOnSet(f, T \ {a}) = f[x] + SumFunctionOnSet(f, U)
          /\ SumFunctionOnSet(f, T \ {x}) = f[a] + SumFunctionOnSet(f, U)
        BY <3>1, <3>2, <3>3
    <3> QED BY <2>3, <3>4, <3>6, <3>7
  <2> QED BY <2>4, <2>5
<1>3. S \in C
  <2> HIDE DEF C
  <2> QED BY <1>1, <1>2, Induction
<1> QED BY <1>3

(* A term is added. *)
LEMMA SumAdd ==
    ASSUME NEW S, IsFiniteSet(S), NEW f, NEW y, y \notin S,
           \A x \in S \cup {y} : f[x] \in Int
    PROVE  SumFunctionOnSet(f, S \cup {y}) = f[y] + SumFunctionOnSet(f, S)
<1>1. (S \cup {y}) \ {y} = S /\ IsFiniteSet(S \cup {y})
    BY FS_AddElement
<1>2. SumFunctionOnSet(f, S \cup {y}) = f[y] + SumFunctionOnSet(f, (S \cup {y}) \ {y})
    BY <1>1, SumRemove
<1> QED BY <1>1, <1>2

(* A sum of one term is the term. *)
LEMMA SumOne ==
    ASSUME NEW f, NEW y, f[y] \in Int PROVE SumFunctionOnSet(f, {y}) = f[y]
<1>1. SumFunctionOnSet(f, {y}) = f[y] + SumFunctionOnSet(f, {y} \ {y})
    BY FS_Singleton, SumRemove
<1>2. {y} \ {y} = {}
    OBVIOUS
<1> QED BY <1>1, <1>2, SumEmpty

(* A sum of terms that are not negative is not. *)
LEMMA SumNat ==
    ASSUME NEW S, IsFiniteSet(S), NEW f, \A x \in S : f[x] \in Nat
    PROVE  SumFunctionOnSet(f, S) \in Nat
<1> DEFINE C == {T \in SUBSET S : SumFunctionOnSet(f, T) \in Nat}
<1>1. {} \in C
    BY SumEmpty
<1>2. ASSUME NEW T \in SUBSET S, T # {}, \A x \in T : T \ {x} \in C PROVE T \in C
  <2>1. Any(T) \in T /\ T \ {Any(T)} \in C
      BY <1>2, AnyIn
  <2>2. IsFiniteSet(T)
      BY FS_Subset
  <2> QED BY <1>2, <2>1, <2>2, SumAny
<1>3. S \in C
  <2> HIDE DEF C
  <2> QED BY <1>1, <1>2, Induction
<1> QED BY <1>3

(* No term is more than a sum of terms that are not negative. *)
LEMMA SumAtLeast ==
    ASSUME NEW S, IsFiniteSet(S), NEW f, \A x \in S : f[x] \in Nat, NEW y \in S
    PROVE  SumFunctionOnSet(f, S) >= f[y]
<1>1. SumFunctionOnSet(f, S) = f[y] + SumFunctionOnSet(f, S \ {y})
    BY SumRemove
<1>2. SumFunctionOnSet(f, S \ {y}) \in Nat
    BY FS_RemoveElement, SumNat
<1> QED BY <1>1, <1>2

(* Equal terms, equal sums. *)
LEMMA SumEqual ==
    ASSUME NEW S, IsFiniteSet(S), NEW f, NEW g, \A x \in S : f[x] = g[x]
    PROVE  SumFunctionOnSet(f, S) = SumFunctionOnSet(g, S)
<1> DEFINE C == {T \in SUBSET S : SumFunctionOnSet(f, T) = SumFunctionOnSet(g, T)}
<1>1. {} \in C
    BY SumEmpty
<1>2. ASSUME NEW T \in SUBSET S, T # {}, \A x \in T : T \ {x} \in C PROVE T \in C
  <2>1. Any(T) \in T /\ T \ {Any(T)} \in C
      BY <1>2, AnyIn
  <2>2. IsFiniteSet(T)
      BY FS_Subset
  <2> QED BY <1>2, <2>1, <2>2, SumAny
<1>3. S \in C
  <2> HIDE DEF C
  <2> QED BY <1>1, <1>2, Induction
<1> QED BY <1>3

(* Term by term, sums add up. *)
LEMMA SumPlus ==
    ASSUME NEW S, IsFiniteSet(S), NEW f, NEW g, NEW h,
           \A x \in S : f[x] \in Int /\ g[x] \in Int /\ h[x] = f[x] + g[x]
    PROVE  SumFunctionOnSet(h, S) = SumFunctionOnSet(f, S) + SumFunctionOnSet(g, S)
<1> DEFINE C == {T \in SUBSET S : SumFunctionOnSet(h, T) =
                                  SumFunctionOnSet(f, T) + SumFunctionOnSet(g, T)}
<1>1. {} \in C
    BY SumEmpty
<1>2. ASSUME NEW T \in SUBSET S, T # {}, \A x \in T : T \ {x} \in C PROVE T \in C
  <2>1. Any(T) \in T /\ T \ {Any(T)} \in C
      BY <1>2, AnyIn
  <2>2. IsFiniteSet(T) /\ IsFiniteSet(T \ {Any(T)})
      BY FS_Subset, FS_RemoveElement
  <2>3. /\ SumFunctionOnSet(f, T \ {Any(T)}) \in Int
        /\ SumFunctionOnSet(g, T \ {Any(T)}) \in Int
      BY <2>2, SumInt
  <2>4. /\ SumFunctionOnSet(f, T) = f[Any(T)] + SumFunctionOnSet(f, T \ {Any(T)})
        /\ SumFunctionOnSet(g, T) = g[Any(T)] + SumFunctionOnSet(g, T \ {Any(T)})
        /\ SumFunctionOnSet(h, T) = h[Any(T)] + SumFunctionOnSet(h, T \ {Any(T)})
      BY <1>2, <2>2, SumAny
  <2> QED BY <2>1, <2>3, <2>4
<1>3. S \in C
  <2> HIDE DEF C
  <2> QED BY <1>1, <1>2, Induction
<1> QED BY <1>3

(* Term by term, sums are ordered as the terms are. *)
LEMMA SumAtMost ==
    ASSUME NEW S, IsFiniteSet(S), NEW f, NEW g,
           \A x \in S : f[x] \in Int /\ g[x] \in Int /\ f[x] <= g[x]
    PROVE  SumFunctionOnSet(f, S) <= SumFunctionOnSet(g, S)
<1> DEFINE C == {T \in SUBSET S : SumFunctionOnSet(f, T) <= SumFunctionOnSet(g, T)}
<1>1. {} \in C
    BY SumEmpty
<1>2. ASSUME NEW T \in SUBSET S, T # {}, \A x \in T : T \ {x} \in C PROVE T \in C
  <2>1. Any(T) \in T /\ T \ {Any(T)} \in C
      BY <1>2, AnyIn
  <2>2. IsFiniteSet(T) /\ IsFiniteSet(T \ {Any(T)})
      BY FS_Subset, FS_RemoveElement
  <2>3. /\ SumFunctionOnSet(f, T \ {Any(T)}) \in Int
        /\ SumFunctionOnSet(g, T \ {Any(T)}) \in Int
      BY <2>2, SumInt
  <2>4. /\ SumFunctionOnSet(f, T) = f[Any(T)] + SumFunctionOnSet(f, T \ {Any(T)})
        /\ SumFunctionOnSet(g, T) = g[Any(T)] + SumFunctionOnSet(g, T \ {Any(T)})
      BY <1>2, <2>2, SumAny
  <2> QED BY <2>1, <2>3, <2>4
<1>3. S \in C
  <2> HIDE DEF C
  <2> QED BY <1>1, <1>2, Induction
<1> QED BY <1>3

(* The sum over a part and over the rest. *)
LEMMA SumSplit ==
    ASSUME NEW S, IsFiniteSet(S), NEW f, \A x \in S : f[x] \in Int, NEW T \in SUBSET S
    PROVE  SumFunctionOnSet(f, S) = SumFunctionOnSet(f, T) + SumFunctionOnSet(f, S \ T)
<1> DEFINE C == {U \in SUBSET T : SumFunctionOnSet(f, (S \ T) \cup U) =
                                  SumFunctionOnSet(f, U) + SumFunctionOnSet(f, S \ T)}
<1>0. IsFiniteSet(T) /\ IsFiniteSet(S \ T) /\ SumFunctionOnSet(f, S \ T) \in Int
    BY FS_Subset, SumInt
<1>1. {} \in C
    BY <1>0, SumEmpty
<1>2. ASSUME NEW U \in SUBSET T, U # {}, \A x \in U : U \ {x} \in C PROVE U \in C
  <2>1. PICK x \in U : TRUE
      BY <1>2
  <2> DEFINE V == (S \ T) \cup U
  <2>2. IsFiniteSet(U) /\ IsFiniteSet(V) /\ IsFiniteSet(U \ {x})
      BY <1>0, FS_Subset, FS_Union, FS_RemoveElement
  <2>3. V \ {x} = (S \ T) \cup (U \ {x})
      BY <2>1
  <2>4. SumFunctionOnSet(f, U) = f[x] + SumFunctionOnSet(f, U \ {x})
      BY <2>1, <2>2, SumRemove
  <2>5. SumFunctionOnSet(f, V) = f[x] + SumFunctionOnSet(f, V \ {x})
    <3>1. x \in V /\ \A z \in V : f[z] \in Int
        BY <2>1
    <3> HIDE DEF V
    <3> QED BY <2>2, <3>1, SumRemove
  <2>6. SumFunctionOnSet(f, V \ {x}) =
            SumFunctionOnSet(f, U \ {x}) + SumFunctionOnSet(f, S \ T)
      BY <1>2, <2>1, <2>3
  <2>7. SumFunctionOnSet(f, U \ {x}) \in Int /\ f[x] \in Int
      BY <2>1, <2>2, SumInt
  <2>8. SumFunctionOnSet(f, V) = SumFunctionOnSet(f, U) + SumFunctionOnSet(f, S \ T)
    <3> HIDE DEF V
    <3> QED BY <1>0, <2>4, <2>5, <2>6, <2>7
  <2> QED BY <2>8
<1>3. T \in C
  <2> HIDE DEF C
  <2> QED BY <1>0, <1>1, <1>2, Induction
<1>4. (S \ T) \cup T = S
    OBVIOUS
<1> QED BY <1>3, <1>4
-----------------------------------------------------------------------------
(* The same of SumFunction(f), the sum of all that f is worth. *)

(* A sum of integers is one. *)
LEMMA TotalInt ==
    ASSUME NEW S, IsFiniteSet(S), NEW f \in [S -> Int] PROVE SumFunction(f) \in Int
BY SumInt DEF SumFunction

(* Nothing adds up to nothing. *)
LEMMA TotalEmpty == ASSUME NEW f, DOMAIN f = {} PROVE SumFunction(f) = 0
BY SumEmpty DEF SumFunction

(* Term by term, sums add up. *)
LEMMA TotalPlus ==
    ASSUME NEW S, IsFiniteSet(S),
           NEW f \in [S -> Int], NEW g \in [S -> Int], NEW h \in [S -> Int],
           \A x \in S : h[x] = f[x] + g[x]
    PROVE  SumFunction(h) = SumFunction(f) + SumFunction(g)
BY SumPlus DEF SumFunction

(* Nothing is lost with the terms that are nothing. *)
LEMMA TotalPart ==
    ASSUME NEW S, IsFiniteSet(S), NEW f \in [S -> Int],
           NEW T \in SUBSET S, NEW g \in [T -> Int],
           \A x \in T : g[x] = f[x], \A x \in S \ T : f[x] = 0
    PROVE  SumFunction(f) = SumFunction(g)
<1> DEFINE zero == [x \in S |-> 0]
<1>1. IsFiniteSet(T) /\ IsFiniteSet(S \ T)
    BY FS_Subset
<1>2. SumFunctionOnSet(f, S) = SumFunctionOnSet(f, T) + SumFunctionOnSet(f, S \ T)
    BY SumSplit
<1>3. SumFunctionOnSet(f, T) = SumFunctionOnSet(g, T)
    BY <1>1, SumEqual
<1>4. SumFunctionOnSet(f, S \ T) = 0
  <2>1. SumFunctionOnSet(f, S \ T) = SumFunctionOnSet(zero, S \ T)
      BY <1>1, SumEqual
  <2>2. SumFunctionOnSet(zero, S \ T) = SumFunctionOnSet(zero, S \ T)
                                        + SumFunctionOnSet(zero, S \ T)
      BY <1>1, SumPlus
  <2>3. SumFunctionOnSet(zero, S \ T) \in Int
      BY <1>1, SumInt
  <2>4. \A n \in Int : n = n + n => n = 0
      OBVIOUS
  <2> HIDE DEF zero
  <2> QED BY <2>1, <2>2, <2>3, <2>4
<1>5. SumFunctionOnSet(f, T) \in Int
    BY <1>1, SumInt
<1> QED BY <1>2, <1>3, <1>4, <1>5 DEF SumFunction

(* A sum with one term replaced. *)
LEMMA TotalExcept ==
    ASSUME NEW S, IsFiniteSet(S), NEW f \in [S -> Int], NEW y \in S, NEW v \in Int
    PROVE  SumFunction([f EXCEPT ![y] = v]) = SumFunction(f) - f[y] + v
<1> DEFINE g == [f EXCEPT ![y] = v]
<1>1. g \in [S -> Int] /\ g[y] = v /\ \A x \in S \ {y} : g[x] = f[x]
    OBVIOUS
<1> HIDE DEF g
<1>2. IsFiniteSet(S \ {y})
    BY FS_RemoveElement
<1>3. SumFunctionOnSet(g, S) = g[y] + SumFunctionOnSet(g, S \ {y})
    BY <1>1, SumRemove
<1>4. SumFunctionOnSet(f, S) = f[y] + SumFunctionOnSet(f, S \ {y})
    BY SumRemove
<1>5. SumFunctionOnSet(g, S \ {y}) = SumFunctionOnSet(f, S \ {y})
    BY <1>1, <1>2, SumEqual
<1>6. SumFunctionOnSet(f, S \ {y}) \in Int
    BY <1>2, SumInt
<1>7. SumFunction(g) = SumFunction(f) - f[y] + v
    BY <1>1, <1>3, <1>4, <1>5, <1>6 DEF SumFunction
<1> QED BY <1>7 DEF g

(* A sum of equal terms is a product. *)
LEMMA SumUniform ==
    ASSUME NEW S, IsFiniteSet(S), NEW d \in Int, NEW f, \A x \in S : f[x] = d
    PROVE  SumFunctionOnSet(f, S) = Cardinality(S) * d
<1> DEFINE C == {T \in SUBSET S : SumFunctionOnSet(f, T) = Cardinality(T) * d}
<1>1. {} \in C
    BY SumEmpty, FS_EmptySet
<1>2. ASSUME NEW T \in SUBSET S, T # {}, \A x \in T : T \ {x} \in C PROVE T \in C
  <2>1. PICK x : x \in T
      BY <1>2
  <2>2. IsFiniteSet(T) /\ \A y \in T : f[y] \in Int
      BY FS_Subset
  <2>3. SumFunctionOnSet(f, T) = f[x] + SumFunctionOnSet(f, T \ {x})
      BY <2>1, <2>2, SumRemove
  <2>4. PICK n \in Nat : n = Cardinality(T \ {x}) /\ Cardinality(T) = n + 1
    <3>1. Cardinality(T) \in Nat /\ Cardinality(T \ {x}) \in Nat
        BY <2>1, <2>2, FS_RemoveElement, FS_CardinalityType
    <3>2. Cardinality(T \ {x}) = Cardinality(T) - 1
        BY <2>1, <2>2, FS_RemoveElement
    <3> QED BY <3>1, <3>2
  <2>5. SumFunctionOnSet(f, T) = d + n * d
      BY <1>2, <2>1, <2>3, <2>4
  <2>6. d + n * d = (n + 1) * d
      BY <2>4
  <2> QED BY <2>4, <2>5, <2>6
<1>3. S \in C
  <2> HIDE DEF C
  <2> QED BY <1>1, <1>2, Induction
<1> QED BY <1>3

(* The sum of a sequence that grows by a term. *)
LEMMA TotalNext ==
    ASSUME NEW k \in Nat, NEW f \in [1..k -> Int], NEW g \in [1..(k + 1) -> Int],
           \A s \in 1..k : g[s] = f[s]
    PROVE  SumFunction(g) = SumFunction(f) + g[k + 1]
<1>1. IsFiniteSet(1..k)
    BY FS_Interval
<1>2. k + 1 \notin 1..k /\ k + 1 \in 1..(k + 1)
    OBVIOUS
<1>3. 1..(k + 1) = (1..k) \cup {k + 1}
    OBVIOUS
<1>4. SumFunctionOnSet(g, (1..k) \cup {k + 1}) = g[k + 1] + SumFunctionOnSet(g, 1..k)
    BY <1>1, <1>2, SumAdd
<1>5. SumFunctionOnSet(g, 1..k) = SumFunctionOnSet(f, 1..k)
    BY <1>1, SumEqual
<1>6. SumFunction(f) = SumFunctionOnSet(f, 1..k) /\ SumFunction(f) \in Int
    BY <1>1, TotalInt DEF SumFunction
<1>7. SumFunction(g) = SumFunctionOnSet(g, 1..(k + 1))
    BY DEF SumFunction
<1>8. g[k + 1] \in Int
    BY <1>2
<1>9. SumFunction(g) = g[k + 1] + SumFunction(f)
    BY <1>3, <1>4, <1>5, <1>6, <1>7
<1> QED BY <1>6, <1>8, <1>9
=============================================================================

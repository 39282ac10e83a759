---------------------------- MODULE FoldTheorems ----------------------------
(***************************************************************************)
(* Facts about folds: the sum of the values of a function (SumFunction of  *)
(* the community modules), which the totals of the engine and of the order *)
(* book are written with, and the left fold of a sequence (FoldLeft),      *)
(* which the order book's loops over the legs are.  Those about sums are   *)
(* about one element that is added to the domain, taken from it or         *)
(* changed, as one operation of the book does.  Two more sections are      *)
(* about recursive functions over an interval and about sets of integers   *)
(* listed in order.                                                        *)
(*                                                                         *)
(* The induction theorems of the library take an operator as a parameter,  *)
(* and the provers at hand instantiate none.  Here induction is over a     *)
(* set: what holds of zero and of the successor of every number it holds   *)
(* of makes a set equal to Nat.  It follows from the least element of its  *)
(* complement (WFMin), which takes sets alone.                             *)
(***************************************************************************)
EXTENDS Integers, Functions, FiniteSetsExt, SortedSets, FiniteSetTheorems, SequenceTheorems,
        TLAPS

\* Induction over the natural numbers: T is the set of those the claim holds of.
LEMMA NatInd ==
  ASSUME NEW T \in SUBSET Nat, 0 \in T, \A n \in T : n + 1 \in T
  PROVE  T = Nat
<1>1. SUFFICES ASSUME Nat \ T # {} PROVE FALSE
  OBVIOUS
<1>2. PICK m \in Nat \ T : \A n \in Nat \ T : ~ (<< n, m >> \in OpToRel(<, Nat))
  BY <1>1, NatLessThanWellFounded, WFMin, Zenon
<1>3. m # 0 /\ m - 1 \in Nat
  OBVIOUS
<1>4. << m - 1, m >> \in OpToRel(<, Nat)
  BY <1>3 DEF OpToRel
<1>5. m - 1 \in T
  BY <1>2, <1>3, <1>4, Zenon
<1>6. QED
  BY <1>3, <1>5

-----------------------------------------------------------------------------
\* What the recursive function inside the sum computes.

\* The element a sum takes first.
Chosen(s) == CHOOSE x \in s : TRUE

\* The equation that defines the sum over the subsets of S.
IsSum(iter, f, S) ==
  iter = [s \in SUBSET S |-> IF s = {} THEN 0 ELSE f[Chosen(s)] + iter[s \ {Chosen(s)}]]

LEMMA ChosenIn ==
  ASSUME NEW S, S # {} PROVE Chosen(S) \in S
BY DEF Chosen

\* The definition of the sum, in those words.
LEMMA SumExpanded ==
  ASSUME NEW f, NEW S
  PROVE  SumFunctionOnSet(f, S) = (CHOOSE iter : IsSum(iter, f, S))[S]
BY Zenon DEF SumFunctionOnSet, FoldFunctionOnSet, MapThenFoldSet, IsSum, Chosen

\* Some function satisfies the equation: one that does for the subsets of up to n
\* elements extends to those of n + 1.
LEMMA SumExists ==
  ASSUME NEW S, IsFiniteSet(S), NEW f
  PROVE  \E iter : IsSum(iter, f, S)
<1> DEFINE Rhs(g, s) == IF s = {} THEN 0 ELSE f[Chosen(s)] + g[s \ {Chosen(s)}]
           T == {n \in Nat : \E g : \A s \in SUBSET S :
                                 Cardinality(s) <= n => g[s] = Rhs(g, s)}
<1>0. \A s \in SUBSET S : /\ IsFiniteSet(s) /\ Cardinality(s) \in Nat
                          /\ s # {} => /\ Chosen(s) \in s
                                       /\ s \ {Chosen(s)} \in SUBSET S
                                       /\ Cardinality(s \ {Chosen(s)}) = Cardinality(s) - 1
  BY FS_Subset, FS_CardinalityType, FS_RemoveElement, ChosenIn
<1>1. 0 \in T
  <2>1. \A s \in SUBSET S : Cardinality(s) <= 0 => s = {}
    <3>1. \A s \in SUBSET S : Cardinality(s) = 0 => s = {}
      BY <1>0, FS_EmptySet, Zenon
    <3>2. \A s \in SUBSET S : Cardinality(s) \in Nat
      BY <1>0
    <3>3. QED
      BY <3>1, <3>2
  <2> DEFINE z == [s \in SUBSET S |-> 0]
  <2>2. \A s \in SUBSET S : Cardinality(s) <= 0 => z[s] = Rhs(z, s)
    BY <2>1
  <2> HIDE DEF z, Rhs
  <2>3. \E g : \A s \in SUBSET S : Cardinality(s) <= 0 => g[s] = Rhs(g, s)
    BY <2>2, Zenon
  <2>4. QED
    BY <2>3
<1>2. ASSUME NEW n \in T PROVE n + 1 \in T
  <2>1. PICK g : \A s \in SUBSET S : Cardinality(s) <= n => g[s] = Rhs(g, s)
    OBVIOUS
  <2> DEFINE h == [s \in SUBSET S |-> IF Cardinality(s) <= n THEN g[s] ELSE Rhs(g, s)]
  <2>2. ASSUME NEW s \in SUBSET S, Cardinality(s) <= n + 1 PROVE h[s] = Rhs(h, s)
    <3>1. h[s] = Rhs(g, s)
      BY <2>1
    <3>2. s # {} => h[s \ {Chosen(s)}] = g[s \ {Chosen(s)}]
      BY <1>0, <2>2
    <3>3. QED
      BY <3>1, <3>2
  <2> HIDE DEF h, Rhs
  <2>3. \E w : \A s \in SUBSET S : Cardinality(s) <= n + 1 => w[s] = Rhs(w, s)
    BY <2>2, Zenon
  <2>4. QED
    BY <2>3
<1>3. T = Nat
  <2> HIDE DEF T
  <2>1. T \in SUBSET Nat
    BY DEF T
  <2>2. QED
    BY <1>1, <1>2, <2>1, NatInd
<1>4. Cardinality(S) \in Nat
  BY <1>0
<1>5. PICK g : \A s \in SUBSET S : Cardinality(s) <= Cardinality(S) => g[s] = Rhs(g, s)
  BY <1>3, <1>4
<1>6. \A s \in SUBSET S : Cardinality(s) <= Cardinality(S)
  BY FS_Subset
<1> DEFINE it == [s \in SUBSET S |-> g[s]]
<1>7. \A s \in SUBSET S : it[s] = Rhs(it, s)
  BY <1>0, <1>5, <1>6
<1>8. it = [s \in SUBSET S |-> Rhs(it, s)]
  BY <1>7
<1>9. QED
  BY <1>8 DEF IsSum

LEMMA NoneCounted == Cardinality({}) = 0
BY FS_EmptySet

\* Induction over the subsets of a finite set.
LEMMA FiniteSetInd ==
  ASSUME NEW S, IsFiniteSet(S), NEW Q, {} \in Q,
         \A T \in SUBSET S : T \in Q => \A x \in S \ T : T \cup {x} \in Q
  PROVE  S \in Q
<1> DEFINE N == {n \in Nat : \A T \in SUBSET S : Cardinality(T) = n => T \in Q}
<1>1. \A T \in SUBSET S : IsFiniteSet(T) /\ Cardinality(T) \in Nat
  BY FS_Subset, FS_CardinalityType
<1>2. 0 \in N
  <2>1. \A T \in SUBSET S : Cardinality(T) = 0 => T = {}
    BY <1>1, FS_EmptySet, Zenon
  <2>2. QED
    BY <2>1
<1>3. ASSUME NEW n \in N PROVE n + 1 \in N
  <2>1. SUFFICES ASSUME NEW T \in SUBSET S, Cardinality(T) = n + 1 PROVE T \in Q
    OBVIOUS
  <2>2. T # {}
    BY <2>1, NoneCounted
  <2>3. PICK x \in T : TRUE
    BY <2>2
  <2>4. Cardinality(T \ {x}) = n
    BY <1>1, <2>1, <2>3, FS_RemoveElement
  <2>5. T \ {x} \in Q
    BY <2>4
  <2>6. (T \ {x}) \cup {x} \in Q
    <3>1. x \in S \ (T \ {x}) /\ T \ {x} \in SUBSET S
      BY <2>3
    <3>2. QED
      BY <2>5, <3>1
  <2>7. (T \ {x}) \cup {x} = T
    BY <2>3
  <2>8. QED
    BY <2>6, <2>7
<1>4. N = Nat
  <2> HIDE DEF N
  <2>1. N \in SUBSET Nat
    BY DEF N
  <2>2. QED
    BY <1>2, <1>3, <2>1, NatInd
<1>5. QED
  BY <1>1, <1>4

\* Whichever function satisfies the equation over a set that contains S is the sum on S.
LEMMA SumUnique ==
  ASSUME NEW S, IsFiniteSet(S), NEW f, NEW g, NEW h, NEW R, S \subseteq R,
         IsSum(g, f, S), IsSum(h, f, R)
  PROVE  h[S] = g[S]
<1> DEFINE N == {n \in Nat : \A T \in SUBSET S : Cardinality(T) = n => h[T] = g[T]}
<1>1. \A T \in SUBSET S : /\ IsFiniteSet(T) /\ Cardinality(T) \in Nat
                          /\ T # {} => /\ Chosen(T) \in T
                                       /\ T \ {Chosen(T)} \in SUBSET S
                                       /\ Cardinality(T \ {Chosen(T)}) = Cardinality(T) - 1
  BY FS_Subset, FS_CardinalityType, FS_RemoveElement, ChosenIn
<1>2. \A T \in SUBSET S :
        /\ g[T] = IF T = {} THEN 0 ELSE f[Chosen(T)] + g[T \ {Chosen(T)}]
        /\ h[T] = IF T = {} THEN 0 ELSE f[Chosen(T)] + h[T \ {Chosen(T)}]
  <2>1. SUBSET S \subseteq SUBSET R
    OBVIOUS
  <2>2. \A T \in SUBSET S :
          g[T] = [s \in SUBSET S |-> IF s = {} THEN 0 ELSE f[Chosen(s)] + g[s \ {Chosen(s)}]][T]
    BY DEF IsSum
  <2>3. \A T \in SUBSET S :
          h[T] = [s \in SUBSET R |-> IF s = {} THEN 0 ELSE f[Chosen(s)] + h[s \ {Chosen(s)}]][T]
    BY DEF IsSum
  <2>4. QED
    BY <2>1, <2>2, <2>3
<1>3. 0 \in N
  <2>1. \A T \in SUBSET S : Cardinality(T) = 0 => T = {}
    BY <1>1, FS_EmptySet, Zenon
  <2>2. QED
    BY <1>2, <2>1
<1>4. ASSUME NEW n \in N PROVE n + 1 \in N
  <2>1. SUFFICES ASSUME NEW T \in SUBSET S, Cardinality(T) = n + 1 PROVE h[T] = g[T]
    OBVIOUS
  <2>2. T # {}
    BY <2>1, NoneCounted
  <2>3. h[T \ {Chosen(T)}] = g[T \ {Chosen(T)}]
    BY <1>1, <2>1, <2>2
  <2>4. QED
    BY <1>2, <2>2, <2>3
<1>5. N = Nat
  <2> HIDE DEF N
  <2>1. N \in SUBSET Nat
    BY DEF N
  <2>2. QED
    BY <1>3, <1>4, <2>1, NatInd
<1>6. QED
  BY <1>1, <1>5

\* One function gives the sums over all the subsets of a set.
LEMMA SumIs ==
  ASSUME NEW S, IsFiniteSet(S), NEW f
  PROVE  \E g : /\ IsSum(g, f, S)
               /\ \A T \in SUBSET S : SumFunctionOnSet(f, T) = g[T]
<1> DEFINE sum(T) == CHOOSE iter : IsSum(iter, f, T)
<1>1. \A T \in SUBSET S : IsFiniteSet(T)
  BY FS_Subset
<1>2. \A T \in SUBSET S : IsSum(sum(T), f, T)
  <2>1. SUFFICES ASSUME NEW T \in SUBSET S PROVE IsSum(sum(T), f, T)
    OBVIOUS
  <2>2. \E iter : IsSum(iter, f, T)
    BY <1>1, SumExists, Zenon
  <2>3. QED
    BY <2>2, Zenon
<1>3. \A T \in SUBSET S : sum(S)[T] = sum(T)[T]
  <2>1. SUFFICES ASSUME NEW T \in SUBSET S PROVE sum(S)[T] = sum(T)[T]
    OBVIOUS
  <2>2. IsFiniteSet(T) /\ T \subseteq S /\ IsSum(sum(T), f, T) /\ IsSum(sum(S), f, S)
    BY <1>1, <1>2
  <2> HIDE DEF sum
  <2>3. QED
    BY <2>2, SumUnique
<1>4. \A T \in SUBSET S : SumFunctionOnSet(f, T) = sum(T)[T]
  BY SumExpanded
<1>5. IsSum(sum(S), f, S)
  BY <1>2
<1> HIDE DEF sum
<1>6. \A T \in SUBSET S : SumFunctionOnSet(f, T) = sum(S)[T]
  BY <1>3, <1>4
<1>7. QED
  BY <1>5, <1>6, Zenon

-----------------------------------------------------------------------------
\* The sum over a set, as the set and the function change.

LEMMA SumEmptySet ==
  ASSUME NEW f PROVE SumFunctionOnSet(f, {}) = 0
<1>1. PICK g : IsSum(g, f, {}) /\ \A T \in SUBSET {} : SumFunctionOnSet(f, T) = g[T]
  BY SumIs, FS_EmptySet
<1>2. g[{}] = 0
  BY <1>1 DEF IsSum
<1>3. QED
  BY <1>1, <1>2

LEMMA SumChosen ==
  ASSUME NEW S, IsFiniteSet(S), S # {}, NEW f
  PROVE  SumFunctionOnSet(f, S) = f[Chosen(S)] + SumFunctionOnSet(f, S \ {Chosen(S)})
<1>1. PICK g : IsSum(g, f, S) /\ \A T \in SUBSET S : SumFunctionOnSet(f, T) = g[T]
  BY SumIs
<1>2. g[S] = [s \in SUBSET S |-> IF s = {} THEN 0 ELSE f[Chosen(s)] + g[s \ {Chosen(s)}]][S]
  BY <1>1 DEF IsSum
<1>3. g[S] = f[Chosen(S)] + g[S \ {Chosen(S)}]
  BY <1>2
<1>4. QED
  BY <1>1, <1>3

\* The sum may take any element first, and is an integer.
LEMMA SumRemove ==
  ASSUME NEW S, IsFiniteSet(S), NEW f, \A x \in S : f[x] \in Int
  PROVE  /\ SumFunctionOnSet(f, S) \in Int
         /\ \A x \in S : SumFunctionOnSet(f, S) = f[x] + SumFunctionOnSet(f, S \ {x})
<1> DEFINE Sum(T) == SumFunctionOnSet(f, T)
           N == {n \in Nat : \A T \in SUBSET S : Cardinality(T) <= n =>
                   /\ Sum(T) \in Int
                   /\ \A x \in T : Sum(T) = f[x] + Sum(T \ {x})}
<1>1. \A T \in SUBSET S : IsFiniteSet(T) /\ Cardinality(T) \in Nat
  BY FS_Subset, FS_CardinalityType
<1>2. \A T \in SUBSET S : \A x \in T :
         T \ {x} \in SUBSET S /\ Cardinality(T \ {x}) = Cardinality(T) - 1
  BY <1>1, FS_RemoveElement
<1>3. \A T \in SUBSET S : T # {} =>
         Chosen(T) \in T /\ Sum(T) = f[Chosen(T)] + Sum(T \ {Chosen(T)})
  BY <1>1, ChosenIn, SumChosen
<1>4. Sum({}) = 0
  BY SumEmptySet
<1> HIDE DEF Sum
<1>5. 0 \in N
  <2>1. SUFFICES ASSUME NEW T \in SUBSET S, Cardinality(T) <= 0
                 PROVE  /\ Sum(T) \in Int
                        /\ \A x \in T : Sum(T) = f[x] + Sum(T \ {x})
    OBVIOUS
  <2>2. Cardinality(T) = 0
    BY <1>1, <2>1
  <2>3. T = {}
    BY <1>1, <2>2, FS_EmptySet, Zenon
  <2>4. QED
    BY <1>4, <2>3
<1>6. ASSUME NEW n \in N PROVE n + 1 \in N
  <2>1. SUFFICES ASSUME NEW T \in SUBSET S, Cardinality(T) <= n + 1, T # {}
                 PROVE  /\ Sum(T) \in Int
                        /\ \A x \in T : Sum(T) = f[x] + Sum(T \ {x})
    BY <1>4
  <2>3. PICK c \in T : Sum(T) = f[c] + Sum(T \ {c})
    BY <1>3, <2>1
  <2>4. \A x \in T : /\ T \ {x} \in SUBSET S
                    /\ Cardinality(T \ {x}) <= n
                    /\ f[x] \in Int
    BY <1>1, <1>2, <2>1
  <2>5. \A x \in T : /\ Sum(T \ {x}) \in Int
                    /\ \A y \in T \ {x} : Sum(T \ {x}) = f[y] + Sum((T \ {x}) \ {y})
    BY <2>4
  <2>6. ASSUME NEW x \in T, x # c PROVE Sum(T) = f[x] + Sum(T \ {x})
    <3>1. Sum(T \ {c}) = f[x] + Sum((T \ {c}) \ {x})
      BY <2>5, <2>6
    <3>2. Sum(T \ {x}) = f[c] + Sum((T \ {x}) \ {c})
      BY <2>5, <2>6
    <3>3. (T \ {c}) \ {x} = (T \ {x}) \ {c}
      OBVIOUS
    <3>4. PICK rest : rest = Sum((T \ {c}) \ {x})
      OBVIOUS
    <3>5. /\ Sum(T \ {c}) = f[x] + rest /\ Sum(T \ {x}) = f[c] + rest
          /\ Sum(T \ {c}) \in Int /\ Sum(T \ {x}) \in Int
      BY <2>5, <3>1, <3>2, <3>3, <3>4
    <3>6. rest \in Int
      <4>1. Cardinality((T \ {c}) \ {x}) = Cardinality(T \ {c}) - 1
        BY <1>2, <2>4, <2>6
      <4>2. (T \ {c}) \ {x} \in SUBSET S /\ Cardinality((T \ {c}) \ {x}) <= n
        BY <1>1, <2>4, <4>1
      <4>3. QED
        BY <3>4, <4>2
    <3>7. f[c] \in Int /\ f[x] \in Int
      OBVIOUS
    <3>8. QED
      BY <2>3, <3>5, <3>6, <3>7
  <2>7. Sum(T) \in Int
    BY <2>3, <2>4, <2>5
  <2>8. QED
    BY <2>3, <2>6, <2>7
<1>7. N = Nat
  <2> HIDE DEF N
  <2>1. N \in SUBSET Nat
    BY DEF N
  <2>2. QED
    BY <1>5, <1>6, <2>1, NatInd
<1>8. QED
  BY <1>1, <1>7 DEF Sum

\* The sum depends on the values on the set alone.
LEMMA SumAgrees ==
  ASSUME NEW S, IsFiniteSet(S), NEW f, NEW g,
         \A x \in S : f[x] \in Int /\ g[x] = f[x]
  PROVE  SumFunctionOnSet(g, S) = SumFunctionOnSet(f, S)
<1> DEFINE Q == {T \in SUBSET S : SumFunctionOnSet(g, T) = SumFunctionOnSet(f, T)}
<1>1. {} \in Q
  BY SumEmptySet
<1>2. ASSUME NEW T \in SUBSET S, T \in Q, NEW x \in S \ T
      PROVE  T \cup {x} \in Q
  <2>1. IsFiniteSet(T \cup {x})
    BY FS_Subset
  <2>2. /\ SumFunctionOnSet(f, T \cup {x}) = f[x] + SumFunctionOnSet(f, (T \cup {x}) \ {x})
        /\ SumFunctionOnSet(g, T \cup {x}) = g[x] + SumFunctionOnSet(g, (T \cup {x}) \ {x})
    <3>1. \A y \in T \cup {x} : f[y] \in Int /\ g[y] \in Int
      OBVIOUS
    <3>2. x \in T \cup {x}
      OBVIOUS
    <3>3. QED
      BY <2>1, <3>1, <3>2, SumRemove
  <2>3. (T \cup {x}) \ {x} = T
    OBVIOUS
  <2>4. QED
    BY <1>2, <2>2, <2>3
<1>3. S \in Q
  <2> HIDE DEF Q
  <2>1. QED
    BY <1>1, <1>2, FiniteSetInd
<1>4. QED
  BY <1>3

-----------------------------------------------------------------------------
\* The sum of the values of a function, as its domain and its values change.

\* Finitely many values, all of them whole numbers.
Whole(f) == IsFiniteSet(DOMAIN f) /\ \A x \in DOMAIN f : f[x] \in Int

\* g is f with a value at x more.
OneMore(f, g, x) ==
  /\ x \notin DOMAIN f
  /\ DOMAIN g = DOMAIN f \cup {x}
  /\ \A y \in DOMAIN f : g[y] = f[y]
  /\ g[x] \in Int

\* g is f with another value at x.
OneChanged(f, g, x) ==
  /\ x \in DOMAIN f
  /\ DOMAIN g = DOMAIN f
  /\ \A y \in DOMAIN f \ {x} : g[y] = f[y]
  /\ g[x] \in Int

\* h adds f and g up, value by value.
AddsUp(f, g, h) ==
  /\ DOMAIN g = DOMAIN f
  /\ DOMAIN h = DOMAIN f
  /\ \A x \in DOMAIN f : h[x] = f[x] + g[x]

LEMMA SumInt ==
  ASSUME NEW f, Whole(f)
  PROVE  SumFunction(f) \in Int
BY SumRemove DEF SumFunction, Whole

LEMMA SumOfNone ==
  ASSUME NEW f, DOMAIN f = {}
  PROVE  SumFunction(f) = 0
BY SumEmptySet DEF SumFunction

LEMMA SumAdd ==
  ASSUME NEW f, NEW g, NEW x, Whole(f), OneMore(f, g, x)
  PROVE  Whole(g) /\ SumFunction(g) = SumFunction(f) + g[x]
<1> DEFINE S == DOMAIN f
<1>1. /\ IsFiniteSet(S) /\ IsFiniteSet(S \cup {x})
      /\ x \in S \cup {x} /\ (S \cup {x}) \ {x} = S
  BY FS_AddElement DEF Whole, OneMore
<1>2. \A y \in S \cup {x} : g[y] \in Int
  BY DEF Whole, OneMore
<1>3. SumFunctionOnSet(g, S \cup {x}) = g[x] + SumFunctionOnSet(g, S)
  BY <1>1, <1>2, SumRemove
<1>4. SumFunctionOnSet(g, S) = SumFunctionOnSet(f, S)
  BY <1>1, SumAgrees DEF Whole, OneMore
<1>5. SumFunctionOnSet(f, S) \in Int
  BY <1>1, SumRemove DEF Whole
<1>6. QED
  BY <1>1, <1>2, <1>3, <1>4, <1>5 DEF SumFunction, Whole, OneMore

LEMMA SumUpdate ==
  ASSUME NEW f, NEW g, NEW x, Whole(f), OneChanged(f, g, x)
  PROVE  Whole(g) /\ SumFunction(g) = SumFunction(f) - f[x] + g[x]
<1> DEFINE S == DOMAIN f
<1>1. IsFiniteSet(S) /\ IsFiniteSet(S \ {x}) /\ x \in S
  BY FS_RemoveElement DEF Whole, OneChanged
<1>2. \A y \in S : f[y] \in Int /\ g[y] \in Int
  BY DEF Whole, OneChanged
<1>3. SumFunctionOnSet(g, S) = g[x] + SumFunctionOnSet(g, S \ {x})
  BY <1>1, <1>2, SumRemove
<1>4. SumFunctionOnSet(f, S) = f[x] + SumFunctionOnSet(f, S \ {x})
  BY <1>1, <1>2, SumRemove
<1>5. SumFunctionOnSet(g, S \ {x}) = SumFunctionOnSet(f, S \ {x})
  BY <1>1, <1>2, SumAgrees DEF OneChanged
<1>6. SumFunctionOnSet(f, S \ {x}) \in Int
  BY <1>1, <1>2, SumRemove
<1>7. QED
  BY <1>1, <1>2, <1>3, <1>4, <1>5, <1>6 DEF SumFunction, Whole, OneChanged

LEMMA SumPlus ==
  ASSUME NEW f, NEW g, NEW h, Whole(f), Whole(g), AddsUp(f, g, h)
  PROVE  SumFunction(h) = SumFunction(f) + SumFunction(g)
<1> DEFINE S == DOMAIN f
           Q == {T \in SUBSET S : SumFunctionOnSet(h, T) =
                                    SumFunctionOnSet(f, T) + SumFunctionOnSet(g, T)}
<1>0. /\ IsFiniteSet(S) /\ DOMAIN g = S /\ DOMAIN h = S
      /\ \A x \in S : f[x] \in Int /\ g[x] \in Int /\ h[x] = f[x] + g[x]
  BY DEF Whole, AddsUp
<1>1. {} \in Q
  BY SumEmptySet
<1>2. ASSUME NEW T \in SUBSET S, T \in Q, NEW x \in S \ T
      PROVE  T \cup {x} \in Q
  <2>1. IsFiniteSet(T) /\ IsFiniteSet(T \cup {x}) /\ x \in T \cup {x} /\ (T \cup {x}) \ {x} = T
    BY <1>0, FS_Subset
  <2>2. \A y \in T \cup {x} : f[y] \in Int /\ g[y] \in Int /\ h[y] \in Int
    BY <1>0
  <2>3. /\ SumFunctionOnSet(f, T \cup {x}) = f[x] + SumFunctionOnSet(f, T)
        /\ SumFunctionOnSet(g, T \cup {x}) = g[x] + SumFunctionOnSet(g, T)
        /\ SumFunctionOnSet(h, T \cup {x}) = h[x] + SumFunctionOnSet(h, T)
    BY <2>1, <2>2, SumRemove
  <2>4. SumFunctionOnSet(f, T) \in Int /\ SumFunctionOnSet(g, T) \in Int
    BY <2>1, <2>2, SumRemove
  <2>5. QED
    BY <1>0, <1>2, <2>3, <2>4
<1>3. S \in Q
  <2> HIDE DEF Q
  <2>1. QED
    BY <1>0, <1>1, <1>2, FiniteSetInd
<1>4. QED
  BY <1>0, <1>3 DEF SumFunction

\* The sum over two disjoint sets outside of which every value is zero.
LEMMA SumOfParts ==
  ASSUME NEW f, Whole(f), NEW A, NEW B, A \cap B = {},
         \A x \in DOMAIN f : x \notin A /\ x \notin B => f[x] = 0
  PROVE  SumFunction(f) = SumFunctionOnSet(f, DOMAIN f \cap A) + SumFunctionOnSet(f, DOMAIN f \cap B)
<1> DEFINE S == DOMAIN f
           Q == {T \in SUBSET S : SumFunctionOnSet(f, T) =
                   SumFunctionOnSet(f, T \cap A) + SumFunctionOnSet(f, T \cap B)}
<1>0. IsFiniteSet(S) /\ \A x \in S : f[x] \in Int
  BY DEF Whole
<1>1. {} \in Q
  <2>1. {} \cap A = {} /\ {} \cap B = {}
    OBVIOUS
  <2>2. QED
    BY <2>1, SumEmptySet
<1>2. ASSUME NEW T \in SUBSET S, T \in Q, NEW x \in S \ T
      PROVE  T \cup {x} \in Q
  <2>1. \A U \in SUBSET S : /\ SumFunctionOnSet(f, U) \in Int
                           /\ \A y \in U : SumFunctionOnSet(f, U) =
                                             f[y] + SumFunctionOnSet(f, U \ {y})
    <3>1. SUFFICES ASSUME NEW U \in SUBSET S
                   PROVE  /\ SumFunctionOnSet(f, U) \in Int
                          /\ \A y \in U : SumFunctionOnSet(f, U) =
                                            f[y] + SumFunctionOnSet(f, U \ {y})
      OBVIOUS
    <3>2. IsFiniteSet(U) /\ \A y \in U : f[y] \in Int
      BY <1>0, FS_Subset
    <3>3. QED
      BY <3>2, SumRemove
  <2>2. SumFunctionOnSet(f, T \cup {x}) = f[x] + SumFunctionOnSet(f, T)
    <3>1. (T \cup {x}) \ {x} = T /\ T \cup {x} \in SUBSET S /\ x \in T \cup {x}
      OBVIOUS
    <3>2. QED
      BY <2>1, <3>1
  <2>3. SumFunctionOnSet(f, (T \cup {x}) \cap A)
          = SumFunctionOnSet(f, T \cap A) + (IF x \in A THEN f[x] ELSE 0)
    <3>1. CASE x \in A
      <4>1. /\ ((T \cup {x}) \cap A) \ {x} = T \cap A
            /\ (T \cup {x}) \cap A \in SUBSET S /\ x \in (T \cup {x}) \cap A
            /\ T \cap A \in SUBSET S
        BY <3>1
      <4>2. SumFunctionOnSet(f, (T \cup {x}) \cap A) = f[x] + SumFunctionOnSet(f, T \cap A)
        BY <2>1, <4>1
      <4>3. QED
        BY <1>0, <2>1, <3>1, <4>1, <4>2
    <3>2. CASE x \notin A
      <4>1. (T \cup {x}) \cap A = T \cap A /\ T \cap A \in SUBSET S
        BY <3>2
      <4>2. PICK n \in Int : n = SumFunctionOnSet(f, T \cap A)
        BY <2>1, <4>1
      <4>3. SumFunctionOnSet(f, (T \cup {x}) \cap A) = n
        BY <4>1, <4>2, Zenon
      <4>4. QED
        BY <3>2, <4>2, <4>3
    <3>3. QED
      BY <3>1, <3>2
  <2>4. SumFunctionOnSet(f, (T \cup {x}) \cap B)
          = SumFunctionOnSet(f, T \cap B) + (IF x \in B THEN f[x] ELSE 0)
    <3>1. CASE x \in B
      <4>1. /\ ((T \cup {x}) \cap B) \ {x} = T \cap B
            /\ (T \cup {x}) \cap B \in SUBSET S /\ x \in (T \cup {x}) \cap B
            /\ T \cap B \in SUBSET S
        BY <3>1
      <4>2. SumFunctionOnSet(f, (T \cup {x}) \cap B) = f[x] + SumFunctionOnSet(f, T \cap B)
        BY <2>1, <4>1
      <4>3. QED
        BY <1>0, <2>1, <3>1, <4>1, <4>2
    <3>2. CASE x \notin B
      <4>1. (T \cup {x}) \cap B = T \cap B /\ T \cap B \in SUBSET S
        BY <3>2
      <4>2. PICK n \in Int : n = SumFunctionOnSet(f, T \cap B)
        BY <2>1, <4>1
      <4>3. SumFunctionOnSet(f, (T \cup {x}) \cap B) = n
        BY <4>1, <4>2, Zenon
      <4>4. QED
        BY <3>2, <4>2, <4>3
    <3>3. QED
      BY <3>1, <3>2
  <2>5. /\ SumFunctionOnSet(f, T \cap A) \in Int /\ SumFunctionOnSet(f, T \cap B) \in Int
        /\ f[x] \in Int
    <3>1. T \cap A \in SUBSET S /\ T \cap B \in SUBSET S
      OBVIOUS
    <3>2. QED
      BY <1>0, <2>1, <3>1
  <2>6. f[x] = (IF x \in A THEN f[x] ELSE 0) + (IF x \in B THEN f[x] ELSE 0)
    BY <2>5
  <2>7. SumFunctionOnSet(f, T) = SumFunctionOnSet(f, T \cap A) + SumFunctionOnSet(f, T \cap B)
    BY <1>2
  <2>8. QED
    BY <2>2, <2>3, <2>4, <2>5, <2>6, <2>7
<1>3. S \in Q
  <2> HIDE DEF Q
  <2>1. QED
    BY <1>0, <1>1, <1>2, FiniteSetInd
<1>4. QED
  BY <1>3 DEF SumFunction

-----------------------------------------------------------------------------
\* Folds over the subsets of a finite set, whichever element each takes last.

\* The equation of a fold over the subsets of S that takes the element pick[s] of s last.
IsFoldOver(iter, S, base, step, pick) ==
  iter = [s \in SUBSET S |-> IF s = {} THEN base ELSE step[pick[s]][iter[s \ {pick[s]}]]]

Picks(pick, S) == \A s \in SUBSET S : s # {} => pick[s] \in s

\* Induction along such a fold.
LEMMA PickInd ==
  ASSUME NEW S, IsFiniteSet(S), NEW pick, Picks(pick, S), NEW Q, {} \in Q,
         \A s \in SUBSET S : s # {} /\ s \ {pick[s]} \in Q => s \in Q
  PROVE  \A s \in SUBSET S : s \in Q
<1> DEFINE N == {n \in Nat : \A s \in SUBSET S : Cardinality(s) = n => s \in Q}
<1>1. \A s \in SUBSET S : /\ IsFiniteSet(s) /\ Cardinality(s) \in Nat
                          /\ s # {} => /\ s \ {pick[s]} \in SUBSET S
                                       /\ Cardinality(s \ {pick[s]}) = Cardinality(s) - 1
  BY FS_Subset, FS_CardinalityType, FS_RemoveElement DEF Picks
<1>2. 0 \in N
  <2>1. \A s \in SUBSET S : Cardinality(s) = 0 => s = {}
    BY <1>1, FS_EmptySet, Zenon
  <2>2. QED
    BY <2>1
<1>3. ASSUME NEW n \in N PROVE n + 1 \in N
  <2>1. SUFFICES ASSUME NEW s \in SUBSET S, Cardinality(s) = n + 1 PROVE s \in Q
    OBVIOUS
  <2>2. s # {}
    BY <2>1, NoneCounted
  <2>3. s \ {pick[s]} \in SUBSET S /\ Cardinality(s \ {pick[s]}) = Cardinality(s) - 1
    BY <1>1, <2>2, Zenon
  <2>4. s \ {pick[s]} \in Q
    <3>1. n \in Nat /\ \A u \in SUBSET S : Cardinality(u) = n => u \in Q
      OBVIOUS
    <3>2. Cardinality(s \ {pick[s]}) = n
      BY <2>1, <2>3, <3>1
    <3>3. QED
      BY <2>3, <3>1, <3>2, Zenon
  <2>5. QED
    BY <2>2, <2>4
<1>4. N = Nat
  <2> HIDE DEF N
  <2>1. N \in SUBSET Nat
    BY DEF N
  <2>2. QED
    BY <1>2, <1>3, <2>1, NatInd
<1>5. QED
  BY <1>1, <1>4

\* Some function satisfies the equation: one that does for the subsets of up to n
\* elements extends to those of n + 1.
LEMMA FoldOverExists ==
  ASSUME NEW S, IsFiniteSet(S), NEW base, NEW step, NEW pick, Picks(pick, S)
  PROVE  \E iter : IsFoldOver(iter, S, base, step, pick)
<1> DEFINE Rhs(g, s) == IF s = {} THEN base ELSE step[pick[s]][g[s \ {pick[s]}]]
           T == {n \in Nat : \E g : \A s \in SUBSET S :
                                 Cardinality(s) <= n => g[s] = Rhs(g, s)}
<1>0. \A s \in SUBSET S : /\ IsFiniteSet(s) /\ Cardinality(s) \in Nat
                          /\ s # {} => /\ s \ {pick[s]} \in SUBSET S
                                       /\ Cardinality(s \ {pick[s]}) = Cardinality(s) - 1
  BY FS_Subset, FS_CardinalityType, FS_RemoveElement DEF Picks
<1>1. 0 \in T
  <2>1. \A s \in SUBSET S : Cardinality(s) <= 0 => s = {}
    <3>1. \A s \in SUBSET S : Cardinality(s) = 0 => s = {}
      BY <1>0, FS_EmptySet, Zenon
    <3>2. \A s \in SUBSET S : Cardinality(s) \in Nat
      BY <1>0
    <3>3. QED
      BY <3>1, <3>2
  <2> DEFINE z == [s \in SUBSET S |-> base]
  <2>2. \A s \in SUBSET S : Cardinality(s) <= 0 => z[s] = Rhs(z, s)
    BY <2>1
  <2> HIDE DEF z, Rhs
  <2>3. \E g : \A s \in SUBSET S : Cardinality(s) <= 0 => g[s] = Rhs(g, s)
    BY <2>2, Zenon
  <2>4. QED
    BY <2>3
<1>2. ASSUME NEW n \in T PROVE n + 1 \in T
  <2>1. PICK g : \A s \in SUBSET S : Cardinality(s) <= n => g[s] = Rhs(g, s)
    OBVIOUS
  <2> DEFINE h == [s \in SUBSET S |-> IF Cardinality(s) <= n THEN g[s] ELSE Rhs(g, s)]
  <2>2. ASSUME NEW s \in SUBSET S, Cardinality(s) <= n + 1 PROVE h[s] = Rhs(h, s)
    <3>1. h[s] = Rhs(g, s)
      BY <2>1
    <3>2. s # {} => h[s \ {pick[s]}] = g[s \ {pick[s]}]
      BY <1>0, <2>2
    <3>3. QED
      BY <3>1, <3>2
  <2> HIDE DEF h, Rhs
  <2>3. \E w : \A s \in SUBSET S : Cardinality(s) <= n + 1 => w[s] = Rhs(w, s)
    BY <2>2, Zenon
  <2>4. QED
    BY <2>3
<1>3. T = Nat
  <2> HIDE DEF T
  <2>1. T \in SUBSET Nat
    BY DEF T
  <2>2. QED
    BY <1>1, <1>2, <2>1, NatInd
<1>4. Cardinality(S) \in Nat
  BY <1>0
<1>5. PICK g : \A s \in SUBSET S : Cardinality(s) <= Cardinality(S) => g[s] = Rhs(g, s)
  BY <1>3, <1>4
<1>6. \A s \in SUBSET S : Cardinality(s) <= Cardinality(S)
  BY FS_Subset
<1> DEFINE it == [s \in SUBSET S |-> g[s]]
<1>7. \A s \in SUBSET S : it[s] = Rhs(it, s)
  BY <1>0, <1>5, <1>6
<1>8. it = [s \in SUBSET S |-> Rhs(it, s)]
  BY <1>7
<1>9. QED
  BY <1>8 DEF IsFoldOver

-----------------------------------------------------------------------------
\* Folds of sequences: FoldLeft takes the largest index last.

\* A set of numbers with an upper bound has a largest one.
LEMMA MaxIs ==
  ASSUME NEW n \in Nat, NEW s \in SUBSET (1 .. n), s # {}
  PROVE  Max(s) \in s /\ \A x \in s : Max(s) >= x
<1> DEFINE B == {m \in Nat : \A x \in s : x <= m}
<1>1. n \in B
  OBVIOUS
<1>2. PICK m \in B : \A k \in B : ~ (<< k, m >> \in OpToRel(<, Nat))
  <2>1. B \subseteq Nat /\ B # {}
    BY <1>1
  <2> HIDE DEF B
  <2>2. QED
    BY <2>1, NatLessThanWellFounded, WFMin, Zenon
<1>3. m \in s
  <2>1. SUFFICES ASSUME m \notin s PROVE FALSE
    OBVIOUS
  <2>2. m - 1 \in B
    <3>1. m \in Nat /\ \A x \in s : x \in 1 .. n /\ x <= m /\ x # m
      BY <2>1
    <3>2. PICK y \in s : TRUE
      OBVIOUS
    <3>3. m - 1 \in Nat /\ \A x \in s : x <= m - 1
      BY <3>1, <3>2
    <3>4. QED
      BY <3>3
  <2>3. << m - 1, m >> \in OpToRel(<, Nat)
    BY <2>2 DEF OpToRel
  <2>4. QED
    BY <1>2, <2>2, <2>3, Zenon
<1>4. \E x \in s : \A y \in s : x >= y
  BY <1>3
<1>5. QED
  BY <1>4, Zenon DEF Max

LEMMA MaxOfPrefix ==
  ASSUME NEW k \in Nat \ {0}
  PROVE  Max(1 .. k) = k /\ (1 .. k) \ {k} = 1 .. (k - 1)
<1>1. Max(1 .. k) \in 1 .. k /\ \A x \in 1 .. k : Max(1 .. k) >= x
  <2>1. 1 .. k \in SUBSET (1 .. k) /\ 1 .. k # {} /\ k \in Nat
    OBVIOUS
  <2>2. QED
    BY <2>1, MaxIs
<1>2. QED
  BY <1>1

\* The equation of a fold over the sets of the first n numbers.
IsFold(iter, n, base, step) ==
  iter = [s \in SUBSET (1 .. n) |->
            IF s = {} THEN base ELSE step[Max(s)][iter[s \ {Max(s)}]]]

\* Some function satisfies it, with values in the set that the steps stay in.
LEMMA FoldExists ==
  ASSUME NEW n \in Nat, NEW A, NEW base \in A, NEW step \in [1 .. n -> [A -> A]]
  PROVE  \E iter \in [SUBSET (1 .. n) -> A] : IsFold(iter, n, base, step)
<1> DEFINE S == 1 .. n
           pick == [s \in SUBSET S |-> Max(s)]
<1>1. IsFiniteSet(S)
  BY FS_Interval
<1>2. \A s \in SUBSET S : pick[s] = Max(s) /\ (s # {} => pick[s] \in s)
  BY MaxIs
<1>3. Picks(pick, S)
  BY <1>2 DEF Picks
<1> HIDE DEF pick
<1>4. PICK g : IsFoldOver(g, S, base, step, pick)
  BY <1>1, <1>3, FoldOverExists, Zenon
<1>5. \A s \in SUBSET S : g[s] = IF s = {} THEN base ELSE step[pick[s]][g[s \ {pick[s]}]]
  BY <1>4 DEF IsFoldOver
<1> DEFINE Q == {s \in SUBSET S : g[s] \in A}
<1>6. {} \in Q
  BY <1>5
<1>7. ASSUME NEW s \in SUBSET S, s # {}, s \ {pick[s]} \in Q PROVE s \in Q
  <2>1. pick[s] \in S /\ g[s \ {pick[s]}] \in A
    BY <1>2, <1>7
  <2>2. step[pick[s]][g[s \ {pick[s]}]] \in A
    BY <2>1
  <2>3. QED
    BY <1>5, <1>7, <2>2
<1>8. \A s \in SUBSET S : s \in Q
  <2> HIDE DEF Q, S
  <2>1. QED
    BY <1>1, <1>3, <1>6, <1>7, PickInd, Zenon
<1>9. g \in [SUBSET S -> A]
  BY <1>4, <1>8 DEF IsFoldOver
<1>10. IsFold(g, n, base, step)
  BY <1>2, <1>4 DEF IsFold, IsFoldOver
<1>11. QED
  BY <1>9, <1>10

-----------------------------------------------------------------------------
\* Elements of finite sets, and the images of finite sets.

\* A finite set has an element with the largest key.
LEMMA LargestKey ==
  ASSUME NEW S, IsFiniteSet(S), NEW key \in [S -> Int]
  PROVE  \A s \in SUBSET S : s # {} => \E x \in s : \A y \in s : key[y] <= key[x]
<1> SUFFICES ASSUME NEW s \in SUBSET S PROVE s # {} => \E x \in s : \A y \in s : key[y] <= key[x]
  OBVIOUS
<1> DEFINE Q == {T \in SUBSET s : T # {} => \E x \in T : \A y \in T : key[y] <= key[x]}
<1>1. IsFiniteSet(s)
  BY FS_Subset
<1>2. {} \in Q
  OBVIOUS
<1>3. ASSUME NEW T \in SUBSET s, T \in Q, NEW x \in s \ T PROVE T \cup {x} \in Q
  <2>1. CASE T = {}
    <3>1. x \in T \cup {x} /\ \A y \in T \cup {x} : key[y] <= key[x]
      BY <2>1
    <3>2. QED
      BY <3>1
  <2>2. CASE T # {}
    <3>1. PICK m \in T : \A y \in T : key[y] <= key[m]
      BY <1>3, <2>2
    <3>2. key[m] \in Int /\ key[x] \in Int /\ \A y \in T : key[y] \in Int
      OBVIOUS
    <3>3. CASE key[x] <= key[m]
      <4>1. \A y \in T \cup {x} : key[y] <= key[m]
        BY <3>1, <3>3
      <4>2. QED
        BY <4>1
    <3>4. CASE ~ (key[x] <= key[m])
      <4>1. \A y \in T \cup {x} : key[y] <= key[x]
        BY <3>1, <3>2, <3>4
      <4>2. QED
        BY <4>1
    <3>5. QED
      BY <3>3, <3>4
  <2>3. QED
    BY <2>1, <2>2
<1>4. s \in Q
  <2> HIDE DEF Q
  <2>1. QED
    BY <1>1, <1>2, <1>3, FiniteSetInd
<1>5. QED
  BY <1>4

\* As many values as arguments, at most (FS_Image with a function for its operator).
LEMMA ImageOf ==
  ASSUME NEW S, IsFiniteSet(S), NEW f, DOMAIN f = S
  PROVE  LET T == {f[x] : x \in S}
         IN  IsFiniteSet(T) /\ Cardinality(T) <= Cardinality(S)
<1> DEFINE T == {f[x] : x \in S}
           g == [x \in S |-> f[x]]
<1>1. g \in Surjection(S, T)
  BY DEF Surjection
<1>2. QED
  BY <1>1, FS_Surjection

-----------------------------------------------------------------------------
\* The sum over a sequence, whatever its order.

LEMMA SumInsert ==
  ASSUME NEW S, IsFiniteSet(S), NEW f, \A x \in S : f[x] \in Int,
         NEW T \in SUBSET S, NEW x \in S \ T
  PROVE  /\ SumFunctionOnSet(f, T) \in Int
         /\ SumFunctionOnSet(f, T \cup {x}) = f[x] + SumFunctionOnSet(f, T)
<1>1. IsFiniteSet(T) /\ IsFiniteSet(T \cup {x})
  BY FS_Subset
<1>2. SumFunctionOnSet(f, T) \in Int
  BY <1>1, SumRemove
<1>3. (T \cup {x}) \ {x} = T /\ x \in T \cup {x} /\ \A y \in T \cup {x} : f[y] \in Int
  OBVIOUS
<1>4. SumFunctionOnSet(f, T \cup {x}) = f[x] + SumFunctionOnSet(f, (T \cup {x}) \ {x})
  BY <1>1, <1>3, SumRemove
<1>5. QED
  BY <1>2, <1>3, <1>4

\* g holds the values of f in another order, p.
Reordered(f, g, p) ==
  /\ p \in [DOMAIN f -> DOMAIN f]
  /\ \A x, y \in DOMAIN f : p[x] = p[y] => x = y
  /\ \A y \in DOMAIN f : \E x \in DOMAIN f : p[x] = y
  /\ DOMAIN g = DOMAIN f
  /\ \A x \in DOMAIN f : g[x] = f[p[x]]

LEMMA ReorderedBy ==
  ASSUME NEW D, NEW f, NEW g, NEW p, DOMAIN f = D, DOMAIN g = D, p \in [D -> D],
         \A x, y \in D : p[x] = p[y] => x = y,
         \A y \in D : \E x \in D : p[x] = y,
         \A x \in D : g[x] = f[p[x]]
  PROVE  Reordered(f, g, p)
BY DEF Reordered

LEMMA SumReordered ==
  ASSUME NEW f, NEW g, NEW p, Whole(f), Reordered(f, g, p)
  PROVE  SumFunction(g) = SumFunction(f)
<1> DEFINE S == DOMAIN f
           Image(T) == {p[x] : x \in T}
           Q == {T \in SUBSET S : SumFunctionOnSet(g, T) = SumFunctionOnSet(f, Image(T))}
<1>1. IsFiniteSet(S) /\ (\A x \in S : f[x] \in Int) /\ \A x \in S : g[x] \in Int
  BY DEF Whole, Reordered
<1>2. {} \in Q
  <2>1. Image({}) = {}
    OBVIOUS
  <2> HIDE DEF Image
  <2>2. QED
    BY <2>1, SumEmptySet
<1>3. ASSUME NEW T \in SUBSET S, T \in Q, NEW x \in S \ T
      PROVE  T \cup {x} \in Q
  <2>1. /\ Image(T \cup {x}) = Image(T) \cup {p[x]} /\ Image(T) \in SUBSET S
        /\ p[x] \in S \ Image(T) /\ g[x] = f[p[x]]
    BY DEF Reordered
  <2> HIDE DEF Image
  <2>2. /\ SumFunctionOnSet(g, T) \in Int
        /\ SumFunctionOnSet(g, T \cup {x}) = g[x] + SumFunctionOnSet(g, T)
    BY <1>1, SumInsert
  <2>3. /\ SumFunctionOnSet(f, Image(T)) \in Int
        /\ SumFunctionOnSet(f, Image(T) \cup {p[x]}) = f[p[x]] + SumFunctionOnSet(f, Image(T))
    <3>1. PICK U \in SUBSET S : U = Image(T)
      BY <2>1
    <3>2. PICK y \in S \ U : y = p[x]
      BY <2>1, <3>1
    <3>3. SumFunctionOnSet(f, U) \in Int /\ SumFunctionOnSet(f, U \cup {y}) = f[y] + SumFunctionOnSet(f, U)
      BY <1>1, SumInsert
    <3>4. QED
      BY <3>1, <3>2, <3>3
  <2>4. SumFunctionOnSet(g, T) = SumFunctionOnSet(f, Image(T))
    BY <1>3
  <2>5. QED
    BY <2>1, <2>2, <2>3, <2>4
<1>4. S \in Q
  <2> HIDE DEF Q
  <2>1. QED
    BY <1>1, <1>2, <1>3, FiniteSetInd
<1>5. Image(S) = S
  <2>1. \A x \in S : p[x] \in S /\ \A y \in S : \E z \in S : p[z] = y
    BY DEF Reordered
  <2>2. QED
    BY <2>1
<1>6. SumFunctionOnSet(g, S) = SumFunctionOnSet(f, S)
  BY <1>4, <1>5
<1>7. QED
  BY <1>6 DEF SumFunction, Reordered

-----------------------------------------------------------------------------
\* Recursive functions over an interval.

\* Induction from a to n: Q is the set of those the claim holds of.
LEMMA IntervalInd ==
  ASSUME NEW a \in Nat, NEW n \in Nat, NEW Q, a <= n => a \in Q,
         \A i \in a .. n : i < n /\ i \in Q => i + 1 \in Q
  PROVE  \A i \in a .. n : i \in Q
<1> DEFINE T == {k \in Nat : a + k <= n => a + k \in Q}
<1>1. 0 \in T
  OBVIOUS
<1>2. ASSUME NEW k \in T PROVE k + 1 \in T
  <2>1. SUFFICES ASSUME a + (k + 1) <= n PROVE a + (k + 1) \in Q
    OBVIOUS
  <2>2. k \in Nat /\ a + k \in a .. n /\ a + k < n /\ a + k \in Q
    BY <2>1
  <2>3. (a + k) + 1 \in Q
    BY <2>2
  <2>4. (a + k) + 1 = a + (k + 1)
    BY <2>2
  <2>5. QED
    BY <2>3, <2>4
<1>3. T = Nat
  <2>1. T \in SUBSET Nat
    OBVIOUS
  <2> HIDE DEF T
  <2>2. QED
    BY <1>1, <1>2, <2>1, NatInd
<1>4. SUFFICES ASSUME NEW i \in a .. n PROVE i \in Q
  OBVIOUS
<1>5. i - a \in Nat /\ a + (i - a) = i /\ a + (i - a) <= n
  OBVIOUS
<1>6. i - a \in T
  BY <1>3, <1>5
<1>7. QED
  BY <1>5, <1>6

\* The equation of a function that starts from base and takes a step at a time.
IsCourse(g, a, n, base, step) ==
  g = [i \in a .. n |-> IF i = a THEN base ELSE step[i][g[i - 1]]]

\* There is one: it is built a step at a time.
LEMMA CourseExists ==
  ASSUME NEW a \in Nat, NEW n \in Nat, NEW A, NEW base \in A,
         NEW step, \A i \in a .. n : step[i] \in [A -> A]
  PROVE  \E g \in [a .. n -> A] : IsCourse(g, a, n, base, step)
<1> DEFINE Q == {m \in Nat : \E g \in [a .. m -> A] : IsCourse(g, a, m, base, step)}
<1>1. a <= n => a \in Q
  <2>1. [i \in a .. a |-> base] \in [a .. a -> A]
    OBVIOUS
  <2>2. IsCourse([i \in a .. a |-> base], a, a, base, step)
    BY DEF IsCourse
  <2>3. QED
    BY <2>1, <2>2
<1>2. ASSUME NEW m \in a .. n, m < n, m \in Q PROVE m + 1 \in Q
  <2>1. m \in Nat /\ m + 1 \in Nat /\ m + 1 \in a .. n
    BY <1>2
  <2>2. PICK g \in [a .. m -> A] : IsCourse(g, a, m, base, step)
    BY <1>2
  <2> DEFINE h == [i \in a .. m + 1 |-> IF i = m + 1 THEN step[m + 1][g[m]] ELSE g[i]]
  <2>3. g[m] \in A /\ step[m + 1][g[m]] \in A
    BY <2>1
  <2>4. h \in [a .. m + 1 -> A]
    BY <2>1, <2>3
  <2>5. ASSUME NEW i \in a .. m + 1 PROVE h[i] = IF i = a THEN base ELSE step[i][h[i - 1]]
    <3>1. CASE i = m + 1
      <4>1. i # a /\ i - 1 = m /\ m \in a .. m + 1 /\ m # m + 1
        BY <3>1, <2>1
      <4>2. QED
        BY <3>1, <4>1
    <3>2. CASE i # m + 1
      <4>1. i \in a .. m /\ h[i] = g[i]
        BY <3>2, <2>1
      <4>2. g[i] = IF i = a THEN base ELSE step[i][g[i - 1]]
        BY <2>2, <4>1 DEF IsCourse
      <4>3. CASE i = a
        BY <4>1, <4>2, <4>3
      <4>4. CASE i # a
        <5>1. i - 1 \in a .. m + 1 /\ i - 1 # m + 1
          BY <4>1, <4>4, <2>1
        <5>2. h[i - 1] = g[i - 1]
          BY <5>1
        <5>3. QED
          BY <4>1, <4>2, <4>4, <5>2
      <4>5. QED
        BY <4>3, <4>4
    <3>3. QED
      BY <3>1, <3>2
  <2> HIDE DEF h
  <2>6. DOMAIN h = a .. m + 1
    BY <2>4
  <2>7. IsCourse(h, a, m + 1, base, step)
    <3>1. h = [i \in a .. m + 1 |-> h[i]]
      BY <2>4
    <3>2. QED
      BY <2>5, <3>1 DEF IsCourse
  <2>8. QED
    BY <2>1, <2>4, <2>7
<1>3. CASE a <= n
  <2> HIDE DEF Q
  <2>1. \A m \in a .. n : m \in Q
    BY <1>1, <1>2, IntervalInd
  <2>2. n \in Q
    BY <1>3, <2>1
  <2>3. QED
    BY <2>2 DEF Q
<1>4. CASE a > n
  <2>1. [i \in a .. n |-> base] \in [a .. n -> A]
    OBVIOUS
  <2>2. IsCourse([i \in a .. n |-> base], a, n, base, step)
    <3>1. a .. n = {}
      BY <1>4
    <3>2. QED
      BY <3>1 DEF IsCourse
  <2>3. QED
    BY <2>1, <2>2
<1>5. QED
  BY <1>3, <1>4

\* Two functions that agree at the start, and after every step if they did before it.
SameSteps(f, g, a, n) ==
  /\ a <= n => g[a] = f[a]
  /\ \A i \in a .. n : i # a /\ g[i - 1] = f[i - 1] => g[i] = f[i]

\* They agree everywhere.
LEMMA SameCourse ==
  ASSUME NEW a \in Nat, NEW n \in Nat, NEW f, NEW g, SameSteps(f, g, a, n)
  PROVE  \A i \in a .. n : g[i] = f[i]
<1> DEFINE Q == {i \in Nat : g[i] = f[i]}
<1>1. a <= n => a \in Q
  BY DEF SameSteps
<1>2. ASSUME NEW i \in a .. n, i < n, i \in Q PROVE i + 1 \in Q
  <2>1. i + 1 \in a .. n /\ i + 1 # a /\ (i + 1) - 1 = i /\ i + 1 \in Nat
    BY <1>2
  <2>2. g[(i + 1) - 1] = f[(i + 1) - 1]
    BY <1>2, <2>1
  <2>3. QED
    BY <2>1, <2>2 DEF SameSteps
<1> HIDE DEF Q
<1>3. \A i \in a .. n : i \in Q
  BY <1>1, <1>2, IntervalInd
<1>4. QED
  BY <1>3 DEF Q


-----------------------------------------------------------------------------
\* Finite sets of numbers in order (Ascending of SortedSets).

\* The sequence goes through the elements of S, the smallest first.
Ascends(seq, S) ==
  /\ seq \in Seq(Int)
  /\ \A i, j \in DOMAIN seq : i < j => seq[i] < seq[j]
  /\ \A x : x \in S <=> \E i \in DOMAIN seq : seq[i] = x

LEMMA ListedIs ==
  ASSUME NEW seq, NEW S, Ascends(seq, S)
  PROVE  /\ S \subseteq Int /\ Len(seq) \in Nat /\ DOMAIN seq = 1 .. Len(seq)
         /\ \A i \in DOMAIN seq : seq[i] \in Int /\ seq[i] \in S
         /\ S = {} <=> seq = << >>
<1>1. seq \in Seq(Int) /\ Len(seq) \in Nat /\ DOMAIN seq = 1 .. Len(seq)
  BY DEF Ascends
<1>2. \A i \in DOMAIN seq : seq[i] \in Int /\ seq[i] \in S
  BY <1>1 DEF Ascends
<1>3. S \subseteq Int
  BY <1>2 DEF Ascends
<1>4. S = {} <=> DOMAIN seq = {}
  BY DEF Ascends
<1>5. DOMAIN seq = {} <=> seq = << >>
  <2>1. seq # << >> => Len(seq) \in Nat \ {0}
    BY <1>1, EmptySeq
  <2>2. Len(<< >>) = 0
    OBVIOUS
  <2>3. DOMAIN seq = {} <=> Len(seq) = 0
    <3>1. \A n \in Nat : 1 .. n = {} <=> n = 0
      <4>1. SUFFICES ASSUME NEW n \in Nat, n # 0 PROVE 1 .. n # {}
        OBVIOUS
      <4>2. 1 \in 1 .. n
        BY <4>1
      <4>3. QED
        BY <4>2
    <3>2. QED
      BY <1>1, <3>1, Zenon
  <2>4. QED
    BY <2>1, <2>2, <2>3, Zenon
<1>6. QED
  BY <1>1, <1>2, <1>3, <1>4, <1>5

\* Where an element is says how many are not larger.
LEMMA PlaceIs ==
  ASSUME NEW seq, NEW S, Ascends(seq, S), NEW i \in DOMAIN seq
  PROVE  Cardinality({x \in S : x <= seq[i]}) = i
<1> DEFINE T == {x \in S : x <= seq[i]}
           g == [k \in 1 .. i |-> seq[k]]
<1>1. /\ DOMAIN seq = 1 .. Len(seq) /\ Len(seq) \in Nat /\ i \in Nat
      /\ \A k \in DOMAIN seq : seq[k] \in Int /\ seq[k] \in S
  BY ListedIs
<1>2. ASSUME NEW k \in 1 .. i PROVE k \in DOMAIN seq /\ seq[k] \in T
  <2>1. k \in DOMAIN seq /\ (k < i \/ k = i)
    BY <1>1
  <2>2. seq[k] <= seq[i]
    BY <1>1, <2>1 DEF Ascends
  <2>3. QED
    BY <1>1, <2>1, <2>2
<1>3. \A x \in T : \E k \in 1 .. i : seq[k] = x
  <2>1. SUFFICES ASSUME NEW x \in T PROVE \E k \in 1 .. i : seq[k] = x
    OBVIOUS
  <2>2. PICK k \in DOMAIN seq : seq[k] = x
    BY DEF Ascends
  <2>3. ~ (i < k)
    BY <1>1, <2>2 DEF Ascends
  <2>4. QED
    BY <1>1, <2>2, <2>3
<1>4. ASSUME NEW j \in 1 .. i, NEW k \in 1 .. i, seq[j] = seq[k] PROVE j = k
  <2>1. j \in DOMAIN seq /\ k \in DOMAIN seq
    BY <1>2
  <2>2. ~ (j < k) /\ ~ (k < j)
    BY <1>1, <1>4, <2>1 DEF Ascends
  <2>3. QED
    BY <1>1, <2>1, <2>2
<1>5. g \in Bijection(1 .. i, T)
  BY <1>2, <1>3, <1>4 DEF Bijection, Injection, Surjection, IsInjective
<1>6. ExistsBijection(1 .. i, T)
  BY <1>5 DEF ExistsBijection
<1>7. IsFiniteSet(1 .. i) /\ Cardinality(1 .. i) = i
  BY <1>1, FS_Interval
<1>8. QED
  BY <1>6, <1>7, FS_Bijection, Zenon

\* There is one list of a set.
LEMMA OneList ==
  ASSUME NEW s, NEW t, NEW S, Ascends(s, S), Ascends(t, S)
  PROVE  s = t
<1>1. /\ DOMAIN s = 1 .. Len(s) /\ Len(s) \in Nat /\ DOMAIN t = 1 .. Len(t) /\ Len(t) \in Nat
      /\ s \in Seq(Int) /\ t \in Seq(Int)
  BY ListedIs DEF Ascends
<1>2. ASSUME NEW i \in DOMAIN s PROVE i \in DOMAIN t /\ t[i] = s[i]
  <2>1. PICK j \in DOMAIN t : t[j] = s[i]
    BY <1>2, ListedIs DEF Ascends
  <2>2. Cardinality({x \in S : x <= s[i]}) = i
    BY PlaceIs
  <2>3. Cardinality({x \in S : x <= t[j]}) = j
    BY PlaceIs
  <2>4. QED
    BY <2>1, <2>2, <2>3
<1>3. ASSUME NEW j \in DOMAIN t PROVE j \in DOMAIN s
  <2>1. PICK i \in DOMAIN s : s[i] = t[j]
    BY <1>3, ListedIs DEF Ascends
  <2>2. Cardinality({x \in S : x <= s[i]}) = i
    BY PlaceIs
  <2>3. Cardinality({x \in S : x <= t[j]}) = j
    BY PlaceIs
  <2>4. QED
    BY <2>1, <2>2, <2>3
<1>4. \A m, n \in Nat : 1 .. m = 1 .. n => m = n
  OBVIOUS
<1>5. Len(s) = Len(t)
  <2>1. DOMAIN s = DOMAIN t
    BY <1>2, <1>3
  <2>2. 1 .. Len(s) = 1 .. Len(t)
    BY <1>1, <2>1
  <2>3. QED
    BY <1>1, <1>4, <2>2, Zenon
<1>6. s = [i \in 1 .. Len(s) |-> s[i]] /\ t = [i \in 1 .. Len(t) |-> t[i]]
  BY <1>1
<1>7. QED
  BY <1>1, <1>2, <1>5, <1>6

LEMMA EmptyAscends == Ascends(<< >>, {})
BY DEF Ascends

\* One list after another.
LEMMA JoinedLists ==
  ASSUME NEW s, NEW t, NEW S, NEW T, Ascends(s, S), Ascends(t, T),
         \A x \in S, y \in T : x < y
  PROVE  Ascends(s \o t, S \cup T)
<1> DEFINE u == s \o t
<1>1. /\ DOMAIN s = 1 .. Len(s) /\ Len(s) \in Nat /\ DOMAIN t = 1 .. Len(t) /\ Len(t) \in Nat
      /\ s \in Seq(Int) /\ t \in Seq(Int)
      /\ \A i \in DOMAIN s : s[i] \in S
      /\ \A i \in DOMAIN t : t[i] \in T
  BY ListedIs DEF Ascends
<1>2. /\ u \in Seq(Int) /\ Len(u) = Len(s) + Len(t)
      /\ DOMAIN u = 1 .. Len(s) + Len(t)
      /\ \A i \in DOMAIN u : u[i] = IF i <= Len(s) THEN s[i] ELSE t[i - Len(s)]
  BY <1>1, ConcatProperties
<1> HIDE DEF u
<1>3. ASSUME NEW i \in DOMAIN u, NEW j \in DOMAIN u, i < j PROVE u[i] < u[j]
  <2>1. CASE j <= Len(s)
    <3>1. i \in DOMAIN s /\ j \in DOMAIN s /\ u[i] = s[i] /\ u[j] = s[j]
      BY <1>1, <1>2, <1>3, <2>1
    <3>2. QED
      BY <1>3, <3>1 DEF Ascends
  <2>2. CASE i <= Len(s) /\ ~ (j <= Len(s))
    <3>1. i \in DOMAIN s /\ j - Len(s) \in DOMAIN t /\ u[i] = s[i] /\ u[j] = t[j - Len(s)]
      <4>1. PICK m \in Nat, n \in Nat : m = Len(s) /\ n = Len(t)
        BY <1>1, LenProperties
      <4>2. DOMAIN s = 1 .. m /\ DOMAIN t = 1 .. n /\ i \in 1 .. m + n /\ j \in 1 .. m + n
        BY <1>1, <1>2, <4>1, LenProperties
      <4>3. i \in 1 .. m /\ j - m \in 1 .. n
        BY <2>2, <4>1, <4>2
      <4>4. u[i] = s[i] /\ u[j] = t[j - m]
        BY <1>2, <2>2, <4>1
      <4>5. QED
        BY <4>1, <4>2, <4>3, <4>4
    <3>2. QED
      BY <1>1, <3>1
  <2>3. CASE ~ (i <= Len(s)) /\ ~ (j <= Len(s))
    <3>1. PICK a \in DOMAIN t, b \in DOMAIN t : a = i - Len(s) /\ b = j - Len(s)
      <4>1. PICK m \in Nat, n \in Nat : m = Len(s) /\ n = Len(t)
        BY <1>1, LenProperties
      <4>2. DOMAIN t = 1 .. n /\ i \in 1 .. m + n /\ j \in 1 .. m + n
        BY <1>1, <1>2, <4>1, LenProperties
      <4>3. i - m \in 1 .. n /\ j - m \in 1 .. n
        BY <2>3, <4>1, <4>2
      <4>4. QED
        BY <4>1, <4>2, <4>3
    <3>2. u[i] = t[a] /\ u[j] = t[b] /\ a < b
      BY <1>1, <1>2, <1>3, <2>3, <3>1
    <3>3. QED
      BY <3>2 DEF Ascends
  <2>4. QED
    BY <1>1, <1>2, <1>3, <2>1, <2>2, <2>3
<1>4. ASSUME NEW x PROVE x \in S \cup T <=> \E i \in DOMAIN u : u[i] = x
  <2>1. ASSUME NEW i \in DOMAIN u, u[i] = x PROVE x \in S \cup T
    <3>1. i \in DOMAIN s \/ i - Len(s) \in DOMAIN t
      BY <1>1, <1>2
    <3>2. QED
      BY <1>1, <1>2, <2>1, <3>1
  <2>2. ASSUME x \in S PROVE \E i \in DOMAIN u : u[i] = x
    <3>1. PICK i \in DOMAIN s : s[i] = x
      BY <2>2 DEF Ascends
    <3>2. i \in DOMAIN u /\ u[i] = x
      BY <1>1, <1>2, <3>1
    <3>3. QED
      BY <3>2
  <2>3. ASSUME x \in T PROVE \E i \in DOMAIN u : u[i] = x
    <3>1. PICK i \in DOMAIN t : t[i] = x
      BY <2>3 DEF Ascends
    <3>2. PICK j \in DOMAIN u : j = Len(s) + i
      BY <1>1, <1>2
    <3>3. ~ (j <= Len(s)) /\ j - Len(s) = i
      BY <1>1, <3>2
    <3>4. u[j] = x
      BY <1>2, <3>1, <3>2, <3>3
    <3>5. QED
      BY <3>4
  <2>4. QED
    BY <2>1, <2>2, <2>3
<1>5. QED
  BY <1>2, <1>3, <1>4 DEF Ascends, u

\* The first few elements.
LEMMA FirstOfList ==
  ASSUME NEW s, NEW S, Ascends(s, S), NEW n \in 1 .. Len(s)
  PROVE  /\ Ascends(SubSeq(s, 1, n), {x \in S : x <= s[n]})
         /\ Len(SubSeq(s, 1, n)) = n /\ SubSeq(s, 1, n)[n] = s[n]
<1> DEFINE u == SubSeq(s, 1, n)
<1>1. /\ DOMAIN s = 1 .. Len(s) /\ Len(s) \in Nat /\ s \in Seq(Int)
      /\ \A i \in DOMAIN s : s[i] \in S /\ s[i] \in Int
  BY ListedIs DEF Ascends
<1>2. /\ u \in Seq(Int) /\ Len(u) = n /\ DOMAIN u = 1 .. n
      /\ \A i \in 1 .. n : u[i] = s[i]
  BY <1>1
<1> HIDE DEF u
<1>3. \A i, j \in DOMAIN u : i < j => u[i] < u[j]
  <2>1. \A i \in DOMAIN u : i \in DOMAIN s /\ u[i] = s[i]
    BY <1>1, <1>2
  <2>2. QED
    BY <2>1 DEF Ascends
<1>4. ASSUME NEW x PROVE x \in {y \in S : y <= s[n]} <=> \E i \in DOMAIN u : u[i] = x
  <2>1. ASSUME NEW i \in DOMAIN u, u[i] = x PROVE x \in S /\ x <= s[n]
    <3>1. i \in DOMAIN s /\ n \in DOMAIN s /\ x = s[i] /\ (i < n \/ i = n)
      BY <1>1, <1>2, <2>1
    <3>2. QED
      BY <1>1, <3>1 DEF Ascends
  <2>2. ASSUME x \in S, x <= s[n] PROVE \E i \in DOMAIN u : u[i] = x
    <3>1. PICK i \in DOMAIN s : s[i] = x
      BY <2>2 DEF Ascends
    <3>2. ~ (n < i)
      BY <1>1, <2>2, <3>1 DEF Ascends
    <3>3. i \in DOMAIN u /\ u[i] = x
      BY <1>1, <1>2, <3>1, <3>2
    <3>4. QED
      BY <3>3
  <2>3. QED
    BY <2>1, <2>2
<1>5. QED
  BY <1>2, <1>3, <1>4 DEF Ascends, u

\* Every finite set has one: that of the set without its largest element, and then that.
LEMMA ListExists ==
  ASSUME NEW S \in SUBSET Int, IsFiniteSet(S)
  PROVE  \E seq : Ascends(seq, S)
<1> DEFINE key == [x \in S |-> x]
           pick == [s \in SUBSET S |-> CHOOSE x \in s : \A y \in s : key[y] <= key[x]]
           Q == {s \in SUBSET S : \E seq : Ascends(seq, s)}
<1>1. \A s \in SUBSET S : s # {} => \E x \in s : \A y \in s : key[y] <= key[x]
  <2>1. key \in [S -> Int]
    OBVIOUS
  <2> HIDE DEF key
  <2>2. QED
    BY <2>1, LargestKey
<1>2. \A s \in SUBSET S : s # {} => /\ pick[s] \in s
                                    /\ \A y \in s : y <= pick[s]
  <2>1. \A s \in SUBSET S : s # {} => /\ pick[s] \in s
                                      /\ \A y \in s : key[y] <= key[pick[s]]
    <3> HIDE DEF key
    <3>1. QED
      BY <1>1
  <2> HIDE DEF pick
  <2>2. QED
    BY <2>1
<1> HIDE DEF pick
<1>3. {} \in Q
  <2>1. {} \in SUBSET S
    OBVIOUS
  <2>2. QED
    BY <2>1, EmptyAscends, Zenon
<1>4. ASSUME NEW s \in SUBSET S, s # {}, s \ {pick[s]} \in Q PROVE s \in Q
  <2>1. PICK x \in s : x = pick[s] /\ x \in Int /\ \A y \in s : y <= x
    BY <1>2, <1>4
  <2>2. PICK seq : Ascends(seq, s \ {x})
    BY <1>4, <2>1
  <2>3. Ascends(<< x >>, {x})
    BY <2>1 DEF Ascends
  <2>4. \A a \in s \ {x}, b \in {x} : a < b
    BY <2>1
  <2>5. Ascends(seq \o << x >>, (s \ {x}) \cup {x})
    BY <2>2, <2>3, <2>4, JoinedLists
  <2>6. (s \ {x}) \cup {x} = s
    OBVIOUS
  <2>7. QED
    BY <2>5, <2>6
<1>5. \A s \in SUBSET S : s \in Q
  <2>1. Picks(pick, S)
    BY <1>2 DEF Picks
  <2>2. \A s \in SUBSET S : s # {} /\ s \ {pick[s]} \in Q => s \in Q
    BY <1>4
  <2> HIDE DEF Q, key
  <2>3. \A T : Picks(pick, T) /\ IsFiniteSet(T) /\ {} \in Q
                 /\ (\A s \in SUBSET T : s # {} /\ s \ {pick[s]} \in Q => s \in Q)
               => \A s \in SUBSET T : s \in Q
    BY PickInd
  <2>4. QED
    BY <1>3, <2>1, <2>2, <2>3, Zenon
<1>6. QED
  BY <1>5

\* Ascending chooses the one there is.
LEMMA AscendingIs ==
  ASSUME NEW S \in SUBSET Int, IsFiniteSet(S)
  PROVE  Ascends(Ascending(S), S)
<1> DEFINE n == Cardinality(S)
           Rises(seq) == \A i, j \in DOMAIN seq : i < j => seq[i] < seq[j]
<1>1. PICK seq : Ascends(seq, S)
  BY ListExists
<1>2. n \in Nat
  BY FS_CardinalityType
<1>3. Len(seq) = n
  <2>1. CASE S = {}
    <3>1. seq = << >> /\ n = 0
      BY <1>1, <2>1, ListedIs, FS_EmptySet
    <3>2. QED
      BY <3>1
  <2>2. CASE S # {}
    <3>1. /\ DOMAIN seq = 1 .. Len(seq) /\ Len(seq) \in Nat /\ seq # << >> /\ seq \in Seq(Int)
          /\ \A i \in DOMAIN seq : seq[i] \in Int /\ seq[i] \in S
      BY <1>1, <2>2, ListedIs DEF Ascends
    <3>2. Len(seq) \in DOMAIN seq
      BY <3>1
    <3>3. {x \in S : x <= seq[Len(seq)]} = S
      <4>1. SUFFICES ASSUME NEW x \in S PROVE x <= seq[Len(seq)]
        OBVIOUS
      <4>2. PICK i \in DOMAIN seq : seq[i] = x
        BY <1>1 DEF Ascends
      <4>3. i < Len(seq) \/ i = Len(seq)
        BY <3>1
      <4>4. QED
        BY <1>1, <3>1, <3>2, <4>2, <4>3 DEF Ascends
    <3>4. QED
      BY <1>1, <3>2, <3>3, PlaceIs
  <2>3. QED
    BY <2>1, <2>2
<1>4. seq \in [1 .. n -> S] /\ Rises(seq)
  <2>1. DOMAIN seq = 1 .. n /\ seq \in Seq(Int) /\ \A i \in DOMAIN seq : seq[i] \in S
    BY <1>1, <1>3, ListedIs DEF Ascends
  <2>2. Rises(seq)
    BY <1>1 DEF Ascends
  <2> HIDE DEF n
  <2>3. QED
    BY <2>1, <2>2
<1>5. PICK a : a = Ascending(S)
  OBVIOUS
<1>6. a \in [1 .. n -> S] /\ Rises(a)
  <2> HIDE DEF Rises, n
  <2>1. \E s \in [1 .. n -> S] : Rises(s)
    BY <1>4
  <2>2. a = CHOOSE s \in [1 .. n -> S] : Rises(s)
    BY <1>5, Zenon DEF Ascending, Rises, n
  <2>3. QED
    BY <2>1, <2>2
\* It rises, so that its n elements are those of S.
<1>7. PICK image : image = {a[i] : i \in 1 .. n}
  OBVIOUS
<1>8. image \in SUBSET S /\ a \in Bijection(1 .. n, image)
  <2>1. \A i, j \in 1 .. n : a[i] = a[j] => i = j
    <3>1. \A i \in 1 .. n : a[i] \in Int
      BY <1>6
    <3>2. QED
      BY <1>2, <1>6, <3>1
  <2> HIDE DEF n
  <2>2. image \in SUBSET S
    BY <1>6, <1>7
  <2>3. QED
    BY <1>6, <1>7, <2>1, <2>2 DEF Bijection, Injection, Surjection, IsInjective
<1>9. image = S
  <2>1. IsFiniteSet(1 .. n) /\ Cardinality(1 .. n) = n
    BY <1>2, FS_Interval
  <2>2. ExistsBijection(1 .. n, image)
    BY <1>8 DEF ExistsBijection
  <2>3. Cardinality(image) = n
    BY <2>1, <2>2, FS_Bijection, Zenon
  <2>4. QED
    BY <1>8, <2>3, FS_Subset
<1>10. Ascends(a, S)
  <2>1. a \in Seq(Int)
    <3>1. PICK m \in Nat : m = n
      BY <1>2
    <3>2. a \in [1 .. m -> Int]
      BY <1>6, <3>1
    <3>3. QED
      BY <3>2
  <2>2. \A x : x \in S <=> \E i \in DOMAIN a : a[i] = x
    BY <1>6, <1>7, <1>9
  <2>3. QED
    BY <1>6, <2>1, <2>2 DEF Ascends
<1>11. QED
  BY <1>5, <1>10
=============================================================================

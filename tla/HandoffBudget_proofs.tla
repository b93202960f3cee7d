------------------------- MODULE HandoffBudget_proofs -------------------------
(***************************************************************************)
(* What the budget cuts is the oldest and the least important, is counted, *)
(* and is what the total says: for any sections, priorities, limits and    *)
(* items.                                                                  *)
(***************************************************************************)
EXTENDS HandoffBudget, ListingLemmas, SequenceTheorems

-----------------------------------------------------------------------------
(* Sums of functions over finite sets: a sum does not depend on the order   *)
(* in which the fold of the library takes its elements, and so changes by   *)
(* what one element changes.  Induction is stated about sets: the numbers,  *)
(* or the subsets, for which something holds.                               *)

Chosen(s) == CHOOSE x \in s : TRUE

\* What the sum g of f is over s, by what it is over less.
Plus(f, g, s) == IF s = {} THEN 0 ELSE f[Chosen(s)] + g[s \ {Chosen(s)}]

IsSum(g, f, S) == g = [s \in SUBSET S |-> Plus(f, g, s)]

\* Such a sum exists.
LEMMA SumExists ==
    ASSUME NEW S, IsFiniteSet(S), NEW f, \A x \in S : f[x] \in Int
    PROVE  \E g \in [SUBSET S -> Int] : IsSum(g, f, S)
<1> DEFINE P == {n \in Nat : \E g \in [SUBSET S -> Int] :
                   \A s \in SUBSET S : Cardinality(s) <= n => g[s] = Plus(f, g, s)}
<1>0. \A s \in SUBSET S : s # {} =>
        /\ Chosen(s) \in s /\ IsFiniteSet(s)
        /\ Cardinality(s) \in Nat /\ Cardinality(s \ {Chosen(s)}) = Cardinality(s) - 1
  BY FS_Subset, FS_CardinalityType, FS_RemoveElement DEF Chosen
<1>1. 0 \in P
  <2> DEFINE g == [s \in SUBSET S |-> 0]
  <2>1. \A s \in SUBSET S : Cardinality(s) <= 0 => s = {}
    BY FS_Subset, FS_CardinalityType, FS_EmptySet
  <2>2. g \in [SUBSET S -> Int]
    OBVIOUS
  <2>3. \A s \in SUBSET S : Cardinality(s) <= 0 => g[s] = Plus(f, g, s)
    BY <2>1 DEF Plus
  <2> QED
    BY <2>2, <2>3
<1>2. ASSUME NEW n \in Nat, n \in P PROVE n + 1 \in P
  <2>1. PICK g \in [SUBSET S -> Int] :
          \A s \in SUBSET S : Cardinality(s) <= n => g[s] = Plus(f, g, s)
    BY <1>2
  <2> DEFINE h == [s \in SUBSET S |-> Plus(f, g, s)]
  <2>2. \A s \in SUBSET S : Plus(f, g, s) \in Int
    BY <1>0, <2>1 DEF Plus
  <2>3. ASSUME NEW s \in SUBSET S, Cardinality(s) <= n + 1 PROVE h[s] = Plus(f, h, s)
    <3>1. CASE s = {}
      BY <3>1 DEF Plus
    <3>2. CASE s # {}
      <4> DEFINE t == s \ {Chosen(s)}
      <4>1. t \in SUBSET S /\ Cardinality(t) <= n
        BY <1>0, <2>3, <3>2
      <4>2. h[t] = g[t]
        BY <2>1, <4>1
      <4> QED
        BY <3>2, <4>2 DEF Plus
    <3> QED
      BY <3>1, <3>2
  <2>4. h \in [SUBSET S -> Int]
    BY <2>2
  <2> HIDE DEF h
  <2> QED
    BY <2>3, <2>4
<1>3. Cardinality(S) \in P
  <2> HIDE DEF P
  <2> QED
    BY <1>1, <1>2, NatInduct, FS_CardinalityType
<1>4. PICK g \in [SUBSET S -> Int] :
        \A s \in SUBSET S : Cardinality(s) <= Cardinality(S) => g[s] = Plus(f, g, s)
  BY <1>3
<1>5. \A s \in SUBSET S : Cardinality(s) <= Cardinality(S)
  BY FS_Subset
<1>6. g = [s \in SUBSET S |-> Plus(f, g, s)]
  BY <1>4, <1>5
<1> QED
  BY <1>6 DEF IsSum

\* There is but one, whatever the set around it.
LEMMA SumUnique ==
    ASSUME NEW S, NEW T, NEW f, NEW e, NEW g, NEW h, IsFiniteSet(S), T \subseteq S,
           IsSum(g, f, S), IsSum(h, e, T), \A x \in T : e[x] = f[x]
    PROVE  \A s \in SUBSET T : h[s] = g[s]
<1> DEFINE P == {n \in Nat : \A s \in SUBSET T : Cardinality(s) = n => h[s] = g[s]}
<1>0. \A s \in SUBSET T : /\ IsFiniteSet(s) /\ Cardinality(s) \in Nat
                          /\ g[s] = Plus(f, g, s) /\ h[s] = Plus(e, h, s)
  BY FS_Subset, FS_CardinalityType DEF IsSum
<1>1. 0 \in P
  BY <1>0, FS_EmptySet DEF Plus
<1>2. ASSUME NEW n \in Nat, n \in P PROVE n + 1 \in P
  <2>1. ASSUME NEW s \in SUBSET T, Cardinality(s) = n + 1 PROVE h[s] = g[s]
    <3>1. s # {}
      BY <2>1, FS_EmptySet
    <3>2. Chosen(s) \in s
      BY <3>1 DEF Chosen
    <3>3. Cardinality(s \ {Chosen(s)}) = n
      <4>1. IsFiniteSet(s) /\ Cardinality(s) = n + 1
        BY <1>0, <2>1
      <4>2. Cardinality(s \ {Chosen(s)}) = Cardinality(s) - 1
        BY <3>2, <4>1, FS_RemoveElement
      <4> QED
        BY <4>1, <4>2
    <3>4. h[s \ {Chosen(s)}] = g[s \ {Chosen(s)}]
      BY <1>2, <3>3
    <3>5. e[Chosen(s)] = f[Chosen(s)]
      BY <3>2
    <3> QED
      BY <1>0, <3>1, <3>4, <3>5 DEF Plus
  <2> QED
    BY <2>1
<1>3. Nat \subseteq P
  <2> HIDE DEF P
  <2> QED
    BY <1>1, <1>2, NatInduct
<1> QED
  BY <1>0, <1>3

\* The sums of f over the subsets of S.
SumOf(f, S) == CHOOSE g : g \in [SUBSET S -> Int] /\ IsSum(g, f, S)

\* They are what the library computes.
LEMMA SumIs ==
    ASSUME NEW S, IsFiniteSet(S), NEW f, \A x \in S : f[x] \in Int
    PROVE  /\ SumOf(f, S) \in [SUBSET S -> Int]
           /\ IsSum(SumOf(f, S), f, S)
           /\ \A T \in SUBSET S : SumFunctionOnSet(f, T) = SumOf(f, S)[T]
<1>1. SumOf(f, S) \in [SUBSET S -> Int] /\ IsSum(SumOf(f, S), f, S)
  BY SumExists DEF SumOf
<1>2. ASSUME NEW T \in SUBSET S PROVE SumFunctionOnSet(f, T) = SumOf(f, S)[T]
  <2> DEFINE h == CHOOSE h : IsSum(h, f, T)
  <2>1. SumFunctionOnSet(f, T) = h[T]
    BY DEF SumFunctionOnSet, FoldFunctionOnSet, MapThenFoldSet, IsSum, Plus, Chosen
  <2>2. IsSum(h, f, T)
    BY SumExists, FS_Subset
  <2> HIDE DEF h
  <2> DEFINE g == SumOf(f, S)
  <2>3. IsSum(g, f, S) /\ \A x \in T : f[x] = f[x]
    BY <1>1
  <2> HIDE DEF g
  <2>4. \A s \in SUBSET T : h[s] = g[s]
    BY <2>2, <2>3, SumUnique
  <2> USE DEF g
  <2> QED
    BY <2>1, <2>4
<1> QED
  BY <1>1, <1>2

\* Functions that agree have the same sum.
LEMMA SumAgree ==
    ASSUME NEW S, IsFiniteSet(S), NEW f, NEW e, \A x \in S : f[x] \in Int /\ e[x] = f[x]
    PROVE  SumFunctionOnSet(e, S) = SumFunctionOnSet(f, S)
<1>1. IsSum(SumOf(f, S), f, S) /\ SumFunctionOnSet(f, S) = SumOf(f, S)[S]
  BY SumIs
<1>2. \A x \in S : e[x] \in Int
  OBVIOUS
<1>3. IsSum(SumOf(e, S), e, S) /\ SumFunctionOnSet(e, S) = SumOf(e, S)[S]
  BY <1>2, SumIs
<1>4. \A s \in SUBSET S : SumOf(e, S)[s] = SumOf(f, S)[s]
  BY <1>1, <1>3, SumUnique
<1> QED
  BY <1>1, <1>3, <1>4

\* The sum over nothing, and a sum without one of its elements.
LEMMA SumRemove ==
    ASSUME NEW S, IsFiniteSet(S), NEW f, \A x \in S : f[x] \in Int
    PROVE  /\ SumFunctionOnSet(f, S) \in Int
           /\ S = {} => SumFunctionOnSet(f, S) = 0
           /\ \A a \in S : SumFunctionOnSet(f, S) = f[a] + SumFunctionOnSet(f, S \ {a})
<1> DEFINE g == SumOf(f, S)
<1>1. /\ g \in [SUBSET S -> Int] /\ IsSum(g, f, S)
      /\ \A T \in SUBSET S : SumFunctionOnSet(f, T) = g[T]
  BY SumIs
<1> HIDE DEF g
<1>2. \A s \in SUBSET S : g[s] = Plus(f, g, s)
  BY <1>1 DEF IsSum
<1> DEFINE P == {n \in Nat : \A s \in SUBSET S : Cardinality(s) = n =>
                               \A a \in s : g[s] = f[a] + g[s \ {a}]}
<1>3. 0 \in P
  BY FS_Subset, FS_EmptySet
<1>4. ASSUME NEW n \in Nat, n \in P PROVE n + 1 \in P
  <2>1. ASSUME NEW s \in SUBSET S, Cardinality(s) = n + 1, NEW a \in s
        PROVE  g[s] = f[a] + g[s \ {a}]
    <3> DEFINE c == Chosen(s)
    <3>1. c \in s /\ g[s] = f[c] + g[s \ {c}]
      BY <1>2, <2>1 DEF Chosen, Plus
    <3>2. CASE c = a
      BY <3>1, <3>2
    <3>3. CASE c # a
      <4>1. IsFiniteSet(s) /\ Cardinality(s \ {c}) = n /\ Cardinality(s \ {a}) = n
        <5>1. IsFiniteSet(s)
          BY <2>1, FS_Subset
        <5>2. Cardinality(s \ {c}) = Cardinality(s) - 1 /\ Cardinality(s \ {a}) = Cardinality(s) - 1
          BY <3>1, <5>1, FS_RemoveElement
        <5> QED
          BY <2>1, <5>1, <5>2
      <4>2. g[s \ {c}] = f[a] + g[(s \ {c}) \ {a}]
        BY <1>4, <3>1, <3>3, <4>1
      <4>3. g[s \ {a}] = f[c] + g[(s \ {a}) \ {c}]
        BY <1>4, <3>1, <3>3, <4>1
      <4>4. (s \ {a}) \ {c} = (s \ {c}) \ {a} /\ (s \ {a}) \ {c} \in SUBSET S
        OBVIOUS
      <4>5. f[a] \in Int /\ f[c] \in Int /\ g[(s \ {a}) \ {c}] \in Int
        BY <1>1, <3>1, <4>4
      <4>6. g[s \ {c}] = f[a] + g[(s \ {a}) \ {c}]
        BY <4>2, <4>4
      <4> HIDE DEF c
      <4> QED
        BY <3>1, <4>3, <4>5, <4>6
    <3> QED
      BY <3>2, <3>3
  <2> QED
    BY <2>1
<1>5. Cardinality(S) \in P
  <2> HIDE DEF P
  <2> QED
    BY <1>3, <1>4, NatInduct, FS_CardinalityType
<1>6. \A a \in S : g[S] = f[a] + g[S \ {a}]
  BY <1>5
<1>7. S = {} => g[S] = 0
  BY <1>2 DEF Plus
<1> QED
  BY <1>1, <1>6, <1>7

\* The sum of what is less is less.
LEMMA SumMonotone ==
    ASSUME NEW S, NEW f, NEW e, IsFiniteSet(S),
           \A x \in S : f[x] \in Int, \A x \in S : e[x] \in Int, \A x \in S : f[x] <= e[x]
    PROVE  SumFunctionOnSet(f, S) <= SumFunctionOnSet(e, S)
<1> DEFINE P == {n \in Nat : \A s \in SUBSET S : Cardinality(s) = n =>
                               SumFunctionOnSet(f, s) <= SumFunctionOnSet(e, s)}
<1>1. ASSUME NEW s \in SUBSET S
      PROVE  /\ IsFiniteSet(s)
             /\ SumFunctionOnSet(f, s) \in Int /\ SumFunctionOnSet(e, s) \in Int
             /\ s = {} => SumFunctionOnSet(f, s) = 0 /\ SumFunctionOnSet(e, s) = 0
             /\ \A a \in s : /\ SumFunctionOnSet(f, s) = f[a] + SumFunctionOnSet(f, s \ {a})
                            /\ SumFunctionOnSet(e, s) = e[a] + SumFunctionOnSet(e, s \ {a})
  <2>1. IsFiniteSet(s) /\ (\A x \in s : f[x] \in Int) /\ (\A x \in s : e[x] \in Int)
    BY FS_Subset
  <2> QED
    BY <2>1, SumRemove
<1>2. 0 \in P
  BY <1>1, FS_EmptySet
<1>3. ASSUME NEW n \in Nat, n \in P PROVE n + 1 \in P
  <2>1. ASSUME NEW s \in SUBSET S, Cardinality(s) = n + 1
        PROVE  SumFunctionOnSet(f, s) <= SumFunctionOnSet(e, s)
    <3>1. PICK a : a \in s
      BY <1>1, <2>1, FS_EmptySet
    <3>2. Cardinality(s \ {a}) = Cardinality(s) - 1
      BY <1>1, <3>1, FS_RemoveElement
    <3>3. SumFunctionOnSet(f, s \ {a}) <= SumFunctionOnSet(e, s \ {a})
      BY <1>3, <2>1, <3>2
    <3>4. s \ {a} \in SUBSET S /\ f[a] \in Int /\ e[a] \in Int /\ f[a] <= e[a]
      BY <3>1
    <3> QED
      BY <1>1, <3>1, <3>3, <3>4
  <2> QED
    BY <2>1
<1>4. Cardinality(S) \in P
  <2> HIDE DEF P
  <2> QED
    BY <1>2, <1>3, NatInduct, FS_CardinalityType
<1> QED
  BY <1>4

\* A sum of functions that differ in one element differs by as much.
LEMMA SumChange ==
    ASSUME NEW S, NEW a \in S, NEW f, NEW e, IsFiniteSet(S),
           \A x \in S : f[x] \in Int, \A x \in S : e[x] \in Int,
           \A x \in S \ {a} : e[x] = f[x]
    PROVE  SumFunctionOnSet(e, S) = (SumFunctionOnSet(f, S) - f[a]) + e[a]
<1> DEFINE R == S \ {a}
<1>1. IsFiniteSet(R)
  BY FS_Subset
<1>2. SumFunctionOnSet(f, S) = f[a] + SumFunctionOnSet(f, R)
  BY SumRemove
<1>3. SumFunctionOnSet(e, S) = e[a] + SumFunctionOnSet(e, R)
  BY SumRemove
<1>4. \A x \in R : f[x] \in Int /\ e[x] = f[x]
  OBVIOUS
<1> HIDE DEF R
<1>5. SumFunctionOnSet(e, R) = SumFunctionOnSet(f, R)
  BY <1>1, <1>4, SumAgree
<1>6. SumFunctionOnSet(f, R) \in Int
  BY <1>1, <1>4, SumRemove
<1>7. f[a] \in Int /\ e[a] \in Int
  OBVIOUS
<1> QED
  BY <1>2, <1>3, <1>5, <1>6, <1>7

\* The sum over one number more.
LEMMA SumOneMore ==
    ASSUME NEW n \in Nat, NEW f, \A i \in 1..(n + 1) : f[i] \in Int
    PROVE  SumFunctionOnSet(f, 1..(n + 1)) = f[n + 1] + SumFunctionOnSet(f, 1..n)
<1>1. IsFiniteSet(1..(n + 1)) /\ n + 1 \in 1..(n + 1)
  BY FS_Interval
<1>2. (1..(n + 1)) \ {n + 1} = 1..n
  OBVIOUS
<1> QED
  BY <1>1, <1>2, SumRemove

-----------------------------------------------------------------------------
(* The budget. *)

Shown == [from : Nat, shown : Nat, chars : Nat]

TypeOK ==
    /\ source \in [Sections -> Seq(Items)] /\ source \in Inputs
    /\ step \in {"truncate", "sections", "total", "done"}
    /\ at \in 1..(Len(Order) + 1)
    /\ items \in [Sections -> Seq(Shown)]
    /\ dropped \in [Sections -> Nat]
    /\ omitted \in [Sections -> Nat]

\* An item that is shown is the source's, cut.
Older(k) == Len(source[k]) - Len(items[k])
Whole(k, n) == Truncated(n, source[k][n])

\* What is left is the newest, what is missing was dropped or capped, and no item
\* was dropped needlessly.
Newest ==
    \A k \in Sections :
      /\ Len(source[k]) = Len(items[k]) + dropped[k] + Capped(k)
      /\ \A n \in DOMAIN items[k] : items[k][n] = Whole(k, Older(k) + n)
      /\ source[k] # <<>> /\ items[k] = <<>> => step \in {"total", "done"}
      /\ items[k] # <<>> /\ dropped[k] > 0 => Size(<<Whole(k, Older(k))>> \o items[k]) > SectionChars

\* Which of the counts of a section say how many of its items are missing.
Counted ==
    /\ step = "truncate" => \A k \in Sections : dropped[k] = 0
    /\ step \in {"truncate", "sections"} =>
         /\ \A i \in 1..Len(Order) : i < at => omitted[Order[i]] = dropped[Order[i]]
         /\ \A i \in 1..Len(Order) : i >= at => omitted[Order[i]] = 0
    /\ step = "truncate" => at = 1
    /\ step = "total" => \A k \in Sections : omitted[k] = dropped[k]
    /\ step = "done" => \A k \in Sections : omitted[k] = dropped[k] + Capped(k)

\* Sections go in the order of their priorities.
Ordered ==
    /\ step = "total" => queue = Droppable
    /\ step \in {"total", "done"} =>
         \A k \in Sections :
           source[k] # <<>> /\ items[k] = <<>> =>
             /\ Priority[k] > Protected
             /\ \A j \in Sections : Priority[j] > Priority[k] => items[j] = <<>>

Inv == /\ TypeOK
       /\ step = "truncate" => items = [k \in Sections |-> <<>>]
       /\ step # "truncate" => Newest
       /\ Counted
       /\ Ordered
       /\ TotalExact
-----------------------------------------------------------------------------
(* Sections, items and lengths. *)

\* The order of the sections is a list of each of them, once.
LEMMA OrderFacts ==
    /\ Len(Order) \in Nat /\ IsFiniteSet(Sections)
    /\ \A i \in 1..Len(Order) : Order[i] \in Sections
    /\ \A k \in Sections : \E i \in 1..Len(Order) : Order[i] = k
    /\ \A i, j \in 1..Len(Order) : Order[i] = Order[j] => i = j
<1>1. Order \in Seq(Sections) /\ DOMAIN Order = 1..Len(Order) /\ Len(Order) \in Nat
  BY BudgetAssumption
<1>2. Sections = {Order[i] : i \in 1..Len(Order)}
  BY <1>1 DEF Sections, Range
<1>3. IsFiniteSet(1..Len(Order))
  BY <1>1, FS_Interval
<1>4. IsFiniteSet(Sections)
  <2>1. Order \in Surjection(1..Len(Order), Sections)
    BY <1>1, <1>2 DEF Surjection
  <2> QED
    BY <1>3, <2>1, FS_Surjection
<1> QED
  BY <1>1, <1>2, <1>4, BudgetAssumption

\* A number has some digits.
LEMMA DigitsType == ASSUME NEW n PROVE Digits(n) \in Nat
<1> DEFINE D == {d \in 0..(MaxDigits - 1) : 10^d <= n}
<1>1. IsFiniteSet(0..(MaxDigits - 1))
  <2>1. MaxDigits - 1 \in Int
    BY DEF MaxDigits
  <2> QED
    BY <2>1, FS_Interval
<1>2. Cardinality(D) \in Nat
  BY <1>1, FS_Subset, FS_CardinalityType
<1> QED
  BY <1>2 DEF Digits

\* An item is cut within the limit, and never within a marker that it shows.
LEMMA CutWithin ==
    ASSUME NEW item \in Items
    PROVE  /\ Cut(item) \in Nat /\ Cut(item) <= ItemChars
           /\ item.open \in Nat /\ item.close \in Nat /\ item.chars \in Nat
           /\ item.open > 0 /\ item.open + PrefixChars - 1 <= Cut(item) => item.close <= Cut(item)
           /\ item.close <= item.chars
BY BudgetAssumption DEF Items, Cut, PrefixChars

\* What is shown of an item.
LEMMA TruncatedType ==
    ASSUME NEW n \in Nat, NEW item \in Items
    PROVE  /\ Truncated(n, item) \in Shown /\ Truncated(n, item).from = n
           /\ Truncated(n, item).shown = IF item.chars <= ItemChars THEN item.chars ELSE Cut(item)
BY CutWithin, DigitsType DEF Truncated, Shown, SuffixChars

\* The cap leaves something.
LEMMA CapLeaves ==
    ASSUME TypeOK, NEW k \in Sections
    PROVE  /\ Capped(k) \in Nat /\ Capped(k) <= Len(source[k])
           /\ Len(source[k]) \in Nat /\ (source[k] # <<>> => Capped(k) < Len(source[k]))
<1>1. source[k] \in Seq(Items) /\ FindingsCap \in Nat \ {0}
  BY BudgetAssumption DEF TypeOK
<1> QED
  BY <1>1 DEF Capped
-----------------------------------------------------------------------------
(* Sizes *)

\* A list of items has a size, which grows by the item and its separator.
LEMMA SizeFacts ==
    ASSUME NEW s \in Seq(Shown)
    PROVE  /\ Size(s) \in Int /\ Size(<<>>) = 0
           /\ \A i \in Shown : Size(Append(s, i)) = Size(s) + i.chars + (IF s = <<>> THEN 0 ELSE 1)
<1> DEFINE Chars(t) == [n \in DOMAIN t |-> t[n].chars]
<1>0. \A i \in Shown : i.chars \in Int
  BY DEF Shown
<1>1. Len(s) \in Nat /\ DOMAIN s = 1..Len(s) /\ \A n \in 1..Len(s) : s[n].chars \in Int
  <2>1. Len(s) \in Nat /\ DOMAIN s = 1..Len(s) /\ \A n \in 1..Len(s) : s[n] \in Shown
    OBVIOUS
  <2> QED
    BY <1>0, <2>1
<1>2. SumFunction(Chars(s)) = SumFunctionOnSet(Chars(s), 1..Len(s))
  BY <1>1 DEF SumFunction
<1>3. SumFunction(Chars(s)) \in Int /\ (s = <<>> => SumFunction(Chars(s)) = 0)
  <2>1. IsFiniteSet(1..Len(s)) /\ \A n \in 1..Len(s) : Chars(s)[n] \in Int
    BY <1>1, FS_Interval
  <2>2. s = <<>> => 1..Len(s) = {}
    OBVIOUS
  <2> HIDE DEF Chars
  <2> QED
    BY <1>2, <2>1, <2>2, SumRemove
<1>4. Size(s) \in Int
  BY <1>1, <1>3 DEF Size
<1>5. Size(<<>>) = 0
  <2>1. DOMAIN Chars(<<>>) = {}
    OBVIOUS
  <2>2. IsFiniteSet({}) /\ \A n \in {} : Chars(<<>>)[n] \in Int
    BY FS_EmptySet
  <2>3. SumFunctionOnSet(Chars(<<>>), {}) = 0
    <3> HIDE DEF Chars
    <3> QED
      BY <2>2, SumRemove
  <2> QED
    BY <2>1, <2>3 DEF Size, SumFunction
<1>6. ASSUME NEW i \in Shown
      PROVE  Size(Append(s, i)) = Size(s) + i.chars + (IF s = <<>> THEN 0 ELSE 1)
  <2> DEFINE t == Append(s, i)
  <2>1. /\ t \in Seq(Shown) /\ Len(t) = Len(s) + 1 /\ t # <<>> /\ DOMAIN t = 1..(Len(s) + 1)
        /\ t[Len(s) + 1] = i /\ \A n \in 1..Len(s) : t[n] = s[n]
    OBVIOUS
  <2>2. i.chars \in Int /\ \A n \in 1..(Len(s) + 1) : t[n].chars \in Int
    <3>1. \A n \in 1..(Len(s) + 1) : t[n] \in Shown
      BY <2>1
    <3> QED
      BY <1>0, <3>1
  <2> HIDE DEF t
  <2>3. SumFunction(Chars(t)) = SumFunctionOnSet(Chars(t), 1..(Len(s) + 1))
    BY <2>1 DEF SumFunction
  <2>4. /\ \A n \in 1..(Len(s) + 1) : Chars(t)[n] \in Int
        /\ Chars(t)[Len(s) + 1] = i.chars
        /\ \A n \in 1..Len(s) : Chars(s)[n] \in Int /\ Chars(t)[n] = Chars(s)[n]
    BY <1>1, <2>1, <2>2
  <2>5. IsFiniteSet(1..Len(s))
    BY <1>1, FS_Interval
  <2> HIDE DEF Chars
  <2>6. SumFunctionOnSet(Chars(t), 1..(Len(s) + 1)) =
          Chars(t)[Len(s) + 1] + SumFunctionOnSet(Chars(t), 1..Len(s))
    BY <1>1, <2>4, SumOneMore
  <2>7. SumFunctionOnSet(Chars(t), 1..Len(s)) = SumFunctionOnSet(Chars(s), 1..Len(s))
    BY <2>4, <2>5, SumAgree
  <2>8. SumFunction(Chars(t)) = SumFunction(Chars(s)) + i.chars
    BY <1>2, <1>3, <2>2, <2>3, <2>4, <2>6, <2>7
  <2>9. Size(t) = SumFunction(Chars(t)) + (Len(t) - 1)
    BY <2>1 DEF Size, Chars
  <2>10. Size(s) = SumFunction(Chars(s)) + (IF s = <<>> THEN 0 ELSE Len(s) - 1)
    BY DEF Size, Chars
  <2>11. s = <<>> => Len(s) = 0
    OBVIOUS
  <2>12. Size(t) = Size(s) + i.chars + (IF s = <<>> THEN 0 ELSE 1)
    BY <1>1, <1>3, <2>1, <2>2, <2>8, <2>9, <2>10, <2>11
  <2> QED
    BY <2>12 DEF t
<1> QED
  BY <1>4, <1>5, <1>6

\* What section k, with d items dropped, takes of the total.
Weight(s, d) == Size(s) + (IF d = 0 THEN 0 ELSE MarkerChars(d) + (IF s = <<>> THEN 0 ELSE 1))

\* That is what the handoff shows of it, its marker included.
LEMMA FinalSize ==
    TypeOK =>
      \A k \in Sections :
        /\ Size(Final(k)) = Weight(items[k], dropped[k])
        /\ Weight(items[k], dropped[k]) \in Int
        /\ Size(items[k]) + MarkerSize(k, dropped[k], items[k]) = Weight(items[k], dropped[k])
<1> SUFFICES ASSUME TypeOK, NEW k \in Sections
             PROVE  /\ Size(Final(k)) = Weight(items[k], dropped[k])
                    /\ Weight(items[k], dropped[k]) \in Int
                    /\ Size(items[k]) + MarkerSize(k, dropped[k], items[k]) =
                         Weight(items[k], dropped[k])
  OBVIOUS
<1> DEFINE marker == [from |-> 0, shown |-> 0, chars |-> MarkerChars(dropped[k])]
<1>1. items[k] \in Seq(Shown) /\ dropped[k] \in Nat /\ MarkerChars(dropped[k]) \in Nat
  BY DigitsType DEF TypeOK, MarkerChars
<1>2. marker \in Shown /\ marker.chars = MarkerChars(dropped[k])
  BY <1>1 DEF Shown
<1>3. Size(items[k]) \in Int
  BY <1>1, SizeFacts
<1> HIDE DEF marker
<1>4. Size(Append(items[k], marker)) =
        Size(items[k]) + MarkerChars(dropped[k]) + (IF items[k] = <<>> THEN 0 ELSE 1)
  BY <1>1, <1>2, SizeFacts
<1>5. Final(k) = IF dropped[k] = 0 THEN items[k] ELSE Append(items[k], marker)
  BY DEF Final, marker
<1> QED
  BY <1>1, <1>3, <1>4, <1>5 DEF Weight, MarkerSize

Weights == [k \in Sections |-> Weight(items[k], dropped[k])]

\* What the sections take is a number.
LEMMA WeightsType == TypeOK => \A k \in Sections : Weights[k] \in Int
BY FinalSize DEF Weights

\* So the size of the handoff is the sum of the weights.
LEMMA BoundedIs ==
    TypeOK => /\ BoundedChars = SumFunctionOnSet(Weights, Sections)
              /\ Measured = BoundedChars
<1> SUFFICES ASSUME TypeOK PROVE BoundedIs!2
  OBVIOUS
<1>1. [k \in Sections |-> Size(Final(k))] = Weights
  BY FinalSize DEF Weights
<1>2. [k \in Sections |-> Size(items[k]) + MarkerSize(k, dropped[k], items[k])] = Weights
  BY FinalSize DEF Weights
<1>3. DOMAIN Weights = Sections
  BY DEF Weights
<1> QED
  BY <1>1, <1>2, <1>3 DEF BoundedChars, Measured, SumFunction

-----------------------------------------------------------------------------
(* The layers *)

\* Nothing is shown, and nothing missing, of a Work whose items are not cut yet.
LEMMA InitOK == ASSUME Init PROVE Inv
<1>1. source \in [Sections -> Seq(Items)] /\ source \in Inputs
  BY BudgetAssumption DEF Init
<1>2. items \in [Sections -> Seq(Shown)]
  BY DEF Init
<1>3. TypeOK
  BY <1>1, <1>2, OrderFacts DEF Init, TypeOK
<1> QED
  BY <1>3, OrderFacts DEF Init, Inv, Counted, Ordered, TotalExact

\* The cap leaves the newest findings, and layer 1 cuts items but drops none.
LEMMA TruncateStep == ASSUME Inv, Truncate PROVE Inv'
<1>1. \A k \in Sections : /\ source[k] \in Seq(Items) /\ Capped(k) \in Nat /\ Len(source[k]) \in Nat
                          /\ Capped(k) <= Len(source[k])
                          /\ source[k] # <<>> => Capped(k) < Len(source[k])
  BY CapLeaves DEF Inv, TypeOK
<1>2. ASSUME NEW k \in Sections
      PROVE  /\ items'[k] \in Seq(Shown)
             /\ Len(items'[k]) = Len(source[k]) - Capped(k)
             /\ \A n \in DOMAIN items'[k] : items'[k][n] = Whole(k, Capped(k) + n)
  <2> DEFINE f == [n \in 1..(Len(source[k]) - Capped(k)) |->
                     Truncated(n + Capped(k), source[k][n + Capped(k)])]
  <2>1. items'[k] = f
    BY <1>2 DEF Truncate
  <2>2. Len(source[k]) - Capped(k) \in Nat
    BY <1>1
  <2>3. ASSUME NEW n \in 1..(Len(source[k]) - Capped(k))
        PROVE  n + Capped(k) \in Nat /\ n + Capped(k) = Capped(k) + n /\ source[k][n + Capped(k)] \in Items
    BY <1>1
  <2>4. \A n \in 1..(Len(source[k]) - Capped(k)) :
          Truncated(n + Capped(k), source[k][n + Capped(k)]) \in Shown
    BY <2>3, TruncatedType
  <2>5. f \in Seq(Shown) /\ Len(f) = Len(source[k]) - Capped(k)
    BY <2>2, <2>4
  <2> QED
    BY <2>1, <2>3, <2>5 DEF Whole
<1>3. TypeOK'
  BY <1>2 DEF Inv, TypeOK, Truncate
<1>4. Newest'
  <2>1. \A k \in Sections : Capped(k)' = Capped(k) /\ \A n : Whole(k, n)' = Whole(k, n)
    BY DEF Truncate, Capped, Whole
  <2>2. source' = source /\ \A k \in Sections : dropped[k] = 0 /\ dropped'[k] = 0
    BY DEF Inv, Counted, Truncate
  <2>3. ASSUME NEW k \in Sections
        PROVE  Older(k)' = Capped(k) /\ (source[k] # <<>> => items'[k] # <<>>)
    <3>1. Older(k)' = Capped(k)
      <4>1. /\ Len(items'[k]) = Len(source[k]) - Capped(k) /\ source'[k] = source[k]
            /\ Len(source[k]) \in Nat /\ Capped(k) \in Nat
        BY <1>1, <1>2, <2>2
      <4> QED
        BY <4>1 DEF Older
    <3>2. source[k] # <<>> => Len(items'[k]) > 0
      BY <1>1, <1>2
    <3> QED
      BY <3>1, <3>2
  <2> QED
    BY <1>1, <1>2, <2>1, <2>2, <2>3 DEF Newest
<1> QED
  BY <1>3, <1>4 DEF Inv, Counted, Ordered, TotalExact, Truncate

\* Layer 2 drops an item of a section that was too long with it.
LEMMA DropOldestStep == ASSUME Inv, DropOldest PROVE Inv'
<1>1. PICK a \in Sections : a = Order[at] /\ at \in 1..Len(Order)
  BY OrderFacts DEF Inv, TypeOK, DropOldest
<1>a. PICK s : s = items[a]
  OBVIOUS
<1>b. PICK t : t = Tail(s)
  OBVIOUS
<1>2. /\ s \in Seq(Shown) /\ Len(s) > 1 /\ Size(s) > SectionChars
      /\ source[a] \in Seq(Items) /\ dropped[a] \in Nat /\ Capped(a) \in Nat
  BY <1>1, <1>a, CapLeaves DEF Inv, TypeOK, DropOldest, TooLong
<1>3. /\ step' = step /\ step = "sections" /\ source' = source /\ omitted' = omitted /\ at' = at
      /\ items' = [items EXCEPT ![a] = t]
      /\ dropped' = [dropped EXCEPT ![a] = dropped[a] + 1]
  BY <1>1, <1>a, <1>b DEF DropOldest
<1>4. /\ t \in Seq(Shown) /\ Len(t) = Len(s) - 1 /\ Len(s) \in Nat
      /\ \A n \in 1..(Len(s) - 1) : t[n] = s[n + 1]
      /\ s = <<s[1]>> \o t
  <2>1. /\ s # <<>> /\ Len(s) \in Nat /\ s[1] \in Shown
    BY <1>2
  <2>2. /\ t \in Seq(Shown) /\ Len(t) = Len(s) - 1
        /\ \A n \in 1..(Len(s) - 1) : t[n] = s[n + 1]
    BY <1>b, <1>2, <2>1, HeadTailProperties
  <2> DEFINE u == <<s[1]>> \o t
  <2>3. /\ u \in Seq(Shown) /\ Len(u) = Len(s)
        /\ \A n \in 1..Len(s) : u[n] = s[n]
    BY <2>1, <2>2, ConcatProperties
  <2> HIDE DEF u
  <2>4. u = s
    BY <1>2, <2>3, SeqEqual
  <2> QED
    BY <2>1, <2>2, <2>4 DEF u
<1>5. TypeOK'
  BY <1>1, <1>2, <1>3, <1>4 DEF Inv, TypeOK
<1>6. Newest'
  <2>0. /\ DOMAIN s = 1..Len(s) /\ DOMAIN t = 1..(Len(s) - 1)
        /\ Len(s) \in Nat /\ Len(source[a]) \in Nat /\ Len(<<>>) = 0
    BY <1>2, <1>4
  <2>1. Newest
    BY <1>3 DEF Inv
  <2>2. Older(a)' = Older(a) + 1 /\ Older(a) \in Int
    <3>1. items'[a] = t
      BY <1>3 DEF Inv, TypeOK
    <3>2. Older(a)' = Len(source[a]) - (Len(s) - 1)
      BY <1>3, <1>4, <3>1 DEF Older
    <3>3. Older(a) = Len(source[a]) - Len(s)
      BY <1>a DEF Older
    <3> QED
      BY <2>0, <3>2, <3>3
  <2>3. \A n \in 1..Len(s) : s[n] = Whole(a, Older(a) + n)
    BY <1>a, <2>0, <2>1 DEF Newest
  <2>4. ASSUME NEW n \in 1..(Len(s) - 1) PROVE t[n] = Whole(a, Older(a)' + n)
    <3>1. n + 1 \in 1..Len(s) /\ Older(a) + (n + 1) = Older(a)' + n
      BY <2>0, <2>2
    <3>2. s[n + 1] = Whole(a, Older(a) + (n + 1))
      BY <2>3, <3>1
    <3> QED
      BY <1>4, <3>1, <3>2
  <2>5. s = <<Whole(a, Older(a)')>> \o t
    <3>1. s[1] = Whole(a, Older(a)')
      BY <1>2, <2>2, <2>3
    <3> QED
      BY <1>4, <3>1
  <2>6. ASSUME NEW k \in Sections, k # a
        PROVE  items'[k] = items[k] /\ dropped'[k] = dropped[k] /\ Older(k)' = Older(k)
    BY <1>3, <2>6 DEF Inv, TypeOK, Older
  <2>7. \A k \in Sections : Capped(k)' = Capped(k) /\ \A n : Whole(k, n)' = Whole(k, n)
    BY <1>3 DEF Capped, Whole
  <2>8. items'[a] = t /\ dropped'[a] = dropped[a] + 1
    BY <1>1, <1>3 DEF Inv, TypeOK
  <2>9. t # <<>> /\ DOMAIN t = 1..(Len(s) - 1)
    BY <1>2, <1>4, <2>0
  <2>10. ASSUME NEW k \in Sections
         PROVE  /\ Len(source'[k]) = Len(items'[k]) + dropped'[k] + Capped(k)'
                /\ \A n \in DOMAIN items'[k] : items'[k][n] = Whole(k, Older(k)' + n)
                /\ source'[k] # <<>> /\ items'[k] = <<>> => step' \in {"total", "done"}
                /\ items'[k] # <<>> /\ dropped'[k] > 0 =>
                     Size(<<Whole(k, Older(k)')>> \o items'[k]) > SectionChars
    <3>1. CASE k = a
      <4>1. Len(source[a]) = Len(s) + dropped[a] + Capped(a)
        BY <1>a, <1>1, <2>1 DEF Newest
      <4>2. Len(source'[a]) = Len(items'[a]) + dropped'[a] + Capped(a)'
        <5>1. /\ Len(items'[a]) = Len(s) - 1 /\ dropped'[a] = dropped[a] + 1
              /\ Capped(a)' = Capped(a) /\ source'[a] = source[a]
          BY <1>3, <1>4, <2>7, <2>8
        <5>2. Len(s) \in Nat /\ dropped[a] \in Nat /\ Capped(a) \in Nat
          BY <1>2
        <5>3. Len(s) + dropped[a] + Capped(a) = (Len(s) - 1) + (dropped[a] + 1) + Capped(a)
          BY <5>2
        <5> QED
          BY <4>1, <5>1, <5>3
      <4>3. /\ \A n \in DOMAIN items'[a] : items'[a][n] = Whole(a, Older(a)' + n)
            /\ items'[a] # <<>>
        BY <2>4, <2>8, <2>9
      <4>4. Size(<<Whole(a, Older(a)')>> \o items'[a]) > SectionChars
        BY <1>2, <2>5, <2>8
      <4> QED
        BY <3>1, <4>2, <4>3, <4>4
    <3>2. CASE k # a
      BY <1>3, <2>1, <2>6, <2>7, <3>2 DEF Newest
    <3> QED
      BY <3>1, <3>2
  <2> QED
    BY <2>7, <2>10 DEF Newest
<1>7. Counted'
  BY <1>1, <1>3, OrderFacts DEF Inv, TypeOK, Counted
<1> QED
  BY <1>3, <1>5, <1>6, <1>7 DEF Inv, Ordered, TotalExact

\* A section that fits says how many of its items are missing.
LEMMA NextSectionStep == ASSUME Inv, NextSection PROVE Inv'
<1>1. PICK a \in Sections : a = Order[at] /\ at \in 1..Len(Order)
  BY OrderFacts DEF Inv, TypeOK, NextSection
<1>2. /\ step' = step /\ step = "sections" /\ source' = source /\ items' = items /\ dropped' = dropped
      /\ omitted' = [omitted EXCEPT ![a] = omitted[a] + dropped[a]] /\ at' = at + 1
  BY <1>1 DEF NextSection
<1>3. TypeOK'
  BY <1>1, <1>2, OrderFacts DEF Inv, TypeOK
<1>4. Newest'
  BY <1>2 DEF Inv, Newest, Older, Whole, Capped
<1>5. Counted'
  <2>1. omitted[a] = 0 /\ omitted'[a] = dropped[a]
    BY <1>1, <1>2 DEF Inv, TypeOK, Counted
  <2>2. \A i \in 1..Len(Order) : i # at => omitted'[Order[i]] = omitted[Order[i]]
    BY <1>1, <1>2, OrderFacts DEF Inv, TypeOK
  <2> QED
    BY <1>1, <1>2, <2>1, <2>2, OrderFacts DEF Inv, TypeOK, Counted
<1> QED
  BY <1>2, <1>3, <1>4, <1>5 DEF Inv, Ordered, TotalExact

\* What is measured is what the handoff shows, and no section is empty yet.
LEMMA MeasureStep == ASSUME Inv, Measure PROVE Inv'
<1>1. TypeOK' /\ Newest'
  BY DEF Inv, TypeOK, Newest, Older, Whole, Capped, Measure
<1>2. Counted'
  BY OrderFacts DEF Inv, TypeOK, Counted, Measure
<1>3. Ordered'
  BY DEF Inv, Newest, Ordered, Droppable, Measure
<1>4. TotalExact'
  <2>1. BoundedChars' = BoundedChars
    BY DEF Measure, BoundedChars, Final
  <2> QED
    BY <2>1, BoundedIs DEF Inv, Measure, TotalExact
<1> QED
  BY <1>1, <1>2, <1>3, <1>4 DEF Inv, Measure

\* The least important of the sections gives way, and the total follows.
LEMMA DropSectionStep == ASSUME Inv, DropSection PROVE Inv'
<1>1. PICK a \in queue : /\ \A j \in queue : Priority[j] <= Priority[a]
                         /\ Drop(a, queue \ {a}, Size(items[a]) + MarkerSize(a, dropped[a], items[a]))
  BY DEF DropSection
<1>2. PICK s : s = items[a]
  OBVIOUS
<1>3. /\ a \in Sections /\ Priority[a] > Protected /\ s # <<>> /\ s \in Seq(Shown)
      /\ Len(s) \in Nat /\ Len(s) > 0
      /\ dropped[a] \in Nat /\ Capped(a) \in Nat /\ Len(source[a]) \in Nat
      /\ Len(source[a]) = Len(s) + dropped[a] + Capped(a)
  <2>1. a \in Sections /\ Priority[a] > Protected /\ s # <<>>
    BY <1>1, <1>2 DEF Inv, Ordered, Droppable, DropSection
  <2>2. s \in Seq(Shown) /\ dropped[a] \in Nat
    BY <1>2, <2>1 DEF Inv, TypeOK
  <2>3. Len(s) \in Nat /\ Len(s) > 0
    BY <2>1, <2>2
  <2>4. Capped(a) \in Nat /\ Len(source[a]) \in Nat
    BY <2>1, CapLeaves DEF Inv
  <2>5. Len(source[a]) = Len(s) + dropped[a] + Capped(a)
    BY <1>2, <2>1 DEF Inv, Newest, DropSection
  <2> QED
    BY <2>1, <2>2, <2>3, <2>4, <2>5
<1>4. /\ step' = step /\ step = "total" /\ source' = source
      /\ queue' = queue \ {a}
      /\ items' = [items EXCEPT ![a] = <<>>]
      /\ dropped' = [dropped EXCEPT ![a] = dropped[a] + Len(s)]
      /\ omitted' = [omitted EXCEPT ![a] = omitted[a] + Len(s)]
  BY <1>1, <1>2 DEF DropSection, Drop
<1>5. /\ items'[a] = <<>> /\ dropped'[a] = dropped[a] + Len(s) /\ omitted'[a] = omitted[a] + Len(s)
      /\ \A k \in Sections \ {a} : /\ items'[k] = items[k] /\ dropped'[k] = dropped[k]
                                   /\ omitted'[k] = omitted[k]
  BY <1>3, <1>4 DEF Inv, TypeOK
<1>6. TypeOK'
  BY <1>3, <1>4, <1>1 DEF Inv, TypeOK, Drop
<1>7. Newest'
  <2>1. \A k \in Sections : Capped(k)' = Capped(k) /\ \A n : Whole(k, n)' = Whole(k, n)
    BY <1>4 DEF Capped, Whole
  <2>2. Newest
    BY <1>4 DEF Inv
  <2>3. \A k \in Sections \ {a} : Older(k)' = Older(k)
    BY <1>4, <1>5 DEF Older
  <2>4. Len(<<>>) = 0 /\ DOMAIN <<>> = {}
    OBVIOUS
  <2> QED
    BY <1>3, <1>4, <1>5, <2>1, <2>2, <2>3, <2>4 DEF Newest
<1>8. Counted'
  BY <1>3, <1>4, <1>5 DEF Inv, TypeOK, Counted
<1>9. Ordered'
  <2>1. queue = Droppable /\ queue' = Droppable'
    BY <1>3, <1>4, <1>5 DEF Inv, Ordered, Droppable
  <2>2. \A j \in Sections : Priority[j] > Priority[a] => items[j] = <<>>
    <3>1. Protected \in Nat /\ \A k \in Sections : Priority[k] \in Nat
      BY BudgetAssumption
    <3> QED
      BY <1>1, <1>3, <2>1, <3>1 DEF Droppable
  <2> QED
    BY <1>3, <1>4, <1>5, <2>1, <2>2 DEF Inv, Ordered
<1>10. TotalExact'
  <2>1. total = SumFunctionOnSet(Weights, Sections)
    BY <1>4, BoundedIs DEF Inv, TotalExact
  <2>2. BoundedChars' = SumFunctionOnSet(Weights', Sections)
    <3>1. (TypeOK => BoundedChars = SumFunctionOnSet(Weights, Sections))'
      BY BoundedIs, PTL
    <3> QED
      BY <1>6, <3>1
  <2>3. \A k \in Sections : Weights[k] \in Int /\ Weights'[k] \in Int
    <3>1. (TypeOK => \A k \in Sections : Weights[k] \in Int)'
      BY WeightsType, PTL
    <3> QED
      BY <1>6, <3>1, WeightsType DEF Inv
  <2>4. \A k \in Sections \ {a} : Weights'[k] = Weights[k]
    BY <1>5 DEF Weights
  <2>5. total' = (total - Weights[a]) + Weights'[a]
    <3>1. Weights[a] = Size(items[a]) + MarkerSize(a, dropped[a], items[a])
      BY <1>3, FinalSize DEF Inv, Weights
    <3>2. MarkerSize(a, dropped[a] + Len(s), <<>>) \in Int
      BY <1>3, DigitsType DEF MarkerSize, MarkerChars
    <3>3. Weights'[a] = Weight(<<>>, dropped[a] + Len(s))
      BY <1>3, <1>5 DEF Weights
    <3>4. Size(<<>>) = 0
      BY <1>3, SizeFacts
    <3>5. Weights'[a] = MarkerSize(a, dropped[a] + Len(s), <<>>)
      BY <3>2, <3>3, <3>4 DEF Weight, MarkerSize
    <3>6. total' = (total - Weights[a]) + MarkerSize(a, dropped[a] + Len(s), <<>>)
      BY <1>1, <1>2, <3>1 DEF Drop
    <3> QED
      BY <3>5, <3>6
  <2>6. SumFunctionOnSet(Weights', Sections) =
          (SumFunctionOnSet(Weights, Sections) - Weights[a]) + Weights'[a]
    <3>1. PICK f, e : f = Weights /\ e = Weights'
      OBVIOUS
    <3>2. IsFiniteSet(Sections) /\ a \in Sections
      BY <1>3, OrderFacts
    <3>3. /\ \A x \in Sections : f[x] \in Int
          /\ \A x \in Sections : e[x] \in Int
          /\ \A x \in Sections \ {a} : e[x] = f[x]
      BY <2>3, <2>4, <3>1
    <3>4. SumFunctionOnSet(e, Sections) = (SumFunctionOnSet(f, Sections) - f[a]) + e[a]
      BY <3>2, <3>3, SumChange
    <3> QED
      BY <3>1, <3>4
  <2> QED
    BY <2>1, <2>2, <2>5, <2>6 DEF TotalExact
<1> QED
  BY <1>4, <1>6, <1>7, <1>8, <1>9, <1>10 DEF Inv

\* The capped findings are counted last.
LEMMA FinishStep == ASSUME Inv, Finish PROVE Inv'
<1>1. TypeOK'
  BY CapLeaves DEF Inv, TypeOK, Finish
<1>2. Newest'
  BY DEF Inv, Newest, Older, Whole, Capped, Finish
<1>3. Counted' /\ Ordered'
  BY DEF Inv, TypeOK, Counted, Ordered, Capped, Finish
<1>4. TotalExact'
  BY DEF Inv, TotalExact, BoundedChars, Final, Finish
<1> QED
  BY <1>1, <1>2, <1>3, <1>4 DEF Inv, Finish
-----------------------------------------------------------------------------
(* The theorems. *)

\* Every layer keeps what the handoff rests on.
THEOREM Invariance == Spec => []Inv
<1>1. ASSUME Inv, [Next]_vars PROVE Inv'
  <2>1. CASE UNCHANGED vars
    BY <1>1, <2>1 DEF vars, Inv, TypeOK, Newest, Older, Whole, Capped, Counted, Ordered, Droppable,
                      TotalExact, BoundedChars, Final
  <2> QED
    BY <1>1, <2>1, TruncateStep, DropOldestStep, NextSectionStep, MeasureStep, DropSectionStep,
       FinishStep DEF Next
<1> QED
  BY <1>1, InitOK, PTL DEF Spec

\* The total that layer 3 keeps is the size of what the handoff shows, whatever
\* sections it drops.
THEOREM TotalIsExact == Spec => []TotalExact
<1>1. Inv => TotalExact
  BY DEF Inv
<1> QED
  BY <1>1, Invariance, PTL

\* What is left of a section is its newest items, none dropped needlessly.
THEOREM NewestAreKept == Spec => []NewestSurvive
<1>1. ASSUME Inv, step # "truncate", NEW k \in Sections
      PROVE  /\ \A n \in DOMAIN items[k] : items[k][n].from = Older(k) + n
             /\ source[k] # <<>> /\ items[k] = <<>> => step \in {"total", "done"} /\ dropped[k] > 0
             /\ items[k] # <<>> /\ dropped[k] > 0 =>
                  Size(<<Truncated(Older(k), source[k][Older(k)])>> \o items[k]) > SectionChars
  <2>1. /\ source[k] \in Seq(Items) /\ Len(source[k]) \in Nat
        /\ items[k] \in Seq(Shown) /\ Len(items[k]) \in Nat /\ DOMAIN items[k] = 1..Len(items[k])
        /\ dropped[k] \in Nat /\ Capped(k) \in Nat /\ Len(<<>>) = 0
        /\ source[k] # <<>> => Capped(k) < Len(source[k])
    BY <1>1, CapLeaves DEF Inv, TypeOK
  <2>2. /\ Len(source[k]) = Len(items[k]) + dropped[k] + Capped(k)
        /\ \A n \in DOMAIN items[k] : items[k][n] = Whole(k, Older(k) + n)
    BY <1>1 DEF Inv, Newest
  <2>3. ASSUME NEW n \in DOMAIN items[k] PROVE items[k][n].from = Older(k) + n
    <3>1. Older(k) + n \in 1..Len(source[k])
      BY <2>1, <2>2 DEF Older
    <3>2. source[k][Older(k) + n] \in Items /\ Older(k) + n \in Nat
      BY <2>1, <3>1
    <3>3. Whole(k, Older(k) + n).from = Older(k) + n
      BY <3>2, TruncatedType DEF Whole
    <3> QED
      BY <2>2, <3>3
  <2>4. source[k] # <<>> /\ items[k] = <<>> => dropped[k] > 0
    BY <2>1, <2>2
  <2> QED
    BY <1>1, <2>3, <2>4 DEF Inv, Newest, Whole
<1>2. Inv => NewestSurvive
  BY <1>1 DEF NewestSurvive, Older
<1> QED
  BY <1>2, Invariance, PTL

\* Nothing goes missing without being counted.
THEOREM AllAreCounted == Spec => []AllCounted
<1>1. ASSUME Inv, step = "done", NEW k \in Sections
      PROVE  Len(source[k]) = Len(items[k]) + omitted[k]
  <2>1. /\ Len(source[k]) = Len(items[k]) + dropped[k] + Capped(k)
        /\ omitted[k] = dropped[k] + Capped(k)
    BY <1>1 DEF Inv, Newest, Counted
  <2>2. Len(items[k]) \in Nat /\ dropped[k] \in Nat /\ Capped(k) \in Nat
    BY <1>1, CapLeaves DEF Inv, TypeOK
  <2> QED
    BY <2>1, <2>2
<1>2. Inv => AllCounted
  BY <1>1 DEF AllCounted
<1> QED
  BY <1>2, Invariance, PTL

\* A protected section is never emptied, and no section before one of lower priority.
THEOREM UncertaintyIsKept == Spec => []UncertaintyKept
<1>1. Inv => UncertaintyKept
  BY DEF Inv, Ordered, UncertaintyKept
<1> QED
  BY <1>1, Invariance, PTL

\* A marker that has been opened in what an item shows is closed there.
THEOREM MarkersAreClosed == Spec => []MarkersClosed
<1>1. ASSUME Inv, NEW k \in Sections, NEW n \in DOMAIN items[k]
      PROVE  LET item == source[k][items[k][n].from]
             IN  item.open > 0 /\ item.open + PrefixChars - 1 <= items[k][n].shown
                   => item.close <= items[k][n].shown
  <2> DEFINE o == Older(k) + n
             item == source[k][o]
  <2>1. step # "truncate"
    BY <1>1 DEF Inv
  <2>2. /\ source[k] \in Seq(Items) /\ Len(source[k]) \in Nat
        /\ Len(items[k]) \in Nat /\ DOMAIN items[k] = 1..Len(items[k])
        /\ dropped[k] \in Nat /\ Capped(k) \in Nat
    BY <1>1, CapLeaves DEF Inv, TypeOK
  <2>3. /\ Len(source[k]) = Len(items[k]) + dropped[k] + Capped(k)
        /\ items[k][n] = Truncated(o, item)
    BY <1>1, <2>1 DEF Inv, Newest, Whole
  <2>4. o \in 1..Len(source[k])
    BY <1>1, <2>2, <2>3 DEF Older
  <2>5. item \in Items /\ o \in Nat
    BY <2>2, <2>4
  <2> HIDE DEF o, item
  <2>6. /\ items[k][n].from = o
        /\ items[k][n].shown = IF item.chars <= ItemChars THEN item.chars ELSE Cut(item)
    BY <2>3, <2>5, TruncatedType
  <2>7. item.open > 0 /\ item.open + PrefixChars - 1 <= items[k][n].shown
          => item.close <= items[k][n].shown
    BY <2>5, <2>6, CutWithin
  <2> QED
    BY <2>6, <2>7 DEF item
<1>2. Inv => MarkersClosed
  BY <1>1 DEF MarkersClosed
<1> QED
  BY <1>2, Invariance, PTL
-----------------------------------------------------------------------------
(* What the handoff may come to. *)

\* Layer 2 has been through the sections before at, and layer 3 has stopped because
\* the rest fits or nothing is left to drop.
Fit ==
    /\ step = "sections" => \A i \in 1..Len(Order) : i < at => ~ TooLong(Order[i])
    /\ step \in {"total", "done"} => \A k \in Sections : ~ TooLong(k)
    /\ step = "done" => total <= TotalChars \/ Droppable = {}

\* No later step makes a section too long again.
LEMMA FitStep == ASSUME Inv, Fit, [Next]_vars PROVE Fit'
<1>1. CASE UNCHANGED vars
  BY <1>1 DEF vars, Fit, TooLong, Droppable
<1>2. CASE Truncate
  BY <1>2 DEF Truncate, Inv, Counted, Fit
<1>3. CASE DropOldest
  <2>1. \A i \in 1..Len(Order) : i < at => items'[Order[i]] = items[Order[i]]
    BY <1>3, OrderFacts DEF DropOldest, Inv, TypeOK
  <2> QED
    BY <1>3, <2>1 DEF DropOldest, Fit, TooLong
<1>4. CASE NextSection
  BY <1>4, OrderFacts DEF NextSection, Inv, TypeOK, Fit, TooLong
<1>5. CASE Measure
  <2>1. /\ step = "sections" /\ step' = "total" /\ at \in Nat /\ at > Len(Order)
        /\ \A k \in Sections : TooLong(k)' = TooLong(k)
    BY <1>5, OrderFacts DEF Measure, Inv, TypeOK, TooLong
  <2>2. \A i \in 1..Len(Order) : i < at
    BY <2>1, OrderFacts
  <2> QED
    BY <2>1, <2>2, OrderFacts DEF Fit
<1>6. CASE DropSection
  <2>1. PICK a \in queue : items' = [items EXCEPT ![a] = <<>>]
    BY <1>6 DEF DropSection, Drop
  <2>2. \A k \in Sections : items'[k] = items[k] \/ items'[k] = <<>>
    BY <2>1 DEF Inv, TypeOK
  <2>3. ~ (Len(<<>>) > 1)
    OBVIOUS
  <2> QED
    BY <1>6, <2>2, <2>3 DEF DropSection, Drop, Fit, TooLong
<1>7. CASE Finish
  BY <1>7 DEF Finish, Inv, Ordered, Droppable, Fit, TooLong
<1> QED
  BY <1>1, <1>2, <1>3, <1>4, <1>5, <1>6, <1>7 DEF Next

\* No number has more digits than the bound.
LEMMA DigitsBound == ASSUME NEW n PROVE Digits(n) <= MaxDigits
<1> DEFINE D == {d \in 0..(MaxDigits - 1) : 10^d <= n}
<1>1. MaxDigits = 8 /\ MaxDigits - 1 = 7
  BY DEF MaxDigits
<1>2. IsFiniteSet(0..7) /\ Cardinality(0..7) = 8
  <2>1. 0 \in Int /\ 7 \in Int /\ ~ (0 > 7) /\ 7 - 0 + 1 = 8
    OBVIOUS
  <2> QED
    BY <2>1, FS_Interval
<1>3. Cardinality(D) <= 8
  <2>1. D \in SUBSET (0..7)
    BY <1>1
  <2> HIDE DEF D
  <2> QED
    BY <1>2, <2>1, FS_Subset
<1> QED
  BY <1>1, <1>3 DEF Digits

\* No item is longer than one line.
LEMMA LineFits ==
    ASSUME NEW n \in Nat, NEW item \in Items
    PROVE  Truncated(n, item).chars <= LineRoom
<1>1. Digits(item.chars - Cut(item)) \in Nat /\ Digits(item.chars - Cut(item)) <= MaxDigits
  BY DigitsType, DigitsBound
<1> QED
  BY <1>1, CutWithin, BudgetAssumption DEF Truncated, SuffixChars, LineRoom, MaxDigits

\* When layer 3 has nothing left to drop, no section takes more than its room.
LEMMA RoomEnough ==
    ASSUME Inv, Fit, step = "done", Droppable = {}, NEW k \in Sections
    PROVE  Weight(items[k], dropped[k]) <= Room(k) /\ Room(k) \in Int
<1> DEFINE s == items[k]
           d == dropped[k]
<1>1. /\ s \in Seq(Shown) /\ Len(s) \in Nat /\ d \in Nat /\ Capped(k) \in Nat
      /\ source[k] \in Seq(Items) /\ Len(source[k]) \in Nat
      /\ Len(source[k]) = Len(s) + d + Capped(k) /\ DOMAIN s = 1..Len(s)
  <2>1. s \in Seq(Shown) /\ source[k] \in Seq(Items) /\ d \in Nat /\ Capped(k) \in Nat
    BY CapLeaves DEF Inv, TypeOK
  <2>2. Len(source[k]) = Len(s) + d + Capped(k)
    BY DEF Inv, Newest
  <2> QED
    BY <2>1, <2>2
<1>2. MarkerChars(d) \in Nat /\ MarkerChars(d) <= MarkerRoom
  BY DigitsType, DigitsBound DEF MarkerChars, MarkerRoom, MaxDigits
<1>3. Size(<<>>) = 0 /\ Size(s) \in Int
  BY <1>1, SizeFacts
<1>4. /\ LineRoom \in Nat /\ MarkerRoom \in Nat /\ SectionChars \in Nat /\ Protected \in Nat
      /\ Priority[k] \in Nat /\ Room(k) \in Int
  BY BudgetAssumption DEF LineRoom, MarkerRoom, MaxDigits, Room
<1>5. CASE Priority[k] > Protected
  <2>1. s = <<>>
    BY <1>5 DEF Droppable
  <2> QED
    BY <1>2, <1>3, <1>4, <1>5, <2>1 DEF Weight, Room
<1>6. CASE Priority[k] <= Protected
  <2>1. s = <<>> => source[k] = <<>>
    BY <1>4, <1>6 DEF Inv, Ordered
  <2>2. Len(s) = 1 => Size(s) <= LineRoom
    <3> SUFFICES ASSUME Len(s) = 1 PROVE Size(s) <= LineRoom
      OBVIOUS
    <3> DEFINE o == Older(k) + 1
    <3>1. s[1] = Truncated(o, source[k][o])
      <4>1. 1 \in DOMAIN s
        BY <1>1
      <4> QED
        BY <4>1 DEF Inv, Newest, Whole
    <3>2. o \in 1..Len(source[k])
      BY <1>1 DEF Older
    <3>3. s[1] \in Shown /\ s[1].chars <= LineRoom
      BY <1>1, <3>1, <3>2, LineFits
    <3>4. s = Append(<<>>, s[1]) /\ <<>> \in Seq(Shown)
      BY <1>1
    <3>5. Size(Append(<<>>, s[1])) = Size(<<>>) + s[1].chars + 0
      BY <3>3, <3>4, SizeFacts
    <3>6. s[1].chars \in Int
      BY <3>3 DEF Shown
    <3> HIDE DEF s
    <3> QED
      BY <1>3, <3>3, <3>4, <3>5, <3>6
  <2>3. s = <<>> => d = 0 /\ Size(s) = 0
    <3>1. Len(<<>>) = 0
      OBVIOUS
    <3> QED
      BY <1>1, <1>3, <2>1, <3>1
  <2>4. s = <<>> \/ Len(s) = 1 \/ Len(s) > 1
    <3>1. PICK n \in Nat : n = Len(s)
      BY <1>1
    <3>2. s # <<>> => n # 0
      BY <1>1, <3>1
    <3>3. n = 0 \/ n = 1 \/ n > 1
      OBVIOUS
    <3> QED
      BY <3>1, <3>2, <3>3, Zenon
  <2>5. CASE \A f \in Inputs : Len(f[k]) <= 1
    <3>1. Len(source[k]) <= 1
      BY <2>5 DEF Inv, TypeOK
    <3>2. d = 0 /\ Size(s) <= LineRoom
      <4>1. Len(s) <= 1 /\ (Len(s) = 1 => d = 0)
        BY <1>1, <3>1
      <4> HIDE DEF s, d
      <4> QED
        BY <1>4, <2>2, <2>3, <2>4, <4>1
    <3> QED
      BY <1>3, <1>4, <1>6, <2>5, <3>2 DEF Weight, Room
  <2>6. CASE ~ \A f \in Inputs : Len(f[k]) <= 1
    <3> DEFINE most == IF LineRoom > SectionChars THEN LineRoom ELSE SectionChars
    <3>1. ~ (Size(s) > SectionChars /\ Len(s) > 1)
      BY DEF Fit, TooLong
    <3>2. most \in Nat /\ LineRoom <= most /\ SectionChars <= most
      BY <1>4
    <3>3. Room(k) = most + 1 + MarkerRoom
      BY <1>4, <1>6, <2>6 DEF Room
    <3> HIDE DEF most
    <3>4. Size(s) <= most
      <4> HIDE DEF s
      <4> QED
        BY <1>3, <1>4, <2>2, <2>3, <2>4, <3>1, <3>2
    <3> QED
      BY <1>2, <1>3, <1>4, <3>2, <3>3, <3>4 DEF Weight
  <2> QED
    BY <2>5, <2>6
<1> QED
  BY <1>4, <1>5, <1>6

\* A handoff fits, as soon as the limits leave room for what is protected and for the
\* markers of all the rest.
THEOREM HandoffsFit == Spec => []AlwaysFits
<1>1. Init => Fit
  BY DEF Init, Fit
<1>2. Spec => []Fit
  BY <1>1, FitStep, Invariance, PTL DEF Spec
<1>3. ASSUME Inv, Fit, step = "done" PROVE BoundedChars <= TotalChars
  <2>1. CASE total <= TotalChars
    BY <1>3, <2>1 DEF Inv, TotalExact
  <2>2. CASE Droppable = {}
    <3> DEFINE rooms == [k \in Sections |-> Room(k)]
    <3>1. /\ \A k \in Sections : Weights[k] \in Int
          /\ \A k \in Sections : rooms[k] \in Int
          /\ \A k \in Sections : Weights[k] <= rooms[k]
      BY <1>3, <2>2, RoomEnough, WeightsType DEF Inv, Weights
    <3>2. DOMAIN rooms = Sections /\ SumFunctionOnSet(rooms, Sections) <= TotalChars
      BY LimitsAssumption DEF SumFunction
    <3> HIDE DEF rooms
    <3>3. SumFunctionOnSet(Weights, Sections) <= SumFunctionOnSet(rooms, Sections)
      BY <3>1, OrderFacts, SumMonotone
    <3>4. /\ SumFunctionOnSet(Weights, Sections) \in Int
          /\ SumFunctionOnSet(rooms, Sections) \in Int
      BY <3>1, OrderFacts, SumRemove
    <3>5. TotalChars \in Int
      BY BudgetAssumption
    <3> QED
      BY <1>3, <3>2, <3>3, <3>4, <3>5, BoundedIs DEF Inv
  <2> QED
    BY <1>3, <2>1, <2>2 DEF Fit
<1>4. Inv /\ Fit => AlwaysFits
  BY <1>3 DEF AlwaysFits
<1> QED
  BY <1>2, <1>4, Invariance, PTL
=============================================================================

--------------------------- MODULE ListingLemmas ---------------------------
(***************************************************************************)
(* Lemmas about listings: the first free ordinal is above every ordinal,   *)
(* renumbering keeps the order, and appended rows are out of the reach of  *)
(* any bound that was drawn before.                                        *)
(***************************************************************************)
EXTENDS Listings, Integers, FiniteSetTheorems, WellFoundedInduction, TLAPS

\* Every nonempty set of naturals has a least element.
LEMMA NatLeast ==
    ASSUME NEW T \in SUBSET Nat, T # {}
    PROVE  \E m \in T : \A n \in T : m <= n
<1>1. PICK m \in T : \A n \in T : ~ (<<n, m>> \in OpToRel(<, Nat))
  BY NatLessThanWellFounded, WFMin
<1>2. \A n \in T : ~ (n < m)
  BY <1>1 DEF OpToRel
<1> QED
  BY <1>2

\* A set that holds 0 and the successor of each of its numbers holds all.
LEMMA NatInduct ==
    ASSUME NEW P, 0 \in P, \A n \in Nat : n \in P => n + 1 \in P
    PROVE  Nat \subseteq P
<1> DEFINE Bad == Nat \ P
<1> SUFFICES ASSUME Bad # {} PROVE FALSE
  OBVIOUS
<1>1. PICK m \in Bad : \A n \in Bad : ~ (<<n, m>> \in OpToRel(<, Nat))
  BY NatLessThanWellFounded, WFMin
<1>2. \A n \in Bad : ~ (n < m)
  BY <1>1 DEF OpToRel
<1>3. m \in Nat /\ m # 0 /\ m - 1 \in Nat
  <2>1. m \in Nat /\ m \notin P
    BY <1>1
  <2>2. m # 0
    BY <2>1
  <2> QED
    BY <2>1, <2>2
<1>4. m - 1 \in P
  BY <1>2, <1>3
<1> QED
  BY <1>3, <1>4

\* Finitely many naturals are bounded (by induction on their number, as the
\* absence of a least counterexample).
LEMMA BoundedRange ==
    ASSUME NEW n \in Nat, NEW g \in [1..n -> Nat]
    PROVE  \E b \in Nat : \A i \in 1..n : g[i] <= b
<1> DEFINE Bounded(k) == \E b \in Nat : \A i \in 1..n : i <= k => g[i] <= b
           Bad == {k \in 0..n : ~ Bounded(k)}
<1>1. Bad = {}
  <2> SUFFICES ASSUME Bad # {} PROVE FALSE
    OBVIOUS
  <2> HIDE DEF Bounded
  <2>1. PICK k \in Bad : \A j \in Bad : k <= j
    <3>1. Bad \in SUBSET Nat
      OBVIOUS
    <3> QED
      BY <3>1, NatLeast
  <2>2. k \in 0..n /\ ~ Bounded(k)
    OBVIOUS
  <2>3. k # 0
    <3>1. Bounded(0)
      BY DEF Bounded
    <3> QED
      BY <2>2, <3>1
  <2>4. k - 1 \in 0..n /\ k \in 1..n
    BY <2>2, <2>3
  <2>5. Bounded(k - 1)
    <3>1. k - 1 \notin Bad
      BY <2>1, <2>4
    <3> QED
      BY <2>4, <3>1
  <2>6. PICK b \in Nat : \A i \in 1..n : i <= k - 1 => g[i] <= b
    BY <2>5 DEF Bounded
  <2> DEFINE c == IF g[k] <= b THEN b ELSE g[k]
  <2>7. c \in Nat /\ b <= c /\ g[k] <= c
    BY <2>4
  <2>8. \A i \in 1..n : i <= k => g[i] <= c
    <3> HIDE DEF c
    <3> TAKE i \in 1..n
    <3> HAVE i <= k
    <3>1. CASE i = k
      BY <3>1, <2>7
    <3>2. CASE i # k
      <4>1. i <= k - 1
        BY <3>2, <2>4
      <4> QED
        BY <4>1, <2>6, <2>7
    <3> QED
      BY <3>1, <3>2
  <2>9. Bounded(k)
    BY <2>7, <2>8 DEF Bounded
  <2> QED
    BY <2>2, <2>9
<1>2. Bounded(n)
  <2> HIDE DEF Bounded
  <2>1. n \in 0..n
    OBVIOUS
  <2> QED
    BY <1>1, <2>1
<1> QED
  BY <1>2

\* The ordinals of a finite listing are bounded.
LEMMA ListingBounded ==
    ASSUME NEW S, IsFiniteSet(S), NEW l, IsListing(l, S)
    PROVE  \E b \in Nat : \A e \in DOMAIN l : l[e] <= b
<1> DEFINE D == DOMAIN l
<1>1. IsFiniteSet(D)
  BY FS_Subset DEF IsListing
<1>2. PICK n \in Nat : ExistsSurjection(1..n, D)
  BY <1>1, FS_NatSurjection
<1>3. PICK f \in [1..n -> D] : \A e \in D : \E i \in 1..n : f[i] = e
  BY <1>2 DEF ExistsSurjection, Surjection
<1> DEFINE g == [i \in 1..n |-> l[f[i]]]
<1>4. g \in [1..n -> Nat]
  BY DEF IsListing
<1>5. PICK b \in Nat : \A i \in 1..n : g[i] <= b
  BY <1>4, BoundedRange
<1> QED
  BY <1>3, <1>5

\* A finite nonempty listing has a last id.
LEMMA ListingHasMax ==
    ASSUME NEW S, IsFiniteSet(S), NEW l, IsListing(l, S), DOMAIN l # {}
    PROVE  \E e \in DOMAIN l : \A d \in DOMAIN l : l[d] <= l[e]
<1> DEFINE Bounds == {b \in Nat : \A e \in DOMAIN l : l[e] <= b}
<1>1. Bounds \in SUBSET Nat /\ Bounds # {}
  BY ListingBounded
<1>2. PICK b \in Bounds : \A c \in Bounds : b <= c
  BY <1>1, NatLeast
<1>3. \A e \in DOMAIN l : l[e] \in Nat /\ l[e] <= b
  BY <1>2 DEF IsListing
<1>4. \E e \in DOMAIN l : l[e] = b
  <2> SUFFICES ASSUME \A e \in DOMAIN l : l[e] # b PROVE FALSE
    OBVIOUS
  <2>1. b # 0
    BY <1>3
  <2>2. b - 1 \in Bounds
    BY <1>2, <1>3, <2>1
  <2> QED
    BY <1>2, <2>2
<1> QED
  BY <1>3, <1>4

\* COALESCE(MAX(ordinal), -1) + 1 is a natural number above every ordinal.
LEMMA NextOrdinalAbove ==
    ASSUME NEW S, IsFiniteSet(S), NEW l, IsListing(l, S)
    PROVE  /\ NextOrdinal(l) \in Nat
           /\ \A e \in DOMAIN l : l[e] < NextOrdinal(l)
<1>1. CASE DOMAIN l = {}
  BY <1>1 DEF NextOrdinal
<1>2. CASE DOMAIN l # {}
  <2> DEFINE top == CHOOSE e \in DOMAIN l : \A d \in DOMAIN l : l[d] <= l[e]
  <2>1. top \in DOMAIN l /\ \A d \in DOMAIN l : l[d] <= l[top]
    BY <1>2, ListingHasMax
  <2>2. NextOrdinal(l) = 1 + l[top]
    BY <1>2 DEF NextOrdinal
  <2>3. \A e \in DOMAIN l : l[e] \in Nat
    BY DEF IsListing
  <2> HIDE DEF top
  <2> QED
    BY <2>1, <2>2, <2>3
<1> QED
  BY <1>1, <1>2

\* Renumber(l, known, base) lists the fresh ids from base on, in l's order.
LEMMA RenumberProps ==
    ASSUME NEW S, IsFiniteSet(S), NEW l, IsListing(l, S), NEW known, NEW base \in Nat
    PROVE  /\ IsListing(Renumber(l, known, base), S)
           /\ \A e \in DOMAIN l \ known : base <= Renumber(l, known, base)[e]
           /\ \A d, e \in DOMAIN l \ known :
                l[d] < l[e] => Renumber(l, known, base)[d] < Renumber(l, known, base)[e]
<1> DEFINE fresh == DOMAIN l \ known
           before(e) == {d \in fresh : l[d] < l[e]}
           r == Renumber(l, known, base)
<1>1. r = [e \in fresh |-> base + Cardinality(before(e))]
  BY DEF Renumber
<1>2. fresh \subseteq S /\ IsFiniteSet(fresh)
  BY FS_Subset DEF IsListing
<1>3. \A e \in fresh : l[e] \in Nat
  BY DEF IsListing
<1>4. \A e \in fresh : IsFiniteSet(before(e)) /\ Cardinality(before(e)) \in Nat
  <2> TAKE e \in fresh
  <2>1. before(e) \in SUBSET fresh
    OBVIOUS
  <2>2. IsFiniteSet(before(e))
    BY <1>2, <2>1, FS_Subset
  <2> QED
    BY <2>2, FS_CardinalityType
<1> DEFINE count(e) == Cardinality(before(e))
<1>a. \A e \in fresh : count(e) \in Nat /\ r[e] = base + count(e)
  BY <1>1, <1>4
<1>5. \A e \in fresh : r[e] \in Nat /\ base <= r[e]
  <2> HIDE DEF r, count
  <2> QED
    BY <1>a
<1>6. \A d, e \in fresh : l[d] < l[e] => r[d] < r[e]
  <2> TAKE d, e \in fresh
  <2> HAVE l[d] < l[e]
  <2>1. before(d) \in SUBSET before(e)
    BY <1>3
  <2>2. d \in before(e) /\ d \notin before(d)
    BY <1>3
  <2>3. Cardinality(before(d)) <= Cardinality(before(e))
    BY <1>4, <2>1, FS_Subset
  <2>4. Cardinality(before(d)) # Cardinality(before(e))
    BY <1>4, <2>1, <2>2, FS_Subset
  <2>5. count(d) < count(e)
    BY <1>4, <2>3, <2>4
  <2> HIDE DEF r, count
  <2> QED
    BY <1>a, <2>5
<1> HIDE DEF before
<1>7. DOMAIN r = fresh /\ r \in [fresh -> Nat]
  BY <1>1, <1>4
<1> HIDE DEF r
<1>8. IsListing(r, S)
  BY <1>2, <1>7 DEF IsListing
<1> QED
  BY <1>5, <1>6, <1>7, <1>8 DEF r

\* Renumbering a listing without ties gives one without ties.
LEMMA RenumberDistinct ==
    ASSUME NEW S, IsFiniteSet(S), NEW l, IsListing(l, S), Distinct(l),
           NEW known, NEW base \in Nat
    PROVE  Distinct(Renumber(l, known, base))
<1> DEFINE r == Renumber(l, known, base)
<1>1. /\ IsListing(r, S)
      /\ \A d, e \in DOMAIN l \ known : l[d] < l[e] => r[d] < r[e]
  BY RenumberProps
<1>a. DOMAIN r = DOMAIN l \ known
  BY DEF Renumber
<1> HIDE DEF r
<1>2. SUFFICES ASSUME NEW d \in DOMAIN r, NEW e \in DOMAIN r, r[d] = r[e]
               PROVE  d = e
  BY DEF Distinct, r
<1>3. l[d] \in Nat /\ l[e] \in Nat /\ r[d] \in Nat /\ r[e] \in Nat
  BY <1>1, <1>a DEF IsListing
<1>4. ~ (l[d] < l[e]) /\ ~ (l[e] < l[d])
  BY <1>1, <1>a, <1>2, <1>3
<1>5. l[d] = l[e]
  BY <1>3, <1>4
<1> QED
  BY <1>a, <1>5 DEF Distinct

\* INSERT OR IGNORE of rows whose ordinals are at or above base keeps every row,
\* adds rows above the old ones only, and leaves what a bound up to base covers.
LEMMA InsertAbove ==
    ASSUME NEW S, NEW l, IsListing(l, S), NEW more, IsListing(more, S),
           NEW base \in Nat,
           \A e \in DOMAIN l : l[e] < base,
           \A e \in DOMAIN more : base <= more[e]
    PROVE  /\ IsListing(InsertOrIgnore(l, more), S)
           /\ \A e \in DOMAIN l : InsertOrIgnore(l, more)[e] = l[e]
           /\ \A e \in DOMAIN more \ DOMAIN l : base <= InsertOrIgnore(l, more)[e]
           /\ Distinct(l) /\ Distinct(more) => Distinct(InsertOrIgnore(l, more))
           /\ \A bound \in 0..base : Below(InsertOrIgnore(l, more), bound) = Below(l, bound)
<1> DEFINE r == InsertOrIgnore(l, more)
<1>1. /\ DOMAIN r = DOMAIN l \cup DOMAIN more
      /\ \A e \in DOMAIN r : r[e] = IF e \in DOMAIN l THEN l[e] ELSE more[e]
      /\ r = [e \in DOMAIN r |-> r[e]]
  BY DEF InsertOrIgnore
<1> HIDE DEF r
<1>2. /\ \A e \in DOMAIN l : l[e] \in Nat
      /\ \A e \in DOMAIN more : more[e] \in Nat
      /\ DOMAIN l \subseteq S /\ DOMAIN more \subseteq S
  BY DEF IsListing
<1>3. IsListing(r, S)
  BY <1>1, <1>2 DEF IsListing
<1>4. \A e \in DOMAIN l : r[e] = l[e]
  BY <1>1
<1>5. \A e \in DOMAIN more \ DOMAIN l : base <= r[e]
  BY <1>1
<1>6. ASSUME Distinct(l), Distinct(more) PROVE Distinct(r)
  <2> SUFFICES ASSUME NEW d \in DOMAIN r, NEW e \in DOMAIN r, r[d] = r[e] PROVE d = e
    BY DEF Distinct
  <2>1. CASE d \in DOMAIN l /\ e \in DOMAIN l
    BY <2>1, <1>1, <1>6 DEF Distinct
  <2>2. CASE d \notin DOMAIN l /\ e \notin DOMAIN l
    BY <2>2, <1>1, <1>6 DEF Distinct
  <2>3. CASE d \in DOMAIN l /\ e \notin DOMAIN l
    BY <2>3, <1>1, <1>2
  <2>4. CASE d \notin DOMAIN l /\ e \in DOMAIN l
    BY <2>4, <1>1, <1>2
  <2> QED
    BY <2>1, <2>2, <2>3, <2>4
<1>7. ASSUME NEW bound \in 0..base PROVE Below(r, bound) = Below(l, bound)
  <2>1. {e \in DOMAIN r : r[e] < bound} = {e \in DOMAIN l : l[e] < bound}
    BY <1>1, <1>2
  <2> QED
    BY <2>1, <1>4 DEF Below
<1> QED
  BY <1>1, <1>3, <1>4, <1>5, <1>6, <1>7 DEF r

\* A bound above every ordinal covers the whole listing.
LEMMA BelowAll ==
    ASSUME NEW S, NEW l, IsListing(l, S), NEW bound \in Nat,
           \A e \in DOMAIN l : l[e] < bound
    PROVE  Below(l, bound) = l
<1>1. {e \in DOMAIN l : l[e] < bound} = DOMAIN l
  OBVIOUS
<1> QED
  BY <1>1 DEF Below, IsListing

\* Restricting a listing leaves a listing, without ties if there were none.
LEMMA BelowProps ==
    ASSUME NEW S, NEW l, IsListing(l, S), NEW bound \in Nat
    PROVE  /\ IsListing(Below(l, bound), S)
           /\ \A e : e \in DOMAIN Below(l, bound) <=> e \in DOMAIN l /\ l[e] < bound
           /\ \A e \in DOMAIN Below(l, bound) : Below(l, bound)[e] = l[e]
           /\ Distinct(l) => Distinct(Below(l, bound))
           /\ \A b \in 0..bound : Below(Below(l, bound), b) = Below(l, b)
<1> DEFINE r == Below(l, bound)
<1>1. /\ DOMAIN r = {e \in DOMAIN l : l[e] < bound}
      /\ \A e \in DOMAIN r : r[e] = l[e]
      /\ r = [e \in DOMAIN r |-> r[e]]
  BY DEF Below
<1> HIDE DEF r
<1>2. \A e \in DOMAIN l : l[e] \in Nat /\ e \in S
  BY DEF IsListing
<1>3. IsListing(r, S)
  BY <1>1, <1>2 DEF IsListing
<1>4. Distinct(l) => Distinct(r)
  BY <1>1 DEF Distinct
<1>5. ASSUME NEW b \in 0..bound PROVE Below(r, b) = Below(l, b)
  <2>1. {e \in DOMAIN r : r[e] < b} = {e \in DOMAIN l : l[e] < b}
    BY <1>1, <1>2
  <2> QED
    BY <1>1, <2>1 DEF Below
<1> QED
  BY <1>1, <1>3, <1>4, <1>5 DEF r

\* array.filter keeps a listing a listing.
LEMMA OnlyProps ==
    ASSUME NEW S, NEW l, IsListing(l, S), NEW ids
    PROVE  /\ IsListing(Only(l, ids), S)
           /\ \A e : e \in DOMAIN Only(l, ids) <=> e \in DOMAIN l /\ e \in ids
           /\ \A e \in DOMAIN Only(l, ids) : Only(l, ids)[e] = l[e]
BY DEF Only, IsListing

\* AppendAll (attachObservedWork) lists the ids of both lists, and no others.
LEMMA AppendAllDomain ==
    ASSUME NEW l, NEW more
    PROVE  DOMAIN AppendAll(l, more) = DOMAIN l \cup DOMAIN more
BY DEF AppendAll, InsertOrIgnore, Renumber

\* Appending the ids that l lacks keeps l and puts them beyond any bound on l.
LEMMA AppendAllProps ==
    ASSUME NEW S, IsFiniteSet(S), NEW l, IsListing(l, S), NEW more, IsListing(more, S)
    PROVE  /\ IsListing(AppendAll(l, more), S)
           /\ \A e \in DOMAIN l : AppendAll(l, more)[e] = l[e]
           /\ Distinct(l) /\ Distinct(more) => Distinct(AppendAll(l, more))
           /\ \A bound \in 0..NextOrdinal(l) : Below(AppendAll(l, more), bound) = Below(l, bound)
<1> DEFINE base == NextOrdinal(l)
           fresh == Renumber(more, DOMAIN l, base)
<1>1. base \in Nat /\ \A e \in DOMAIN l : l[e] < base
  BY NextOrdinalAbove
<1> HIDE DEF base
<1>2. /\ IsListing(fresh, S)
      /\ \A e \in DOMAIN more \ DOMAIN l : base <= fresh[e]
  BY <1>1, RenumberProps
<1>a. DOMAIN fresh = DOMAIN more \ DOMAIN l
  BY DEF Renumber
<1>3. Distinct(more) => Distinct(fresh)
  BY <1>1, RenumberDistinct
<1> HIDE DEF fresh
<1> DEFINE r == InsertOrIgnore(l, fresh)
<1>4. /\ IsListing(r, S)
      /\ \A e \in DOMAIN l : r[e] = l[e]
      /\ Distinct(l) /\ Distinct(fresh) => Distinct(r)
      /\ \A bound \in 0..base : Below(r, bound) = Below(l, bound)
  BY <1>1, <1>2, <1>a, InsertAbove
<1>5. AppendAll(l, more) = r
  BY DEF AppendAll, fresh, base
<1> HIDE DEF r
<1> QED
  BY <1>a, <1>3, <1>4, <1>5 DEF base

\* NextOrdinal is the least number above every ordinal.
LEMMA NextOrdinalLeast ==
    ASSUME NEW S, IsFiniteSet(S), NEW l, IsListing(l, S), NEW n \in Nat,
           \A e \in DOMAIN l : l[e] < n
    PROVE  NextOrdinal(l) <= n
<1>1. CASE DOMAIN l = {}
  BY <1>1 DEF NextOrdinal
<1>2. CASE DOMAIN l # {}
  <2> DEFINE top == CHOOSE e \in DOMAIN l : \A d \in DOMAIN l : l[d] <= l[e]
  <2>1. \E e \in DOMAIN l : \A d \in DOMAIN l : l[d] <= l[e]
    BY <1>2, ListingHasMax
  <2>2. top \in DOMAIN l
    BY <2>1
  <2>3. NextOrdinal(l) = 1 + l[top]
    BY <1>2 DEF NextOrdinal
  <2>4. l[top] \in Nat /\ l[top] < n
    BY <2>2 DEF IsListing
  <2> HIDE DEF top
  <2> QED
    BY <2>3, <2>4
<1> QED
  BY <1>1, <1>2

\* What a bound covers is numbered below the bound and below the end.
LEMMA BelowNextOrdinal ==
    ASSUME NEW S, IsFiniteSet(S), NEW l, IsListing(l, S), NEW bound \in Nat
    PROVE  NextOrdinal(Below(l, bound)) <= NextOrdinal(l)
<1> DEFINE r == Below(l, bound)
<1>1. IsListing(r, S) /\ \A e \in DOMAIN r : e \in DOMAIN l /\ r[e] = l[e]
  BY BelowProps
<1>2. NextOrdinal(l) \in Nat /\ \A e \in DOMAIN l : l[e] < NextOrdinal(l)
  BY NextOrdinalAbove
<1> HIDE DEF r
<1>3. NextOrdinal(r) <= NextOrdinal(l)
  BY <1>1, <1>2, NextOrdinalLeast
<1> QED
  BY <1>3 DEF r
-----------------------------------------------------------------------------
(* The order that appending gives, and lists without gaps. *)

\* Appended ids come after all the old ones, in their order among themselves.
LEMMA AppendAllOrder ==
    ASSUME NEW S, IsFiniteSet(S), NEW l, IsListing(l, S), NEW more, IsListing(more, S)
    PROVE  /\ \A e \in DOMAIN more \ DOMAIN l :
                /\ AppendAll(l, more)[e] = Renumber(more, DOMAIN l, NextOrdinal(l))[e]
                /\ NextOrdinal(l) <= AppendAll(l, more)[e]
                /\ \A d \in DOMAIN l : AppendAll(l, more)[d] < AppendAll(l, more)[e]
           /\ \A d, e \in DOMAIN more \ DOMAIN l :
                more[d] < more[e] => AppendAll(l, more)[d] < AppendAll(l, more)[e]
<1> DEFINE base == NextOrdinal(l)
           fresh == Renumber(more, DOMAIN l, base)
           r == AppendAll(l, more)
<1>1. base \in Nat /\ \A e \in DOMAIN l : l[e] < base
  BY NextOrdinalAbove
<1> HIDE DEF base
<1>2. /\ IsListing(fresh, S)
      /\ \A e \in DOMAIN more \ DOMAIN l : base <= fresh[e]
      /\ \A d, e \in DOMAIN more \ DOMAIN l : more[d] < more[e] => fresh[d] < fresh[e]
  BY <1>1, RenumberProps
<1>3. DOMAIN fresh = DOMAIN more \ DOMAIN l
  BY DEF Renumber
<1> HIDE DEF fresh
<1>4. r = InsertOrIgnore(l, fresh)
  BY DEF AppendAll, fresh, base
<1>5. /\ \A e \in DOMAIN l : r[e] = l[e]
      /\ \A e \in DOMAIN more \ DOMAIN l : r[e] = fresh[e]
  BY <1>3, <1>4 DEF InsertOrIgnore
<1> HIDE DEF r
<1>6. \A e \in DOMAIN l : l[e] \in Nat
  BY DEF IsListing
<1>7. \A e \in DOMAIN fresh : fresh[e] \in Nat
  BY <1>2 DEF IsListing
<1> QED
  BY <1>1, <1>2, <1>3, <1>5, <1>6, <1>7 DEF r, fresh, base

\* Appending what has been appended already to the same list changes nothing more.
LEMMA AppendAllTwice ==
    ASSUME NEW S, IsFiniteSet(S), NEW l, IsListing(l, S), NEW more, IsListing(more, S),
           Distinct(more)
    PROVE  AppendAll(l, AppendAll(l, more)) = AppendAll(l, more)
<1>1. PICK m, base, fresh : /\ m = AppendAll(l, more) /\ base = NextOrdinal(l)
                            /\ fresh = DOMAIN more \ DOMAIN l
  OBVIOUS
<1>2. /\ DOMAIN m = DOMAIN l \cup DOMAIN more
      /\ DOMAIN m \ DOMAIN l = fresh
  BY <1>1, AppendAllDomain
<1>3. \A d, e \in fresh : more[d] < more[e] => m[d] < m[e]
  BY <1>1, AppendAllOrder
<1>4. IsListing(m, S)
  BY <1>1, AppendAllProps
<1>5. \A d, e \in fresh : m[d] < m[e] <=> more[d] < more[e]
  <2> SUFFICES ASSUME NEW d \in fresh, NEW e \in fresh, m[d] < m[e], ~ (more[d] < more[e])
               PROVE  FALSE
    BY <1>3
  <2>1. more[d] \in Nat /\ more[e] \in Nat
    BY <1>1 DEF IsListing
  <2>2. m[d] \in Nat /\ m[e] \in Nat
    BY <1>2, <1>4 DEF IsListing
  <2>3. more[e] < more[d] \/ d = e
    BY <1>1, <2>1 DEF Distinct
  <2> QED
    BY <1>3, <2>2, <2>3
<1>6. \A e \in fresh : {d \in fresh : m[d] < m[e]} = {d \in fresh : more[d] < more[e]}
  BY <1>5
<1>7. Renumber(m, DOMAIN l, base) = Renumber(more, DOMAIN l, base)
  BY <1>1, <1>2, <1>6 DEF Renumber
<1> QED
  BY <1>1, <1>7 DEF AppendAll

\* The first free ordinal after a list without gaps is the number of its ids.
LEMMA DenseNext ==
    ASSUME NEW S, IsFiniteSet(S), NEW l, IsListing(l, S), Distinct(l), Dense(l)
    PROVE  NextOrdinal(l) = Cardinality(DOMAIN l)
<1>1. CASE DOMAIN l = {}
  BY <1>1, FS_EmptySet DEF NextOrdinal
<1>2. CASE DOMAIN l # {}
  <2> DEFINE top == CHOOSE e \in DOMAIN l : \A d \in DOMAIN l : l[d] <= l[e]
  <2>1. top \in DOMAIN l /\ \A d \in DOMAIN l : l[d] <= l[top]
    BY <1>2, ListingHasMax
  <2>2. NextOrdinal(l) = 1 + l[top]
    BY <1>2 DEF NextOrdinal
  <2> HIDE DEF top
  <2>3. \A e \in DOMAIN l : l[e] \in Nat
    BY DEF IsListing
  <2>4. {d \in DOMAIN l : l[d] < l[top]} = DOMAIN l \ {top}
    <3>1. ASSUME NEW d \in DOMAIN l, d # top PROVE l[d] < l[top]
      <4>1. l[d] # l[top]
        BY <2>1, <3>1 DEF Distinct
      <4> QED
        BY <2>1, <2>3, <4>1
    <3> QED
      BY <2>1, <2>3, <3>1
  <2>5. IsFiniteSet(DOMAIN l)
    BY FS_Subset DEF IsListing
  <2>6. Cardinality(DOMAIN l \ {top}) = Cardinality(DOMAIN l) - 1 /\ Cardinality(DOMAIN l) \in Nat
    BY <2>1, <2>5, FS_RemoveElement, FS_CardinalityType
  <2>7. l[top] = Cardinality(DOMAIN l \ {top})
    BY <2>1, <2>4 DEF Dense
  <2> QED
    BY <2>2, <2>6, <2>7
<1> QED
  BY <1>1, <1>2

\* Appending leaves no gap.
LEMMA AppendAllDense ==
    ASSUME NEW S, IsFiniteSet(S), NEW l, IsListing(l, S), NEW more, IsListing(more, S),
           Distinct(l), Dense(l), Distinct(more)
    PROVE  Dense(AppendAll(l, more))
<1>1. PICK r, base, fresh : /\ r = AppendAll(l, more) /\ base = NextOrdinal(l)
                            /\ fresh = DOMAIN more \ DOMAIN l
  OBVIOUS
<1>2. /\ DOMAIN r = DOMAIN l \cup fresh /\ IsListing(r, S)
      /\ \A e \in DOMAIN l : r[e] = l[e]
  BY <1>1, AppendAllDomain, AppendAllProps
<1>3. \A e \in DOMAIN r : r[e] \in Nat
  BY <1>2 DEF IsListing
<1>4. /\ \A e \in fresh : /\ r[e] = Renumber(more, DOMAIN l, base)[e]
                          /\ \A d \in DOMAIN l : r[d] < r[e]
      /\ \A d, e \in fresh : more[d] < more[e] => r[d] < r[e]
  BY <1>1, AppendAllOrder
<1>5. \A e \in fresh : r[e] = base + Cardinality({d \in fresh : more[d] < more[e]})
  BY <1>1, <1>4 DEF Renumber
<1>6. base = Cardinality(DOMAIN l)
  BY <1>1, DenseNext
<1>7. IsFiniteSet(DOMAIN l) /\ IsFiniteSet(fresh)
  BY <1>1, FS_Subset DEF IsListing
<1>8. ASSUME NEW e \in DOMAIN l PROVE r[e] = Cardinality({d \in DOMAIN r : r[d] < r[e]})
  <2>1. {d \in DOMAIN r : r[d] < r[e]} = {d \in DOMAIN l : l[d] < l[e]}
    BY <1>2, <1>3, <1>4, <1>8
  <2> QED
    BY <1>2, <2>1 DEF Dense
<1>9. ASSUME NEW e \in fresh PROVE r[e] = Cardinality({d \in DOMAIN r : r[d] < r[e]})
  <2>1. PICK before : before = {d \in fresh : more[d] < more[e]}
    OBVIOUS
  <2>2. ASSUME NEW d \in fresh PROVE r[d] < r[e] <=> d \in before
    <3>1. more[d] \in Nat /\ more[e] \in Nat
      BY <1>1 DEF IsListing
    <3>2. more[d] < more[e] \/ more[e] < more[d] \/ d = e
      BY <1>1, <3>1 DEF Distinct
    <3>3. r[d] \in Nat /\ r[e] \in Nat
      BY <1>2, <1>3
    <3> QED
      BY <1>4, <2>1, <3>1, <3>2, <3>3
  <2>3. {d \in DOMAIN r : r[d] < r[e]} = DOMAIN l \cup before
    BY <1>2, <1>4, <2>1, <2>2
  <2>4. before \in SUBSET fresh
    BY <2>1
  <2>5. IsFiniteSet(before)
    BY <1>7, <2>4, FS_Subset
  <2>6. DOMAIN l \cap before = {}
    BY <1>1, <2>4
  <2>7. Cardinality(DOMAIN l \cup before) = Cardinality(DOMAIN l) + Cardinality(before) - 0
    BY <1>7, <2>5, <2>6, FS_Union, FS_EmptySet
  <2>8. Cardinality(DOMAIN l) \in Nat /\ Cardinality(before) \in Nat
    BY <1>7, <2>5, FS_CardinalityType
  <2>9. r[e] = base + Cardinality(before)
    BY <1>5, <1>9, <2>1
  <2>10. Cardinality({d \in DOMAIN r : r[d] < r[e]}) = Cardinality(DOMAIN l) + Cardinality(before)
    <3>1. Cardinality(DOMAIN l \cup before) = Cardinality(DOMAIN l) + Cardinality(before)
      BY <2>7, <2>8
    <3> QED
      BY <2>3, <3>1, Zenon
  <2> QED
    BY <1>6, <2>9, <2>10
<1>10. Dense(r)
  BY <1>2, <1>8, <1>9 DEF Dense
<1> QED
  BY <1>1, <1>10

\* A bound on the ordinals cuts a list, and leaves no gap.
LEMMA BelowDense ==
    ASSUME NEW S, NEW l, IsListing(l, S), NEW bound \in Nat, Dense(l)
    PROVE  Dense(Below(l, bound))
<1>1. PICK r : r = Below(l, bound)
  OBVIOUS
<1>2. /\ \A e : e \in DOMAIN r <=> e \in DOMAIN l /\ l[e] < bound
      /\ \A e \in DOMAIN r : r[e] = l[e]
  BY <1>1, BelowProps
<1>3. \A e \in DOMAIN l : l[e] \in Nat
  BY DEF IsListing
<1>4. ASSUME NEW e \in DOMAIN r
      PROVE  {d \in DOMAIN r : r[d] < r[e]} = {d \in DOMAIN l : l[d] < l[e]}
  BY <1>2, <1>3
<1>5. Dense(r)
  BY <1>2, <1>4 DEF Dense
<1> QED
  BY <1>1, <1>5

\* In a list without gaps or ties, the ordinals are exactly those below its length.
LEMMA DenseOrdinals ==
    ASSUME NEW S, IsFiniteSet(S), NEW l, IsListing(l, S), Distinct(l), Dense(l)
    PROVE  /\ Cardinality(DOMAIN l) \in Nat
           /\ \A e \in DOMAIN l : l[e] \in 0..(Cardinality(DOMAIN l) - 1)
           /\ \A i \in 0..(Cardinality(DOMAIN l) - 1) : \E e \in DOMAIN l : l[e] = i
<1>1. PICK n : n = Cardinality(DOMAIN l)
  OBVIOUS
<1>2. IsFiniteSet(DOMAIN l) /\ n \in Nat
  BY <1>1, FS_Subset, FS_CardinalityType DEF IsListing
<1>3. \A e \in DOMAIN l : l[e] \in Nat /\ l[e] < n
  BY <1>1, NextOrdinalAbove, DenseNext DEF IsListing
<1>4. \A e \in DOMAIN l : l[e] \in 0..(n - 1)
  BY <1>2, <1>3
<1>5. l \in Injection(DOMAIN l, 0..(n - 1))
  BY <1>4 DEF IsListing, Distinct, Injection, IsInjective
<1>6. IsFiniteSet(0..(n - 1)) /\ Cardinality(0..(n - 1)) = n
  <2>1. 0 \in Int /\ n - 1 \in Int
    BY <1>2
  <2> QED
    BY <1>2, <2>1, FS_Interval
<1>7. l \in Surjection(DOMAIN l, 0..(n - 1))
  BY <1>1, <1>5, <1>6, FS_Injection
<1>8. \A i \in 0..(n - 1) : \E e \in DOMAIN l : l[e] = i
  BY <1>7 DEF Surjection
<1> QED
  BY <1>1, <1>2, <1>4, <1>8

\* The image of a finite set is finite.
LEMMA ImageFinite ==
    ASSUME NEW S, IsFiniteSet(S), NEW f, DOMAIN f = S
    PROVE  IsFiniteSet({f[x] : x \in S})
<1> DEFINE T == {f[x] : x \in S}
           g == [x \in S |-> f[x]]
<1>1. g \in Surjection(S, T)
  BY DEF Surjection
<1> QED
  BY <1>1, FS_Surjection

\* Merging a list into the renumbered beginning of it renumbers all of it.
LEMMA AppendToBeginning ==
    ASSUME NEW L, IsFiniteSet(DOMAIN L), IsListing(L, DOMAIN L), Distinct(L),
           NEW s, IsListing(s, DOMAIN L), \A x \in DOMAIN s : s[x] = L[x],
           \A x \in DOMAIN s : \A y \in DOMAIN L \ DOMAIN s : L[x] < L[y]
    PROVE  AppendAll(Renumber(s, {}, 0), L) = Renumber(L, {}, 0)
<1> DEFINE S == DOMAIN L
           old == DOMAIN s
           fresh == S \ old
           r == Renumber(s, {}, 0)
           before(T, e) == {d \in T : L[d] < L[e]}
<1>1. old \subseteq S /\ \A e \in S : L[e] \in Nat
  BY DEF IsListing
<1>2. DOMAIN r = old /\ \A e \in old : r[e] = Cardinality(before(old, e))
  <2>1. r = [e \in old |-> 0 + Cardinality({d \in old : s[d] < s[e]})]
    BY DEF Renumber
  <2>2. \A e \in old : {d \in old : s[d] < s[e]} = before(old, e)
    OBVIOUS
  <2>3. \A e \in old : Cardinality(before(old, e)) \in Nat
    BY <1>1, FS_Subset, FS_CardinalityType
  <2> QED
    BY <2>1, <2>2, <2>3
<1>3. IsListing(r, S) /\ Distinct(r) /\ Dense(r)
  <2>1. Distinct(s) /\ IsListing(Empty, S) /\ Distinct(Empty) /\ Dense(Empty)
    BY <1>1 DEF Distinct, IsListing, Empty, Dense
  <2>2. AppendAll(Empty, s) = r
    <3>1. NextOrdinal(Empty) = 0 /\ DOMAIN Empty = {}
      BY DEF NextOrdinal, Empty
    <3>2. r = [e \in DOMAIN r |-> r[e]]
      BY DEF Renumber
    <3>3. InsertOrIgnore(Empty, r) = r
      BY <3>1, <3>2 DEF InsertOrIgnore
    <3> QED
      BY <3>1, <3>3 DEF AppendAll
  <2> QED
    BY <2>1, <2>2, AppendAllProps, AppendAllDense, Zenon
<1>4. NextOrdinal(r) = Cardinality(old)
  BY <1>2, <1>3, DenseNext
<1>5. \A e \in old : before(S, e) = before(old, e)
  <2> SUFFICES ASSUME NEW e \in old, NEW d \in S, L[d] < L[e] PROVE d \in old
    BY <1>1
  <2>1. d \notin old => L[e] < L[d]
    OBVIOUS
  <2> QED
    BY <2>1, <1>1
<1>6. \A e \in fresh : Cardinality(before(S, e)) = Cardinality(old) + Cardinality(before(fresh, e))
  <2> SUFFICES ASSUME NEW e \in fresh
               PROVE  Cardinality(before(S, e)) = Cardinality(old) + Cardinality(before(fresh, e))
    OBVIOUS
  <2>1. before(S, e) = old \cup before(fresh, e) /\ old \cap before(fresh, e) = {}
    BY <1>1
  <2>2. IsFiniteSet(old) /\ IsFiniteSet(before(fresh, e))
    BY <1>1, FS_Subset
  <2> HIDE DEF before
  <2>3. Cardinality(before(S, e)) = Cardinality(old) + Cardinality(before(fresh, e))
                                      - Cardinality({})
    BY <2>1, <2>2, FS_Union
  <2>4. Cardinality(old) \in Nat /\ Cardinality(before(fresh, e)) \in Nat
    BY <2>2, FS_CardinalityType
  <2> QED
    BY <2>3, <2>4, FS_EmptySet
<1>7. AppendAll(r, L) = [e \in S |-> Cardinality(before(S, e))]
  <2> DEFINE more == Renumber(L, old, Cardinality(old))
  <2>1. DOMAIN more = fresh
        /\ \A e \in fresh : more[e] = Cardinality(old) + Cardinality(before(fresh, e))
    BY DEF Renumber
  <2>2. AppendAll(r, L) = InsertOrIgnore(r, more)
    BY <1>2, <1>4 DEF AppendAll
  <2>3. old \cup fresh = S
    BY <1>1
  <2> HIDE DEF more, before, r
  <2> QED
    BY <1>2, <1>5, <1>6, <2>1, <2>2, <2>3 DEF InsertOrIgnore
<1>8. Renumber(L, {}, 0) = [e \in S |-> Cardinality(before(S, e))]
  <2>1. Renumber(L, {}, 0) = [e \in S |-> 0 + Cardinality({d \in S : L[d] < L[e]})]
    BY DEF Renumber
  <2>2. \A e \in S : Cardinality({d \in S : L[d] < L[e]}) \in Nat
    BY FS_Subset, FS_CardinalityType
  <2> QED
    BY <2>1, <2>2
<1> QED
  BY <1>7, <1>8

\* A list that is known adds nothing.
LEMMA AppendKnown ==
    ASSUME NEW L, NEW more, DOMAIN more \subseteq DOMAIN L
    PROVE  AppendAll(Renumber(L, {}, 0), more) = Renumber(L, {}, 0)
<1> DEFINE r == Renumber(L, {}, 0)
<1>1. DOMAIN r = DOMAIN L /\ r = [e \in DOMAIN r |-> r[e]]
  BY DEF Renumber
<1> HIDE DEF r
<1> DEFINE fresh == Renumber(more, DOMAIN r, NextOrdinal(r))
<1>2. DOMAIN fresh = {}
  BY <1>1 DEF Renumber
<1> HIDE DEF fresh
<1>3. InsertOrIgnore(r, fresh) = [e \in DOMAIN r |-> r[e]]
  BY <1>2 DEF InsertOrIgnore
<1>4. AppendAll(r, more) = InsertOrIgnore(r, fresh)
  BY DEF AppendAll, fresh
<1>5. AppendAll(r, more) = r
  BY <1>1, <1>3, <1>4
<1> QED
  BY <1>5 DEF r
=============================================================================

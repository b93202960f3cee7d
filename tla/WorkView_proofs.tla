--------------------------- MODULE WorkView_proofs ---------------------------
(***************************************************************************)
(* Every view of a Work agrees with its own evidence: for any sessions,    *)
(* any lines and any number of imports and checkpoints.                    *)
(*                                                                         *)
(* The invariant says of each list that a view reads (the rows, and the    *)
(* beginning of them that a checkpoint pins) that it HOLDS a beginning of  *)
(* every session file: line by line, the events of the line with what one  *)
(* import of at most that beginning found wrong on it.  Reconciling such a *)
(* list leaves the missing results that are missing in it.                 *)
(***************************************************************************)
EXTENDS WorkView, ListingLemmas, SequenceTheorems

-----------------------------------------------------------------------------
(* FlattenSeq. *)

\* A sequence over S has its elements in S, and is one over its elements.
LEMMA ToSetType ==
    ASSUME NEW S, NEW a \in Seq(S)
    PROVE  ToSet(a) \subseteq S /\ a \in Seq(ToSet(a))
<1>1. \A i \in 1..Len(a) : a[i] \in S
  OBVIOUS
<1>2. Len(a) \in Nat /\ DOMAIN a = 1..Len(a) /\ a = [i \in 1..Len(a) |-> a[i]]
  OBVIOUS
<1>3. \A i \in 1..Len(a) : a[i] \in ToSet(a)
  BY <1>2 DEF ToSet
<1>4. ToSet(a) \subseteq S
  BY <1>1, <1>2 DEF ToSet
<1> QED
  BY <1>2, <1>3, <1>4

\* A concatenation has the elements of both.
LEMMA ToSetConcat ==
    ASSUME NEW S, NEW a \in Seq(S), NEW b \in Seq(S)
    PROVE  /\ a \o b \in Seq(S)
           /\ ToSet(a \o b) = ToSet(a) \cup ToSet(b)
<1> DEFINE c == a \o b
<1>1. /\ c \in Seq(S) /\ Len(a) \in Nat /\ Len(b) \in Nat
      /\ DOMAIN a = 1..Len(a) /\ DOMAIN b = 1..Len(b) /\ DOMAIN c = 1..(Len(a) + Len(b))
      /\ \A i \in 1..Len(a) : c[i] = a[i]
      /\ \A i \in 1..Len(b) : Len(a) + i \in DOMAIN c /\ c[Len(a) + i] = b[i]
      /\ \A i \in DOMAIN c : i > Len(a) => i - Len(a) \in 1..Len(b) /\ c[i] = b[i - Len(a)]
  OBVIOUS
<1> HIDE DEF c
<1>2. \A x : x \in ToSet(c) <=> x \in ToSet(a) \/ x \in ToSet(b)
  <2> SUFFICES ASSUME NEW x PROVE x \in ToSet(c) <=> x \in ToSet(a) \/ x \in ToSet(b)
    OBVIOUS
  <2>1. x \in ToSet(a) => x \in ToSet(c)
    BY <1>1 DEF ToSet
  <2>2. x \in ToSet(b) => x \in ToSet(c)
    <3> SUFFICES ASSUME NEW i \in 1..Len(b), x = b[i] PROVE x \in ToSet(c)
      BY <1>1 DEF ToSet
    <3>1. Len(a) + i \in DOMAIN c /\ c[Len(a) + i] = x
      BY <1>1
    <3> QED
      BY <3>1 DEF ToSet
  <2>3. x \in ToSet(c) => x \in ToSet(a) \/ x \in ToSet(b)
    <3> SUFFICES ASSUME NEW i \in DOMAIN c, x = c[i] PROVE x \in ToSet(a) \/ x \in ToSet(b)
      BY DEF ToSet
    <3>1. CASE i <= Len(a)
      <4>1. i \in DOMAIN a /\ c[i] = a[i]
        BY <1>1, <3>1
      <4> QED
        BY <4>1 DEF ToSet
    <3>2. CASE i > Len(a)
      <4>1. i - Len(a) \in DOMAIN b /\ c[i] = b[i - Len(a)]
        BY <1>1, <3>2
      <4> QED
        BY <4>1 DEF ToSet
    <3> QED
      BY <1>1, <3>1, <3>2
  <2> QED
    BY <2>1, <2>2, <2>3
<1>3. ToSet(c) = ToSet(a) \cup ToSet(b)
  BY <1>2
<1> QED
  BY <1>1, <1>3 DEF c

\* g[i] is the concatenation of the first i sequences of ss.
Joined(g, ss) == g = [i \in 1..Len(ss) |-> IF i = 1 THEN ss[i] ELSE g[i - 1] \o ss[i]]

\* There are the concatenations of the first sequences of any list of sequences.
LEMMA JoinedExists ==
    ASSUME NEW S, NEW ss \in Seq(Seq(S))
    PROVE  \E g \in [1..Len(ss) -> Seq(S)] : Joined(g, ss)
<1> DEFINE N == Len(ss)
           Step(g, i) == IF i = 1 THEN ss[i] ELSE g[i - 1] \o ss[i]
           P == {n \in Nat : \E g \in [1..N -> Seq(S)] : \A i \in 1..N : i <= n => g[i] = Step(g, i)}
<1>0. N \in Nat /\ \A i \in 1..N : ss[i] \in Seq(S)
  OBVIOUS
<1> HIDE DEF N
<1>1. 0 \in P
  <2> DEFINE g == [i \in 1..N |-> ss[i]]
  <2>1. g \in [1..N -> Seq(S)] /\ \A i \in 1..N : ~ (i <= 0)
    BY <1>0
  <2> HIDE DEF g
  <2> QED
    BY <2>1
<1>2. ASSUME NEW n \in Nat, n \in P PROVE n + 1 \in P
  <2>1. PICK g \in [1..N -> Seq(S)] : \A i \in 1..N : i <= n => g[i] = Step(g, i)
    BY <1>2
  <2> DEFINE h == [i \in 1..N |-> Step(g, i)]
  <2>2. \A i \in 1..N : Step(g, i) \in Seq(S)
    <3> SUFFICES ASSUME NEW i \in 1..N PROVE Step(g, i) \in Seq(S)
      OBVIOUS
    <3>1. CASE i = 1
      BY <1>0, <3>1
    <3>2. CASE i # 1
      <4>1. i - 1 \in 1..N
        BY <1>0, <3>2
      <4>2. g[i - 1] \in Seq(S) /\ ss[i] \in Seq(S)
        BY <1>0, <2>1, <4>1
      <4> QED
        BY <3>2, <4>2
    <3> QED
      BY <3>1, <3>2
  <2>3. h \in [1..N -> Seq(S)]
    BY <2>2
  <2>4. ASSUME NEW i \in 1..N, i <= n + 1 PROVE h[i] = Step(h, i)
    <3>1. h[i] = Step(g, i)
      OBVIOUS
    <3>2. CASE i = 1
      BY <3>1, <3>2
    <3>3. CASE i # 1
      <4>1. i - 1 \in 1..N /\ i - 1 <= n
        BY <1>0, <2>4, <3>3
      <4>2. h[i - 1] = g[i - 1]
        BY <2>1, <4>1
      <4> QED
        BY <3>1, <3>3, <4>2
    <3> QED
      BY <3>2, <3>3
  <2> HIDE DEF h, Step
  <2>5. n + 1 \in Nat /\ \A i \in 1..N : i <= n + 1 => h[i] = Step(h, i)
    BY <2>4
  <2> QED
    BY <2>3, <2>5
<1>3. Nat \subseteq P
  <2> HIDE DEF P
  <2> QED
    BY <1>1, <1>2, NatInduct
<1>4. PICK g \in [1..N -> Seq(S)] : \A i \in 1..N : i <= N => g[i] = Step(g, i)
  BY <1>0, <1>3
<1>5. g = [i \in 1..N |-> Step(g, i)]
  <2> HIDE DEF Step
  <2>1. \A i \in 1..N : i <= N
    BY <1>0
  <2>2. \A i \in 1..N : g[i] = Step(g, i)
    BY <1>4, <2>1
  <2>3. g = [i \in 1..N |-> g[i]]
    BY <1>4
  <2> QED
    BY <2>2, <2>3
<1> QED
  BY <1>5 DEF Joined, N

\* Each of them is the one before with one more sequence at its end.
LEMMA JoinedFacts ==
    ASSUME NEW ss, NEW g, Joined(g, ss)
    PROVE  /\ DOMAIN g = 1..Len(ss) /\ g = [i \in 1..Len(ss) |-> g[i]]
           /\ 1 \in 1..Len(ss) => g[1] = ss[1]
           /\ \A i \in 1..Len(ss) : i # 1 => g[i] = g[i - 1] \o ss[i]
<1> DEFINE Step(i) == IF i = 1 THEN ss[i] ELSE g[i - 1] \o ss[i]
<1>1. g = [i \in 1..Len(ss) |-> Step(i)]
  BY DEF Joined
<1>2. /\ 1 \in 1..Len(ss) => Step(1) = ss[1]
      /\ \A i \in 1..Len(ss) : i # 1 => Step(i) = g[i - 1] \o ss[i]
  OBVIOUS
<1> HIDE DEF Step
<1> QED
  BY <1>1, <1>2

\* FlattenSeq, with which Normalize puts the events of the lines together, is the
\* last of the concatenations.
LEMMA FlattenIsJoined ==
    ASSUME NEW S, NEW ss \in Seq(Seq(S)), Len(ss) # 0
    PROVE  \E g \in [1..Len(ss) -> Seq(S)] : Joined(g, ss) /\ FlattenSeq(ss) = g[Len(ss)]
<1>1. \A g, h : Joined(g, ss) /\ Joined(h, ss) => g = h
  <2> SUFFICES ASSUME NEW g, NEW h, Joined(g, ss), Joined(h, ss) PROVE g = h
    OBVIOUS
  <2> DEFINE N == Len(ss)
             P == {n \in Nat : n \in 1..N => g[n] = h[n]}
  <2>1. N \in Nat
    OBVIOUS
  <2>2. g = [i \in 1..N |-> g[i]] /\ h = [i \in 1..N |-> h[i]]
    BY JoinedFacts
  <2>3. 1 \in 1..N => g[1] = h[1]
    <3>1. 1 \in 1..N => g[1] = ss[1]
      BY JoinedFacts
    <3>2. 1 \in 1..N => h[1] = ss[1]
      BY JoinedFacts
    <3> QED
      BY <3>1, <3>2
  <2>4. \A i \in 1..N : i # 1 => g[i] = g[i - 1] \o ss[i]
    BY JoinedFacts
  <2>5. \A i \in 1..N : i # 1 => h[i] = h[i - 1] \o ss[i]
    BY JoinedFacts
  <2> HIDE DEF N
  <2>6. 0 \in P
    OBVIOUS
  <2>7. \A n \in Nat : n \in P => n + 1 \in P
    <3> SUFFICES ASSUME NEW n \in Nat, n \in P, n + 1 \in 1..N PROVE g[n + 1] = h[n + 1]
      OBVIOUS
    <3> SUFFICES ASSUME NEW i, i = n + 1 PROVE g[i] = h[i]
      OBVIOUS
    <3>1. CASE n = 0
      <4>1. i = 1
        BY <3>1
      <4> QED
        BY <2>3, <4>1
    <3>2. CASE n # 0
      <4>1. n \in 1..N /\ i \in 1..N /\ i # 1 /\ i - 1 = n
        BY <2>1, <3>2
      <4>2. g[n] = h[n]
        BY <4>1
      <4>3. g[i] = g[n] \o ss[i] /\ h[i] = h[n] \o ss[i]
        BY <2>4, <2>5, <4>1
      <4> QED
        BY <4>2, <4>3
    <3> QED
      BY <3>1, <3>2
  <2>8. Nat \subseteq P
    <3> HIDE DEF P
    <3> QED
      BY <2>6, <2>7, NatInduct
  <2>9. \A i \in 1..N : g[i] = h[i]
    BY <2>1, <2>8
  <2> QED
    BY <2>2, <2>9
<1>2. PICK g \in [1..Len(ss) -> Seq(S)] : Joined(g, ss)
  BY JoinedExists
<1> DEFINE c == CHOOSE h : Joined(h, ss)
<1>3. c = g
  <2>1. Joined(c, ss)
    BY <1>2
  <2> HIDE DEF c
  <2> QED
    BY <1>1, <1>2, <2>1
<1>4. FlattenSeq(ss) = c[Len(ss)]
  BY DEF FlattenSeq, Joined
<1> HIDE DEF c
<1> QED
  BY <1>2, <1>3, <1>4

\* FlattenSeq has the elements of its parts, and if a key tells apart whatever is
\* in one part or in two it tells apart whatever is in the whole.
LEMMA FlattenFacts ==
    ASSUME NEW S, NEW ss \in Seq(Seq(S)), NEW key,
           \A n \in DOMAIN ss : \A i, j \in DOMAIN ss[n] : key[ss[n][i]] = key[ss[n][j]] => i = j,
           \A m, n \in DOMAIN ss : m # n =>
             \A i \in DOMAIN ss[m], j \in DOMAIN ss[n] : key[ss[m][i]] # key[ss[n][j]]
    PROVE  LET f == FlattenSeq(ss) IN
           /\ f \in Seq(S)
           /\ ToSet(f) = UNION {ToSet(ss[n]) : n \in DOMAIN ss}
           /\ \A i, j \in DOMAIN f : key[f[i]] = key[f[j]] => i = j
<1> DEFINE N == Len(ss)
           Good(f, n) == /\ f \in Seq(S)
                         /\ \A x : x \in ToSet(f) <=> \E m \in 1..n : x \in ToSet(ss[m])
                         /\ \A i, j \in DOMAIN f : key[f[i]] = key[f[j]] => i = j
<1>1. N \in Nat /\ DOMAIN ss = 1..N /\ \A n \in 1..N : ss[n] \in Seq(S)
  OBVIOUS
<1>2. CASE N = 0
  <2>1. FlattenSeq(ss) = ss /\ ss = <<>>
    BY <1>1, <1>2 DEF FlattenSeq
  <2> QED
    BY <1>1, <1>2, <2>1 DEF ToSet
<1>3. CASE N # 0
  <2>1. PICK g : Joined(g, ss) /\ FlattenSeq(ss) = g[N]
    BY <1>3, FlattenIsJoined
  <2>2. /\ g[1] = ss[1]
        /\ \A i \in 1..N : i # 1 => g[i] = g[i - 1] \o ss[i]
    <3>1. Joined(g, ss)
      BY <2>1
    <3>2. /\ 1 \in 1..N => g[1] = ss[1]
          /\ \A i \in 1..N : i # 1 => g[i] = g[i - 1] \o ss[i]
      BY <3>1, JoinedFacts
    <3> HIDE DEF N
    <3> QED
      BY <1>1, <1>3, <3>2
  <2> DEFINE P == {n \in Nat : n \in 1..N => Good(g[n], n)}
  <2> HIDE DEF N
  <2>3. 0 \in P
    BY <1>1
  <2>4. \A n \in Nat : n \in P => n + 1 \in P
    <3> SUFFICES ASSUME NEW n \in Nat, n \in P, n + 1 \in 1..N PROVE Good(g[n + 1], n + 1)
      <4> HIDE DEF Good
      <4>1. \A n : n \in P <=> n \in Nat /\ (n \in 1..N => Good(g[n], n))
        OBVIOUS
      <4>2. \A n \in Nat : n + 1 \in Nat
        OBVIOUS
      <4> HIDE DEF P
      <4> QED
        BY <4>1, <4>2
    <3> SUFFICES ASSUME NEW k, k = n + 1 PROVE Good(g[k], k)
      OBVIOUS
    <3>1. CASE n = 0
      <4>1. k = 1 /\ g[k] = ss[1] /\ ss[1] \in Seq(S) /\ 1 \in DOMAIN ss
        BY <1>1, <1>3, <2>2, <3>1
      <4>2. \A x : x \in ToSet(ss[1]) <=> \E m \in 1..1 : x \in ToSet(ss[m])
        OBVIOUS
      <4> QED
        BY <4>1, <4>2
    <3>2. CASE n # 0
      <4> DEFINE a == g[n]
                 b == ss[k]
                 c == g[k]
      <4>1. n \in 1..N /\ k \in DOMAIN ss /\ k # 1 /\ k - 1 = n
        BY <1>1, <3>2
      <4>2. Good(a, n) /\ b \in Seq(S) /\ c = a \o b
        BY <1>1, <2>2, <4>1
      <4>3. \A i, j \in DOMAIN b : key[b[i]] = key[b[j]] => i = j
        BY <4>1
      <4>4. \A i \in DOMAIN a, j \in DOMAIN b : key[a[i]] # key[b[j]]
        <5> SUFFICES ASSUME NEW i \in DOMAIN a, NEW j \in DOMAIN b PROVE key[a[i]] # key[b[j]]
          OBVIOUS
        <5>1. a[i] \in ToSet(a)
          BY DEF ToSet
        <5>2. PICK m \in 1..n : a[i] \in ToSet(ss[m])
          BY <4>2, <5>1
        <5>3. PICK q \in DOMAIN ss[m] : a[i] = ss[m][q]
          BY <5>2 DEF ToSet
        <5>4. m \in DOMAIN ss /\ m # k
          BY <1>1, <4>1
        <5> HIDE DEF a
        <5> QED
          BY <4>1, <5>3, <5>4
      <4> HIDE DEF a, b, c
      <4>5. /\ c \in Seq(S) /\ Len(a) \in Nat /\ Len(b) \in Nat
            /\ DOMAIN a = 1..Len(a) /\ DOMAIN b = 1..Len(b) /\ DOMAIN c = 1..(Len(a) + Len(b))
            /\ \A i \in 1..Len(a) : c[i] = a[i]
            /\ \A i \in 1..Len(b) : c[Len(a) + i] = b[i]
            /\ \A i \in DOMAIN c : i > Len(a) => i - Len(a) \in 1..Len(b) /\ c[i] = b[i - Len(a)]
        BY <4>2
      <4>6. \A x : x \in ToSet(c) <=> x \in ToSet(a) \/ x \in ToSet(b)
        BY <4>2, ToSetConcat
      <4>7. \A x : x \in ToSet(c) <=> \E m \in 1..k : x \in ToSet(ss[m])
        <5>1. \A m : m \in 1..k <=> m \in 1..n \/ m = k
          OBVIOUS
        <5> QED
          BY <4>2, <4>6, <5>1 DEF b
      <4>8. \A i, j \in DOMAIN c : key[c[i]] = key[c[j]] => i = j
        <5> SUFFICES ASSUME NEW i \in DOMAIN c, NEW j \in DOMAIN c, key[c[i]] = key[c[j]]
                     PROVE  i = j
          OBVIOUS
        <5>1. CASE i <= Len(a) /\ j <= Len(a)
          BY <4>2, <4>5, <5>1
        <5>2. CASE i > Len(a) /\ j > Len(a)
          <6>1. i - Len(a) = j - Len(a)
            BY <4>3, <4>5, <5>2
          <6> QED
            BY <4>5, <6>1
        <5>3. CASE i <= Len(a) /\ j > Len(a)
          BY <4>4, <4>5, <5>3
        <5>4. CASE i > Len(a) /\ j <= Len(a)
          BY <4>4, <4>5, <5>4
        <5> QED
          BY <4>5, <5>1, <5>2, <5>3, <5>4
      <4> QED
        BY <4>5, <4>7, <4>8 DEF c
    <3> QED
      BY <3>1, <3>2
  <2>5. Nat \subseteq P
    <3> HIDE DEF P
    <3> QED
      BY <2>3, <2>4, NatInduct
  <2>6. Good(g[N], N)
    <3>1. N \in Nat /\ N \in 1..N
      BY <1>1, <1>3
    <3> HIDE DEF Good
    <3>2. N \in Nat => (N \in 1..N => Good(g[N], N))
      BY <2>5
    <3> QED
      BY <3>1, <3>2
  <2> QED
    BY <1>1, <2>1, <2>6
<1> QED
  BY <1>2, <1>3

-----------------------------------------------------------------------------
(* What is found wrong. *)

LineSet == UNION {Lines[s] : s \in Sessions}

Missing == "missing_tool_result"
Orphan == "orphan_tool_result"

CallsOf(s, file, id) == {c \in CallLocations(s, file) : c.id = id}
ResultsOf(s, file, id) == {r \in ResultLocations(s, file) : r.id = id}

\* correlatePiTools, finding by finding.
LEMMA Findings ==
    ASSUME NEW s, NEW file, NEW d
    PROVE  d \in Correlate(s, file) <=>
             \/ \E c \in CallLocations(s, file) :
                  \/ /\ d = [code |-> "duplicate_tool_call_id", at |-> c]
                     /\ Cardinality(CallsOf(s, file, c.id)) > 1
                  \/ /\ d = [code |-> "missing_tool_result", at |-> c]
                     /\ ResultsOf(s, file, c.id) = {}
             \/ \E l \in CallLocations(s, file) \cup ResultLocations(s, file) :
                  /\ d = [code |-> "duplicate_tool_result", at |-> l]
                  /\ Cardinality(ResultsOf(s, file, l.id)) > 1
             \/ \E r \in ResultLocations(s, file) :
                  \/ /\ d = [code |-> "orphan_tool_result", at |-> r]
                     /\ CallsOf(s, file, r.id) = {}
                  \/ /\ d = [code |-> "ambiguous_tool_result", at |-> r]
                     /\ Cardinality(CallsOf(s, file, r.id)) > 1
<1> DEFINE calls == CallLocations(s, file)
           results == ResultLocations(s, file)
           CO(l) == {c \in calls : c.id = l.id}
           RO(l) == {r \in results : r.id = l.id}
           A == {c \in calls : Cardinality(CO(c)) > 1}
           B == {c \in calls : RO(c) = {}}
           C == {l \in calls \cup results : Cardinality(RO(l)) > 1}
           D == {r \in results : CO(r) = {}}
           E == {r \in results : Cardinality(CO(r)) > 1}
<1>1. Correlate(s, file) =
        Diagnostics("duplicate_tool_call_id", A) \cup Diagnostics("missing_tool_result", B)
          \cup Diagnostics("duplicate_tool_result", C)
          \cup Diagnostics("orphan_tool_result", D) \cup Diagnostics("ambiguous_tool_result", E)
  BY ZenonT(30) DEF Correlate
<1>2. \A l : CO(l) = CallsOf(s, file, l.id) /\ RO(l) = ResultsOf(s, file, l.id)
  BY Zenon DEF CallsOf, ResultsOf
<1> HIDE DEF CO, RO, calls, results
<1>3. \A code, S : d \in Diagnostics(code, S) <=> \E l \in S : d = [code |-> code, at |-> l]
  BY DEF Diagnostics
<1> DEFINE In(code, S) == \E l \in S : d = [code |-> code, at |-> l]
<1>4. d \in Correlate(s, file) <=>
        \/ In("duplicate_tool_call_id", A) \/ In("missing_tool_result", B)
        \/ In("duplicate_tool_result", C)
        \/ In("orphan_tool_result", D) \/ In("ambiguous_tool_result", E)
  <2> HIDE DEF A, B, C, D, E
  <2> QED
    BY <1>1, <1>3
<1>5. In("duplicate_tool_call_id", A) <=>
        \E c \in calls : /\ d = [code |-> "duplicate_tool_call_id", at |-> c]
                         /\ Cardinality(CallsOf(s, file, c.id)) > 1
  BY <1>2
<1>6. In("missing_tool_result", B) <=>
        \E c \in calls : /\ d = [code |-> "missing_tool_result", at |-> c]
                         /\ ResultsOf(s, file, c.id) = {}
  BY <1>2
<1>7. In("duplicate_tool_result", C) <=>
        \E l \in calls \cup results : /\ d = [code |-> "duplicate_tool_result", at |-> l]
                                      /\ Cardinality(ResultsOf(s, file, l.id)) > 1
  BY <1>2
<1>8. In("orphan_tool_result", D) <=>
        \E r \in results : /\ d = [code |-> "orphan_tool_result", at |-> r]
                           /\ CallsOf(s, file, r.id) = {}
  BY <1>2
<1>9. In("ambiguous_tool_result", E) <=>
        \E r \in results : /\ d = [code |-> "ambiguous_tool_result", at |-> r]
                           /\ Cardinality(CallsOf(s, file, r.id)) > 1
  BY <1>2
<1> HIDE DEF In, A, B, C, D, E
<1> QED
  BY <1>4, <1>5, <1>6, <1>7, <1>8, <1>9 DEF calls, results

\* What the code finds missing: a call of the file whose id no result has.
LEMMA MissingFound ==
    ASSUME NEW s, NEW file, NEW d, d.code = Missing
    PROVE  d \in Correlate(s, file) <=>
             \E c \in CallLocations(s, file) :
               /\ d = [code |-> Missing, at |-> c]
               /\ \A r \in ResultLocations(s, file) : r.id # c.id
<1>1. \A id : ResultsOf(s, file, id) = {} <=> \A r \in ResultLocations(s, file) : r.id # id
  BY DEF ResultsOf
<1>2. \A code, l : d = [code |-> code, at |-> l] => code = "missing_tool_result"
  BY DEF Missing
<1>3. d \in Correlate(s, file) <=>
        \E c \in CallLocations(s, file) : /\ d = [code |-> "missing_tool_result", at |-> c]
                                     /\ ResultsOf(s, file, c.id) = {}
  BY <1>2, Findings
<1> QED
  BY <1>1, <1>3 DEF Missing

\* What the code finds orphaned: a result of the file whose id no call has.
LEMMA OrphanFound ==
    ASSUME NEW s, NEW file, NEW d, d.code = Orphan
    PROVE  d \in Correlate(s, file) <=>
             \E r \in ResultLocations(s, file) :
               /\ d = [code |-> Orphan, at |-> r]
               /\ \A c \in CallLocations(s, file) : c.id # r.id
<1>1. \A id : CallsOf(s, file, id) = {} <=> \A c \in CallLocations(s, file) : c.id # id
  BY DEF CallsOf
<1>2. \A code, l : d = [code |-> code, at |-> l] => code = "orphan_tool_result"
  BY DEF Orphan
<1>3. d \in Correlate(s, file) <=>
        \E r \in ResultLocations(s, file) : /\ d = [code |-> "orphan_tool_result", at |-> r]
                                     /\ CallsOf(s, file, r.id) = {}
  BY <1>2, Findings
<1> QED
  BY <1>1, <1>3 DEF Orphan

\* Where things are.
LEMMA CallsAt ==
    ASSUME NEW s, NEW file, NEW l
    PROVE  l \in CallLocations(s, file) <=>
             \E n \in DOMAIN file :
               /\ file[n].role = "assistant"
               /\ \E i \in DOMAIN file[n].calls : l = Location(s, n, i, file[n].calls[i].id)
BY DEF CallLocations

\* The results of a file are on its lines of role toolResult.
LEMMA ResultsAt ==
    ASSUME NEW s, NEW file, NEW l
    PROVE  l \in ResultLocations(s, file) <=>
             \E n \in DOMAIN file :
               /\ file[n].role = "toolResult"
               /\ l = Location(s, n, 0, file[n].call)
BY DEF ResultLocations

\* correlatePiTools finds something wrong only with a call or a result of the
\* session and the lines it was given.
LEMMA FoundAt ==
    ASSUME NEW s, NEW file, NEW d \in Correlate(s, file)
    PROVE  /\ d.at \in CallLocations(s, file) \cup ResultLocations(s, file)
           /\ d.at.session = s /\ d.at.line \in DOMAIN file
<1>1. d.at \in CallLocations(s, file) \cup ResultLocations(s, file)
  BY Findings
<1>2. CASE d.at \in CallLocations(s, file)
  BY <1>2, CallsAt DEF Location
<1>3. CASE d.at \in ResultLocations(s, file)
  BY <1>3, ResultsAt DEF Location
<1> QED
  BY <1>1, <1>2, <1>3

\* Finitely many finite sets have finitely many elements.
LEMMA UnionFinite ==
    ASSUME NEW N \in Nat, NEW f, \A n \in 1..N : IsFiniteSet(f[n])
    PROVE  IsFiniteSet(UNION {f[n] : n \in 1..N})
<1> DEFINE U(k) == UNION {f[n] : n \in 1..k}
           P == {k \in Nat : k <= N => IsFiniteSet(U(k))}
<1>1. 0 \in P
  <2>1. U(0) = {}
    OBVIOUS
  <2> QED
    BY <2>1, FS_EmptySet
<1>2. ASSUME NEW k \in Nat, k \in P, k + 1 <= N PROVE IsFiniteSet(U(k + 1))
  <2>1. IsFiniteSet(U(k)) /\ IsFiniteSet(f[k + 1])
    BY <1>2
  <2>2. U(k + 1) = U(k) \cup f[k + 1]
    <3>1. \A n : n \in 1..(k + 1) <=> n \in 1..k \/ n = k + 1
      OBVIOUS
    <3> QED
      BY <3>1, Zenon
  <2> QED
    BY <2>1, <2>2, FS_Union
<1>3. \A k \in Nat : k \in P => k + 1 \in P
  <2> HIDE DEF U
  <2> QED
    BY <1>2
<1>4. Nat \subseteq P
  <2> HIDE DEF P
  <2> QED
    BY <1>1, <1>3, NatInduct
<1> HIDE DEF U
<1>5. IsFiniteSet(U(N))
  BY <1>4
<1> QED
  BY <1>5 DEF U

\* A file has finitely many calls and results.
LEMMA LocationsFinite ==
    ASSUME NEW s, NEW file \in Seq(LineSet)
    PROVE  IsFiniteSet(CallLocations(s, file)) /\ IsFiniteSet(ResultLocations(s, file))
<1>1. IsFiniteSet(DOMAIN file) /\ DOMAIN file = 1..Len(file)
  BY FS_Interval
<1>2. IsFiniteSet(CallLocations(s, file))
  <2> DEFINE f == [n \in DOMAIN file |->
                     IF file[n].role = "assistant"
                     THEN {Location(s, n, i, file[n].calls[i].id) : i \in DOMAIN file[n].calls}
                     ELSE {}]
  <2>1. \A n \in DOMAIN file : IsFiniteSet(f[n])
    <3> SUFFICES ASSUME NEW n \in DOMAIN file PROVE IsFiniteSet(f[n])
      OBVIOUS
    <3>1. CASE file[n].role # "assistant"
      BY <3>1, FS_EmptySet
    <3>2. CASE file[n].role = "assistant"
      <4> DEFINE I == DOMAIN file[n].calls
                 g == [i \in I |-> Location(s, n, i, file[n].calls[i].id)]
      <4>1. file[n] \in LineSet
        OBVIOUS
      <4>2. file[n].calls \in Seq(ToSet(file[n].calls))
        BY <3>2, <4>1, ViewAssumption DEF LineSet
      <4>3. IsFiniteSet(I)
        <5>1. \A q : q \in Seq(ToSet(q)) => DOMAIN q = 1..Len(q) /\ Len(q) \in Nat
          OBVIOUS
        <5>2. I = 1..Len(file[n].calls) /\ Len(file[n].calls) \in Nat
          BY <4>2, <5>1
        <5> HIDE DEF I
        <5> QED
          BY <5>2, FS_Interval
      <4> HIDE DEF I
      <4>4. IsFiniteSet({g[i] : i \in I})
        BY <4>3, ImageFinite
      <4>5. f[n] = {Location(s, n, i, file[n].calls[i].id) : i \in I}
        BY <3>2 DEF I
      <4>6. {Location(s, n, i, file[n].calls[i].id) : i \in I} = {g[i] : i \in I}
        BY Zenon
      <4> QED
        BY <4>4, <4>5, <4>6
    <3> QED
      BY <3>1, <3>2
  <2>2. CallLocations(s, file) = UNION {f[n] : n \in DOMAIN file}
    <3>1. \A l : l \in CallLocations(s, file) <=> \E n \in DOMAIN file : l \in f[n]
      BY CallsAt
    <3> HIDE DEF f
    <3> QED
      BY <3>1
  <2> HIDE DEF f
  <2> QED
    <3> DEFINE N == Len(file)
    <3>1. N \in Nat
      OBVIOUS
    <3>2. \A n \in 1..N : IsFiniteSet(f[n])
      BY <1>1, <2>1
    <3>3. CallLocations(s, file) = UNION {f[n] : n \in 1..N}
      BY <1>1, <2>2, Zenon
    <3> HIDE DEF N
    <3>4. IsFiniteSet(UNION {f[n] : n \in 1..N})
      BY <3>1, <3>2, UnionFinite
    <3> QED
      BY <3>3, <3>4, Zenon
<1>3. IsFiniteSet(ResultLocations(s, file))
  <2> DEFINE g == [n \in DOMAIN file |-> Location(s, n, 0, file[n].call)]
  <2>1. IsFiniteSet({g[n] : n \in DOMAIN file})
    <3> HIDE DEF g
    <3>1. DOMAIN g = DOMAIN file
      BY DEF g
    <3> QED
      BY <1>1, <3>1, ImageFinite
  <2>2. ResultLocations(s, file) \subseteq {g[n] : n \in DOMAIN file}
    BY DEF ResultLocations
  <2> QED
    BY <2>1, <2>2, FS_Subset
<1> QED
  BY <1>2, <1>3

\* part is a beginning of file.
Begins(part, file) ==
    /\ DOMAIN part \subseteq DOMAIN file
    /\ \A n \in DOMAIN part : file[n] = part[n]

\* A longer file has all the calls and the results of a shorter one.
LEMMA LocationsGrow ==
    ASSUME NEW s, NEW part, NEW file, Begins(part, file)
    PROVE  /\ CallLocations(s, part) \subseteq CallLocations(s, file)
           /\ ResultLocations(s, part) \subseteq ResultLocations(s, file)
<1>1. \A l : l \in CallLocations(s, part) => l \in CallLocations(s, file)
  BY CallsAt DEF Begins
<1>2. \A l : l \in ResultLocations(s, part) => l \in ResultLocations(s, file)
  BY ResultsAt DEF Begins
<1> QED
  BY <1>1, <1>2

\* Only what was missing, and a result that was there too early, are put right
\* by further lines.
LEMMA FoundStays ==
    ASSUME NEW s, NEW part, NEW file \in Seq(LineSet), Begins(part, file),
           NEW d \in Correlate(s, part), d.code # Missing, d.code # Orphan
    PROVE  d \in Correlate(s, file)
<1>1. \A id : /\ Cardinality(CallsOf(s, part, id)) > 1 => Cardinality(CallsOf(s, file, id)) > 1
              /\ Cardinality(ResultsOf(s, part, id)) > 1 => Cardinality(ResultsOf(s, file, id)) > 1
  <2> SUFFICES ASSUME NEW id
               PROVE  /\ Cardinality(CallsOf(s, part, id)) > 1 => Cardinality(CallsOf(s, file, id)) > 1
                      /\ Cardinality(ResultsOf(s, part, id)) > 1 => Cardinality(ResultsOf(s, file, id)) > 1
    OBVIOUS
  <2>1. \A S, T : IsFiniteSet(T) /\ S \subseteq T /\ Cardinality(S) > 1 => Cardinality(T) > 1
    <3> SUFFICES ASSUME NEW S, NEW T, IsFiniteSet(T), S \subseteq T, Cardinality(S) > 1
                 PROVE  Cardinality(T) > 1
      OBVIOUS
    <3>1. Cardinality(S) <= Cardinality(T) /\ IsFiniteSet(S)
      BY FS_Subset
    <3>2. Cardinality(S) \in Nat /\ Cardinality(T) \in Nat
      BY <3>1, FS_CardinalityType
    <3> QED
      BY <3>1, <3>2
  <2>2. /\ CallsOf(s, part, id) \subseteq CallsOf(s, file, id)
        /\ ResultsOf(s, part, id) \subseteq ResultsOf(s, file, id)
    BY LocationsGrow DEF CallsOf, ResultsOf
  <2>3. IsFiniteSet(CallsOf(s, file, id)) /\ IsFiniteSet(ResultsOf(s, file, id))
    BY LocationsFinite, FS_Subset DEF CallsOf, ResultsOf
  <2> QED
    BY <2>1, <2>2, <2>3
<1>2. /\ CallLocations(s, part) \subseteq CallLocations(s, file)
      /\ ResultLocations(s, part) \subseteq ResultLocations(s, file)
  BY LocationsGrow
<1>3. CASE \E c \in CallLocations(s, part) : /\ d = [code |-> "duplicate_tool_call_id", at |-> c]
                                             /\ Cardinality(CallsOf(s, part, c.id)) > 1
  BY <1>1, <1>2, <1>3, Findings
<1>4. CASE \E l \in CallLocations(s, part) \cup ResultLocations(s, part) :
             /\ d = [code |-> "duplicate_tool_result", at |-> l]
             /\ Cardinality(ResultsOf(s, part, l.id)) > 1
  BY <1>1, <1>2, <1>4, Findings
<1>5. CASE \E r \in ResultLocations(s, part) : /\ d = [code |-> "ambiguous_tool_result", at |-> r]
                                               /\ Cardinality(CallsOf(s, part, r.id)) > 1
  BY <1>1, <1>2, <1>5, Findings
<1> QED
  BY <1>3, <1>4, <1>5, Findings DEF Missing, Orphan

\* A result that is missing, or an orphan, of a file was one as soon as its line
\* was there.
LEMMA FoundEarlier ==
    ASSUME NEW s, NEW part, NEW file, Begins(part, file),
           NEW d \in Correlate(s, file), d.code \in {Missing, Orphan}, d.at.line \in DOMAIN part
    PROVE  d \in Correlate(s, part)
<1>1. CASE d.code = Missing
  <2>1. PICK c \in CallLocations(s, file) : /\ d = [code |-> Missing, at |-> c]
                                           /\ \A r \in ResultLocations(s, file) : r.id # c.id
    BY <1>1, MissingFound
  <2>2. PICK n \in DOMAIN file :
               /\ file[n].role = "assistant"
               /\ \E i \in DOMAIN file[n].calls : c = Location(s, n, i, file[n].calls[i].id)
    BY CallsAt
  <2>3. n = d.at.line
    BY <2>1, <2>2 DEF Location
  <2>4. file[n] = part[n]
    BY <2>3 DEF Begins
  <2>5. c \in CallLocations(s, part)
    BY <2>2, <2>3, <2>4, CallsAt
  <2>6. \A r \in ResultLocations(s, part) : r.id # c.id
    BY <2>1, LocationsGrow
  <2> QED
    BY <1>1, <2>1, <2>5, <2>6, MissingFound
<1>2. CASE d.code = Orphan
  <2>1. PICK r \in ResultLocations(s, file) : /\ d = [code |-> Orphan, at |-> r]
                                             /\ \A c \in CallLocations(s, file) : c.id # r.id
    BY <1>2, OrphanFound
  <2>2. PICK n \in DOMAIN file :
               /\ file[n].role = "toolResult"
               /\ r = Location(s, n, 0, file[n].call)
    BY ResultsAt
  <2>3. n = d.at.line
    BY <2>1, <2>2 DEF Location
  <2>4. file[n] = part[n]
    BY <2>3 DEF Begins
  <2>5. r \in ResultLocations(s, part)
    BY <2>2, <2>3, <2>4, ResultsAt
  <2>6. \A c \in CallLocations(s, part) : c.id # r.id
    BY <2>1, LocationsGrow
  <2> QED
    BY <1>2, <2>1, <2>5, <2>6, OrphanFound
<1> QED
  BY <1>1, <1>2

-----------------------------------------------------------------------------
(* Lists of events. *)

IsEvent(e) == e = Event(e.exec, e.line, e.kind, e.index, e.id, e.tool, e.ok, e.diagnostics)

\* A sequence without two events of one id.
IsList(es) ==
    /\ es \in Seq(ToSet(es))
    /\ \A i, j \in DOMAIN es : EventId(es[i]) = EventId(es[j]) => i = j

MessageEvent(s, n, here) == Event(s, n, "message", 0, NoId, NoId, TRUE, here)

CallEvent(s, n, line, i, here) ==
    Event(s, n, "tool_call", i, line.calls[i].id, line.calls[i].tool, TRUE,
          Nested(here, n, i, line.calls[i].id))

ResultEvent(s, n, line, here) == Event(s, n, "tool_result", 0, line.call, NoId, line.ok, here)

Here(found, n) == {d \in found : d.at.line = n}

\* The events of a line.
LEMMA LineEvents ==
    ASSUME NEW s, NEW n, NEW line \in LineSet, NEW found
    PROVE  /\ IsList(EventsOfLine(s, n, line, found))
           /\ line.role = "toolResult" =>
                ToSet(EventsOfLine(s, n, line, found)) = {ResultEvent(s, n, line, Here(found, n))}
           /\ line.role # "toolResult" =>
                ToSet(EventsOfLine(s, n, line, found)) =
                  {MessageEvent(s, n, Here(found, n))}
                    \cup {CallEvent(s, n, line, i, Here(found, n)) : i \in DOMAIN line.calls}
<1> DEFINE here == Here(found, n)
           es == EventsOfLine(s, n, line, found)
<1> HIDE DEF here
<1>1. CASE line.role = "toolResult"
  <2> DEFINE e == ResultEvent(s, n, line, here)
  <2>1. es = <<e>>
    BY <1>1, Zenon DEF EventsOfLine, ResultEvent, here, Here
  <2> HIDE DEF e, es
  <2>2. <<e>> \in Seq({e}) /\ DOMAIN <<e>> = {1} /\ <<e>>[1] = e
    OBVIOUS
  <2>3. ToSet(es) = {e}
    BY <2>1, <2>2 DEF ToSet
  <2> QED
    BY <1>1, <2>1, <2>2, <2>3 DEF IsList, es, e, here
<1>2. CASE line.role # "toolResult"
  <2> DEFINE m == MessageEvent(s, n, here)
             N == Len(line.calls)
             cs == [i \in DOMAIN line.calls |-> CallEvent(s, n, line, i, here)]
             Cs == {CallEvent(s, n, line, i, here) : i \in DOMAIN line.calls}
             S == {m} \cup Cs
  <2>1. es = <<m>> \o cs
    BY <1>2, Zenon DEF EventsOfLine, MessageEvent, CallEvent, here, Here
  <2>2. N \in Nat /\ DOMAIN line.calls = 1..N
    <3>1. line.calls \in Seq(ToSet(line.calls))
      BY <1>2, ViewAssumption DEF LineSet
    <3> QED
      BY <3>1
  <2>3. /\ \A i \in 1..N : cs[i] = CallEvent(s, n, line, i, here)
        /\ cs = [i \in 1..N |-> cs[i]]
    BY <2>2
  <2>4. \A i \in 1..N : CallEvent(s, n, line, i, here) \in Cs
    BY <2>2
  <2>5. \A x \in Cs : \E i \in 1..N : x = CallEvent(s, n, line, i, here)
    BY <2>2
  <2> HIDE DEF cs, Cs, N, m
  <2>6. cs \in Seq(S) /\ Len(cs) = N /\ <<m>> \in Seq(S) /\ Len(<<m>>) = 1 /\ <<m>>[1] = m
    BY <2>2, <2>3, <2>4
  <2> HIDE DEF es, S
  <2>7. /\ es \in Seq(S) /\ DOMAIN es = 1..(N + 1)
        /\ es[1] = m
        /\ \A i \in 1..(N + 1) : i # 1 => i - 1 \in 1..N /\ es[i] = cs[i - 1]
        /\ \A i \in 1..N : i + 1 \in 1..(N + 1) /\ es[i + 1] = cs[i]
    BY <2>1, <2>2, <2>6
  <2>8. ToSet(es) = S
    <3>1. ToSet(es) \subseteq S
      BY <2>7, ToSetType
    <3>2. m \in ToSet(es)
      <4>1. 1 \in DOMAIN es
        BY <2>2, <2>7
      <4> QED
        BY <2>7, <4>1 DEF ToSet
    <3>3. ASSUME NEW x \in Cs PROVE x \in ToSet(es)
      <4>1. PICK i \in 1..N : x = CallEvent(s, n, line, i, here)
        BY <2>5
      <4>2. i + 1 \in DOMAIN es /\ es[i + 1] = x
        BY <2>3, <2>7, <4>1
      <4> QED
        BY <4>2 DEF ToSet
    <3> QED
      BY <3>1, <3>2, <3>3 DEF S
  <2>9. \A i, j \in DOMAIN es : EventId(es[i]) = EventId(es[j]) => i = j
    <3>1. EventId(es[1]) = <<s, n, "message", 0>>
      BY <2>7 DEF m, MessageEvent, Event, EventId
    <3>2. ASSUME NEW i \in 1..(N + 1), i # 1 PROVE EventId(es[i]) = <<s, n, "tool_call", i - 1>>
      <4>1. es[i] = CallEvent(s, n, line, i - 1, here)
        BY <2>3, <2>7, <3>2
      <4> QED
        BY <4>1 DEF CallEvent, Event, EventId
    <3> SUFFICES ASSUME NEW i \in 1..(N + 1), NEW j \in 1..(N + 1), EventId(es[i]) = EventId(es[j])
                 PROVE  i = j
      BY <2>7
    <3>3. CASE i = 1
      BY <3>1, <3>2, <3>3
    <3>4. CASE j = 1
      BY <3>1, <3>2, <3>4
    <3>5. CASE i # 1 /\ j # 1
      <4>1. i - 1 = j - 1
        BY <3>2, <3>5
      <4> QED
        BY <2>2, <4>1
    <3> QED
      BY <3>3, <3>4, <3>5
  <2> QED
    BY <1>2, <2>7, <2>8, <2>9, Zenon DEF IsList, S, Cs, m, es, here
<1> QED
  BY <1>1, <1>2

\* What the events of a line have in common.
LEMMA LineEventFields ==
    ASSUME NEW s, NEW n, NEW line \in LineSet, NEW found,
           NEW e \in ToSet(EventsOfLine(s, n, line, found))
    PROVE  /\ IsEvent(e) /\ e.exec = s /\ e.line = n
           /\ \A d \in e.diagnostics : d \in found /\ d.at.line = n
<1> DEFINE here == Here(found, n)
<1>0. \A d \in here : d \in found /\ d.at.line = n
  BY DEF Here
<1> HIDE DEF here
<1>1. CASE line.role = "toolResult"
  <2>1. e = ResultEvent(s, n, line, here)
    BY <1>1, LineEvents DEF here
  <2> QED
    BY <1>0, <2>1 DEF ResultEvent, Event, IsEvent
<1>2. CASE line.role # "toolResult"
  <2>1. CASE e = MessageEvent(s, n, here)
    BY <1>0, <2>1 DEF MessageEvent, Event, IsEvent
  <2>2. CASE \E i \in DOMAIN line.calls : e = CallEvent(s, n, line, i, here)
    <3>1. PICK i \in DOMAIN line.calls : e = CallEvent(s, n, line, i, here)
      BY <2>2
    <3>2. Nested(here, n, i, line.calls[i].id) \subseteq here
      BY DEF Nested
    <3> QED
      BY <1>0, <3>1, <3>2 DEF CallEvent, Event, IsEvent
  <2> QED
    BY <1>2, <2>1, <2>2, LineEvents DEF here
<1> QED
  BY <1>1, <1>2

\* The concatenation of lists that have no id in common is a list.
LEMMA FlattenLists ==
    ASSUME NEW ss, ss \in Seq({ss[n] : n \in DOMAIN ss}), \A n \in DOMAIN ss : IsList(ss[n]),
           \A m, n \in DOMAIN ss : m # n =>
             \A d \in ToSet(ss[m]), e \in ToSet(ss[n]) : EventId(d) # EventId(e)
    PROVE  /\ IsList(FlattenSeq(ss))
           /\ ToSet(FlattenSeq(ss)) = UNION {ToSet(ss[n]) : n \in DOMAIN ss}
<1> DEFINE S == UNION {ToSet(ss[n]) : n \in DOMAIN ss}
           key == [e \in S |-> EventId(e)]
           f == FlattenSeq(ss)
<1>1. \A n \in DOMAIN ss : ss[n] \in Seq(S)
  <2> SUFFICES ASSUME NEW n \in DOMAIN ss PROVE ss[n] \in Seq(S)
    OBVIOUS
  <2>1. ss[n] \in Seq(ToSet(ss[n]))
    BY DEF IsList
  <2>2. ToSet(ss[n]) \subseteq S
    OBVIOUS
  <2> QED
    BY <2>1, <2>2, SeqMonotonic
<1>2. ss \in Seq(Seq(S))
  <2>1. {ss[n] : n \in DOMAIN ss} \subseteq Seq(S)
    BY <1>1
  <2> QED
    BY <2>1, SeqMonotonic
<1>3. \A n \in DOMAIN ss : \A i \in DOMAIN ss[n] :
        ss[n][i] \in ToSet(ss[n]) /\ ss[n][i] \in S /\ key[ss[n][i]] = EventId(ss[n][i])
  <2> SUFFICES ASSUME NEW n \in DOMAIN ss, NEW i \in DOMAIN ss[n]
               PROVE  ss[n][i] \in ToSet(ss[n]) /\ ss[n][i] \in S /\ key[ss[n][i]] = EventId(ss[n][i])
    OBVIOUS
  <2>1. ss[n][i] \in ToSet(ss[n])
    BY DEF ToSet
  <2> QED
    BY <2>1
<1>4. \A e \in S : key[e] = EventId(e)
  OBVIOUS
<1> HIDE DEF key, S
<1>5. \A n \in DOMAIN ss : \A i, j \in DOMAIN ss[n] : key[ss[n][i]] = key[ss[n][j]] => i = j
  BY <1>3 DEF IsList
<1>6. \A m, n \in DOMAIN ss : m # n =>
        \A i \in DOMAIN ss[m], j \in DOMAIN ss[n] : key[ss[m][i]] # key[ss[n][j]]
  BY <1>3
<1>7. /\ f \in Seq(S) /\ ToSet(f) = UNION {ToSet(ss[n]) : n \in DOMAIN ss}
      /\ \A i, j \in DOMAIN f : key[f[i]] = key[f[j]] => i = j
  BY <1>2, <1>5, <1>6, FlattenFacts
<1> HIDE DEF f
<1>8. \A i \in DOMAIN f : f[i] \in S
  BY <1>7, ToSetType DEF ToSet
<1>9. IsList(f)
  BY <1>4, <1>7, <1>8, ToSetType DEF IsList
<1> QED
  BY <1>7, <1>9 DEF f

\* The events of a file, line by line.
LEMMA Normalized ==
    ASSUME NEW s, NEW file \in Seq(LineSet)
    PROVE  /\ IsList(Normalize(s, file))
           /\ \A e : e \in ToSet(Normalize(s, file)) <=>
                \E n \in DOMAIN file :
                  e \in ToSet(EventsOfLine(s, n, file[n], Correlate(s, file)))
<1> DEFINE found == Correlate(s, file)
           ss == [n \in DOMAIN file |-> EventsOfLine(s, n, file[n], found)]
<1> HIDE DEF found
<1>1. \A n \in DOMAIN file : file[n] \in LineSet
  OBVIOUS
<1>2. DOMAIN ss = DOMAIN file /\ \A n \in DOMAIN file : ss[n] = EventsOfLine(s, n, file[n], found)
  OBVIOUS
<1>3. Normalize(s, file) = FlattenSeq(ss)
  BY Zenon DEF Normalize, found
<1>4. ss \in Seq({ss[n] : n \in DOMAIN ss})
  <2>1. Len(file) \in Nat /\ DOMAIN file = 1..Len(file)
    OBVIOUS
  <2>2. ss = [n \in 1..Len(file) |-> ss[n]]
    BY <2>1
  <2> HIDE DEF ss
  <2> QED
    BY <1>2, <2>1, <2>2
<1> HIDE DEF ss
<1>5. \A n \in DOMAIN ss : IsList(ss[n])
  BY <1>1, <1>2, LineEvents
<1>6. \A m, n \in DOMAIN ss : m # n =>
        \A d \in ToSet(ss[m]), e \in ToSet(ss[n]) : EventId(d) # EventId(e)
  <2>1. \A n \in DOMAIN ss : \A e \in ToSet(ss[n]) : e.line = n
    BY <1>1, <1>2, LineEventFields
  <2>2. \A d, e : EventId(d) = EventId(e) => d.line = e.line
    BY DEF EventId
  <2> QED
    BY <2>1, <2>2
<1>7. /\ IsList(FlattenSeq(ss))
      /\ ToSet(FlattenSeq(ss)) = UNION {ToSet(ss[n]) : n \in DOMAIN ss}
  BY <1>4, <1>5, <1>6, FlattenLists
<1>8. \A e : e \in ToSet(Normalize(s, file)) <=> \E n \in DOMAIN file : e \in ToSet(ss[n])
  BY <1>2, <1>3, <1>7
<1> QED
  BY <1>2, <1>3, <1>7, <1>8 DEF found

\* The events of a list whose ids are not known are a list.
LEMMA UnseenList ==
    ASSUME NEW es, IsList(es), NEW known
    PROVE  /\ IsList(Unseen(es, known))
           /\ \A e : e \in ToSet(Unseen(es, known)) <=> e \in ToSet(es) /\ EventId(e) \notin known
<1> DEFINE ss == [n \in DOMAIN es |-> IF EventId(es[n]) \in known THEN <<>> ELSE <<es[n]>>]
<1>1. Unseen(es, known) = FlattenSeq(ss)
  BY Zenon DEF Unseen
<1>2. DOMAIN ss = DOMAIN es
      /\ \A n \in DOMAIN es : ss[n] = IF EventId(es[n]) \in known THEN <<>> ELSE <<es[n]>>
  OBVIOUS
<1>3. ss \in Seq({ss[n] : n \in DOMAIN ss})
  <2>1. Len(es) \in Nat /\ DOMAIN es = 1..Len(es)
    BY DEF IsList
  <2>2. ss = [n \in 1..Len(es) |-> ss[n]]
    BY <2>1
  <2> HIDE DEF ss
  <2> QED
    BY <1>2, <2>1, <2>2
<1> HIDE DEF ss
<1>4. /\ \A x : ToSet(<<x>>) = {x} /\ IsList(<<x>>)
      /\ ToSet(<<>>) = {} /\ IsList(<<>>)
  <2>1. \A x : DOMAIN <<x>> = {1} /\ <<x>>[1] = x /\ <<x>> \in Seq({x})
    OBVIOUS
  <2>2. DOMAIN <<>> = {} /\ <<>> \in Seq({})
    OBVIOUS
  <2>3. \A x : ToSet(<<x>>) = {x}
    BY <2>1 DEF ToSet
  <2>4. ToSet(<<>>) = {}
    BY <2>2 DEF ToSet
  <2> QED
    BY <2>1, <2>2, <2>3, <2>4 DEF IsList
<1>5. \A n \in DOMAIN ss : /\ IsList(ss[n])
                            /\ \A e : e \in ToSet(ss[n]) <=> e = es[n] /\ EventId(e) \notin known
  BY <1>2, <1>4
<1>6. \A m, n \in DOMAIN ss : m # n =>
        \A d \in ToSet(ss[m]), e \in ToSet(ss[n]) : EventId(d) # EventId(e)
  BY <1>2, <1>5 DEF IsList
<1>7. /\ IsList(FlattenSeq(ss))
      /\ ToSet(FlattenSeq(ss)) = UNION {ToSet(ss[n]) : n \in DOMAIN ss}
  BY <1>3, <1>5, <1>6, FlattenLists
<1>8. \A e : e \in ToSet(FlattenSeq(ss)) <=> \E n \in DOMAIN es : e = es[n] /\ EventId(e) \notin known
  BY <1>2, <1>5, <1>7
<1>9. \A e : e \in ToSet(es) <=> \E n \in DOMAIN es : e = es[n]
  BY DEF ToSet
<1> QED
  BY <1>1, <1>7, <1>8, <1>9

\* The beginning of a list is a list.
LEMMA PartOfList ==
    ASSUME NEW es, IsList(es), NEW m \in 0..Len(es)
    PROVE  /\ IsList(SubSeq(es, 1, m)) /\ ToSet(SubSeq(es, 1, m)) \subseteq ToSet(es)
           /\ DOMAIN SubSeq(es, 1, m) = 1..m
           /\ \A n \in 1..m : SubSeq(es, 1, m)[n] = es[n]
<1> DEFINE p == SubSeq(es, 1, m)
<1>1. /\ p \in Seq(ToSet(es)) /\ DOMAIN p = 1..m /\ \A n \in 1..m : p[n] = es[n]
      /\ 1..m \subseteq DOMAIN es
  BY DEF IsList
<1> HIDE DEF p
<1> QED
  BY <1>1, ToSetType DEF IsList, p

\* Two lists that have no id in common make one.
LEMMA ConcatLists ==
    ASSUME NEW a, IsList(a), NEW b, IsList(b),
           \A d \in ToSet(a), e \in ToSet(b) : EventId(d) # EventId(e)
    PROVE  /\ IsList(a \o b)
           /\ ToSet(a \o b) = ToSet(a) \cup ToSet(b)
           /\ Len(a) \in Nat /\ \A m \in 0..Len(a) : SubSeq(a \o b, 1, m) = SubSeq(a, 1, m)
           /\ Len(a) <= Len(a \o b)
<1> DEFINE S == ToSet(a) \cup ToSet(b)
           c == a \o b
<1>1. a \in Seq(S) /\ b \in Seq(S)
  BY SeqMonotonic DEF IsList
<1>2. c \in Seq(S) /\ ToSet(c) = S
  BY <1>1, ToSetConcat
<1>3. \A m \in 0..Len(a) : SubSeq(c, 1, m) = SubSeq(a, 1, m)
  BY <1>1
<1>4. /\ Len(a) \in Nat /\ Len(b) \in Nat
      /\ DOMAIN a = 1..Len(a) /\ DOMAIN b = 1..Len(b) /\ DOMAIN c = 1..(Len(a) + Len(b))
      /\ Len(c) = Len(a) + Len(b)
      /\ \A i \in DOMAIN c : i <= Len(a) => i \in DOMAIN a /\ c[i] = a[i]
      /\ \A i \in DOMAIN c : i > Len(a) => i - Len(a) \in DOMAIN b /\ c[i] = b[i - Len(a)]
  BY <1>1
<1> HIDE DEF c, S
<1>5. ASSUME NEW i \in DOMAIN c, NEW j \in DOMAIN c, EventId(c[i]) = EventId(c[j])
      PROVE  i = j
  <2>1. CASE i <= Len(a) /\ j <= Len(a)
    BY <1>4, <1>5, <2>1 DEF IsList
  <2>2. CASE i > Len(a) /\ j > Len(a)
    <3>1. i - Len(a) = j - Len(a)
      BY <1>4, <1>5, <2>2 DEF IsList
    <3> QED
      BY <1>4, <3>1
  <2>3. \A k, l \in DOMAIN c : k <= Len(a) /\ l > Len(a) => EventId(c[k]) # EventId(c[l])
    BY <1>4 DEF ToSet
  <2> QED
    BY <1>4, <1>5, <2>1, <2>2, <2>3
<1>6. IsList(c)
  BY <1>2, <1>5 DEF IsList
<1> QED
  BY <1>2, <1>3, <1>4, <1>6 DEF c, S

-----------------------------------------------------------------------------
(* What a view holds. *)

\* The events of line n of a session, with what its first b lines show.
Seen(fs, s, n, b) == ToSet(EventsOfLine(s, n, fs[s][n], Correlate(s, SubSeq(fs[s], 1, b))))

\* The list holds the first g[s] lines of every session, each line with what one
\* import of at most those lines has found.
Holds(es, fs, g) ==
    /\ \A e \in ToSet(es) : e.exec \in Sessions /\ e.line \in 1..g[e.exec]
    /\ \A s \in Sessions : \A n \in 1..g[s] : \E b \in n..g[s] :
         {e \in ToSet(es) : e.exec = s /\ e.line = n} = Seen(fs, s, n, b)

\* The beginnings of a file.
LEMMA Beginning ==
    ASSUME NEW file \in Seq(LineSet), NEW k \in 0..Len(file), NEW b \in 0..k
    PROVE  /\ SubSeq(file, 1, b) \in Seq(LineSet)
           /\ DOMAIN SubSeq(file, 1, b) = 1..b
           /\ \A n \in 1..b : SubSeq(file, 1, b)[n] = file[n]
           /\ Begins(SubSeq(file, 1, b), SubSeq(file, 1, k))
           /\ Begins(SubSeq(file, 1, b), file)
<1>1. \A m \in 0..Len(file) : /\ SubSeq(file, 1, m) \in Seq(LineSet)
                              /\ DOMAIN SubSeq(file, 1, m) = 1..m
                              /\ \A n \in 1..m : SubSeq(file, 1, m)[n] = file[n]
  OBVIOUS
<1>2. b \in 0..Len(file) /\ 1..b \subseteq 1..k /\ 1..b \subseteq 1..Len(file) /\ DOMAIN file = 1..Len(file)
  OBVIOUS
<1> QED
  BY <1>1, <1>2 DEF Begins

\* What a set of events tells of a line, if here is what is found wrong on it.
Tells(seen, s, n, line, here) ==
    /\ \/ line.role = "assistant" \/ line.role = "toolResult"
    /\ \A e \in seen : IsEvent(e) /\ e.exec = s /\ e.line = n /\ e.diagnostics \subseteq here
    /\ \A e \in seen : e.kind = "tool_call" =>
         /\ line.role = "assistant" /\ e.index \in DOMAIN line.calls
         /\ e.id = line.calls[e.index].id /\ e.id # NoId
         /\ e.diagnostics = Nested(here, n, e.index, e.id)
    /\ \A e \in seen : e.kind = "tool_result" =>
         line.role = "toolResult" /\ e.id = line.call /\ e.id # NoId
    /\ line.role = "toolResult" =>
         \E e \in seen : e.kind = "tool_result" /\ e.id = line.call
    /\ line.role = "assistant" => \A i \in DOMAIN line.calls : \E e \in seen :
         /\ e.kind = "tool_call" /\ e.index = i /\ e.id = line.calls[i].id
         /\ e.diagnostics = Nested(here, n, e.index, e.id)
    /\ \E e \in seen : e.diagnostics = here

\* The events of a line tell exactly its calls or its result, and what is found.
LEMMA LineFacts ==
    ASSUME NEW s, NEW n, NEW line \in LineSet, NEW found,
           NEW here, here = Here(found, n),
           NEW seen, seen = ToSet(EventsOfLine(s, n, line, found))
    PROVE  Tells(seen, s, n, line, here)
<1>1. \A e \in seen : IsEvent(e) /\ e.exec = s /\ e.line = n /\ e.diagnostics \subseteq here
  <2>1. \A e \in seen : /\ IsEvent(e) /\ e.exec = s /\ e.line = n
                         /\ \A d \in e.diagnostics : d \in found /\ d.at.line = n
    BY LineEventFields
  <2> QED
    BY <2>1 DEF Here
<1>2. CASE line.role = "toolResult"
  <2>1. line.call # NoId /\ line.role # "assistant"
    BY <1>2, ViewAssumption DEF LineSet
  <2>2. seen = {ResultEvent(s, n, line, here)}
    BY <1>2, LineEvents
  <2>3. LET e == ResultEvent(s, n, line, here)
        IN  e.kind = "tool_result" /\ e.id = line.call /\ e.diagnostics = here
    BY DEF ResultEvent, Event
  <2>4. /\ \A e \in seen : e.kind = "tool_result" /\ e.id = line.call
        /\ \E e \in seen : e.kind = "tool_result" /\ e.id = line.call /\ e.diagnostics = here
    BY <2>2, <2>3
  <2> QED
    BY <1>1, <1>2, <2>1, <2>4 DEF Tells
<1>3. CASE line.role # "toolResult"
  <2>1. line.role = "assistant" /\ \A i \in DOMAIN line.calls : line.calls[i].id # NoId
    BY <1>3, ViewAssumption DEF LineSet
  <2>2. seen = {MessageEvent(s, n, here)} \cup {CallEvent(s, n, line, i, here) : i \in DOMAIN line.calls}
    BY <1>3, LineEvents
  <2>3. LET e == MessageEvent(s, n, here) IN e.kind = "message" /\ e.diagnostics = here
    BY DEF MessageEvent, Event
  <2>4. \A i : LET e == CallEvent(s, n, line, i, here)
              IN  /\ e.kind = "tool_call" /\ e.index = i /\ e.id = line.calls[i].id
                  /\ e.diagnostics = Nested(here, n, e.index, e.id)
    BY DEF CallEvent, Event
  <2>5. \A e \in seen : e.kind = "tool_call" =>
          \E i \in DOMAIN line.calls : e = CallEvent(s, n, line, i, here)
    BY <2>2, <2>3, <2>4
  <2>6. /\ \E e \in seen : e.diagnostics = here
        /\ \A i \in DOMAIN line.calls : CallEvent(s, n, line, i, here) \in seen
    BY <2>2, <2>3
  <2>7. \A e \in seen : e.kind = "tool_call" =>
          /\ line.role = "assistant" /\ e.index \in DOMAIN line.calls
          /\ e.id = line.calls[e.index].id /\ e.id # NoId
          /\ e.diagnostics = Nested(here, n, e.index, e.id)
    BY <2>1, <2>4, <2>5
  <2>8. \A i \in DOMAIN line.calls : \E e \in seen :
          /\ e.kind = "tool_call" /\ e.index = i /\ e.id = line.calls[i].id
          /\ e.diagnostics = Nested(here, n, e.index, e.id)
    BY <2>4, <2>6
  <2>9. \A e \in seen : e.kind # "tool_result"
    BY <2>2, <2>3, <2>4
  <2> QED
    BY <1>1, <1>3, <2>1, <2>6, <2>7, <2>8, <2>9, Zenon DEF Tells
<1> QED
  BY <1>2, <1>3

\* What a command reads: a list that holds beginnings of the files.
IsView(es, fs, g) ==
    /\ fs \in [Sessions -> Seq(LineSet)] /\ g \in [Sessions -> Nat]
    /\ \A s \in Sessions : g[s] <= Len(fs[s])
    /\ IsList(es) /\ Holds(es, fs, g)

\* A view tells of every line it holds what some beginning of the file shows.
LEMMA HeldLine ==
    ASSUME NEW es, NEW fs, NEW g, IsView(es, fs, g), NEW s \in Sessions, NEW n \in 1..g[s]
    PROVE  \E b \in n..g[s] :
             Tells({e \in ToSet(es) : e.exec = s /\ e.line = n}, s, n, fs[s][n],
                   Here(Correlate(s, SubSeq(fs[s], 1, b)), n))
<1>1. PICK b \in n..g[s] : {e \in ToSet(es) : e.exec = s /\ e.line = n} = Seen(fs, s, n, b)
  BY DEF IsView, Holds
<1>2. fs[s][n] \in LineSet
  <2>1. fs[s] \in Seq(LineSet) /\ g[s] \in Nat /\ g[s] <= Len(fs[s])
    BY DEF IsView
  <2>2. n \in 1..Len(fs[s])
    BY <2>1
  <2> QED
    BY <2>1, <2>2
<1>3. Tells(Seen(fs, s, n, b), s, n, fs[s][n], Here(Correlate(s, SubSeq(fs[s], 1, b)), n))
  BY <1>2, LineFacts DEF Seen
<1> QED
  BY <1>1, <1>3

\* The beginnings of what a view holds of a session.
LEMMA HeldBeginning ==
    ASSUME NEW es, NEW fs, NEW g, IsView(es, fs, g), NEW s \in Sessions, NEW b \in 0..g[s]
    PROVE  /\ SubSeq(fs[s], 1, b) \in Seq(LineSet)
           /\ DOMAIN SubSeq(fs[s], 1, b) = 1..b
           /\ \A n \in 1..b : SubSeq(fs[s], 1, b)[n] = fs[s][n]
           /\ Begins(SubSeq(fs[s], 1, b), SubSeq(fs[s], 1, g[s]))
<1>1. fs[s] \in Seq(LineSet) /\ g[s] \in 0..Len(fs[s])
  BY DEF IsView
<1> QED
  BY <1>1, Beginning

\* An id is answered if a result of the same execution has it (observe.ts:171-201).
LEMMA AnsweredMember ==
    ASSUME NEW es, NEW s, NEW id
    PROVE  <<s, id>> \in Answered(es) <=>
             \E e \in ToSet(es) : e.kind = "tool_result" /\ e.exec = s /\ e.id = id
BY DEF Answered, ToSet

\* A view has the answer to a call if what it holds of the file has it.
LEMMA AnsweredBy ==
    ASSUME NEW es, NEW fs, NEW g, IsView(es, fs, g), NEW s \in Sessions, NEW id
    PROVE  <<s, id>> \in Answered(es) <=>
             \E r \in ResultLocations(s, SubSeq(fs[s], 1, g[s])) : r.id = id
<1> DEFINE part == SubSeq(fs[s], 1, g[s])
<1>0. DOMAIN part = 1..g[s] /\ \A n \in 1..g[s] : part[n] = fs[s][n]
  <2>1. g[s] \in 0..g[s]
    BY DEF IsView
  <2> QED
    BY <2>1, HeldBeginning
<1> HIDE DEF part
<1>1. ASSUME <<s, id>> \in Answered(es)
      PROVE  \E r \in ResultLocations(s, part) : r.id = id
  <2>1. PICK e \in ToSet(es) : e.kind = "tool_result" /\ e.exec = s /\ e.id = id
    BY <1>1, AnsweredMember
  <2> DEFINE n == e.line
  <2>2. n \in 1..g[s]
    BY <2>1 DEF IsView, Holds
  <2>3. part[n].role = "toolResult" /\ part[n].call = id
    BY <1>0, <2>1, <2>2, HeldLine DEF Tells
  <2>4. Location(s, n, 0, part[n].call) \in ResultLocations(s, part)
    BY <1>0, <2>2, <2>3, ResultsAt
  <2> QED
    BY <2>3, <2>4 DEF Location
<1>2. ASSUME NEW r \in ResultLocations(s, part), r.id = id
      PROVE  <<s, id>> \in Answered(es)
  <2>0. PICK n \in DOMAIN part : part[n].role = "toolResult" /\ r = Location(s, n, 0, part[n].call)
    BY ResultsAt
  <2>1. n \in 1..g[s] /\ part[n] = fs[s][n]
    BY <1>0
  <2>2. PICK e \in ToSet(es) : e.exec = s /\ e.kind = "tool_result" /\ e.id = part[n].call
    BY <2>0, <2>1, HeldLine DEF Tells
  <2> QED
    BY <1>2, <2>0, <2>2, AnsweredMember DEF Location
<1> QED
  BY <1>1, <1>2 DEF part

CallAt(e) == Location(e.exec, e.line, e.index, e.id)

\* A call that a view holds carries that its result is missing, if the view has
\* none, and nothing else is missing according to it.
LEMMA HeldCall ==
    ASSUME NEW es, NEW fs, NEW g, IsView(es, fs, g), NEW e \in ToSet(es), e.kind = "tool_call"
    PROVE  /\ e.exec \in Sessions /\ e.id # NoId
           /\ CallAt(e) \in CallLocations(e.exec, SubSeq(fs[e.exec], 1, g[e.exec]))
           /\ <<e.exec, e.id>> \notin Answered(es) =>
                [code |-> Missing, at |-> CallAt(e)] \in e.diagnostics
           /\ \A d \in e.diagnostics : d.code = Missing => d = [code |-> Missing, at |-> CallAt(e)]
<1> DEFINE s == e.exec
           n == e.line
           all == SubSeq(fs[s], 1, g[s])
<1>1. s \in Sessions /\ n \in 1..g[s] /\ g[s] \in Nat
  BY DEF IsView, Holds
<1>2. PICK b \in n..g[s] :
         Tells({x \in ToSet(es) : x.exec = s /\ x.line = n}, s, n, fs[s][n],
               Here(Correlate(s, SubSeq(fs[s], 1, b)), n))
  BY <1>1, HeldLine
<1> DEFINE part == SubSeq(fs[s], 1, b)
           here == Here(Correlate(s, part), n)
<1>3. /\ DOMAIN part = 1..b /\ part[n] = fs[s][n] /\ n \in 1..b /\ Begins(part, all)
      /\ part[n] \in LineSet
  <2>1. b \in 0..g[s] /\ n \in 1..b
    BY <1>1
  <2>2. /\ part \in Seq(LineSet) /\ DOMAIN part = 1..b /\ Begins(part, all)
        /\ \A m \in 1..b : part[m] = fs[s][m]
    BY <1>1, <2>1, HeldBeginning
  <2>3. part[n] \in LineSet
    BY <2>1, <2>2
  <2> QED
    BY <2>1, <2>2, <2>3
<1>4. /\ part[n].role = "assistant" /\ e.index \in DOMAIN part[n].calls
      /\ e.id = part[n].calls[e.index].id /\ e.id # NoId
      /\ e.diagnostics = Nested(here, n, e.index, e.id)
  <2> DEFINE seen == {x \in ToSet(es) : x.exec = s /\ x.line = n}
  <2>1. e \in seen
    OBVIOUS
  <2>2. Tells(seen, s, n, part[n], here)
    BY <1>2, <1>3
  <2> HIDE DEF seen, here, part, s, n
  <2> QED
    BY <2>1, <2>2 DEF Tells
<1>5. CallAt(e) \in CallLocations(s, part)
  BY <1>3, <1>4, CallsAt DEF CallAt
<1>6. CallAt(e) \in CallLocations(s, all)
  BY <1>3, <1>5, LocationsGrow
<1> DEFINE f == [code |-> Missing, at |-> CallAt(e)]
<1> HIDE DEF all, part, here, f
<1>7. ASSUME <<s, e.id>> \notin Answered(es)
      PROVE  f \in e.diagnostics
  <2>1. \A r \in ResultLocations(s, all) : r.id # e.id
    BY <1>1, <1>7, AnsweredBy DEF all
  <2>2. \A r \in ResultLocations(s, part) : r.id # CallAt(e).id
    BY <1>3, <2>1, LocationsGrow DEF CallAt, Location
  <2>3. f.code = Missing
    BY DEF f
  <2>4. f \in Correlate(s, part)
    BY <1>5, <2>2, <2>3, MissingFound DEF f
  <2>5. f.at.line = n /\ f.at.index = e.index /\ f.at.id = e.id
    BY DEF f, CallAt, Location
  <2> QED
    BY <1>4, <2>4, <2>5 DEF here, Here, Nested
<1>8. ASSUME NEW d \in e.diagnostics, d.code = Missing
      PROVE  d = f
  <2>1. /\ d \in Correlate(s, part) /\ d.at.line = n
        /\ d.at.index \in {0, e.index}
    BY <1>4 DEF here, Here, Nested
  <2>2. PICK c \in CallLocations(s, part) : d = [code |-> Missing, at |-> c]
    BY <1>8, <2>1, MissingFound
  <2>3. PICK m, i : /\ m \in DOMAIN part
                    /\ part[m].role = "assistant" /\ i \in DOMAIN part[m].calls
                    /\ c = Location(s, m, i, part[m].calls[i].id)
    BY CallsAt
  <2>4. m = n /\ i \in {0, e.index}
    BY <2>1, <2>2, <2>3 DEF Location
  <2>5. i # 0
    <3>1. part[n].calls \in Seq(ToSet(part[n].calls))
      BY <1>3, <1>4, ViewAssumption DEF LineSet
    <3> QED
      BY <2>3, <2>4, <3>1
  <2>6. c = CallAt(e)
    BY <1>4, <2>3, <2>4, <2>5 DEF CallAt
  <2> QED
    BY <2>2, <2>6 DEF f
<1> QED
  BY <1>1, <1>4, <1>6, <1>7, <1>8 DEF all, f

\* What a view holds to be missing, on whatever event, is missing at its call.
LEMMA HeldMissing ==
    ASSUME NEW es, NEW fs, NEW g, IsView(es, fs, g), NEW e \in ToSet(es),
           NEW d \in e.diagnostics, d.code = Missing
    PROVE  \E c \in ToSet(es) : c.kind = "tool_call" /\ c.exec = e.exec /\ d \in c.diagnostics
<1> DEFINE s == e.exec
           n == e.line
<1>1. s \in Sessions /\ n \in 1..g[s] /\ g[s] \in Nat
  BY DEF IsView, Holds
<1>2. PICK b \in n..g[s] :
         Tells({x \in ToSet(es) : x.exec = s /\ x.line = n}, s, n, fs[s][n],
               Here(Correlate(s, SubSeq(fs[s], 1, b)), n))
  BY <1>1, HeldLine
<1> DEFINE part == SubSeq(fs[s], 1, b)
           here == Here(Correlate(s, part), n)
<1>3. part[n] = fs[s][n] /\ DOMAIN part = 1..b
  <2>1. b \in 0..g[s] /\ n \in 1..b
    BY <1>1
  <2> QED
    BY <1>1, <2>1, HeldBeginning
<1>4. d \in here
  BY <1>2, Zenon DEF Tells
<1> HIDE DEF part
<1>5. d \in Correlate(s, part) /\ d.at.line = n
  BY <1>4 DEF Here
<1>6. PICK c \in CallLocations(s, part) : d = [code |-> Missing, at |-> c]
  BY <1>5, MissingFound
<1>7. PICK m, i : /\ m \in DOMAIN part
                  /\ part[m].role = "assistant" /\ i \in DOMAIN part[m].calls
                  /\ c = Location(s, m, i, part[m].calls[i].id)
  BY CallsAt
<1>8. m = n
  BY <1>5, <1>6, <1>7 DEF Location
<1>9. PICK x \in ToSet(es) :
             /\ x.exec = s /\ x.kind = "tool_call" /\ x.index = i /\ x.id = part[n].calls[i].id
             /\ x.diagnostics = Nested(here, n, x.index, x.id)
  <2> DEFINE seen == {x \in ToSet(es) : x.exec = s /\ x.line = n}
  <2>1. Tells(seen, s, n, part[n], here)
    BY <1>2, <1>3 DEF part
  <2>2. \A x \in seen : x \in ToSet(es) /\ x.exec = s
    OBVIOUS
  <2> HIDE DEF seen, here, s, n
  <2> QED
    BY <1>7, <1>8, <2>1, <2>2 DEF Tells
<1>10. d \in x.diagnostics
  BY <1>4, <1>6, <1>7, <1>8, <1>9 DEF Nested, Location
<1> QED
  BY <1>9, <1>10

\* A diagnostic is resolved if it is the missing result of an answered call that
\* carries it (observe.ts:171-201).
LEMMA ResolvedMember ==
    ASSUME NEW es, NEW s, NEW d
    PROVE  <<s, d>> \in Resolved(es) <=>
             \E c \in ToSet(es) : /\ c.kind = "tool_call" /\ c.exec = s
                                 /\ d \in c.diagnostics /\ d.code = Missing
                                 /\ <<s, c.id>> \in Answered(es)
<1>1. <<s, d>> \in Resolved(es) <=>
        \E m \in DOMAIN es : /\ es[m].kind = "tool_call" /\ es[m].exec = s
                             /\ d \in es[m].diagnostics /\ d.code = Missing
                             /\ <<es[m].exec, es[m].id>> \in Answered(es)
  <2> DEFINE ok == {m \in DOMAIN es : /\ es[m].kind = "tool_call"
                                      /\ <<es[m].exec, es[m].id>> \in Answered(es)}
             of(n) == {<<es[n].exec, x>> : x \in {y \in es[n].diagnostics : y.code = "missing_tool_result"}}
  <2>1. Resolved(es) = UNION {of(n) : n \in ok}
    BY Zenon DEF Resolved
  <2>2. \A n : <<s, d>> \in of(n) <=> es[n].exec = s /\ d \in es[n].diagnostics /\ d.code = Missing
    BY DEF Missing
  <2> HIDE DEF of
  <2>3. <<s, d>> \in Resolved(es) <=> \E n \in ok : <<s, d>> \in of(n)
    BY <2>1
  <2> QED
    BY <2>2, <2>3
<1>2. \A c : c \in ToSet(es) <=> \E m \in DOMAIN es : c = es[m]
  BY DEF ToSet
<1> QED
  BY <1>1, <1>2

\* Reconciling takes nothing from the events but what is missing no more.
LEMMA ReconciledEvents ==
    ASSUME NEW es, IsList(es), \A e \in ToSet(es) : IsEvent(e)
    PROVE  LET v == ReconcileEvents(es)
           IN  /\ DOMAIN v = DOMAIN es /\ IsList(v)
               /\ \A n \in DOMAIN es :
                    /\ IsEvent(v[n])
                    /\ v[n].exec = es[n].exec /\ v[n].line = es[n].line /\ v[n].kind = es[n].kind
                    /\ v[n].index = es[n].index /\ v[n].id = es[n].id
                    /\ v[n].diagnostics =
                         {d \in es[n].diagnostics : <<es[n].exec, d>> \notin Resolved(es)}
<1> DEFINE v == ReconcileEvents(es)
           left(n) == {d \in es[n].diagnostics : <<es[n].exec, d>> \notin Resolved(es)}
<1>1. v = [n \in DOMAIN es |-> [es[n] EXCEPT !.diagnostics = left(n)]]
  BY Zenon DEF ReconcileEvents
<1> HIDE DEF v, left
<1>2. DOMAIN v = DOMAIN es /\ \A n \in DOMAIN es : v[n] = [es[n] EXCEPT !.diagnostics = left(n)]
  BY <1>1
<1>3. \A e, D : IsEvent(e) =>
        LET f == [e EXCEPT !.diagnostics = D]
        IN  /\ IsEvent(f) /\ f.exec = e.exec /\ f.line = e.line /\ f.kind = e.kind
            /\ f.index = e.index /\ f.id = e.id /\ f.diagnostics = D
  BY DEF IsEvent, Event
<1>4. ASSUME NEW n \in DOMAIN es
      PROVE  /\ IsEvent(v[n])
             /\ v[n].exec = es[n].exec /\ v[n].line = es[n].line /\ v[n].kind = es[n].kind
             /\ v[n].index = es[n].index /\ v[n].id = es[n].id
             /\ v[n].diagnostics = left(n)
  <2>1. IsEvent(es[n])
    BY DEF ToSet
  <2> DEFINE e == es[n]
             D == left(n)
             f == [e EXCEPT !.diagnostics = D]
  <2>2. v[n] = f
    BY <1>2, Zenon
  <2> HIDE DEF e, D
  <2>3. /\ IsEvent(f) /\ f.exec = e.exec /\ f.line = e.line /\ f.kind = e.kind
        /\ f.index = e.index /\ f.id = e.id /\ f.diagnostics = D
    BY <1>3, <2>1 DEF e
  <2> QED
    BY <2>2, <2>3, Zenon DEF e, D
<1>5. IsList(v)
  <2>1. Len(es) \in Nat /\ DOMAIN es = 1..Len(es)
    BY DEF IsList
  <2>2. v = [n \in 1..Len(es) |-> v[n]]
    BY <1>1, <1>2, <2>1
  <2>3. v \in Seq(ToSet(v))
    <3>1. \A n \in 1..Len(es) : v[n] \in ToSet(v)
      BY <1>2, <2>1 DEF ToSet
    <3> QED
      BY <2>1, <2>2, <3>1
  <2>4. \A n \in DOMAIN es : EventId(v[n]) = EventId(es[n])
    BY <1>4 DEF EventId
  <2> QED
    BY <1>2, <2>3, <2>4 DEF IsList
<1> QED
  BY <1>2, <1>4, <1>5 DEF v, left

\* A view holds events.
LEMMA ViewEvents ==
    ASSUME NEW es, NEW fs, NEW g, IsView(es, fs, g)
    PROVE  \A e \in ToSet(es) : IsEvent(e)
<1> SUFFICES ASSUME NEW e \in ToSet(es) PROVE IsEvent(e)
  OBVIOUS
<1>1. e.exec \in Sessions /\ e.line \in 1..g[e.exec]
  BY DEF IsView, Holds
<1> DEFINE s == e.exec
           n == e.line
           seen == {x \in ToSet(es) : x.exec = s /\ x.line = n}
<1>2. PICK b \in n..g[s] : Tells(seen, s, n, fs[s][n], Here(Correlate(s, SubSeq(fs[s], 1, b)), n))
  BY <1>1, HeldLine
<1>3. e \in seen
  OBVIOUS
<1> HIDE DEF seen, s, n
<1> QED
  BY <1>2, <1>3 DEF Tells

\* The first of some places of a list.
LEMMA FirstPlace ==
    ASSUME NEW N \in Nat, NEW S \in SUBSET (1..N), S # {}
    PROVE  Min(S) \in S /\ \A n \in S : Min(S) <= n
<1>1. \E m \in S : \A n \in S : m <= n
  BY NatLeast
<1> QED
  BY <1>1 DEF Min

\* The result that an operation takes is a result, and it takes none exactly if its
\* id is not answered.
LEMMA ResultPlace ==
    ASSUME NEW es, IsList(es), NEW c \in DOMAIN es
    PROVE  /\ ResultAt(es, c) = 0 <=> <<es[c].exec, es[c].id>> \notin Answered(es)
           /\ ResultAt(es, c) # 0 =>
                /\ ResultAt(es, c) \in DOMAIN es
                /\ es[ResultAt(es, c)].kind = "tool_result"
           /\ ResultAt(es, c) \in Nat
<1> DEFINE results == {n \in DOMAIN es : /\ es[n].kind = "tool_result"
                                         /\ es[n].exec = es[c].exec
                                         /\ es[n].id = es[c].id}
<1>1. DOMAIN es = 1..Len(es) /\ Len(es) \in Nat
  BY DEF IsList
<1>2. <<es[c].exec, es[c].id>> \in Answered(es) <=> results # {}
  BY DEF Answered
<1>3. ResultAt(es, c) = IF results = {} THEN 0 ELSE Min(results)
  BY Zenon DEF ResultAt
<1>4. results # {} => Min(results) \in results
  BY <1>1, FirstPlace
<1>5. \A n \in results : n \in DOMAIN es /\ es[n].kind = "tool_result" /\ n # 0 /\ n \in Nat
  BY <1>1
<1> HIDE DEF results
<1> QED
  BY <1>2, <1>3, <1>4, <1>5

\* MissingExact, of one view.
MissingIn(ev) ==
    LET unanswered == {c \in Operations(ev) : ResultAt(ev, c) = 0}
    IN  /\ \A c \in unanswered : [code |-> Missing, at |-> CallAt(ev[c])] \in ev[c].diagnostics
        /\ \A d \in EventDiagnostics(ev) :
             d.code = Missing => \E c \in unanswered : d.at = CallAt(ev[c])

\* The calls that have no result in a view, by its list.
LEMMA OpenCalls ==
    ASSUME NEW es, NEW fs, NEW g, IsView(es, fs, g), NEW c
    PROVE  LET ev == ReconcileEvents(es)
           IN  c \in {x \in Operations(ev) : ResultAt(ev, x) = 0} <=>
                 /\ c \in DOMAIN es /\ es[c].kind = "tool_call"
                 /\ <<es[c].exec, es[c].id>> \notin Answered(es)
<1> DEFINE ev == ReconcileEvents(es)
<1>1. /\ DOMAIN ev = DOMAIN es /\ IsList(ev)
      /\ \A n \in DOMAIN es : /\ ev[n].exec = es[n].exec /\ ev[n].kind = es[n].kind
                               /\ ev[n].id = es[n].id
  BY ViewEvents, ReconciledEvents DEF IsView
<1> HIDE DEF ev
<1>2. \A s, id : <<s, id>> \in Answered(ev) <=> <<s, id>> \in Answered(es)
  <2> SUFFICES ASSUME NEW s, NEW id PROVE <<s, id>> \in Answered(ev) <=> <<s, id>> \in Answered(es)
    OBVIOUS
  <2>1. <<s, id>> \in Answered(ev) <=>
          \E n \in DOMAIN ev : ev[n].kind = "tool_result" /\ ev[n].exec = s /\ ev[n].id = id
    BY DEF Answered
  <2>2. <<s, id>> \in Answered(es) <=>
          \E n \in DOMAIN es : es[n].kind = "tool_result" /\ es[n].exec = s /\ es[n].id = id
    BY DEF Answered
  <2> QED
    BY <1>1, <2>1, <2>2
<1>3. \A x \in DOMAIN ev : ResultAt(ev, x) = 0 <=> <<ev[x].exec, ev[x].id>> \notin Answered(ev)
  BY <1>1, ResultPlace
<1> QED
  BY <1>1, <1>2, <1>3 DEF Operations, ev

\* After reconciling, a list that holds beginnings of the files reports as missing
\* exactly the results it does not hold.
LEMMA ViewMissing ==
    ASSUME NEW es, NEW fs, NEW g, IsView(es, fs, g)
    PROVE  MissingIn(ReconcileEvents(es))
<1> DEFINE ev == ReconcileEvents(es)
           open == {c \in Operations(ev) : ResultAt(ev, c) = 0}
<1>1. /\ DOMAIN ev = DOMAIN es
      /\ \A n \in DOMAIN es : /\ CallAt(ev[n]) = CallAt(es[n])
                               /\ ev[n].diagnostics =
                                    {d \in es[n].diagnostics : <<es[n].exec, d>> \notin Resolved(es)}
  BY ViewEvents, ReconciledEvents DEF IsView, CallAt
<1>2. \A c : c \in open <=> /\ c \in DOMAIN es /\ es[c].kind = "tool_call"
                            /\ <<es[c].exec, es[c].id>> \notin Answered(es)
  BY OpenCalls
<1>3. \A n \in DOMAIN es : es[n] \in ToSet(es)
  BY DEF ToSet
<1> HIDE DEF ev, open
<1>4. ASSUME NEW c \in open
      PROVE  [code |-> Missing, at |-> CallAt(ev[c])] \in ev[c].diagnostics
  <2> DEFINE e == es[c]
             f == [code |-> Missing, at |-> CallAt(e)]
  <2>1. /\ c \in DOMAIN es /\ e \in ToSet(es) /\ e.kind = "tool_call"
        /\ <<e.exec, e.id>> \notin Answered(es)
    BY <1>2, <1>3
  <2>2. f \in e.diagnostics
    BY <2>1, HeldCall
  <2>3. ASSUME <<e.exec, f>> \in Resolved(es) PROVE FALSE
    <3>1. PICK x \in ToSet(es) : /\ x.kind = "tool_call" /\ x.exec = e.exec
                                 /\ f \in x.diagnostics /\ f.code = Missing
                                 /\ <<x.exec, x.id>> \in Answered(es)
      BY <2>3, ResolvedMember
    <3>2. f = [code |-> Missing, at |-> CallAt(x)]
      BY <3>1, HeldCall
    <3>3. x.id = e.id
      BY <3>2 DEF CallAt, Location
    <3> QED
      BY <2>1, <3>1, <3>3
  <2> QED
    BY <1>1, <2>1, <2>2, <2>3
<1>5. ASSUME NEW d \in EventDiagnostics(ev), d.code = Missing
      PROVE  \E c \in open : d.at = CallAt(ev[c])
  <2>1. PICK n \in DOMAIN es : d \in es[n].diagnostics /\ <<es[n].exec, d>> \notin Resolved(es)
    BY <1>1 DEF EventDiagnostics
  <2>2. PICK x \in ToSet(es) : x.kind = "tool_call" /\ x.exec = es[n].exec /\ d \in x.diagnostics
    BY <1>3, <1>5, <2>1, HeldMissing
  <2>3. d.at = CallAt(x)
    <3>1. d = [code |-> Missing, at |-> CallAt(x)]
      BY <1>5, <2>2, HeldCall
    <3> QED
      BY <3>1, Zenon
  <2>4. <<x.exec, x.id>> \notin Answered(es)
    BY <1>5, <2>1, <2>2, ResolvedMember
  <2>5. PICK c \in DOMAIN es : es[c] = x
    BY DEF ToSet
  <2> QED
    BY <1>1, <1>2, <2>2, <2>3, <2>4, <2>5
<1> QED
  BY <1>4, <1>5 DEF MissingIn, ev, open

-----------------------------------------------------------------------------
(* What a handoff says of any list of events. *)

\* The last of some places.
LEMMA LastPlace ==
    ASSUME NEW N \in Nat, NEW S \in SUBSET (0..N), S # {}
    PROVE  Max(S) \in S /\ \A n \in S : n <= Max(S)
<1> DEFINE T == {n \in Nat : \E x \in S : n = N - x}
<1>1. T \in SUBSET Nat /\ T # {}
  <2>1. PICK x \in S : TRUE
    OBVIOUS
  <2>2. x \in 0..N /\ N - x \in Nat
    OBVIOUS
  <2> QED
    BY <2>2
<1>2. PICK t \in T : \A n \in T : t <= n
  BY <1>1, NatLeast
<1>3. PICK m \in S : t = N - m
  BY <1>2
<1>4. \A n \in S : n <= m
  <2> SUFFICES ASSUME NEW n \in S PROVE n <= m
    OBVIOUS
  <2>1. n \in 0..N /\ m \in 0..N /\ N - n \in Nat
    OBVIOUS
  <2>2. N - m <= N - n
    BY <1>2, <1>3, <2>1
  <2> QED
    BY <2>1, <2>2
<1>5. \A n \in S : n \in Nat
  OBVIOUS
<1> QED
  BY <1>4, <1>5 DEF Max

\* A call is pending exactly if it has no result.
LEMMA PendingCalls ==
    ASSUME NEW ev
    PROVE  /\ Pending(ev) = {c \in Operations(ev) : ResultAt(ev, c) = 0}
           /\ NextSteps(ev) = Pending(ev)
<1>1. \A c : Status(ev, c) = "pending" <=> ResultAt(ev, c) = 0
  BY DEF Status
<1> QED
  BY <1>1 DEF Pending, NextSteps

\* VerifiedMeansTested, of one list.
LEMMA VerifiedList ==
    ASSUME NEW ev, IsList(ev), Verified(ev)
    PROVE  \E t \in Tests(ev) :
             /\ Status(ev, t) = "succeeded"
             /\ \A u \in Tests(ev) : u <= t
             /\ \A c \in Edits(ev) : /\ ev[c].exec = ev[t].exec
                                     /\ c < t /\ ResultAt(ev, c) < t
<1> DEFINE N == Len(ev)
           t == LatestTest(ev)
           edit == LatestEdit(ev)
<1>1. N \in Nat /\ DOMAIN ev = 1..N
  BY DEF IsList
<1>2. /\ Tests(ev) \subseteq 1..N /\ Edits(ev) \subseteq 1..N
      /\ \A c \in 1..N : ResultAt(ev, c) \in 0..N
  <2>1. Tests(ev) \subseteq 1..N /\ Edits(ev) \subseteq 1..N
    BY <1>1 DEF Tests, Edits, Operations
  <2>2. \A c \in 1..N : ResultAt(ev, c) \in 0..N
    <3> SUFFICES ASSUME NEW c \in 1..N PROVE ResultAt(ev, c) \in 0..N
      OBVIOUS
    <3>1. /\ ResultAt(ev, c) # 0 => ResultAt(ev, c) \in 1..N
          /\ ResultAt(ev, c) \in Nat
      BY <1>1, ResultPlace
    <3> HIDE DEF N
    <3> QED
      BY <1>1, <3>1
  <2> QED
    BY <2>1, <2>2
<1>3. /\ Edits(ev) # {} /\ Tests(ev) # {} /\ CurrentTest(ev)
      /\ Status(ev, t) = "succeeded"
  BY DEF Verified, Verification
<1>4. t \in Tests(ev) /\ \A u \in Tests(ev) : u <= t
  <2>1. t = Max(Tests(ev))
    <3>1. {Start(c) : c \in Tests(ev)} = Tests(ev)
      BY DEF Start
    <3> QED
      BY <3>1, Zenon DEF LatestTest
  <2> HIDE DEF N, t
  <2>2. Tests(ev) \in SUBSET (0..N)
    BY <1>1, <1>2
  <2> QED
    BY <1>1, <1>3, <2>1, <2>2, LastPlace
<1>5. \A c \in Edits(ev) : /\ End(ev, c) \in 0..N /\ c <= End(ev, c) /\ ResultAt(ev, c) <= End(ev, c)
  <2> SUFFICES ASSUME NEW c \in Edits(ev)
               PROVE  End(ev, c) \in 0..N /\ c <= End(ev, c) /\ ResultAt(ev, c) <= End(ev, c)
    OBVIOUS
  <2> DEFINE S == {c, ResultAt(ev, c)}
  <2> HIDE DEF N
  <2>1. S \in SUBSET (0..N) /\ S # {}
    BY <1>1, <1>2
  <2>2. Max(S) \in S /\ \A n \in S : n <= Max(S)
    BY <1>1, <2>1, LastPlace
  <2> QED
    BY <2>1, <2>2 DEF End
<1>6. edit \in Edits(ev) /\ \A c \in Edits(ev) : End(ev, c) <= End(ev, edit)
  <2> DEFINE ends == {End(ev, c) : c \in Edits(ev)}
             last == {c \in Edits(ev) : End(ev, c) = Max(ends)}
  <2> HIDE DEF N
  <2>1. ends \in SUBSET (0..N) /\ ends # {}
    BY <1>3, <1>5
  <2>2. Max(ends) \in ends /\ \A n \in ends : n <= Max(ends)
    BY <1>1, <2>1, LastPlace
  <2>3. edit = Max(last)
    BY Zenon DEF LatestEdit
  <2>4. last \in SUBSET (0..N) /\ last # {}
    <3>1. last \subseteq 1..N
      BY <1>2
    <3>2. PICK c \in Edits(ev) : End(ev, c) = Max(ends)
      BY <2>2
    <3>3. c \in last
      BY <3>2
    <3> HIDE DEF last
    <3> QED
      BY <1>1, <3>1, <3>3
  <2>5. Max(last) \in last
    BY <1>1, <2>4, LastPlace
  <2> QED
    BY <2>2, <2>3, <2>5
<1>7. /\ \A c \in Edits(ev) : ev[c].exec = ev[t].exec
      /\ t > End(ev, edit)
  <2>1. {ev[c].exec : c \in Edits(ev)} = {ev[t].exec} /\ t > End(ev, edit)
    BY <1>3, Zenon DEF CurrentTest, Start
  <2> QED
    BY <2>1
<1>8. \A c \in Edits(ev) : c < t /\ ResultAt(ev, c) < t
  <2> SUFFICES ASSUME NEW c \in Edits(ev) PROVE c < t /\ ResultAt(ev, c) < t
    OBVIOUS
  <2> QED
    BY <1>1, <1>2, <1>4, <1>5, <1>6, <1>7
<1> QED
  BY <1>3, <1>4, <1>7, <1>8

\* OpenWorkIsNamed, of one list and the codes that are shown with it.
NamedIn(ev, codes) ==
    LET open == Pending(ev) # {} \/ (Edits(ev) # {} /\ ~ Verified(ev))
    IN  /\ (Pending(ev) # {}) = (Missing \in codes)
        /\ (Pending(ev) # {}) = (CurrentState(ev, codes) = "pending")
        /\ open => Unresolved(ev) # "none"
        /\ Unresolved(ev) # "none" =>
             Continuation(ev) # {} /\ CurrentState(ev, codes) # "none"
        /\ \A c \in Pending(ev) : <<"complete", c>> \in Continuation(ev)

\* It holds whenever the codes say that a result is missing exactly if one is pending.
LEMMA NamedList ==
    ASSUME NEW ev, NEW codes, Missing \in codes <=> Pending(ev) # {}
    PROVE  NamedIn(ev, codes)
<1>0. SUFFICES /\ (Pending(ev) # {}) = (CurrentState(ev, codes) = "pending")
               /\ (Pending(ev) # {} \/ (Edits(ev) # {} /\ ~ Verified(ev))) => Unresolved(ev) # "none"
               /\ Unresolved(ev) # "none" => Continuation(ev) # {} /\ CurrentState(ev, codes) # "none"
               /\ \A c \in Pending(ev) : <<"complete", c>> \in Continuation(ev)
  BY DEF NamedIn
<1>1. \A c : Status(ev, c) \in {"pending", "succeeded", "failed"}
  BY DEF Status
<1>2. Edits(ev) # {} => Verification(ev) # "none"
  BY <1>1 DEF Verification
<1>3. Edits(ev) = {} => Verification(ev) \in {"failed", "none"} /\ ~ Verified(ev)
  BY DEF Verification, Verified
<1>4. \A c \in Pending(ev) : <<"complete", c>> \in Continuation(ev)
  BY PendingCalls DEF Continuation
<1>5. CASE Pending(ev) # {}
  <2>1. Unresolved(ev) = "pending" /\ CurrentState(ev, codes) = "pending"
    BY <1>5 DEF Unresolved, CurrentState
  <2>2. Continuation(ev) # {}
    BY <1>4, <1>5
  <2> QED
    BY <1>4, <1>5, <2>1, <2>2
<1>6. CASE Pending(ev) = {} /\ Edits(ev) # {}
  <2>1. CurrentState(ev, codes) = "edits"
    BY <1>6 DEF CurrentState
  <2>2. Unresolved(ev) = IF Verified(ev) THEN "none" ELSE Verification(ev)
    BY <1>6 DEF Unresolved
  <2>3. ~ Verified(ev) => Continuation(ev) # {}
    <3>1. ASSUME ~ Verified(ev), NEW c \in Edits(ev) PROVE <<"verify", c>> \in Continuation(ev)
      BY <1>6, <3>1 DEF Continuation
    <3> QED
      BY <1>6, <3>1
  <2> QED
    BY <1>2, <1>6, <2>1, <2>2, <2>3
<1>7. CASE Pending(ev) = {} /\ Edits(ev) = {}
  <2>1. Unresolved(ev) = Verification(ev)
    BY <1>3, <1>7 DEF Unresolved
  <2>2. CASE Verification(ev) = "failed"
    <3>1. CurrentState(ev, codes) = "verification"
      BY <1>7, <2>2 DEF CurrentState
    <3>2. <<"investigate", LatestTest(ev)>> \in Continuation(ev)
      BY <1>7, <2>2 DEF Continuation
    <3> QED
      BY <1>7, <3>1, <3>2
  <2>3. CASE Verification(ev) = "none"
    <3>1. CurrentState(ev, codes) # "pending"
      BY <1>7 DEF CurrentState, Missing
    <3> QED
      BY <1>7, <2>1, <2>3, <3>1
  <2> QED
    BY <1>3, <1>7, <2>2, <2>3
<1> QED
  BY <1>5, <1>6, <1>7

-----------------------------------------------------------------------------
(* The invariant. *)

Lengths(fs) == [s \in Sessions |-> Len(fs[s])]

\* The rows hold the whole files, the beginning that a checkpoint pins holds some
\* beginning of each, and the Work reports what is wrong with the files.
Inv ==
    /\ files \in [Sessions -> Seq(LineSet)] /\ \A s \in Sessions : files[s] \in Seq(Lines[s])
    /\ IsList(rows)
    /\ diagnostics = UNION {Correlate(s, files[s]) : s \in Sessions}
    /\ Holds(rows, files, Lengths(files))
    /\ watermarks \subseteq 1..Len(rows)
    /\ \A m \in watermarks : \E g \in [Sessions -> Nat] :
         /\ \A s \in Sessions : g[s] <= Len(files[s])
         /\ Holds(SubSeq(rows, 1, m), files, g)

\* The empty Work satisfies the invariant.
LEMMA InvInit == Init => Inv
<1> SUFFICES ASSUME Init PROVE Inv
  OBVIOUS
<1>1. \A s \in Sessions : files[s] = <<>> /\ Len(files[s]) = 0
  BY DEF Init
<1>2. files \in [Sessions -> Seq(LineSet)] /\ \A s \in Sessions : files[s] \in Seq(Lines[s])
  BY DEF Init
<1>3. IsList(rows) /\ ToSet(rows) = {}
  <2>1. rows = <<>> /\ DOMAIN <<>> = {} /\ <<>> \in Seq({})
    BY DEF Init
  <2>2. ToSet(rows) = {}
    BY <2>1 DEF ToSet
  <2> QED
    BY <2>1, <2>2 DEF IsList
<1>4. diagnostics = UNION {Correlate(s, files[s]) : s \in Sessions}
  <2>1. \A s \in Sessions : Correlate(s, files[s]) = {}
    <3> SUFFICES ASSUME NEW s \in Sessions PROVE Correlate(s, files[s]) = {}
      OBVIOUS
    <3>1. DOMAIN files[s] = {}
      BY <1>1
    <3> QED
      BY <3>1, FoundAt
  <2> QED
    BY <2>1 DEF Init
<1>5. Holds(rows, files, Lengths(files))
  BY <1>1, <1>3 DEF Holds, Lengths
<1> QED
  BY <1>2, <1>3, <1>4, <1>5 DEF Inv, Init

\* What the live view reads holds the files.
LEMMA LiveView ==
    Inv => IsView(rows, files, Lengths(files))
<1> SUFFICES ASSUME Inv PROVE IsView(rows, files, Lengths(files))
  OBVIOUS
<1>1. files \in [Sessions -> Seq(LineSet)]
  BY DEF Inv
<1>2. \A s \in Sessions : Len(files[s]) \in Nat
  BY <1>1
<1> QED
  BY <1>1, <1>2 DEF IsView, Inv, Lengths

\* And what a checkpoint pins holds beginnings of them.
LEMMA OldView ==
    ASSUME Inv, NEW m \in watermarks
    PROVE  \E g : IsView(SubSeq(rows, 1, m), files, g)
<1>1. PICK g \in [Sessions -> Nat] : /\ \A s \in Sessions : g[s] <= Len(files[s])
                                     /\ Holds(SubSeq(rows, 1, m), files, g)
  BY DEF Inv
<1>2. IsList(SubSeq(rows, 1, m))
  BY PartOfList DEF Inv
<1> QED
  BY <1>1, <1>2 DEF IsView, Inv

\* What is wrong with a session as it is known is not resolved by the rows.
LEMMA NotResolved ==
    ASSUME Inv, NEW s \in Sessions, NEW d \in Correlate(s, files[s])
    PROVE  <<s, d>> \notin Resolved(rows)
<1> SUFFICES ASSUME <<s, d>> \in Resolved(rows) PROVE FALSE
  OBVIOUS
<1>1. PICK c \in ToSet(rows) : /\ c.kind = "tool_call" /\ c.exec = s
                               /\ d \in c.diagnostics /\ d.code = Missing
                               /\ <<s, c.id>> \in Answered(rows)
  BY ResolvedMember
<1>2. d = [code |-> Missing, at |-> CallAt(c)]
  BY <1>1, LiveView, HeldCall
<1>3. \A r \in ResultLocations(s, files[s]) : r.id # c.id
  <2>1. PICK x \in CallLocations(s, files[s]) :
          /\ d = [code |-> Missing, at |-> x]
          /\ \A r \in ResultLocations(s, files[s]) : r.id # x.id
    BY <1>1, MissingFound
  <2>2. x.id = c.id
    BY <1>2, <2>1 DEF CallAt, Location
  <2> QED
    BY <2>1, <2>2
<1>4. SubSeq(files[s], 1, Lengths(files)[s]) = files[s]
  BY DEF Inv, Lengths
<1> DEFINE g == Lengths(files)
<1>5. IsView(rows, files, g)
  BY LiveView
<1> HIDE DEF g
<1>6. \E r \in ResultLocations(s, SubSeq(files[s], 1, g[s])) : r.id = c.id
  BY <1>1, <1>5, AnsweredBy
<1> QED
  BY <1>3, <1>4, <1>6 DEF g

\* The diagnostics of the Work survive being reconciled with its rows.
LEMMA LiveDiagnostics ==
    Inv => Live.diagnostics = diagnostics /\ Live.events = ReconcileEvents(rows)
<1> SUFFICES ASSUME Inv PROVE Live.diagnostics = diagnostics /\ Live.events = ReconcileEvents(rows)
  OBVIOUS
<1> DEFINE removed == UNION {{d \in e.diagnostics : <<e.exec, d>> \in Resolved(rows)} : e \in ToSet(rows)}
<1>1. /\ Live.events = ReconcileEvents(rows)
      /\ Live.diagnostics = {d \in diagnostics : d \notin removed \/ d \in EventDiagnostics(ReconcileEvents(rows))}
  BY DEF Live, Reconcile
<1>2. ASSUME NEW d \in diagnostics, d \in removed PROVE FALSE
  <2>1. PICK e \in ToSet(rows) : <<e.exec, d>> \in Resolved(rows) /\ d \in e.diagnostics
    BY <1>2
  <2>2. PICK s \in Sessions : d \in Correlate(s, files[s])
    BY <1>2 DEF Inv
  <2>3. PICK c \in ToSet(rows) : /\ c.kind = "tool_call" /\ c.exec = e.exec
                                 /\ d \in c.diagnostics /\ d.code = Missing
                                 /\ <<e.exec, c.id>> \in Answered(rows)
    BY <2>1, ResolvedMember
  <2>4. d = [code |-> Missing, at |-> CallAt(c)]
    BY <2>3, LiveView, HeldCall
  <2>5. s = e.exec
    BY <2>2, <2>3, <2>4, FoundAt DEF CallAt, Location
  <2> QED
    BY <2>1, <2>2, <2>5, NotResolved
<1> HIDE DEF removed
<1> QED
  BY <1>1, <1>2

-----------------------------------------------------------------------------
(* The steps. *)

\* A checkpoint pins a list that holds what the files are now.
LEMMA InvCheckpoint == Inv /\ Checkpoint => Inv'
<1> SUFFICES ASSUME Inv, Checkpoint PROVE Inv'
  OBVIOUS
<1>1. /\ files' = files /\ rows' = rows /\ diagnostics' = diagnostics
      /\ watermarks' = watermarks \cup {Len(rows)} /\ rows # <<>>
  BY DEF Checkpoint
<1>2. /\ Len(rows) \in 1..Len(rows) /\ SubSeq(rows, 1, Len(rows)) = rows
  BY <1>1 DEF Inv, IsList
<1>3. Lengths(files) \in [Sessions -> Nat] /\ \A s \in Sessions : Lengths(files)[s] <= Len(files[s])
  BY LiveView DEF IsView
<1>4. \A m \in watermarks' : \E g \in [Sessions -> Nat] :
         /\ \A s \in Sessions : g[s] <= Len(files[s])
         /\ Holds(SubSeq(rows, 1, m), files, g)
  <2>1. Holds(SubSeq(rows, 1, Len(rows)), files, Lengths(files))
    BY <1>2 DEF Inv
  <2> QED
    BY <1>1, <1>3, <2>1 DEF Inv
<1> QED
  BY <1>1, <1>2, <1>4, Zenon DEF Inv

\* The first b lines of a file are those of what it grows to.
LEMMA GrownFile ==
    ASSUME NEW file \in Seq(LineSet), NEW k \in Nat, NEW more \in [1..k -> LineSet]
    PROVE  /\ file \o more \in Seq(LineSet) /\ Len(file \o more) = Len(file) + k
           /\ \A n \in 1..Len(file) : (file \o more)[n] = file[n]
           /\ \A b \in 0..Len(file) : SubSeq(file \o more, 1, b) = SubSeq(file, 1, b)
           /\ Begins(file, file \o more)
<1>1. more \in Seq(LineSet) /\ Len(more) = k
  OBVIOUS
<1>2. /\ file \o more \in Seq(LineSet) /\ Len(file \o more) = Len(file) + k
      /\ \A n \in 1..Len(file) : (file \o more)[n] = file[n]
      /\ \A b \in 0..Len(file) : SubSeq(file \o more, 1, b) = SubSeq(file, 1, b)
  BY <1>1
<1>3. DOMAIN file = 1..Len(file) /\ DOMAIN (file \o more) = 1..(Len(file) + k) /\ Len(file) \in Nat
  BY <1>1
<1> QED
  BY <1>2, <1>3 DEF Begins

\* What a list held of files it holds of what they grow to.
LEMMA HoldsGrown ==
    ASSUME NEW es, NEW g, Holds(es, files, g), NEW fs,
           \A s \in Sessions : /\ g[s] \in 0..Len(files[s])
                               /\ \A n \in 1..g[s] : fs[s][n] = files[s][n]
                               /\ \A b \in 0..g[s] : SubSeq(fs[s], 1, b) = SubSeq(files[s], 1, b)
    PROVE  Holds(es, fs, g)
<1> SUFFICES ASSUME NEW s \in Sessions, NEW n \in 1..g[s]
             PROVE  \E b \in n..g[s] : {e \in ToSet(es) : e.exec = s /\ e.line = n} = Seen(fs, s, n, b)
  BY DEF Holds
<1>1. PICK b \in n..g[s] : {e \in ToSet(es) : e.exec = s /\ e.line = n} = Seen(files, s, n, b)
  BY DEF Holds
<1>2. g[s] \in Nat /\ b \in 0..g[s]
  OBVIOUS
<1>3. fs[s][n] = files[s][n] /\ SubSeq(fs[s], 1, b) = SubSeq(files[s], 1, b)
  BY <1>2
<1>4. Seen(fs, s, n, b) = Seen(files, s, n, b)
  BY <1>3, Zenon DEF Seen
<1> QED
  BY <1>1, <1>4

\* The ids of the events of a line do not depend on what is found.
LEMMA LineIds ==
    ASSUME NEW s, NEW n, NEW line \in LineSet, NEW f, NEW h,
           NEW e \in ToSet(EventsOfLine(s, n, line, f))
    PROVE  \E x \in ToSet(EventsOfLine(s, n, line, h)) : EventId(x) = EventId(e)
<1>1. CASE line.role = "toolResult"
  <2>1. e = ResultEvent(s, n, line, Here(f, n))
    BY <1>1, LineEvents
  <2>2. ResultEvent(s, n, line, Here(h, n)) \in ToSet(EventsOfLine(s, n, line, h))
    BY <1>1, LineEvents
  <2> QED
    BY <2>1, <2>2 DEF ResultEvent, Event, EventId
<1>2. CASE line.role # "toolResult"
  <2>1. CASE e = MessageEvent(s, n, Here(f, n))
    <3>1. MessageEvent(s, n, Here(h, n)) \in ToSet(EventsOfLine(s, n, line, h))
      BY <1>2, LineEvents
    <3> QED
      BY <2>1, <3>1 DEF MessageEvent, Event, EventId
  <2>2. ASSUME NEW i \in DOMAIN line.calls, e = CallEvent(s, n, line, i, Here(f, n))
        PROVE  \E x \in ToSet(EventsOfLine(s, n, line, h)) : EventId(x) = EventId(e)
    <3>1. CallEvent(s, n, line, i, Here(h, n)) \in ToSet(EventsOfLine(s, n, line, h))
      BY <1>2, LineEvents
    <3> QED
      BY <2>2, <3>1 DEF CallEvent, Event, EventId
  <2> QED
    BY <1>2, <2>1, <2>2, LineEvents
<1> QED
  BY <1>1, <1>2

\* What attaching leaves of the events and the diagnostics.
LEMMA Attached ==
    ASSUME NEW old, NEW new, IsList(old.events), \A e \in ToSet(old.events) : IsEvent(e),
           IsList(new.events)
    PROVE  LET w == Attach(old, new)
               known == {EventId(e) : e \in ToSet(old.events)}
           IN  /\ IsList(w.events)
               /\ \A e : EventId(e) \notin known =>
                    (e \in ToSet(w.events) <=> e \in ToSet(new.events))
               /\ \A d : d \in w.diagnostics <=>
                    \/ d \in new.diagnostics
                    \/ /\ d \in old.diagnostics
                       /\ \A x \in ToSet(old.events) :
                            d \in x.diagnostics =>
                              \A i \in ToSet(new.events) : EventId(i) # EventId(x)
<1> DEFINE w == Attach(old, new)
           Again(e) == {i \in ToSet(new.events) : EventId(i) = EventId(e)}
           known == {EventId(e) : e \in ToSet(old.events)}
           refreshed == UNION {e.diagnostics : e \in {x \in ToSet(old.events) : Again(x) # {}}}
           R(e) == IF Again(e) = {} THEN e
                   ELSE [e EXCEPT !.diagnostics = (CHOOSE i \in Again(e) : TRUE).diagnostics]
           a == [n \in DOMAIN old.events |-> R(old.events[n])]
           b == Unseen(new.events, known)
<1>1. w.events = a \o b /\ w.diagnostics = (old.diagnostics \ refreshed) \cup new.diagnostics
  <2>1. w = [events |-> a \o b, diagnostics |-> (old.diagnostics \ refreshed) \cup new.diagnostics]
    BY Zenon DEF Attach
  <2> HIDE DEF w, a, b, refreshed
  <2> QED
    BY <2>1
<1>2. DOMAIN a = DOMAIN old.events /\ \A n \in DOMAIN a : a[n] = R(old.events[n])
  OBVIOUS
<1>3. \A e : IsEvent(e) => EventId(R(e)) = EventId(e)
  <2>1. \A e, D : IsEvent(e) => EventId([e EXCEPT !.diagnostics = D]) = EventId(e)
    BY DEF IsEvent, Event, EventId
  <2> QED
    BY <2>1
<1>4. \A n \in DOMAIN a : EventId(a[n]) = EventId(old.events[n])
  <2> HIDE DEF R, a
  <2> QED
    BY <1>2, <1>3 DEF ToSet
<1>5. IsList(a)
  <2>1. Len(old.events) \in Nat /\ DOMAIN old.events = 1..Len(old.events)
    BY DEF IsList
  <2>2. a = [n \in 1..Len(old.events) |-> a[n]]
    BY <1>2, <2>1
  <2> HIDE DEF a
  <2>3. \A n \in 1..Len(old.events) : a[n] \in ToSet(a)
    BY <1>2, <2>1 DEF ToSet
  <2>4. a \in Seq(ToSet(a))
    BY <2>1, <2>2, <2>3
  <2> QED
    BY <1>2, <1>4, <2>4 DEF IsList
<1>6. \A e \in ToSet(a) : EventId(e) \in known
  <2> HIDE DEF a
  <2> QED
    BY <1>2, <1>4 DEF ToSet
<1>7. IsList(b) /\ \A e : e \in ToSet(b) <=> e \in ToSet(new.events) /\ EventId(e) \notin known
  BY UnseenList
<1> HIDE DEF a, b, known
<1>8. IsList(a \o b) /\ ToSet(a \o b) = ToSet(a) \cup ToSet(b)
  BY <1>5, <1>6, <1>7, ConcatLists
<1>9. \A d : d \in refreshed <=>
        \E x \in ToSet(old.events) : /\ d \in x.diagnostics
                                     /\ \E i \in ToSet(new.events) : EventId(i) = EventId(x)
  OBVIOUS
<1> HIDE DEF w, refreshed
<1>10. \A d : d \in w.diagnostics <=>
         \/ d \in new.diagnostics
         \/ /\ d \in old.diagnostics
            /\ \A x \in ToSet(old.events) :
                 d \in x.diagnostics => \A i \in ToSet(new.events) : EventId(i) # EventId(x)
  BY <1>1, <1>9
<1>11. \A e : EventId(e) \notin known => (e \in ToSet(w.events) <=> e \in ToSet(new.events))
  BY <1>1, <1>6, <1>7, <1>8
<1> QED
  BY <1>1, <1>8, <1>10, <1>11 DEF w, known

\* What is stored of the events: the rows there were, and the events of the new
\* lines of the file, with what the whole file shows.
AddsTo(events, s, file, more) ==
    /\ Stored(events) = rows \o more
    /\ IsList(rows \o more)
    /\ ToSet(rows \o more) = ToSet(rows) \cup ToSet(more)
    /\ Len(rows) <= Len(rows \o more)
    /\ \A m \in 0..Len(rows) : SubSeq(rows \o more, 1, m) = SubSeq(rows, 1, m)
    /\ \A e : e \in ToSet(more) <=>
         \E n \in DOMAIN file \ DOMAIN files[s] :
           e \in ToSet(EventsOfLine(s, n, file[n], Correlate(s, file)))

\* An import adds the events of the new lines and nothing else.
LEMMA ImportedRows ==
    ASSUME Inv, NEW s \in Sessions, NEW file \in Seq(LineSet), Begins(files[s], file),
           NEW observed,
           observed = [events |-> Normalize(s, file), diagnostics |-> Correlate(s, file)],
           NEW more, more = Unseen(Attach(Live, observed).events, {EventId(e) : e \in ToSet(rows)})
    PROVE  AddsTo(Attach(Live, observed).events, s, file, more)
<1> DEFINE known == {EventId(e) : e \in ToSet(rows)}
           w == Attach(Live, observed)
<1>1. Stored(w.events) = rows \o more
  BY Zenon DEF Stored
<1>2. IsList(rows) /\ \A e \in ToSet(rows) : IsEvent(e)
  BY LiveView, ViewEvents DEF IsView
<1>3. /\ IsList(Live.events) /\ \A e \in ToSet(Live.events) : IsEvent(e)
      /\ {EventId(e) : e \in ToSet(Live.events)} = known
  <2> DEFINE v == ReconcileEvents(rows)
  <2>1. Live.events = v
    BY LiveDiagnostics
  <2>2. /\ DOMAIN v = DOMAIN rows /\ IsList(v)
        /\ \A n \in DOMAIN rows : IsEvent(v[n]) /\ EventId(v[n]) = EventId(rows[n])
    BY <1>2, ReconciledEvents DEF EventId
  <2> HIDE DEF v
  <2>3. \A e \in ToSet(v) : IsEvent(e)
    BY <2>2 DEF ToSet
  <2>4. \A x : x \in {EventId(e) : e \in ToSet(v)} <=> x \in known
    BY <2>2 DEF ToSet
  <2>5. {EventId(e) : e \in ToSet(v)} = known
    BY <2>4
  <2> QED
    BY <2>1, <2>2, <2>3, <2>5
<1>4. /\ IsList(observed.events)
      /\ \A e : e \in ToSet(observed.events) <=>
           \E n \in DOMAIN file : e \in ToSet(EventsOfLine(s, n, file[n], Correlate(s, file)))
  <2>1. observed.events = Normalize(s, file)
    OBVIOUS
  <2> QED
    BY <2>1, Normalized
<1>5. IsList(w.events) /\ \A e : EventId(e) \notin known =>
        (e \in ToSet(w.events) <=> e \in ToSet(observed.events))
  BY <1>3, <1>4, Attached
<1>6. IsList(more) /\ \A e : e \in ToSet(more) <=> e \in ToSet(w.events) /\ EventId(e) \notin known
  BY <1>5, UnseenList
<1>7. /\ IsList(rows \o more)
      /\ ToSet(rows \o more) = ToSet(rows) \cup ToSet(more)
      /\ Len(rows) <= Len(rows \o more)
      /\ \A m \in 0..Len(rows) : SubSeq(rows \o more, 1, m) = SubSeq(rows, 1, m)
  <2>1. \A d \in ToSet(rows), e \in ToSet(more) : EventId(d) # EventId(e)
    BY <1>6
  <2>2. IsList(rows) /\ IsList(more)
    BY <1>2, <1>6
  <2> HIDE DEF known, w
  <2>3. ASSUME NEW es, NEW fs, IsList(es), IsList(fs),
               \A d \in ToSet(es), e \in ToSet(fs) : EventId(d) # EventId(e)
        PROVE  /\ IsList(es \o fs)
               /\ ToSet(es \o fs) = ToSet(es) \cup ToSet(fs)
               /\ Len(es) <= Len(es \o fs)
               /\ \A m \in 0..Len(es) : SubSeq(es \o fs, 1, m) = SubSeq(es, 1, m)
    BY <2>3, ConcatLists
  <2> QED
    BY <2>1, <2>2, <2>3, Zenon
<1>8. ASSUME NEW n \in DOMAIN file, NEW e \in ToSet(EventsOfLine(s, n, file[n], Correlate(s, file)))
      PROVE  EventId(e) \in known <=> n \in DOMAIN files[s]
  <2>0. file[n] \in LineSet
    OBVIOUS
  <2>1. e.exec = s /\ e.line = n
    BY <2>0, LineEventFields
  <2>2. ASSUME EventId(e) \in known PROVE n \in DOMAIN files[s]
    <3>1. PICK x \in ToSet(rows) : EventId(x) = EventId(e)
      BY <2>2
    <3>2. x.exec = s /\ x.line = n
      BY <2>1, <3>1 DEF EventId
    <3>3. n \in 1..Lengths(files)[s]
      BY <3>2 DEF Inv, Holds
    <3> QED
      BY <3>3 DEF Inv, Lengths
  <2>3. ASSUME n \in DOMAIN files[s] PROVE EventId(e) \in known
    <3>1. n \in 1..Lengths(files)[s] /\ files[s][n] = file[n]
      BY <2>3 DEF Inv, Lengths, Begins
    <3>2. PICK b \in n..Lengths(files)[s] :
            {x \in ToSet(rows) : x.exec = s /\ x.line = n} = Seen(files, s, n, b)
      BY <3>1 DEF Inv, Holds
    <3>3. PICK x \in Seen(files, s, n, b) : EventId(x) = EventId(e)
      BY <2>0, <3>1, LineIds DEF Seen
    <3>4. x \in ToSet(rows)
      BY <3>2
    <3> QED
      BY <3>3, <3>4
  <2> QED
    BY <2>2, <2>3
<1> HIDE DEF known, w
<1>9. \A e : e \in ToSet(more) <=>
        \E n \in DOMAIN file \ DOMAIN files[s] :
          e \in ToSet(EventsOfLine(s, n, file[n], Correlate(s, file)))
  BY <1>4, <1>5, <1>6, <1>8
<1> QED
  BY <1>1, <1>7, <1>9, Zenon DEF w, AddsTo

\* Attaching the import of a file replaces what the Work reports of its session,
\* and of no other, by what the file shows (observe.ts:124-145).
LEMMA ImportedDiagnostics ==
    ASSUME Inv, NEW s \in Sessions, NEW file \in Seq(LineSet), Begins(files[s], file),
           NEW observed,
           observed = [events |-> Normalize(s, file), diagnostics |-> Correlate(s, file)]
    PROVE  Attach(Live, observed).diagnostics =
             UNION {Correlate(t, [files EXCEPT ![s] = file][t]) : t \in Sessions}
<1> DEFINE fs == [files EXCEPT ![s] = file]
           v == ReconcileEvents(rows)
<1>0. /\ fs[s] = file /\ \A t \in Sessions : t # s => fs[t] = files[t]
      /\ files \in [Sessions -> Seq(LineSet)]
  BY DEF Inv
<1>1. IsList(rows) /\ \A e \in ToSet(rows) : IsEvent(e)
  BY LiveView, ViewEvents DEF IsView
<1>2. /\ Live.events = v /\ Live.diagnostics = UNION {Correlate(t, files[t]) : t \in Sessions}
  BY LiveDiagnostics DEF Inv
<1>3. /\ DOMAIN v = DOMAIN rows /\ IsList(v)
      /\ \A n \in DOMAIN rows :
           /\ IsEvent(v[n]) /\ EventId(v[n]) = EventId(rows[n])
           /\ v[n].diagnostics = {d \in rows[n].diagnostics : <<rows[n].exec, d>> \notin Resolved(rows)}
  BY <1>1, ReconciledEvents DEF EventId
<1> HIDE DEF v, fs
<1>4. \A e \in ToSet(v) : IsEvent(e)
  BY <1>3 DEF ToSet
<1>5. /\ IsList(observed.events)
      /\ \A e : e \in ToSet(observed.events) <=>
           \E n \in DOMAIN file : e \in ToSet(EventsOfLine(s, n, file[n], Correlate(s, file)))
  <2>1. observed.events = Normalize(s, file)
    OBVIOUS
  <2> QED
    BY <2>1, Normalized
<1> DEFINE Kept(d) == \A x \in ToSet(v) :
                        d \in x.diagnostics => \A i \in ToSet(observed.events) : EventId(i) # EventId(x)
<1>6. \A d : d \in Attach(Live, observed).diagnostics <=>
        \/ d \in Correlate(s, file)
        \/ d \in Live.diagnostics /\ Kept(d)
  BY <1>2, <1>3, <1>4, <1>5, Attached
\* What is kept of the session itself has not been put right.
<1>7. ASSUME NEW d \in Correlate(s, files[s]), Kept(d) PROVE d \in Correlate(s, file)
  <2>1. CASE d.code \notin {Missing, Orphan}
    BY <2>1, FoundStays
  <2>2. CASE d.code \in {Missing, Orphan}
    <3> DEFINE n == d.at.line
               g == Lengths(files)
    <3>1. n \in DOMAIN files[s] /\ g[s] = Len(files[s]) /\ files[s] \in Seq(LineSet)
      BY <1>0, FoundAt DEF Lengths
    <3>2. n \in 1..g[s] /\ g[s] \in Nat
      BY <3>1
    <3>3. PICK b \in n..g[s] :
            Tells({x \in ToSet(rows) : x.exec = s /\ x.line = n}, s, n, files[s][n],
                  Here(Correlate(s, SubSeq(files[s], 1, b)), n))
      BY <3>2, LiveView, HeldLine
    <3> DEFINE part == SubSeq(files[s], 1, b)
    <3>4. DOMAIN part = 1..b /\ Begins(part, files[s])
      BY <3>1, <3>2, Beginning
    <3>5. n \in DOMAIN part
      BY <3>2, <3>4
    <3>6. d \in Correlate(s, part)
      BY <2>2, <3>4, <3>5, FoundEarlier
    <3>7. PICK e \in ToSet(rows) : e.exec = s /\ e.line = n /\ e.diagnostics = Here(Correlate(s, part), n)
      BY <3>3 DEF Tells
    <3>8. d \in e.diagnostics
      BY <3>6, <3>7 DEF Here
    <3>9. PICK k \in DOMAIN rows : rows[k] = e
      BY DEF ToSet
    <3>10. v[k] \in ToSet(v) /\ d \in v[k].diagnostics /\ EventId(v[k]) = EventId(e)
      <4>1. <<s, d>> \notin Resolved(rows)
        BY NotResolved
      <4> QED
        BY <1>3, <3>7, <3>8, <3>9, <4>1 DEF ToSet
    <3>11. \E i \in ToSet(observed.events) : EventId(i) = EventId(e)
      <4>1. PICK c \in n..g[s] :
              {x \in ToSet(rows) : x.exec = s /\ x.line = n} = Seen(files, s, n, c)
        BY <3>2 DEF Inv, Holds
      <4>2. e \in ToSet(EventsOfLine(s, n, files[s][n], Correlate(s, SubSeq(files[s], 1, c))))
        BY <3>7, <4>1 DEF Seen
      <4>3. files[s][n] = file[n] /\ n \in DOMAIN file /\ file[n] \in LineSet
        BY <3>1 DEF Begins
      <4>4. PICK x \in ToSet(EventsOfLine(s, n, file[n], Correlate(s, file))) : EventId(x) = EventId(e)
        BY <4>2, <4>3, LineIds
      <4> QED
        BY <1>5, <4>3, <4>4
    <3> QED
      BY <1>7, <3>10, <3>11
  <2> QED
    BY <2>1, <2>2
\* Nothing of another session is given up.
<1>8. ASSUME NEW t \in Sessions, t # s, NEW d \in Correlate(t, files[t]) PROVE Kept(d)
  <2> SUFFICES ASSUME NEW x \in ToSet(v), d \in x.diagnostics,
                      NEW i \in ToSet(observed.events), EventId(i) = EventId(x)
               PROVE  FALSE
    OBVIOUS
  <2>1. PICK n \in DOMAIN file : i \in ToSet(EventsOfLine(s, n, file[n], Correlate(s, file)))
    BY <1>5
  <2>2. i.exec = s
    BY <2>1, LineEventFields
  <2>3. PICK k \in DOMAIN rows : x = v[k]
    BY <1>3 DEF ToSet
  <2>4. EventId(rows[k]) = EventId(i) /\ d \in rows[k].diagnostics /\ rows[k] \in ToSet(rows)
    BY <1>3, <2>3 DEF ToSet
  <2>5. rows[k].exec = s
    BY <2>2, <2>4 DEF EventId
  <2> DEFINE g == Lengths(files)
             m == rows[k].line
  <2>6. m \in 1..g[s]
    BY <2>4, <2>5 DEF Inv, Holds
  <2>7. PICK b : Tells({y \in ToSet(rows) : y.exec = s /\ y.line = m}, s, m, files[s][m],
                       Here(Correlate(s, SubSeq(files[s], 1, b)), m))
    BY <2>6, LiveView, HeldLine
  <2>8. d \in Correlate(s, SubSeq(files[s], 1, b))
    <3> HIDE DEF m
    <3>1. rows[k].line = m
      BY DEF m
    <3> QED
      BY <2>4, <2>5, <2>7, <3>1 DEF Tells, Here
  <2>9. d.at.session = s /\ d.at.session = t
    BY <2>8, FoundAt
  <2> QED
    BY <1>8, <2>9
<1> HIDE DEF Kept
<1>9. \A d : d \in Attach(Live, observed).diagnostics <=> \E t \in Sessions : d \in Correlate(t, fs[t])
  <2> SUFFICES ASSUME NEW d
               PROVE  d \in Attach(Live, observed).diagnostics <=> \E t \in Sessions : d \in Correlate(t, fs[t])
    OBVIOUS
  <2>1. d \in Live.diagnostics <=> \E t \in Sessions : d \in Correlate(t, files[t])
    BY <1>2
  <2> QED
    BY <1>0, <1>6, <1>7, <1>8, <2>1
<1> QED
  BY <1>9 DEF fs

\* An import keeps the invariant, and every beginning of the rows.
LEMMA InvImport ==
    ASSUME Inv, NEW s \in Sessions, Import(s)
    PROVE  Inv' /\ \A m \in 0..Len(rows) : SubSeq(rows', 1, m) = SubSeq(rows, 1, m)
<1>1. PICK k, more :
         /\ k \in 0..(MaxLines[s] - Len(files[s])) /\ more \in [1..k -> Lines[s]]
         /\ files' = [files EXCEPT ![s] = files[s] \o more]
         /\ rows' = Stored(Attach(Live, [events |-> Normalize(s, files[s] \o more),
                                         diagnostics |-> Correlate(s, files[s] \o more)]).events)
         /\ diagnostics' = Attach(Live, [events |-> Normalize(s, files[s] \o more),
                                         diagnostics |-> Correlate(s, files[s] \o more)]).diagnostics
         /\ watermarks' = watermarks
  BY Zenon DEF Import
<1> DEFINE old == files[s]
           file == old \o more
           observed == [events |-> Normalize(s, file), diagnostics |-> Correlate(s, file)]
           new == Unseen(Attach(Live, observed).events, {EventId(e) : e \in ToSet(rows)})
           fs == files'
           g == Lengths(fs)
<1>2. /\ old \in Seq(LineSet) /\ old \in Seq(Lines[s]) /\ files \in [Sessions -> Seq(LineSet)]
      /\ Len(old) \in Nat /\ k \in Nat
  <2>1. old \in Seq(LineSet) /\ old \in Seq(Lines[s]) /\ files \in [Sessions -> Seq(LineSet)]
    BY DEF Inv
  <2>2. MaxLines[s] \in Nat /\ Len(old) \in Nat
    BY <2>1, ViewAssumption
  <2> QED
    BY <1>1, <2>1, <2>2
<1>3. more \in [1..k -> LineSet] /\ file \in Seq(Lines[s])
  <2>1. Lines[s] \subseteq LineSet
    BY DEF LineSet
  <2>2. more \in [1..k -> LineSet] /\ more \in [1..k -> Lines[s]]
    BY <1>1, <2>1
  <2> QED
    BY <1>2, <2>2
<1>4. /\ file \in Seq(LineSet) /\ Len(file) = Len(old) + k
      /\ \A n \in 1..Len(old) : file[n] = old[n]
      /\ \A b \in 0..Len(old) : SubSeq(file, 1, b) = SubSeq(old, 1, b)
      /\ Begins(old, file)
  BY <1>2, <1>3, GrownFile
<1> HIDE DEF old, file, observed, new, fs
<1>5. /\ fs = [files EXCEPT ![s] = file]
      /\ rows' = Stored(Attach(Live, observed).events)
      /\ diagnostics' = Attach(Live, observed).diagnostics
      /\ watermarks' = watermarks
  BY <1>1, Zenon DEF file, old, observed, fs
<1>6. /\ fs[s] = file /\ \A t \in Sessions : t # s => fs[t] = files[t]
      /\ fs \in [Sessions -> Seq(LineSet)] /\ \A t \in Sessions : fs[t] \in Seq(Lines[t])
  BY <1>2, <1>3, <1>4, <1>5 DEF Inv
<1>7. /\ rows' = rows \o new
      /\ IsList(rows \o new)
      /\ ToSet(rows \o new) = ToSet(rows) \cup ToSet(new)
      /\ Len(rows) <= Len(rows \o new)
      /\ \A m \in 0..Len(rows) : SubSeq(rows \o new, 1, m) = SubSeq(rows, 1, m)
      /\ \A e : e \in ToSet(new) <=>
           \E n \in DOMAIN file \ DOMAIN old :
             e \in ToSet(EventsOfLine(s, n, file[n], Correlate(s, file)))
  <2>1. observed = [events |-> Normalize(s, file), diagnostics |-> Correlate(s, file)]
    BY DEF observed
  <2>2. new = Unseen(Attach(Live, observed).events, {EventId(e) : e \in ToSet(rows)})
    BY Zenon DEF new
  <2>3. old = files[s]
    BY DEF old
  <2>4. file \in Seq(LineSet) /\ Begins(files[s], file)
    BY <1>4, <2>3
  <2>5. AddsTo(Attach(Live, observed).events, s, file, new)
    BY <2>1, <2>2, <2>4, ImportedRows
  <2> QED
    BY <1>5, <2>3, <2>5 DEF AddsTo
<1>8. diagnostics' = UNION {Correlate(t, fs[t]) : t \in Sessions}
  BY <1>4, <1>5, ImportedDiagnostics DEF observed, old
<1>9. \A t \in Sessions :
        /\ Len(files[t]) \in Nat /\ Len(files[t]) <= Len(fs[t])
        /\ \A n \in 1..Len(files[t]) : fs[t][n] = files[t][n]
        /\ \A b \in 0..Len(files[t]) : SubSeq(fs[t], 1, b) = SubSeq(files[t], 1, b)
  <2> SUFFICES ASSUME NEW t \in Sessions
               PROVE  /\ Len(files[t]) \in Nat /\ Len(files[t]) <= Len(fs[t])
                      /\ \A n \in 1..Len(files[t]) : fs[t][n] = files[t][n]
                      /\ \A b \in 0..Len(files[t]) : SubSeq(fs[t], 1, b) = SubSeq(files[t], 1, b)
    OBVIOUS
  <2>1. Len(files[t]) \in Nat
    BY <1>2
  <2>2. CASE t # s
    BY <1>6, <2>1, <2>2
  <2>3. CASE t = s
    BY <1>2, <1>4, <1>6, <2>3 DEF old
  <2> QED
    BY <2>2, <2>3
<1>10. Holds(rows', fs, g)
  <2>1. \A e \in ToSet(new) : e.exec = s /\ e.line \in 1..Len(file) /\ e.line > Len(old)
    <3> SUFFICES ASSUME NEW e \in ToSet(new)
                 PROVE  e.exec = s /\ e.line \in 1..Len(file) /\ e.line > Len(old)
      OBVIOUS
    <3>1. PICK n \in DOMAIN file \ DOMAIN old : e \in ToSet(EventsOfLine(s, n, file[n], Correlate(s, file)))
      BY <1>7
    <3>2. n \in 1..Len(file) /\ n > Len(old) /\ file[n] \in LineSet
      BY <1>2, <1>4, <3>1
    <3>3. e.exec = s /\ e.line = n
      BY <3>1, <3>2, LineEventFields
    <3> QED
      BY <3>2, <3>3
  <2>2. \A e \in ToSet(rows) : e.exec \in Sessions /\ e.line \in 1..Len(files[e.exec])
    BY DEF Inv, Holds, Lengths
  <2>3. \A t \in Sessions : g[t] = Len(fs[t])
    BY DEF Lengths
  <2>4. \A e \in ToSet(rows') : e.exec \in Sessions /\ e.line \in 1..g[e.exec]
    <3> SUFFICES ASSUME NEW e \in ToSet(rows') PROVE e.exec \in Sessions /\ e.line \in 1..g[e.exec]
      OBVIOUS
    <3> HIDE DEF g
    <3>1. CASE e \in ToSet(rows)
      <4>1. e.exec \in Sessions /\ e.line \in 1..Len(files[e.exec])
        BY <2>2, <3>1
      <4>2. Len(files[e.exec]) \in Nat /\ Len(files[e.exec]) <= g[e.exec] /\ g[e.exec] \in Nat
        BY <1>6, <1>9, <2>3, <4>1
      <4> QED
        BY <4>1, <4>2
    <3>2. CASE e \in ToSet(new)
      BY <1>6, <2>1, <2>3, <3>2
    <3> QED
      BY <1>7, <3>1, <3>2
  <2>5. ASSUME NEW t \in Sessions, NEW n \in 1..g[t]
        PROVE  \E b \in n..g[t] : {e \in ToSet(rows') : e.exec = t /\ e.line = n} = Seen(fs, t, n, b)
    <3> HIDE DEF g
    <3>1. CASE n <= Len(files[t])
      <4>1. n \in 1..Len(files[t])
        BY <1>6, <1>9, <2>3, <3>1
      <4>2. PICK b \in n..Len(files[t]) :
              {e \in ToSet(rows) : e.exec = t /\ e.line = n} = Seen(files, t, n, b)
        BY <4>1 DEF Inv, Holds, Lengths
      <4>3. b \in 0..Len(files[t]) /\ b \in n..g[t]
        BY <1>6, <1>9, <2>3, <4>1, <4>2
      <4>4. Seen(fs, t, n, b) = Seen(files, t, n, b)
        <5>1. fs[t][n] = files[t][n] /\ SubSeq(fs[t], 1, b) = SubSeq(files[t], 1, b)
          BY <1>9, <4>1, <4>3
        <5> QED
          BY <5>1, Zenon DEF Seen
      <4>5. \A e \in ToSet(new) : ~ (e.exec = t /\ e.line = n)
        BY <1>2, <2>1, <3>1 DEF old
      <4>6. {e \in ToSet(rows') : e.exec = t /\ e.line = n} = {e \in ToSet(rows) : e.exec = t /\ e.line = n}
        BY <1>7, <4>5
      <4> QED
        BY <4>2, <4>3, <4>4, <4>6
    <3>2. CASE ~ (n <= Len(files[t]))
      <4>1. t = s
        BY <1>6, <1>9, <2>3, <3>2
      <4>2. g[t] = Len(file) /\ n \in 1..Len(file) /\ n > Len(old) /\ n \in DOMAIN file \ DOMAIN old
        BY <1>2, <1>4, <1>6, <2>3, <3>2, <4>1 DEF old
      <4>3. SubSeq(fs[t], 1, Len(file)) = file /\ fs[t][n] = file[n]
        BY <1>4, <1>6, <4>1
      <4>4. Seen(fs, t, n, Len(file)) = ToSet(EventsOfLine(s, n, file[n], Correlate(s, file)))
        BY <4>1, <4>3, Zenon DEF Seen
      <4>5. \A e \in ToSet(rows) : ~ (e.exec = t /\ e.line = n)
        BY <2>2, <3>2
      <4>6. \A e : e \in ToSet(new) /\ e.exec = t /\ e.line = n <=>
                     e \in ToSet(EventsOfLine(s, n, file[n], Correlate(s, file)))
        <5> SUFFICES ASSUME NEW e
                     PROVE  e \in ToSet(new) /\ e.exec = t /\ e.line = n <=>
                              e \in ToSet(EventsOfLine(s, n, file[n], Correlate(s, file)))
          OBVIOUS
        <5>1. \A m \in DOMAIN file : e \in ToSet(EventsOfLine(s, m, file[m], Correlate(s, file))) =>
                e.exec = s /\ e.line = m
          <6> SUFFICES ASSUME NEW m \in DOMAIN file,
                              e \in ToSet(EventsOfLine(s, m, file[m], Correlate(s, file)))
                       PROVE  e.exec = s /\ e.line = m
            OBVIOUS
          <6>1. file[m] \in LineSet
            BY <1>4
          <6> QED
            BY <6>1, LineEventFields
        <5> QED
          BY <1>7, <4>1, <4>2, <5>1
      <4>7. {e \in ToSet(rows') : e.exec = t /\ e.line = n} = Seen(fs, t, n, Len(file))
        BY <1>7, <4>4, <4>5, <4>6
      <4>8. Len(file) \in n..g[t]
        BY <4>2
      <4> QED
        BY <4>7, <4>8
    <3> QED
      BY <3>1, <3>2
  <2> QED
    BY <2>4, <2>5 DEF Holds
<1>11. watermarks' \subseteq 1..Len(rows')
  <2>1. IsList(rows) /\ watermarks \subseteq 1..Len(rows)
    BY DEF Inv
  <2>2. Len(rows) \in Nat /\ Len(rows') \in Nat /\ Len(rows) <= Len(rows')
    BY <1>7, <2>1 DEF IsList
  <2> QED
    BY <1>5, <2>1, <2>2
<1>12. \A m \in watermarks' : \E h \in [Sessions -> Nat] :
         /\ \A t \in Sessions : h[t] <= Len(fs[t])
         /\ Holds(SubSeq(rows', 1, m), fs, h)
  <2> SUFFICES ASSUME NEW m \in watermarks
               PROVE  \E h \in [Sessions -> Nat] :
                        /\ \A t \in Sessions : h[t] <= Len(fs[t])
                        /\ Holds(SubSeq(rows', 1, m), fs, h)
    BY <1>5
  <2>1. PICK h \in [Sessions -> Nat] : /\ \A t \in Sessions : h[t] <= Len(files[t])
                                       /\ Holds(SubSeq(rows, 1, m), files, h)
    BY DEF Inv
  <2>2. SubSeq(rows', 1, m) = SubSeq(rows, 1, m)
    <3>1. m \in 0..Len(rows)
      BY DEF Inv
    <3> QED
      BY <1>7, <3>1
  <2>3. \A t \in Sessions : h[t] \in 0..Len(files[t]) /\ h[t] <= Len(fs[t])
    <3> SUFFICES ASSUME NEW t \in Sessions PROVE h[t] \in 0..Len(files[t]) /\ h[t] <= Len(fs[t])
      OBVIOUS
    <3>1. /\ h[t] \in Nat /\ h[t] <= Len(files[t]) /\ Len(files[t]) <= Len(fs[t])
          /\ Len(files[t]) \in Nat /\ Len(fs[t]) \in Nat
      BY <1>6, <1>9, <2>1
    <3> QED
      BY <3>1
  <2>4. Holds(SubSeq(rows, 1, m), fs, h)
    <3>1. \A t \in Sessions : /\ h[t] \in 0..Len(files[t])
                              /\ \A n \in 1..h[t] : fs[t][n] = files[t][n]
                              /\ \A b \in 0..h[t] : SubSeq(fs[t], 1, b) = SubSeq(files[t], 1, b)
      BY <1>9, <2>3
    <3> QED
      BY <2>1, <3>1, HoldsGrown
  <2> QED
    BY <2>2, <2>3, <2>4
<1> QED
  <2>1. IsList(rows')
    BY <1>7
  <2>2. Inv'
    BY <1>6, <1>8, <1>10, <1>11, <1>12, <2>1, Zenon DEF Inv, fs
  <2> QED
    BY <1>7, <2>2
-----------------------------------------------------------------------------
(* The properties. *)

\* Every reachable state satisfies the invariant, for any sessions, lines and bounds:
\* the rows hold the files line by line, each line with what one import found, and
\* the Work reports what is wrong with the files as they are (observe.ts:93-201,
\* persist.ts:183-213).
THEOREM Invariance == Spec => []Inv
<1>1. Inv /\ [Next]_vars => Inv'
  <2> SUFFICES ASSUME Inv, [Next]_vars PROVE Inv'
    OBVIOUS
  <2>1. CASE Checkpoint
    BY <2>1, InvCheckpoint
  <2>2. CASE \E s \in Sessions : Import(s)
    BY <2>2, InvImport
  <2>3. CASE UNCHANGED vars
    BY <2>3, Zenon DEF Inv, vars
  <2> QED
    BY <2>1, <2>2, <2>3 DEF Next
<1> QED
  BY InvInit, <1>1, PTL DEF Spec

\* The ids of the rows are those that the files normalize to.
LEMMA RowIds ==
    ASSUME Inv
    PROVE  \A x : /\ x \in {EventId(e) : e \in ToSet(rows)} <=>
                     \E s \in Sessions : x \in {EventId(e) : e \in ToSet(Normalize(s, files[s]))}
<1> DEFINE g == Lengths(files)
<1>0. \A s \in Sessions : /\ files[s] \in Seq(LineSet) /\ DOMAIN files[s] = 1..g[s]
                           /\ \A n \in 1..g[s] : files[s][n] \in LineSet
  BY DEF Inv, Lengths
<1> HIDE DEF g
<1>1. ASSUME NEW e \in ToSet(rows)
      PROVE  \E s \in Sessions : \E y \in ToSet(Normalize(s, files[s])) : EventId(y) = EventId(e)
  <2> DEFINE s == e.exec
             n == e.line
  <2>1. s \in Sessions /\ n \in 1..g[s]
    BY DEF Inv, Holds, g
  <2>2. PICK b \in n..g[s] : {x \in ToSet(rows) : x.exec = s /\ x.line = n} = Seen(files, s, n, b)
    BY <2>1 DEF Inv, Holds, g
  <2>3. e \in ToSet(EventsOfLine(s, n, files[s][n], Correlate(s, SubSeq(files[s], 1, b))))
    BY <2>2 DEF Seen
  <2>4. PICK y \in ToSet(EventsOfLine(s, n, files[s][n], Correlate(s, files[s]))) :
          EventId(y) = EventId(e)
    BY <1>0, <2>1, <2>3, LineIds
  <2>5. y \in ToSet(Normalize(s, files[s]))
    BY <1>0, <2>1, <2>4, Normalized
  <2> QED
    BY <2>1, <2>4, <2>5
<1>2. ASSUME NEW s \in Sessions, NEW y \in ToSet(Normalize(s, files[s]))
      PROVE  \E e \in ToSet(rows) : EventId(y) = EventId(e)
  <2>1. PICK n \in DOMAIN files[s] : y \in ToSet(EventsOfLine(s, n, files[s][n], Correlate(s, files[s])))
    BY <1>0, Normalized
  <2>2. PICK b \in n..g[s] : {x \in ToSet(rows) : x.exec = s /\ x.line = n} = Seen(files, s, n, b)
    BY <1>0, <2>1 DEF Inv, Holds, g
  <2>3. PICK e \in ToSet(EventsOfLine(s, n, files[s][n], Correlate(s, SubSeq(files[s], 1, b)))) :
          EventId(e) = EventId(y)
    BY <1>0, <2>1, LineIds
  <2>4. e \in ToSet(rows)
    BY <2>2, <2>3 DEF Seen
  <2> QED
    BY <2>3, <2>4
<1> QED
  BY <1>1, <1>2

\* A list has as many ids as events.
LEMMA ListSize ==
    ASSUME NEW es, IsList(es)
    PROVE  Cardinality({EventId(e) : e \in ToSet(es)}) = Len(es)
<1> DEFINE ids == {EventId(e) : e \in ToSet(es)}
           f == [i \in 1..Len(es) |-> EventId(es[i])]
<1>1. Len(es) \in Nat /\ DOMAIN es = 1..Len(es)
  BY DEF IsList
<1>2. f \in Bijection(1..Len(es), ids)
  <2>1. \A i \in 1..Len(es) : EventId(es[i]) \in ids
    BY <1>1 DEF ToSet
  <2>2. f \in [1..Len(es) -> ids]
    BY <2>1
  <2>3. \A i, j \in 1..Len(es) : f[i] = f[j] => i = j
    BY <1>1 DEF IsList
  <2>4. \A x \in ids : \E i \in 1..Len(es) : f[i] = x
    BY <1>1 DEF ToSet
  <2> HIDE DEF f, ids
  <2> QED
    BY <2>2, <2>3, <2>4 DEF Bijection, Injection, Surjection, IsInjective
<1> HIDE DEF f, ids
<1>3. Cardinality(ids) = Len(es)
  BY <1>1, <1>2, FS_CountingElements DEF ExistsBijection
<1> QED
  BY <1>3 DEF ids

\* Nothing is found wrong on a line that is not there.
LEMMA RowFindings ==
    ASSUME Inv, NEW d \in diagnostics \cup EventDiagnostics(rows)
    PROVE  d.at.line \in DOMAIN files[d.at.session]
<1>1. CASE d \in diagnostics
  BY <1>1, FoundAt DEF Inv
<1>2. CASE d \in EventDiagnostics(rows)
  <2> DEFINE g == Lengths(files)
  <2>1. PICK e \in ToSet(rows) : d \in e.diagnostics
    BY <1>2 DEF EventDiagnostics, ToSet
  <2> DEFINE s == e.exec
             n == e.line
  <2>2. s \in Sessions /\ n \in 1..g[s]
    BY DEF Inv, Holds
  <2>3. PICK b \in n..g[s] :
          Tells({x \in ToSet(rows) : x.exec = s /\ x.line = n}, s, n, files[s][n],
                Here(Correlate(s, SubSeq(files[s], 1, b)), n))
    BY <2>2, LiveView, HeldLine
  <2>4. d \in Correlate(s, SubSeq(files[s], 1, b)) /\ d.at.line = n
    BY <2>1, <2>3 DEF Tells, Here
  <2>5. d.at.session = s
    BY <2>4, FoundAt
  <2>6. n \in DOMAIN files[s]
    BY <2>2 DEF Inv, Lengths
  <2> QED
    BY <2>4, <2>5, <2>6
<1> QED
  BY <1>1, <1>2

\* The rows are the events of the files, each once, whatever is imported in
\* whatever parts (persist.ts:183-213).
THEOREM TypeCorrect == Spec => []TypeOK
<1>1. Inv => TypeOK
  <2> SUFFICES ASSUME Inv PROVE TypeOK
    OBVIOUS
  <2>1. \A s \in Sessions : files[s] \in Seq(Lines[s])
    BY DEF Inv
  <2>2. {EventId(e) : e \in ToSet(rows)} =
          UNION {{EventId(e) : e \in ToSet(Normalize(s, files[s]))} : s \in Sessions}
    BY RowIds
  <2>3. Cardinality({EventId(e) : e \in ToSet(rows)}) = Len(rows)
    BY ListSize DEF Inv
  <2>4. \A d \in diagnostics \cup EventDiagnostics(rows) : d.at.line \in DOMAIN files[d.at.session]
    BY RowFindings
  <2>5. watermarks \subseteq 1..Len(rows)
    BY DEF Inv
  <2> QED
    BY <2>1, <2>2, <2>3, <2>4, <2>5, Zenon DEF TypeOK
<1> QED
  BY Invariance, <1>1, PTL

\* A view is the reconciled events of a list that holds beginnings of the files;
\* only the live one has diagnostics besides those of its events.
LEMMA ViewForms ==
    ASSUME Inv, NEW view \in Views
    PROVE  \E es, g : /\ IsView(es, files, g) /\ view.events = ReconcileEvents(es)
                      /\ \/ view.diagnostics = {}
                         \/ es = rows /\ g = Lengths(files) /\ view.diagnostics = diagnostics
<1>1. CASE view = Live
  BY <1>1, LiveView, LiveDiagnostics
<1>2. ASSUME NEW m \in watermarks, view = AtCheckpoint(m)
      PROVE  \E g : /\ IsView(SubSeq(rows, 1, m), files, g)
                    /\ view.events = ReconcileEvents(SubSeq(rows, 1, m))
                    /\ view.diagnostics = {}
  <2>1. /\ AtCheckpoint(m).events = ReconcileEvents(SubSeq(rows, 1, m))
        /\ AtCheckpoint(m).diagnostics \subseteq {}
    BY DEF AtCheckpoint, Reconcile
  <2> QED
    BY <1>2, <2>1, OldView
<1> QED
  BY <1>1, <1>2 DEF Views

\* In the live view and in that of every checkpoint a call is reported as missing
\* its result exactly if the view holds none (observe.ts:171-201).
THEOREM MissingIsExact == Spec => []MissingExact
<1>1. Inv => MissingExact
  <2> SUFFICES ASSUME Inv, NEW view \in Views PROVE MissingIn(view.events)
    BY DEF MissingExact, MissingIn, Missing, CallAt
  <2> QED
    BY ViewForms, ViewMissing
<1> QED
  BY Invariance, <1>1, PTL

\* The live view reports what is wrong with the sessions as they were last imported,
\* and nothing else (observe.ts:124-145).
THEOREM DiagnosticsAreCurrent == Spec => []LiveDiagnosticsCurrent
<1>1. Inv => LiveDiagnosticsCurrent
  BY LiveDiagnostics DEF LiveDiagnosticsCurrent, Inv
<1> QED
  BY Invariance, <1>1, PTL

\* Whoever reads that the latest edit is verified can rely on a successful test that
\* started after all edits had ended (context.ts:49-52, 105-127).
THEOREM VerifiedWasTested == Spec => []VerifiedMeansTested
<1>1. Inv => VerifiedMeansTested
  <2> SUFFICES ASSUME Inv, NEW view \in Views PROVE IsList(view.events)
    BY VerifiedList DEF VerifiedMeansTested
  <2>1. PICK es, g : IsView(es, files, g) /\ view.events = ReconcileEvents(es)
    BY ViewForms
  <2>2. IsList(es) /\ \A e \in ToSet(es) : IsEvent(e)
    BY <2>1, ViewEvents DEF IsView
  <2> QED
    BY <2>1, <2>2, ReconciledEvents
<1> QED
  BY Invariance, <1>1, PTL

\* What the Work itself reports as missing is a call of its rows.
LEMMA ReportedIsPending ==
    ASSUME Inv, NEW d \in diagnostics, d.code = Missing
    PROVE  Pending(ReconcileEvents(rows)) # {}
<1> DEFINE g == Lengths(files)
<1>1. PICK s \in Sessions : d \in Correlate(s, files[s])
  BY DEF Inv
<1>2. PICK c \in CallLocations(s, files[s]) : \A r \in ResultLocations(s, files[s]) : r.id # c.id
  BY <1>1, MissingFound
<1>3. PICK n \in DOMAIN files[s] :
        /\ files[s][n].role = "assistant"
        /\ \E i \in DOMAIN files[s][n].calls : c = Location(s, n, i, files[s][n].calls[i].id)
  BY CallsAt
<1>4. n \in 1..g[s] /\ SubSeq(files[s], 1, g[s]) = files[s]
  BY DEF Inv, Lengths
<1>5. IsView(rows, files, g)
  BY LiveView
<1> HIDE DEF g
<1>6. PICK e \in ToSet(rows) : e.kind = "tool_call" /\ e.exec = s /\ e.id = c.id
  BY <1>3, <1>4, <1>5, HeldLine DEF Tells, Location
<1>7. <<s, c.id>> \notin Answered(rows)
  <2>1. \A r \in ResultLocations(s, SubSeq(files[s], 1, g[s])) : r.id # c.id
    BY <1>2, <1>4
  <2> QED
    BY <1>5, <2>1, AnsweredBy
<1>8. PICK k \in DOMAIN rows : rows[k] = e
  BY DEF ToSet
<1>9. k \in {x \in Operations(ReconcileEvents(rows)) : ResultAt(ReconcileEvents(rows), x) = 0}
  BY <1>5, <1>6, <1>7, <1>8, OpenCalls
<1> QED
  BY <1>9, PendingCalls

\* The state, what is unresolved, the next steps and the codes of a handoff agree on
\* what is open (context.ts:151-191, handoff.ts:530-561, 755-768, observe.ts:173-201).
THEOREM OpenIsNamed == Spec => []OpenWorkIsNamed
<1>1. Inv => OpenWorkIsNamed
  <2> SUFFICES ASSUME Inv, NEW view \in Views PROVE NamedIn(view.events, Codes(view))
    BY Zenon DEF OpenWorkIsNamed, NamedIn, Missing
  <2>1. PICK es, g : /\ IsView(es, files, g) /\ view.events = ReconcileEvents(es)
                     /\ \/ view.diagnostics = {}
                        \/ es = rows /\ g = Lengths(files) /\ view.diagnostics = diagnostics
    BY ViewForms
  <2> DEFINE ev == view.events
  <2>2. MissingIn(ev)
    BY <2>1, ViewMissing
  <2>3. Pending(ev) = {c \in Operations(ev) : ResultAt(ev, c) = 0}
    BY PendingCalls
  <2>4. Missing \in Codes(view) <=>
          \E d \in view.diagnostics \cup EventDiagnostics(ev) : d.code = Missing
    BY DEF Codes
  <2> HIDE DEF ev
  <2>5. ASSUME NEW c \in Pending(ev) PROVE \E d \in EventDiagnostics(ev) : d.code = Missing
    <3>1. [code |-> Missing, at |-> CallAt(ev[c])] \in ev[c].diagnostics /\ c \in DOMAIN ev
      BY <2>2, <2>3 DEF MissingIn, Operations
    <3> QED
      BY <3>1 DEF EventDiagnostics
  <2>6. ASSUME NEW d \in EventDiagnostics(ev), d.code = Missing PROVE Pending(ev) # {}
    BY <2>2, <2>3, <2>6 DEF MissingIn
  <2>7. ASSUME NEW d \in view.diagnostics, d.code = Missing PROVE Pending(ev) # {}
    BY <2>1, <2>7, ReportedIsPending DEF ev
  <2>8. Missing \in Codes(view) <=> Pending(ev) # {}
    BY <2>4, <2>5, <2>6, <2>7
  <2> QED
    BY <2>8, NamedList DEF ev
<1> QED
  BY Invariance, <1>1, PTL

\* No step changes what a checkpoint shows (fork.ts:26-59).
THEOREM CheckpointsAreStable == Spec => CheckpointViewStable
<1>1. Inv /\ [Next]_vars => [\A m \in watermarks : AtCheckpoint(m)' = AtCheckpoint(m)]_vars
  <2> SUFFICES ASSUME Inv, [Next]_vars, NEW m \in watermarks
               PROVE  SubSeq(rows', 1, m) = SubSeq(rows, 1, m)
    BY DEF AtCheckpoint
  <2>1. m \in 0..Len(rows)
    BY DEF Inv
  <2>2. CASE Checkpoint
    BY <2>2 DEF Checkpoint
  <2>3. CASE \E s \in Sessions : Import(s)
    BY <2>1, <2>3, InvImport
  <2>4. CASE UNCHANGED vars
    BY <2>4 DEF vars
  <2> QED
    BY <2>2, <2>3, <2>4 DEF Next
<1> QED
  BY Invariance, <1>1, PTL DEF Spec, CheckpointViewStable
=============================================================================

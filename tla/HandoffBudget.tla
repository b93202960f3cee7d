---------------------------- MODULE HandoffBudget ----------------------------
(***************************************************************************)
(* How a handoff is cut down to its size: the three layers that            *)
(* applyHandoffBudget applies, one loop iteration at a time, and the cap   *)
(* on findings that buildHandoffFromWork applies before them.              *)
(*                                                                         *)
(* Text is abstracted to its length.  An item is its number of characters  *)
(* and the place of a redaction marker in it; a section is its items, the  *)
(* oldest first.  Blanks at the end of a cut item, which the code trims,   *)
(* and the approximate counts of omitted characters are left out.          *)
(***************************************************************************)
EXTENDS Naturals, Sequences, FiniteSets, Functions

CONSTANTS Order,         \* the names of the sections, in the code's order
          Priority,      \* Priority[k]: a section with a higher one goes first
          Protected,     \* HANDOFF_PROTECTED_PRIORITY
          Findings,      \* the section that is capped
          FindingsCap,   \* FINDINGS_CAP
          ItemChars, SectionChars, TotalChars,   \* HANDOFF_BUDGET_LIMITS
          Inputs         \* the sections a Work may give

Sections == Range(Order)

\* An item with its marker at the characters open..close; open = 0: no marker.
Items == {i \in [chars : Nat, open : Nat, close : Nat] :
            i.open <= i.close /\ i.close <= i.chars}

ASSUME BudgetAssumption ==
    /\ Order \in Seq(Sections)
    /\ \A i, j \in DOMAIN Order : Order[i] = Order[j] => i = j
    /\ Priority \in [Sections -> Nat]
    /\ \A j, k \in Sections :
         Priority[j] = Priority[k] => j = k \/ Priority[j] <= Protected
    /\ Findings \in Sections
    /\ {Protected, FindingsCap, ItemChars, SectionChars, TotalChars} \subseteq Nat
    /\ FindingsCap > 0
    /\ Inputs \subseteq [Sections -> Seq(Items)]

VARIABLES source,   \* source[k]: the items of section k
          step,     \* "truncate", then "sections", "total", "done"
          at,       \* the section at work, a place in Order
          items,    \* items[k]: what is left of section k
          dropped,  \* dropped[k]: how many of its items the budget has dropped
          omitted,  \* omittedItems[k]
          queue,    \* the sections that may still be dropped whole
          total     \* the running total

vars == <<source, step, at, items, dropped, omitted, queue, total>>

-----------------------------------------------------------------------------
(* Lengths *)

MaxDigits == 8   \* bound: counts have at most so many digits

Digits(n) == IF n = 0 THEN 1 ELSE Cardinality({d \in 0..(MaxDigits - 1) : 10^d <= n})

SuffixChars(n) == 19 + Digits(n)   \* "... [+n chars omitted]", with a one-character ellipsis
MarkerChars(n) == 16 + Digits(n)   \* "[+n more omitted]"
PrefixChars == 10                  \* "[REDACTED:"

\* Mutant: the cut looks at nothing but the limit.
CutAnywhere(item) == ItemChars

\* Where an item that is too long is cut: before a marker that has begun by
\* then and has not ended.
Cut(item) ==
    IF /\ item.open > 0
       /\ item.open + PrefixChars - 1 <= ItemChars
       /\ item.close > ItemChars
    THEN item.open - 1
    ELSE ItemChars

\* An item in the handoff: the source item it is from, how much of that it
\* shows, and its length.
Truncated(from, item) ==
    IF item.chars <= ItemChars
    THEN [from |-> from, shown |-> item.chars, chars |-> item.chars]
    ELSE [from |-> from, shown |-> Cut(item),
          chars |-> Cut(item) + SuffixChars(item.chars - Cut(item))]

\* The items joined by one separator per gap.
Size(s) == SumFunction([n \in DOMAIN s |-> s[n].chars])
             + (IF s = <<>> THEN 0 ELSE Len(s) - 1)

MarkerSize(k, d, s) ==
    IF d = 0 THEN 0 ELSE MarkerChars(d) + (IF s = <<>> THEN 0 ELSE 1)

Measured == SumFunction([k \in Sections |-> Size(items[k]) + MarkerSize(k, dropped[k], items[k])])

\* A section as the handoff shows it: its marker is one more item.
Final(k) ==
    IF dropped[k] = 0 THEN items[k]
    ELSE Append(items[k], [from |-> 0, shown |-> 0, chars |-> MarkerChars(dropped[k])])

BoundedChars == SumFunction([k \in Sections |-> Size(Final(k))])

\* What the layers leave of a section at most: its marker, or one line, or a list and
\* its marker.  With the limits of the code that is less than a handoff may have.
LineRoom == ItemChars + 19 + MaxDigits
MarkerRoom == 16 + MaxDigits

Room(k) ==
    IF Priority[k] > Protected THEN MarkerRoom
    ELSE IF \A f \in Inputs : Len(f[k]) <= 1 THEN LineRoom
    ELSE (IF LineRoom > SectionChars THEN LineRoom ELSE SectionChars) + 1 + MarkerRoom

ASSUME LimitsAssumption == SumFunction([k \in Sections |-> Room(k)]) <= TotalChars
-----------------------------------------------------------------------------
(* The layers *)

\* How many of the oldest items of a section are capped.
Capped(k) ==
    IF k = Findings /\ Len(source[k]) > FindingsCap THEN Len(source[k]) - FindingsCap ELSE 0

Init ==
    /\ source \in Inputs
    /\ step = "truncate"
    /\ at = 1
    /\ items = [k \in Sections |-> <<>>]
    /\ dropped = [k \in Sections |-> 0]
    /\ omitted = [k \in Sections |-> 0]
    /\ queue = {}
    /\ total = 0

\* The cap, and layer 1: every item is cut to the limit.
Truncate ==
    /\ step = "truncate"
    /\ items' = [k \in Sections |->
                   [n \in 1..(Len(source[k]) - Capped(k)) |->
                      Truncated(n + Capped(k), source[k][n + Capped(k)])]]
    /\ step' = "sections"
    /\ UNCHANGED <<source, at, dropped, omitted, queue, total>>

\* Layer 2: a section over its limit loses its oldest item, but not its last.
TooLong(k) == Size(items[k]) > SectionChars /\ Len(items[k]) > 1

\* Mutant: the newest item goes.
DropNewest ==
    /\ step = "sections" /\ at <= Len(Order)
    /\ TooLong(Order[at])
    /\ items' = [items EXCEPT ![Order[at]] = SubSeq(@, 1, Len(@) - 1)]
    /\ dropped' = [dropped EXCEPT ![Order[at]] = @ + 1]
    /\ UNCHANGED <<source, step, at, omitted, queue, total>>

DropOldest ==
    /\ step = "sections" /\ at <= Len(Order)
    /\ TooLong(Order[at])
    /\ items' = [items EXCEPT ![Order[at]] = Tail(@)]
    /\ dropped' = [dropped EXCEPT ![Order[at]] = @ + 1]
    /\ UNCHANGED <<source, step, at, omitted, queue, total>>

NextSection ==
    /\ step = "sections" /\ at <= Len(Order)
    /\ ~ TooLong(Order[at])
    /\ omitted' = [omitted EXCEPT ![Order[at]] = @ + dropped[Order[at]]]
    /\ at' = at + 1
    /\ UNCHANGED <<source, step, items, dropped, queue, total>>

Droppable == {k \in Sections : Priority[k] > Protected /\ items[k] # <<>>}

Measure ==
    /\ step = "sections" /\ at > Len(Order)
    /\ total' = Measured
    /\ queue' = Droppable
    /\ step' = "total"
    /\ UNCHANGED <<source, at, items, dropped, omitted>>

\* Section k gives way to its marker; before is what it took of the total.
Drop(k, left, before) ==
    LET all == dropped[k] + Len(items[k])
    IN  /\ queue' = left
        /\ items' = [items EXCEPT ![k] = <<>>]
        /\ dropped' = [dropped EXCEPT ![k] = all]
        /\ omitted' = [omitted EXCEPT ![k] = @ + Len(items[k])]
        /\ total' = (total - before) + MarkerSize(k, all, <<>>)
        /\ UNCHANGED <<source, step, at>>

\* Mutants: the marker that the section already had stays in the total; the
\* most important section goes first; no second section goes.
DropKeepsMarker ==
    /\ step = "total" /\ total > TotalChars
    /\ \E k \in queue : /\ \A j \in queue : Priority[j] <= Priority[k]
                        /\ Drop(k, queue \ {k}, Size(items[k]))

DropMostImportant ==
    /\ step = "total" /\ total > TotalChars
    /\ \E k \in queue : /\ \A j \in queue : Priority[j] >= Priority[k]
                        /\ Drop(k, queue \ {k}, Size(items[k]) + MarkerSize(k, dropped[k], items[k]))

DropOne ==
    /\ step = "total" /\ total > TotalChars
    /\ \E k \in queue : /\ \A j \in queue : Priority[j] <= Priority[k]
                        /\ Drop(k, {}, Size(items[k]) + MarkerSize(k, dropped[k], items[k]))

\* Layer 3: the section of the lowest priority gives way to its marker.  (No
\* item is empty, so the code's guard against a section of size 0 never bites.)
DropSection ==
    /\ step = "total" /\ total > TotalChars
    /\ \E k \in queue : /\ \A j \in queue : Priority[j] <= Priority[k]
                        /\ Drop(k, queue \ {k}, Size(items[k]) + MarkerSize(k, dropped[k], items[k]))

\* Mutant: capped findings are not counted.
FinishUncapped ==
    /\ step = "total"
    /\ total <= TotalChars \/ queue = {}
    /\ step' = "done"
    /\ UNCHANGED <<source, at, items, dropped, omitted, queue, total>>

\* buildHandoffFromWork adds the capped findings to what is omitted.
Finish ==
    /\ step = "total"
    /\ total <= TotalChars \/ queue = {}
    /\ omitted' = [k \in Sections |-> omitted[k] + Capped(k)]
    /\ step' = "done"
    /\ UNCHANGED <<source, at, items, dropped, queue, total>>

Next == Truncate \/ DropOldest \/ NextSection \/ Measure \/ DropSection \/ Finish

Spec == Init /\ [][Next]_vars
-----------------------------------------------------------------------------
(* Properties *)

\* The total that layer 3 updates as it drops sections is the size of what the
\* handoff will show, separators and the digits of the markers included, and so
\* is what the budget reports (handoff.ts:429-448 against 457).
TotalExact == step \in {"total", "done"} => total = BoundedChars

\* "most recent work survives": what is left of a section is its newest items in
\* their order, none of them dropped needlessly, and "a section can never
\* silently vanish" before layer 3 (handoff.ts:92-96, 414-424).
NewestSurvive ==
    step # "truncate" =>
      \A k \in Sections :
        LET older == Len(source[k]) - Len(items[k])
        IN  /\ \A n \in DOMAIN items[k] : items[k][n].from = older + n
            /\ source[k] # <<>> /\ items[k] = <<>> =>
                 step \in {"total", "done"} /\ dropped[k] > 0
            /\ items[k] # <<>> /\ dropped[k] > 0 =>
                 Size(<<Truncated(older, source[k][older])>> \o items[k]) > SectionChars

\* Nothing goes missing without being counted: the items shown and those counted
\* as omitted are all there were, findings past the cap included
\* (handoff.ts:229-230, 289-305, 423, 444).
AllCounted ==
    step = "done" => \A k \in Sections : Len(source[k]) = Len(items[k]) + omitted[k]

\* "a maximally truncated package still carries uncertainty and unresolved work
\* first": a protected section is never emptied, and no section is emptied while
\* one of lower priority still has items (handoff.ts:97-101, 426-449).
UncertaintyKept ==
    step = "done" =>
      \A k \in Sections :
        source[k] # <<>> /\ items[k] = <<>> =>
          /\ Priority[k] > Protected
          /\ \A j \in Sections : Priority[j] > Priority[k] => items[j] = <<>>

\* With the limits of the code, every handoff fits: what is protected, and the
\* markers of all the rest, leave room (handoff.ts:115-119, 457-467).
AlwaysFits == step = "done" => BoundedChars <= TotalChars

\* A marker that has been opened in what an item shows is also closed there
\* (handoff.ts:360-375).
MarkersClosed ==
    \A k \in Sections : \A n \in DOMAIN items[k] :
      LET item == source[k][items[k][n].from]
      IN  item.open > 0 /\ item.open + PrefixChars - 1 <= items[k][n].shown
            => item.close <= items[k][n].shown
=============================================================================

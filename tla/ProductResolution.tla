------------------------- MODULE ProductResolution --------------------------
(* The product a message names, as the identify-only resolver of             *)
(* supabase/functions/_shared/runtime finds it in the catalogue, for the     *)
(* fan-out and the inbox bridge.  How alike two texts are is an input; what  *)
(* is modelled is how scores become one product or a question.  Scores are   *)
(* in hundredths.  The same message is resolved several times (a retried     *)
(* webhook, the bridge), each time over rows in whatever order the database  *)
(* returns them.                                                             *)
EXTENDS Integers, FiniteSets

CONSTANTS Products,   \* numbers, in the order of their SKUs
          Rows,       \* what a product row may be, against the message
          AliasRows,  \* alias rows the catalogue may have: product, overlap, fit, canonical
          MaxAliases, \* bound: alias rows
          None

\* A product's own terms, categories counting as names, and those of its aliases.
OwnSources == {"sku", "name", "short_name"}
\* fit: the message is the term itself, its words in another order, or neither.
Fits == {"same", "anagram", "other"}
Overlap == 0..100  \* of the words of the message with a term's, fuzzy and with synonyms
Boost == -30..60   \* for the pack, frozen, cheese and tart the message asks for
Bulk == {0, 3, 6}  \* for a bulk product, and one asked for in bulk
Groups == STRING   \* equal names, category and pack: duplicates of one product
RowType == [group: Groups, active: BOOLEAN, created: Nat, serial: Nat,
            source: OwnSources, overlap: Overlap, fit: Fits, bulk: Bulk, boost: Boost]

ResolutionAssumption ==
  /\ Products \subseteq Nat /\ MaxAliases \in Nat /\ Rows \subseteq RowType
  /\ IsFiniteSet(Products) /\ IsFiniteSet(AliasRows)
  /\ AliasRows \subseteq [product: Products, overlap: Overlap, fit: Fits, canonical: Overlap]

VARIABLES row,      \* per product: its catalogue row
          aliases,  \* its alias rows
          vague,    \* a lone "midya", or a nut "asiyah", of which there are several
          rounding, \* a difference of exactly the delta comes out below it
          answers   \* of the calls so far

vars == <<row, aliases, vague, rounding, answers>>

MinThreshold == 72
HighThreshold == 85
AmbiguityDelta == 8
\* Words that name several products whatever the scores say.
Vague == {"midya", "asiyah"}
Bands == {"HIGH", "MEDIUM", "LOW"}
Answer == [product: Products \cup {None}, band: Bands]
Failed == [product |-> None, band |-> "none"]

TypeOK ==
  /\ row \in [Products -> Rows] /\ aliases \subseteq AliasRows
  /\ vague \in Vague \cup {"no"} /\ rounding \in BOOLEAN
  /\ answers \subseteq Answer \cup {Failed}

Init ==
  /\ row \in [Products -> Rows]
  /\ aliases \in {S \in SUBSET AliasRows : Cardinality(S) <= MaxAliases}
  /\ vague \in Vague \cup {"no"} /\ rounding \in BOOLEAN
  /\ answers = {}

-----------------------------------------------------------------------------
(* One product: the best of its terms.                                       *)

Least(x, y) == IF x < y THEN x ELSE y
Clamped(x) == IF x < 0 THEN 0 ELSE Least(100, x)

\* Overlap is capped below certainty, except for a SKU; an alias that is the
\* message itself is worth more.
TermConfidence(t, bulk) ==
  LET base == IF t.source = "sku" THEN t.overlap
              ELSE Least(97, t.overlap + (IF t.source = "alias" THEN 2 ELSE 0))
      exact == IF t.source # "alias" \/ t.fit = "other" THEN 0
               ELSE IF t.fit = "same" THEN 8 ELSE 5
  IN  Least(100, Least(100, base + exact) + bulk)

\* The terms of p that match at all: its own best one, and two of each alias row.
Terms(p) ==
  LET mine == {a \in aliases : a.product = p}
      own == [of |-> None, source |-> row[p].source, overlap |-> row[p].overlap,
              fit |-> row[p].fit]
      text(a) == [of |-> a, source |-> "alias", overlap |-> a.overlap, fit |-> a.fit]
      name(a) == [of |-> a, source |-> "canonical_name", overlap |-> a.canonical,
                  fit |-> "other"]
  IN  {t \in {own} \cup {text(a) : a \in mine} \cup {name(a) : a \in mine} : t.overlap > 0}

\* The lexicon has a product's own terms first, then its aliases as they are listed.
Place(t, listed) ==
  IF t.source \in OwnSources THEN 0
  ELSE 2 * listed[t.of] + (IF t.source = "alias" THEN 0 ELSE 1)

Best(p) ==
  LET terms == Terms(p)
  IN  {t \in terms : \A u \in terms :
         TermConfidence(u, row[p].bulk) <= TermConfidence(t, row[p].bulk)}

\* The first of the best terms, and the boosts for what the message asks for.
Scored(p, listed) ==
  LET tied == Best(p)
      best == CHOOSE t \in tied : \A u \in tied : Place(t, listed) <= Place(u, listed)
  IN  [product |-> p, fit |-> best.fit,
       named |-> best.source \in {"alias", "short_name"} /\ best.fit # "other",
       confidence |-> Clamped(TermConfidence(best, row[p].bulk) + row[p].boost)]

-----------------------------------------------------------------------------
(* All products: ranked, one per logical group.                              *)

\* Which of two rows of one group stands for it: the active one, then the newer
\* one, the later serial number; only then the better match, and the first SKU.
Represents(a, b) ==
  LET merit(c) == <<IF row[c.product].active THEN 1 ELSE 0, row[c.product].created,
                    row[c.product].serial, c.confidence,
                    CASE c.fit = "same" -> 2 [] c.fit = "anagram" -> 1 [] OTHER -> 0,
                    -c.product>>
      x == merit(a)
      y == merit(b)
  IN  \E n \in 1..6 : x[n] > y[n] /\ \A m \in 1..n - 1 : x[m] = y[m]

Collapsed(listed) ==
  LET scored == {Scored(p, listed) : p \in {q \in Products : Terms(q) # {}}}
  IN  {c \in scored : \A d \in scored :
         row[d.product].group = row[c.product].group => d = c \/ Represents(c, d)}

\* JavaScript's sort is stable: equals stay in the order they came, which is that of
\* the first rows of their groups and may be any.
Ranked(candidates, seat) ==
  CHOOSE c \in candidates : \A d \in candidates :
    \/ d.confidence < c.confidence
    \/ d.confidence = c.confidence /\ seat[c.product] <= seat[d.product]

\* The first alias row that is the message itself and whose product stands for its
\* group; else the only product that matched by the same words in another order.
ExactWinner(candidates, listed) ==
  LET same == {a \in aliases : a.fit = "same" /\ \E c \in candidates : c.product = a.product}
      first == CHOOSE a \in same : \A b \in same : listed[a] <= listed[b]
      reordered == {c \in candidates : c.named}
  IN  IF vague = "midya" THEN {}
      ELSE IF same # {} THEN {c \in candidates : c.product = first.product}
      ELSE IF \E c \in reordered : reordered = {c} THEN reordered
      ELSE {}

(* Mutant: a tie is no ambiguity. *)
Close_NotTies(top, second) ==
  LET d == top.confidence - second.confidence
  IN  d > 0 /\ (d < AmbiguityDelta \/ (d = AmbiguityDelta /\ rounding))
Close(top, second) ==
  LET d == top.confidence - second.confidence
  IN  d < AmbiguityDelta \/ (d = AmbiguityDelta /\ rounding)

Band(confidence, ambiguous) ==
  IF confidence < MinThreshold \/ ambiguous THEN "LOW"
  ELSE IF confidence >= HighThreshold THEN "HIGH" ELSE "MEDIUM"

\* One call, over the product and alias rows as they are listed.  That the second of the
\* ranking is close to the top is to say that any other is.
Resolved(seat, listed) ==
  LET candidates == Collapsed(listed)
      winner == ExactWinner(candidates, listed)
      top == IF winner = {} THEN Ranked(candidates, seat) ELSE CHOOSE c \in winner : TRUE
      ambiguous == /\ winner = {}
                   /\ vague # "no" \/ \E c \in candidates \ {top} : Close(top, c)
      band == Band(top.confidence, ambiguous)
  IN  IF candidates = {} THEN [product |-> None, band |-> "LOW"]
      ELSE [product |-> IF band = "LOW" THEN None ELSE top.product, band |-> band]

Orders(S) == {f \in [S -> 1..Cardinality(S)] : \A x, y \in S : f[x] = f[y] => x = y}

\* The catalogue is read anew for every message; no order is asked for.
Resolve == \E seat \in Orders(Products), listed \in Orders(aliases) :
  /\ answers' = answers \cup {Resolved(seat, listed)}
  /\ UNCHANGED <<row, aliases, vague, rounding>>

\* A failed read names no product.
ReadFails == /\ answers' = answers \cup {Failed}
             /\ UNCHANGED <<row, aliases, vague, rounding>>

Next == Resolve \/ ReadFails
Spec == Init /\ [][Next]_vars

-----------------------------------------------------------------------------
(* Properties.                                                               *)

\* Two alias rows share the best score of a product, and one fits better.
Tied(p) ==
  /\ \A t \in Best(p) : t.source \notin OwnSources
  /\ \E t, u \in Best(p) : t.of # u.of /\ t.fit # u.fit

\* The same message names the same product whichever order the catalogue's rows
\* are returned in, unless two products carry the message as their alias, or the
\* cap on scores makes two aliases of a product equal though one fits better.
RowOrderIsIrrelevant ==
  \/ \E a, b \in aliases : a.fit = "same" /\ b.fit = "same" /\ a.product # b.product
  \/ \E p \in Products : Tied(p)
  \/ Cardinality(answers \ {Failed}) <= 1
=============================================================================

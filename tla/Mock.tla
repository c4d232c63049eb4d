-------------------------------- MODULE Mock --------------------------------
(***************************************************************************)
(* The keyword classifier (internal/classify/mock.go): pure operators.     *)
(* Matching a keyword is left to the environment: of a ticket's text only  *)
(* the number of keywords of each category that occur in it is kept, and   *)
(* the priorities of which one occurs.                                     *)
(*                                                                         *)
(* Confidences are whole percents, rounded as round2 rounds: to the        *)
(* nearest.  Exactly between two lies only a winner with a multiple of     *)
(* eight keywords, where the floats of the code may go either way: more    *)
(* than the instances give.                                                *)
(***************************************************************************)
EXTENDS Routing

CONSTANT Taxonomy   \* the categories in the order of the configuration

ASSUME TaxonomyAssumption ==
  /\ Taxonomy \in Seq(STRING) /\ Range(Taxonomy) = Categories /\ Len(Taxonomy) >= 2
  /\ \A i, j \in DOMAIN Taxonomy : Taxonomy[i] = Taxonomy[j] => i = j

(* The priorities whose keywords Mock.priority looks for, in its order      *)
Sought == <<"critical", "high", "low">>

Text == [hits: [Categories -> Nat], words: SUBSET Range(Sought)]

(* The first category after the stable sort by score *)
Winner(hits) ==
  Taxonomy[SelectInSeq(Taxonomy, LAMBDA c : \A d \in Categories : hits[d] <= hits[c])]

RunnerUpBehind(hits) ==
  LET top == hits[Winner(hits)]
  IN Max({0} \cup {hits[c] : c \in {d \in Categories : hits[d] < top}})

(* The score of the second one: the winner's own when they are level *)
RunnerUp(hits) == Max({hits[c] : c \in Categories \ {Winner(hits)}})

Clamped(n) == IF n < 5 THEN 5 ELSE IF n > 95 THEN 95 ELSE n

ScoredSwapped(top, second) ==
  IF second = 0 THEN Clamped(45 + 15 * Min({top, 3}))
  ELSE Clamped(45 + 15 * Min({top, 3}) - (20 * top) \div second)

(* 45 and 15 for each of the first three keywords, less 20 times second    *)
(* over top, rounded                                                       *)
Scored(top, second) ==
  Clamped((2 * ((45 + 15 * Min({top, 3})) * top - 20 * second) + top) \div (2 * top))

(* Mock.priority: the keywords of "medium" are never looked for *)
PriorityOf(words, category) ==
  LET found == SelectInSeq(Sought, LAMBDA p : p \in words)
  IN IF found # 0 THEN Sought[found]
     ELSE IF category = "outage" THEN "high" ELSE "medium"

(* Mock.Classify *)
MockAnswer(text) ==
  LET winner == Winner(text.hits)
      none == text.hits[winner] = 0
      category == IF none THEN "other" ELSE winner
  IN [category |-> category,
      priority |-> PriorityOf(text.words, category),
      confidence |-> IF none THEN 35 ELSE Scored(text.hits[winner], RunnerUp(text.hits)),
      human_verified |-> FALSE]
=============================================================================

-------------------------- MODULE LabellingProofs --------------------------
(***************************************************************************)
(* What a ticket's labels lead to, whatever the classifier answers, for    *)
(* every configuration or for those a theorem names; and the mock's        *)
(* confidence, for every number of keywords.                               *)
(*                                                                         *)
(* The first part carries RoutingProofs over to every classification a     *)
(* ticket can come to carry.  The second is about the arithmetic of the    *)
(* mock: the maxima it picks, and a rounded quotient that grows and falls  *)
(* as it should.                                                           *)
(***************************************************************************)
EXTENDS Labelling, Rivergate, RoutingProofs

-----------------------------------------------------------------------------
(* What a ticket carries                                                   *)

(* An answer that could not be used has left the fallback, until a person  *)
(* stands behind it.                                                       *)
Labelled ==
  /\ class \in Classification /\ trusted \in BOOLEAN /\ text \subseteq Texts
  /\ ~trusted /\ ~class.human_verified => class = Fallback

LEMMA FallbackTyped == Fallback \in Classification
<1>1. "other" \in Categories
  BY Zenon, ConfigAssumption DEF ConfigOK
<1>2. 0 \in Confidence
  BY DEF Confidence
<1>. QED BY <1>1, <1>2 DEF Fallback, Classification

(* What the mock says is a classification, if its labels are valid.        *)
LEMMA ClassifiedTyped ==
  ASSUME NEW answer, NEW failed \in BOOLEAN,
         answer \in ModelOutput \/ \E t : answer = MockAnswer(t)
  PROVE  /\ Classified(answer, failed) \in Classification
         /\ ~(~failed /\ Valid(answer)) => Classified(answer, failed) = Fallback
<1>1. \E cat, pri, n : answer = [category |-> cat, priority |-> pri, confidence |-> n,
                                 human_verified |-> FALSE]
  <2>1. CASE answer \in ModelOutput
    BY <2>1 DEF ModelOutput
  <2>2. CASE \E t : answer = MockAnswer(t)
    BY <2>2 DEF MockAnswer
  <2>. QED BY <2>1, <2>2
<1>2. Valid(answer) => answer \in Classification
  BY <1>1 DEF Valid, Classification
<1>. QED BY <1>2, FallbackTyped DEF Classified

LEMMA LabelledInit == Init => Labelled
<1>. SUFFICES ASSUME Init PROVE Labelled
  OBVIOUS
<1>1. ASSUME NEW answer, NEW failed \in BOOLEAN, Judged(answer, failed), text \subseteq Texts,
             answer \in ModelOutput \/ \E t : answer = MockAnswer(t)
      PROVE  Labelled
  <2>1. (~failed /\ Valid(answer)) \in BOOLEAN
    BY DEF Valid
  <2>. QED BY <1>1, <2>1, ClassifiedTyped DEF Judged, Labelled
<1>2. CASE text = {} /\ \E a \in Answers, failed \in BOOLEAN : Judged(a, failed)
  <2>1. PICK a \in Answers, failed \in BOOLEAN : Judged(a, failed)
    BY <1>2
  <2>. QED BY <1>2, <2>1, <1>1, LabellingAssumption
<1>3. CASE \E t \in Texts : text = {t} /\ Judged(MockAnswer(t), FALSE)
  <2>1. PICK t \in Texts : text = {t} /\ Judged(MockAnswer(t), FALSE)
    BY <1>3
  <2>. QED BY <2>1, <1>1
<1>. QED BY <1>2, <1>3 DEF Init

LEMMA LabelledStep == Labelled /\ [Next]_vars => Labelled'
<1>. SUFFICES ASSUME Labelled, [Next]_vars PROVE Labelled'
  OBVIOUS
<1>1. ASSUME NEW answer, NEW failed \in BOOLEAN, Judge(answer, failed),
             answer \in ModelOutput \/ \E t : answer = MockAnswer(t)
      PROVE  Labelled'
  <2>1. (~failed /\ Valid(answer)) \in BOOLEAN
    BY DEF Valid
  <2>. QED BY <1>1, <2>1, ClassifiedTyped DEF Judge, Labelled
<1>2. ASSUME NEW a \in Answers PROVE a \in ModelOutput
  BY LabellingAssumption
<1>3. ASSUME NEW cat, NEW pri, class' = Corrected(class, cat, pri),
             (cat # "" \/ pri # "") => Valid(Corrected(class, cat, pri)),
             trusted' \in BOOLEAN, text' = text
      PROVE  Labelled'
  <2>1. class' \in Classification /\ class'.human_verified
    BY <1>3, CorrectedTyped DEF Labelled
  <2>. QED BY <2>1, <1>3 DEF Labelled
<1>4. CASE Approve
  BY <1>3, <1>4 DEF Approve, Labelled
<1>5. ASSUME NEW cat, NEW pri, Override(cat, pri) PROVE Labelled'
  BY <1>3, <1>5 DEF Override
<1>6. CASE UNCHANGED vars
  BY <1>6 DEF vars, Labelled
<1>. QED BY <1>1, <1>2, <1>4, <1>5, <1>6 DEF Next

LEMMA AlwaysLabelled == Spec => []Labelled
  BY LabelledInit, LabelledStep, PTL DEF Spec

-----------------------------------------------------------------------------
(* Where it leads                                                          *)

(* Whatever a ticket comes to carry, a surer answer with the same labels   *)
(* withdraws no automatic route and adds no review (router.go:53-56, :66). *)
THEOREM ConfidenceNeverHurts == Spec => []ConfidenceIsMonotone
<1>1. ASSUME Labelled PROVE ConfidenceIsMonotone
  <2>. SUFFICES ASSUME ~class.human_verified, NEW n \in Confidences, n >= class.confidence
                PROVE LET now == Route(class)  surer == Route([class EXCEPT !.confidence = n])
                      IN /\ now.automatic => surer.automatic /\ surer.rule = now.rule
                         /\ surer.needs_review => now.needs_review
    BY DEF ConfidenceIsMonotone
  <2>1. n \in Confidence /\ class \in Classification
    BY <1>1, LabellingAssumption DEF Labelled
  <2>. QED BY <2>1, SurerNeverDoesLess
<1>. QED BY <1>1, AlwaysLabelled, PTL

(* Where no rule acts on the fallback's labels at confidence 0, an answer  *)
(* that could not be used goes to a person and takes no action             *)
(* (README.md:163-165, classify.go:114-126).                               *)
THEOREM GuessesNeverAct == FallbackUnclaimed => (Spec => []NeverAGuess)
<1>. SUFFICES ASSUME FallbackUnclaimed PROVE Spec => []NeverAGuess
  OBVIOUS
<1>1. ASSUME Labelled PROVE NeverAGuess
  <2>1. Route(Fallback) = ReviewDecision
    BY FallbackDefers
  <2>2. /\ ReviewDecision.needs_review /\ ~ReviewDecision.automatic
        /\ ReviewDecision.actions = <<>>
    BY DEF ReviewDecision
  <2>3. ASSUME ~trusted, ~class.human_verified PROVE Route(class) = ReviewDecision
    BY <2>1, <2>3, <1>1 DEF Labelled
  <2>. QED BY <2>2, <2>3 DEF NeverAGuess
<1>. QED BY <1>1, AlwaysLabelled, PTL

(* An approval confirms the route: it ends the review, and what was        *)
(* automatic keeps its rule, queue and actions (router.go:52, :59-70).     *)
THEOREM ApprovalsConfirm == Spec => ApprovalConfirms
<1>1. ASSUME Labelled, Approve
      PROVE  LET before == Route(class)  after == Route(class')
             IN /\ ~after.needs_review /\ ~after.automatic
                /\ before.automatic => /\ after.rule = before.rule
                                       /\ after.queue = before.queue
                                       /\ after.actions = before.actions
  <2>1. class' = Corrected(class, "", "") /\ class \in Classification
    BY <1>1 DEF Approve, Labelled
  <2>2. class' \in Classification /\ class'.human_verified
    BY <2>1, CorrectedTyped
  <2>3. ~Route(class').needs_review /\ ~Route(class').automatic
    BY <2>2, NobodyForgotten
  <2>. QED BY <2>1, <2>3, ApprovalKeepsTheRoute
<1>2. Labelled => [Approve =>
       LET before == Route(class)  after == Route(class')
       IN /\ ~after.needs_review /\ ~after.automatic
          /\ before.automatic => /\ after.rule = before.rule
                                 /\ after.queue = before.queue
                                 /\ after.actions = before.actions]_vars
  BY <1>1
<1>. QED BY <1>2, AlwaysLabelled, PTL DEF ApprovalConfirms


-----------------------------------------------------------------------------
(* The mock's arithmetic                                                   *)

LEMMA LesserOfTwo == ASSUME NEW a \in Int, NEW b \in Int
                     PROVE  Min({a, b}) = IF a <= b THEN a ELSE b
<1>. DEFINE m == IF a <= b THEN a ELSE b
<1>1. m \in {a, b} /\ \A y \in {a, b} : m <= y
  OBVIOUS
<1>2. \A x \in {a, b} : (\A y \in {a, b} : x <= y) => x = m
  OBVIOUS
<1>. HIDE DEF m
<1>3. Min({a, b}) \in {a, b} /\ \A y \in {a, b} : Min({a, b}) <= y
  BY <1>1 DEF Min
<1>4. Min({a, b}) = m
  BY <1>2, <1>3
<1>. QED BY <1>4 DEF m

(* What a quotient is.                                                     *)
LEMMA QuotientIs ==
  ASSUME NEW a \in Int, NEW d \in Nat, d > 0
  PROVE  a \div d \in Int /\ d * (a \div d) <= a /\ a < d * ((a \div d) + 1)
OBVIOUS

(* A product keeps the order of one of its factors.                        *)
LEMMA ProductGrows ==
  ASSUME NEW d \in Nat, NEW x \in Int, NEW y \in Int, x <= y
  PROVE  d * x <= d * y
OBVIOUS

(* Of two fractions, the greater has the greater quotient.                 *)
LEMMA QuotientGrows ==
  ASSUME NEW a \in Int, NEW b \in Int, NEW d \in Nat, NEW e \in Nat, d > 0, e > 0,
         a * e <= b * d
  PROVE  a \div d <= b \div e
<1>. DEFINE q == a \div d
            r == b \div e
<1>1. q \in Int /\ d * q <= a
  BY QuotientIs
<1>2. r \in Int /\ b < e * (r + 1)
  BY QuotientIs
<1>. HIDE DEF q, r
<1>3. CASE q <= r
  BY <1>3 DEF q, r
<1>4. CASE q >= r + 1
  <2>1. (e * d) * (r + 1) <= (e * d) * q
    BY <1>1, <1>2, <1>4, ProductGrows
  <2>2. e * (d * q) <= e * a
    BY <1>1, ProductGrows
  <2>3. d * b < d * (e * (r + 1))
    BY <1>2
  <2>4. (e * d) * q = e * (d * q) /\ (e * d) * (r + 1) = d * (e * (r + 1))
    BY <1>1, <1>2
  <2>5. e * a = a * e /\ d * b = b * d
    OBVIOUS
  <2>. QED BY <1>1, <1>2, <2>1, <2>2, <2>3, <2>4, <2>5
<1>. QED BY <1>1, <1>2, <1>3, <1>4


LEMMA ClampedTyped == ASSUME NEW n \in Int PROVE Clamped(n) \in 5..95
  BY DEF Clamped

LEMMA ClampedGrows ==
  ASSUME NEW m \in Int, NEW n \in Int, m <= n
  PROVE  Clamped(m) <= Clamped(n)
BY DEF Clamped

(* Of the base of a score, only the first three keywords count.            *)
LEMMA BaseGrows ==
  ASSUME NEW top \in Nat, top > 0
  PROVE  /\ 45 + 15 * Min({top, 3}) \in Int
         /\ 60 <= 45 + 15 * Min({top, 3}) /\ 45 + 15 * Min({top, 3}) <= 90
         /\ 45 + 15 * Min({top, 3}) <= 45 + 15 * Min({top + 1, 3})
BY LesserOfTwo

LEMMA ScoredTyped ==
  ASSUME NEW top \in Nat, top > 0, NEW second \in Nat
  PROVE  Scored(top, second) \in 5..95
<1>. DEFINE base == 45 + 15 * Min({top, 3})
            n == 2 * (base * top - 20 * second) + top
<1>1. base \in Int
  BY BaseGrows, Zenon
<1>. HIDE DEF base
<1>2. n \in Int /\ 2 * top \in Nat /\ 2 * top > 0
  BY <1>1
<1>. HIDE DEF n
<1>3. Clamped(n \div (2 * top)) \in 5..95
  BY <1>2, QuotientIs, ClampedTyped
<1>. QED BY <1>3 DEF Scored, n, base

(* A nearer rival makes the mock less sure (mock.go:108-110).              *)
LEMMA RivalsLowerTheScore ==
  ASSUME NEW top \in Nat, top > 0, NEW second \in Nat, NEW more \in Nat, second <= more
  PROVE  Scored(top, more) <= Scored(top, second)
<1>. DEFINE base == 45 + 15 * Min({top, 3})
            m == 2 * (base * top - 20 * more) + top
            n == 2 * (base * top - 20 * second) + top
            d == 2 * top
<1>1. base \in Int
  BY BaseGrows, Zenon
<1>. HIDE DEF base
<1>2. base * top \in Int
  BY <1>1
<1>3. m \in Int /\ n \in Int /\ m <= n /\ d \in Nat /\ d > 0
  BY <1>2
<1>. HIDE DEF m, n, d
<1>4. m * d <= n * d
  BY <1>3
<1>5. m \div d <= n \div d /\ m \div d \in Int /\ n \div d \in Int
  BY <1>3, <1>4, QuotientGrows, QuotientIs
<1>6. Clamped(m \div d) <= Clamped(n \div d)
  BY <1>5, ClampedGrows
<1>. QED BY <1>6 DEF Scored, m, n, d, base

(* One more keyword for the winner makes it no less sure (mock.go:105-110).*)
LEMMA KeywordsRaiseTheScore ==
  ASSUME NEW top \in Nat, top > 0, NEW second \in Nat
  PROVE  Scored(top, second) <= Scored(top + 1, second)
<1>. DEFINE b == 45 + 15 * Min({top, 3})
            c == 45 + 15 * Min({top + 1, 3})
            d == 2 * top
            e == 2 * (top + 1)
            m == 2 * (b * top - 20 * second) + top
            n == 2 * (c * (top + 1) - 20 * second) + (top + 1)
<1>1. b \in Int /\ c \in Int /\ b <= c
  <2>1. top + 1 \in Nat /\ top + 1 > 0
    OBVIOUS
  <2>. QED BY <2>1, BaseGrows, Zenon
<1>. HIDE DEF b, c
<1>2. b * top \in Int /\ c * (top + 1) \in Int
  BY <1>1
<1>3. m \in Int /\ n \in Int /\ d \in Nat /\ e \in Nat /\ d > 0 /\ e > 0
  BY <1>2
<1>4. m * e <= n * d
  <2>1. (top * (top + 1)) * b <= (top * (top + 1)) * c
    BY <1>1, ProductGrows
  <2>2. m * e = 4 * ((top * (top + 1)) * b) - 80 * (second * top) - 80 * second + 2 * (top * (top + 1))
    BY <1>1
  <2>3. n * d = 4 * ((top * (top + 1)) * c) - 80 * (second * top) + 2 * (top * (top + 1))
    BY <1>1
  <2>4. /\ (top * (top + 1)) * b \in Int /\ (top * (top + 1)) * c \in Int
        /\ second * top \in Int /\ top * (top + 1) \in Int
    BY <1>1
  <2>. HIDE DEF m, n, d, e
  <2>. QED BY <2>1, <2>2, <2>3, <2>4
<1>. HIDE DEF m, n, d, e
<1>5. m \div d <= n \div e /\ m \div d \in Int /\ n \div e \in Int
  BY <1>3, <1>4, QuotientGrows, QuotientIs
<1>6. Clamped(m \div d) <= Clamped(n \div e)
  BY <1>5, ClampedGrows
<1>. QED BY <1>6 DEF Scored, m, n, d, e, b, c

(* On one keyword, or level with another category, the score is 70 at most.*)
LEMMA SplitScores ==
  ASSUME NEW top \in Nat, top > 0, NEW second \in Nat, top = 1 \/ second = top
  PROVE  Scored(top, second) <= 70
<1>. DEFINE b == 45 + 15 * Min({top, 3})
            d == 2 * top
            m == 2 * (b * top - 20 * second) + top
<1>1. b \in Int /\ 60 <= b /\ b <= 90 /\ (top = 1 => b = 60)
  BY LesserOfTwo
<1>. HIDE DEF b
<1>2. b * top \in Int
  BY <1>1
<1>3. m \in Int /\ d \in Nat /\ d > 0
  BY <1>2
<1>4. m < d * 71
  <2>1. CASE top = 1
    BY <1>1, <2>1
  <2>2. CASE second = top
    <3>1. top * b <= top * 90 /\ top * b = b * top
      BY <1>1, ProductGrows
    <3>. QED BY <1>2, <2>2, <3>1
  <2>. QED BY <2>1, <2>2
<1>. HIDE DEF m, d
<1>5. m \div d <= 70
  <2>1. m \div d \in Int /\ d * (m \div d) <= m
    BY <1>3, QuotientIs
  <2>2. CASE m \div d >= 71
    BY <1>3, <1>4, <2>1, <2>2, ProductGrows
  <2>. QED BY <2>1, <2>2
<1>6. Clamped(m \div d) <= 70
  BY <1>3, <1>5, QuotientIs DEF Clamped
<1>. QED BY <1>6 DEF Scored, m, d, b


-----------------------------------------------------------------------------
(* The categories the mock ranks                                           *)

(* One of the first k numbers is the greatest.                             *)
LEMMA OneLeads ==
  ASSUME NEW k \in Nat, k > 0, NEW f, \A i \in 1..k : f[i] \in Nat
  PROVE  \E i \in 1..k : \A j \in 1..k : f[j] <= f[i]
<1>. DEFINE Leads(n) == \E i \in 1..n : \A j \in 1..n : f[j] <= f[i]
            Bad == {n \in 1..k : ~Leads(n)}
<1>1. CASE Bad = {}
  <2>1. k \in 1..k
    OBVIOUS
  <2>. QED BY <1>1, <2>1
<1>2. CASE Bad # {}
  <2>1. PICK n \in Bad : \A m \in Bad : n <= m
    <3>1. Bad \subseteq Nat
      OBVIOUS
    <3>. HIDE DEF Bad
    <3>. QED BY <1>2, <3>1, LeastNat
  <2>2. n \in Nat /\ 1 <= n /\ n <= k /\ ~Leads(n)
    OBVIOUS
  <2>3. CASE n = 1
    <3>1. 1 \in 1..n /\ f[1] \in Nat /\ \A j \in 1..n : j = 1
      BY <2>2, <2>3
    <3>2. Leads(n)
      BY <3>1
    <3>. QED BY <2>2, <3>2
  <2>4. CASE n > 1
    <3>1. n - 1 \in 1..k /\ ~(n <= n - 1)
      BY <2>2, <2>4
    <3>2. Leads(n - 1)
      BY <2>1, <3>1
    <3>3. PICK i \in 1..(n - 1) : \A j \in 1..(n - 1) : f[j] <= f[i]
      BY <3>2
    <3>4. /\ i \in 1..n /\ n \in 1..n /\ f[i] \in Nat /\ f[n] \in Nat
          /\ \A j \in 1..n : f[j] \in Nat /\ (j = n \/ j \in 1..(n - 1))
      BY <2>2, <2>4
    <3>5. CASE f[n] <= f[i]
      <4>1. \A j \in 1..n : f[j] <= f[i]
        BY <3>3, <3>4, <3>5
      <4>. QED BY <2>2, <3>4, <4>1
    <3>6. CASE f[i] <= f[n]
      <4>1. \A j \in 1..n : f[j] <= f[n]
        <5>. SUFFICES ASSUME NEW j \in 1..n PROVE f[j] <= f[n]
          OBVIOUS
        <5>1. CASE j = n
          BY <3>4, <5>1
        <5>2. CASE j \in 1..(n - 1)
          <6>1. f[j] <= f[i] /\ f[j] \in Nat
            BY <3>3, <3>4, <5>2
          <6>. QED BY <3>4, <3>6, <6>1
        <5>. QED BY <3>4, <5>1, <5>2
      <4>. QED BY <2>2, <3>4, <4>1
    <3>. QED BY <3>4, <3>5, <3>6
  <2>. QED BY <2>2, <2>3, <2>4
<1>. QED BY <1>1, <1>2

(* The taxonomy lists every category once, and there are two at least.     *)
LEMMA Listed ==
  /\ Len(Taxonomy) \in Nat /\ Len(Taxonomy) >= 2 /\ DOMAIN Taxonomy = 1..Len(Taxonomy)
  /\ \A i \in 1..Len(Taxonomy) : Taxonomy[i] \in Categories
  /\ \A c \in Categories : \E i \in 1..Len(Taxonomy) : Taxonomy[i] = c
  /\ \A c \in Categories : Categories \ {c} # {}
<1>1. /\ Len(Taxonomy) \in Nat /\ Len(Taxonomy) >= 2 /\ DOMAIN Taxonomy = 1..Len(Taxonomy)
      /\ Categories = {Taxonomy[i] : i \in DOMAIN Taxonomy}
  BY TaxonomyAssumption DEF Range
<1>2. ASSUME NEW c \in Categories PROVE Categories \ {c} # {}
  <2>1. 1 \in DOMAIN Taxonomy /\ 2 \in DOMAIN Taxonomy /\ 1 # 2
    BY <1>1
  <2>2. Taxonomy[1] # Taxonomy[2]
    BY <2>1, TaxonomyAssumption, Zenon
  <2>. QED BY <1>1, <2>1, <2>2
<1>. QED BY <1>1, <1>2

(* The winner is a category none has more keywords than (mock.go:96-101).  *)
LEMMA WinnerLeads ==
  ASSUME NEW hits \in [Categories -> Nat]
  PROVE  /\ Winner(hits) \in Categories
         /\ hits[Winner(hits)] \in Nat
         /\ \A d \in Categories : hits[d] \in Nat /\ hits[d] <= hits[Winner(hits)]
<1>. DEFINE k == Len(Taxonomy)
            f == [i \in 1..k |-> hits[Taxonomy[i]]]
            I == {i \in 1..k : \A d \in Categories : hits[d] <= hits[Taxonomy[i]]}
<1>1. \A i \in 1..k : f[i] = hits[Taxonomy[i]] /\ f[i] \in Nat
  BY Listed
<1>2. PICK n \in 1..k : \A j \in 1..k : f[j] <= f[n]
  <2>1. k \in Nat /\ k > 0
    BY Listed
  <2>. HIDE DEF k, f
  <2>. QED BY <1>1, <2>1, OneLeads
<1>3. n \in I
  <2>. SUFFICES ASSUME NEW d \in Categories PROVE hits[d] <= hits[Taxonomy[n]]
    OBVIOUS
  <2>1. PICK j \in 1..k : Taxonomy[j] = d
    BY Listed
  <2>2. f[j] = hits[d] /\ f[n] = hits[Taxonomy[n]]
    BY <1>1, <2>1
  <2>. QED BY <1>2, <2>2
<1>4. Min(I) \in I
  <2>1. I \subseteq Nat
    BY Listed
  <2>2. PICK x \in I : \A y \in I : x <= y
    <3>. HIDE DEF I
    <3>. QED BY <1>3, <2>1, LeastNat
  <2>. HIDE DEF I
  <2>. QED BY <2>2 DEF Min
<1>5. Winner(hits) = Taxonomy[Min(I)]
  BY <1>3, Zenon DEF Winner, SelectInSeq
<1>6. Winner(hits) \in Categories /\ \A d \in Categories : hits[d] <= hits[Winner(hits)]
  <2>1. Min(I) \in 1..k /\ \A d \in Categories : hits[d] <= hits[Taxonomy[Min(I)]]
    BY <1>4, Zenon
  <2>. HIDE DEF I
  <2>. QED BY <1>5, <2>1, Listed
<1>. QED BY <1>6

(* The second one has the most keywords of the others (mock.go:102-104).   *)
LEMMA RunnerUpIs ==
  ASSUME NEW hits \in [Categories -> Nat]
  PROVE  /\ RunnerUp(hits) \in Nat
         /\ RunnerUp(hits) <= hits[Winner(hits)]
         /\ \E c \in Categories \ {Winner(hits)} : hits[c] = RunnerUp(hits)
         /\ \A c \in Categories \ {Winner(hits)} : hits[c] <= RunnerUp(hits)
<1>. DEFINE w == Winner(hits)
            S == {hits[c] : c \in Categories \ {w}}
<1>1. w \in Categories /\ hits[w] \in Nat /\ \A d \in Categories : hits[d] \in Nat /\ hits[d] <= hits[w]
  BY WinnerLeads
<1>. HIDE DEF w
<1>2. S # {} /\ S \subseteq 0..hits[w]
  <2>1. Categories \ {w} # {}
    BY <1>1, Listed, Zenon
  <2>2. \A c \in Categories : hits[c] \in 0..hits[w]
    BY <1>1
  <2>. QED BY <2>1, <2>2
<1>3. Max(S) \in S /\ \A y \in S : Max(S) >= y
  <2>. HIDE DEF S
  <2>. QED BY <1>1, <1>2, MaxIsGreatest, Zenon
<1>4. RunnerUp(hits) = Max(S)
  BY DEF RunnerUp, w
<1>5. PICK c \in Categories \ {w} : hits[c] = Max(S)
  BY <1>3, Zenon
<1>6. \A d \in Categories \ {w} : hits[d] <= Max(S)
  <2>. SUFFICES ASSUME NEW d \in Categories \ {w} PROVE hits[d] <= Max(S)
    OBVIOUS
  <2>1. Max(S) >= hits[d]
    BY <1>3, Zenon
  <2>. HIDE DEF S
  <2>. QED BY <1>1, <1>5, <2>1
<1>. HIDE DEF S
<1>7. Max(S) \in Nat /\ Max(S) <= hits[w]
  BY <1>1, <1>5
<1>. QED BY <1>4, <1>5, <1>6, <1>7 DEF w


-----------------------------------------------------------------------------
(* What the mock answers                                                   *)

(* The mock looks for three priorities and falls back on two; Validate     *)
(* does not ask the configuration to have them (mock.go:121-136).          *)
MockIsInTaxonomy == {"critical", "high", "low", "medium"} \subseteq Priorities

LEMMA PriorityIsNamed ==
  ASSUME NEW words, NEW category
  PROVE  PriorityOf(words, category) \in {"critical", "high", "low", "medium"}
<1>. DEFINE I == {i \in 1..Len(Sought) : Sought[i] \in words}
            found == SelectInSeq(Sought, LAMBDA p : p \in words)
<1>1. /\ Len(Sought) = 3
      /\ Sought[1] = "critical" /\ Sought[2] = "high" /\ Sought[3] = "low"
  BY DEF Sought
<1>2. found = IF I # {} THEN Min(I) ELSE 0
  BY Zenon DEF SelectInSeq
<1>3. found \in 0..3
  <2>1. CASE I = {}
    BY <1>2, <2>1
  <2>2. CASE I # {}
    <3>1. I \subseteq Nat /\ I \subseteq 1..3
      BY <1>1
    <3>2. PICK x \in I : \A y \in I : x <= y
      <4>. HIDE DEF I
      <4>. QED BY <2>2, <3>1, LeastNat
    <3>3. Min(I) \in I
      <4>. HIDE DEF I
      <4>. QED BY <3>2 DEF Min
    <3>. HIDE DEF I
    <3>. QED BY <1>2, <2>2, <3>1, <3>3
  <2>. QED BY <2>1, <2>2
<1>4. PriorityOf(words, category) = IF found # 0 THEN Sought[found]
                                    ELSE IF category = "outage" THEN "high" ELSE "medium"
  BY Zenon DEF PriorityOf
<1>. HIDE DEF found
<1>5. found # 0 => Sought[found] \in {"critical", "high", "low"}
  BY <1>1, <1>3
<1>. QED BY <1>4, <1>5

(* The three fields of an answer, with the winner named.                   *)
LEMMA MockAnswers ==
  ASSUME NEW t \in Text
  PROVE  LET w == Winner(t.hits)
             a == MockAnswer(t)
         IN /\ t.hits \in [Categories -> Nat]
            /\ a.category = IF t.hits[w] = 0 THEN "other" ELSE w
            /\ a.priority = PriorityOf(t.words, a.category)
            /\ a.confidence = IF t.hits[w] = 0 THEN 35 ELSE Scored(t.hits[w], RunnerUp(t.hits))
            /\ a.human_verified = FALSE
<1>1. t.hits \in [Categories -> Nat]
  BY DEF Text
<1>. DEFINE w == Winner(t.hits)
            cat == IF t.hits[w] = 0 THEN "other" ELSE w
            pri == PriorityOf(t.words, cat)
            n == IF t.hits[w] = 0 THEN 35 ELSE Scored(t.hits[w], RunnerUp(t.hits))
<1>2. MockAnswer(t) = [category |-> cat, priority |-> pri, confidence |-> n,
                       human_verified |-> FALSE]
  BY Zenon DEF MockAnswer
<1>. HIDE DEF cat, pri, n
<1>3. LET a == MockAnswer(t) IN /\ a.category = cat /\ a.priority = pri
                                /\ a.confidence = n /\ a.human_verified = FALSE
  BY <1>2
<1>. QED BY <1>1, <1>3, Zenon DEF cat, pri, n

(* It is a classification the pipeline accepts, its score from 5 to 95.    *)
LEMMA MockIsValid ==
  ASSUME MockIsInTaxonomy, NEW t \in Text
  PROVE  Valid(MockAnswer(t))
<1>. DEFINE w == Winner(t.hits)
            a == MockAnswer(t)
<1>1. /\ w \in Categories /\ t.hits[w] \in Nat /\ RunnerUp(t.hits) \in Nat
  BY MockAnswers, WinnerLeads, RunnerUpIs
<1>2. a.category \in Categories
  <2>1. "other" \in Categories
    BY Zenon, ConfigAssumption DEF ConfigOK
  <2>2. a.category = IF t.hits[w] = 0 THEN "other" ELSE w
    BY MockAnswers
  <2>. HIDE DEF a, w
  <2>. QED BY <1>1, <2>1, <2>2
<1>3. a.priority \in Priorities
  <2>1. a.priority = PriorityOf(t.words, a.category)
    BY MockAnswers
  <2>. HIDE DEF a
  <2>. QED BY <2>1, PriorityIsNamed, Zenon DEF MockIsInTaxonomy
<1>4. a.confidence \in Confidence
  <2>1. a.confidence = IF t.hits[w] = 0 THEN 35 ELSE Scored(t.hits[w], RunnerUp(t.hits))
    BY MockAnswers
  <2>. HIDE DEF a, w
  <2>2. ASSUME t.hits[w] # 0 PROVE Scored(t.hits[w], RunnerUp(t.hits)) \in 5..95
    <3>1. t.hits[w] > 0
      BY <1>1, <2>2
    <3>. QED BY <1>1, <3>1, ScoredTyped, Zenon
  <2>. QED BY <2>1, <2>2 DEF Confidence
<1>. QED BY <1>2, <1>3, <1>4 DEF Valid

(* What a ticket carries is a classification and is routed to a decision;  *)
(* whatever it says, the mock is never turned down (pipeline.go:263-275).  *)
THEOREM LabelsTyped == MockIsInTaxonomy => (Spec => []TypeOK)
<1>. SUFFICES ASSUME MockIsInTaxonomy PROVE Spec => []TypeOK
  OBVIOUS
<1>1. ASSUME Labelled PROVE TypeOK
  <2>1. Route(class) \in Decision
    BY <1>1, RouteTyped DEF Labelled
  <2>2. \A t \in text : t \in Text /\ Valid(MockAnswer(t))
    BY <1>1, LabellingAssumption, MockIsValid DEF Labelled
  <2>. QED BY <1>1, <2>1, <2>2 DEF Labelled, TypeOK
<1>. QED BY <1>1, AlwaysLabelled, PTL

(* One more keyword of the category the mock chose neither unseats it nor  *)
(* lowers its confidence; one more of a rival that still loses never       *)
(* raises it (mock.go:99-110).                                             *)
THEOREM EvidenceCounts == Spec => []MoreEvidenceIsSurer
<1>1. ASSUME Labelled PROVE MoreEvidenceIsSurer
  <2>. SUFFICES ASSUME NEW t \in text, NEW c \in Categories, t.hits[Winner(t.hits)] > 0
                PROVE LET before == MockAnswer(t)
                          after == MockAnswer([t EXCEPT !.hits[c] = @ + 1])
                      IN /\ c = before.category => /\ after.category = c
                                                   /\ after.confidence >= before.confidence
                         /\ c # before.category /\ after.category = before.category =>
                              after.confidence <= before.confidence
    BY Zenon DEF MoreEvidenceIsSurer
  <2>. DEFINE h == t.hits
              more == [h EXCEPT ![c] = h[c] + 1]
              u == [t EXCEPT !.hits[c] = @ + 1]
              w == Winner(h)
              v == Winner(more)
              a == MockAnswer(t)
              b == MockAnswer(u)
  <2>1. t \in Text /\ h \in [Categories -> Nat]
    BY <1>1, LabellingAssumption, MockAnswers DEF Labelled
  <2>2. u \in Text /\ u.hits = more
    BY <2>1 DEF Text
  <2>. HIDE DEF u
  <2>3. /\ w \in Categories /\ h[w] \in Nat /\ h[w] > 0 /\ RunnerUp(h) \in Nat
        /\ RunnerUp(h) <= h[w]
        /\ \E d \in Categories \ {w} : h[d] = RunnerUp(h)
        /\ \A d \in Categories \ {w} : h[d] <= RunnerUp(h)
        /\ \A d \in Categories : h[d] \in Nat /\ h[d] <= h[w]
    BY <2>1, WinnerLeads, RunnerUpIs
  <2>4. a.category = w /\ a.confidence = Scored(h[w], RunnerUp(h))
    <3>1. /\ a.category = IF h[w] = 0 THEN "other" ELSE w
          /\ a.confidence = IF h[w] = 0 THEN 35 ELSE Scored(h[w], RunnerUp(h))
      BY <2>1, MockAnswers
    <3>. HIDE DEF a, w, h
    <3>. QED BY <2>3, <3>1
  <2>. HIDE DEF a, w
  <2>5. more \in [Categories -> Nat] /\ more[c] = h[c] + 1 /\ \A d \in Categories \ {c} : more[d] = h[d]
    BY <2>1
  <2>. HIDE DEF h, more
  <2>6. /\ v \in Categories /\ more[v] \in Nat /\ RunnerUp(more) \in Nat
        /\ \E d \in Categories \ {v} : more[d] = RunnerUp(more)
        /\ \A d \in Categories \ {v} : more[d] <= RunnerUp(more)
        /\ \A d \in Categories : more[d] \in Nat /\ more[d] <= more[v]
    BY <2>5, WinnerLeads, RunnerUpIs
  <2>7. more[v] > 0
    BY <2>3, <2>5, <2>6
  <2>8. b.category = v /\ b.confidence = Scored(more[v], RunnerUp(more))
    <3>1. /\ b.category = IF more[v] = 0 THEN "other" ELSE v
          /\ b.confidence = IF more[v] = 0 THEN 35 ELSE Scored(more[v], RunnerUp(more))
      BY <2>2, MockAnswers
    <3>. HIDE DEF b, v
    <3>. QED BY <2>6, <2>7, <3>1
  <2>. HIDE DEF b, v
  <2>9. ASSUME c = w PROVE b.category = c /\ b.confidence >= a.confidence
    <3>1. v = w
      BY <2>3, <2>5, <2>6, <2>9
    <3>2. RunnerUp(more) = RunnerUp(h)
      BY <2>3, <2>5, <2>6, <2>9, <3>1
    <3>3. more[v] = h[w] + 1
      BY <2>5, <2>9, <3>1
    <3>4. Scored(h[w], RunnerUp(h)) <= Scored(h[w] + 1, RunnerUp(h))
      BY <2>3, KeywordsRaiseTheScore
    <3>5. /\ Scored(h[w], RunnerUp(h)) \in Int /\ Scored(h[w] + 1, RunnerUp(h)) \in Int
      BY <2>3, ScoredTyped
    <3>. QED BY <2>4, <2>8, <2>9, <3>1, <3>2, <3>3, <3>4, <3>5
  <2>10. ASSUME c # w, v = w PROVE b.confidence <= a.confidence
    <3>1. RunnerUp(h) <= RunnerUp(more) /\ more[v] = h[w]
      BY <2>3, <2>5, <2>6, <2>10
    <3>2. Scored(h[w], RunnerUp(more)) <= Scored(h[w], RunnerUp(h))
      BY <2>3, <2>6, <3>1, RivalsLowerTheScore
    <3>. QED BY <2>4, <2>8, <2>10, <3>1, <3>2
  <2>. QED BY <2>4, <2>8, <2>9, <2>10 DEF a, b, u
<1>. QED BY <1>1, AlwaysLabelled, PTL

(* Every rule that claims a bug or a bill of less than critical priority   *)
(* wants more confidence than the mock has of split evidence               *)
(* (rivergate.yaml:124-134).                                               *)
SplitNeedsMore ==
  \A i \in 1..Len(Rules), c \in Classification :
    Matches(Rules[i], c) /\ c.category \in {"bug", "billing"} /\ c.priority # "critical" =>
      ~Rules[i].bypass_confidence_floor /\ Threshold(Rules[i]) > 70

(* On a single keyword, or with two categories level, no bug ticket is     *)
(* opened and no bill is handled without a person (mock.go:108-110).       *)
THEOREM SplitGoesToAPerson ==
  MockIsInTaxonomy /\ SplitNeedsMore => (Spec => []SplitEvidenceDefers)
<1>. SUFFICES ASSUME MockIsInTaxonomy, SplitNeedsMore PROVE Spec => []SplitEvidenceDefers
  OBVIOUS
<1>1. ASSUME Labelled PROVE SplitEvidenceDefers
  <2>. SUFFICES ASSUME NEW t \in text,
                       MockAnswer(t).category \in {"bug", "billing"},
                       MockAnswer(t).priority # "critical",
                       \/ t.hits[Winner(t.hits)] = 1
                       \/ \E c \in Categories \ {MockAnswer(t).category} :
                            t.hits[c] = t.hits[Winner(t.hits)]
                PROVE  Route(MockAnswer(t)).needs_review /\ ~Route(MockAnswer(t)).automatic
    BY Zenon DEF SplitEvidenceDefers
  <2>. DEFINE h == t.hits
              w == Winner(h)
              a == MockAnswer(t)
  <2>1. t \in Text /\ h \in [Categories -> Nat]
    BY <1>1, LabellingAssumption, MockAnswers DEF Labelled
  <2>2. /\ h[w] \in Nat /\ RunnerUp(h) \in Nat /\ RunnerUp(h) <= h[w]
        /\ \A d \in Categories \ {w} : h[d] <= RunnerUp(h)
    BY <2>1, WinnerLeads, RunnerUpIs
  <2>3. /\ a.category = IF h[w] = 0 THEN "other" ELSE w
        /\ a.confidence = IF h[w] = 0 THEN 35 ELSE Scored(h[w], RunnerUp(h))
        /\ ~a.human_verified
    BY <2>1, MockAnswers
  <2>4. h[w] # 0 /\ a.category = w
    BY <2>3
  <2>5. a.confidence \in Int /\ a.confidence <= 70
    <3>1. h[w] = 1 \/ RunnerUp(h) = h[w]
      BY <2>2, <2>4
    <3>2. Scored(h[w], RunnerUp(h)) \in Int
      BY <2>2, <2>4, ScoredTyped
    <3>. QED BY <2>2, <2>3, <2>4, <3>1, <3>2, SplitScores
  <2>6. a \in Classification
    <3>1. Valid(a)
      BY <2>1, MockIsValid
    <3>2. \E cat, pri, n : a = [category |-> cat, priority |-> pri, confidence |-> n,
                               human_verified |-> FALSE]
      BY Zenon DEF MockAnswer
    <3>. HIDE DEF a
    <3>. QED BY <3>1, <3>2 DEF Valid, Classification
  <2>. HIDE DEF a
  <2>7. ASSUME NEW i \in 1..Len(Rules), Matches(Rules[i], a) PROVE ~PassesGate(Rules[i], a)
    <3>1. ~Rules[i].bypass_confidence_floor /\ Threshold(Rules[i]) > 70
      BY <2>6, <2>7, Zenon DEF SplitNeedsMore, a
    <3>2. Threshold(Rules[i]) \in Int
      <4>1. Rules[i] \in Rule
        BY RulesTyped
      <4>. QED BY <4>1, ThresholdIsHigher
    <3>3. ~(a.confidence >= Threshold(Rules[i]))
      BY <2>5, <3>1, <3>2
    <3>. QED BY <2>3, <3>1, <3>3, Zenon DEF PassesGate
  <2>8. Route(a) = ReviewDecision
    BY <2>3, <2>7, RouteCases, Zenon
  <2>9. ReviewDecision.needs_review /\ ~ReviewDecision.automatic
    BY DEF ReviewDecision
  <2>. QED BY <2>8, <2>9 DEF a
<1>. QED BY <1>1, AlwaysLabelled, PTL


-----------------------------------------------------------------------------
(* The shipped configuration                                               *)

(* config/rivergate.yaml *)
Shipped ==
  /\ Priorities = RivergatePriorities /\ ConfidenceFloor = RivergateFloor
  /\ Rules = RivergateRules /\ DefaultRoute = RivergateDefault

(* The five rules of the file, field by field.                             *)
LEMMA ShippedRules ==
  ASSUME Shipped
  PROVE  /\ 1..Len(Rules) = 1..5
         /\ Rules[1].categories = {"outage"} /\ Rules[1].priorities = {"critical"}
         /\ Rules[2].categories = {"billing"} /\ Rules[2].priorities = {}
         /\ Rules[3].categories = {"bug"} /\ Rules[3].priorities = {}
         /\ Rules[4].categories = {"feature_request"} /\ Rules[4].priorities = {}
         /\ Rules[5].categories = {"how_to"} /\ Rules[5].priorities = {}
         /\ Rules[1].bypass_confidence_floor
         /\ \A i \in 2..5 : ~Rules[i].bypass_confidence_floor
         /\ Threshold(Rules[2]) = 75 /\ Threshold(Rules[3]) = 75
         /\ Threshold(Rules[4]) = 60 /\ Threshold(Rules[5]) = 60
<1>1. /\ Rules = RivergateRules /\ ConfidenceFloor = 60
  BY DEF Shipped, RivergateFloor
<1>2. Len(RivergateRules) = 5
  BY DEF RivergateRules
<1>3. /\ RivergateRules[1].categories = {"outage"} /\ RivergateRules[1].priorities = {"critical"}
      /\ RivergateRules[1].bypass_confidence_floor
  BY DEF RivergateRules, PlainRule
<1>4. /\ RivergateRules[2].categories = {"billing"} /\ RivergateRules[2].priorities = {}
      /\ ~RivergateRules[2].bypass_confidence_floor /\ RivergateRules[2].min_confidence = 75
  BY DEF RivergateRules, PlainRule
<1>5. /\ RivergateRules[3].categories = {"bug"} /\ RivergateRules[3].priorities = {}
      /\ ~RivergateRules[3].bypass_confidence_floor /\ RivergateRules[3].min_confidence = 75
  BY DEF RivergateRules, PlainRule
<1>6. /\ RivergateRules[4].categories = {"feature_request"} /\ RivergateRules[4].priorities = {}
      /\ ~RivergateRules[4].bypass_confidence_floor /\ RivergateRules[4].min_confidence = 0
  BY DEF RivergateRules, PlainRule
<1>7. /\ RivergateRules[5].categories = {"how_to"} /\ RivergateRules[5].priorities = {}
      /\ ~RivergateRules[5].bypass_confidence_floor /\ RivergateRules[5].min_confidence = 60
  BY DEF RivergateRules, PlainRule
<1>8. /\ Threshold(Rules[2]) = 75 /\ Threshold(Rules[3]) = 75
      /\ Threshold(Rules[4]) = 60 /\ Threshold(Rules[5]) = 60
  BY <1>1, <1>4, <1>5, <1>6, <1>7 DEF Threshold
<1>. QED BY <1>1, <1>2, <1>3, <1>4, <1>5, <1>6, <1>7, <1>8

(* The three conditions of the theorems above hold of it.                  *)
THEOREM ShippedIsFit == Shipped => MockIsInTaxonomy /\ FallbackUnclaimed /\ SplitNeedsMore
<1>. SUFFICES ASSUME Shipped PROVE MockIsInTaxonomy /\ FallbackUnclaimed /\ SplitNeedsMore
  OBVIOUS
<1>1. MockIsInTaxonomy
  BY DEF Shipped, RivergatePriorities, MockIsInTaxonomy
<1>2. FallbackUnclaimed
  BY ShippedRules DEF FallbackUnclaimed, Matches, Fallback
<1>3. SplitNeedsMore
  BY ShippedRules DEF SplitNeedsMore, Matches
<1>. QED BY <1>1, <1>2, <1>3

(* Where the shipped rules send what the model alone vouches for.          *)
LEMMA ShippedRoutes ==
  ASSUME Shipped, NEW c \in Classification, ~c.human_verified
  PROVE  LET paged == c.category = "outage" \/ c.priority = "critical"
         IN Route(c) = IF paged THEN RuleDecision(Rules[1], c)
                       ELSE IF c.category = "billing" /\ c.confidence >= 75
                         THEN RuleDecision(Rules[2], c)
                       ELSE IF c.category = "bug" /\ c.confidence >= 75
                         THEN RuleDecision(Rules[3], c)
                       ELSE IF c.category = "feature_request" /\ c.confidence >= 60
                         THEN RuleDecision(Rules[4], c)
                       ELSE IF c.category = "how_to" /\ c.confidence >= 60
                         THEN RuleDecision(Rules[5], c)
                       ELSE ReviewDecision
<1>. DEFINE paged == c.category = "outage" \/ c.priority = "critical"
<1>1. /\ Matches(Rules[1], c) <=> paged
      /\ Matches(Rules[2], c) <=> c.category = "billing"
      /\ Matches(Rules[3], c) <=> c.category = "bug"
      /\ Matches(Rules[4], c) <=> c.category = "feature_request"
      /\ Matches(Rules[5], c) <=> c.category = "how_to"
  BY ShippedRules DEF Matches
<1>2. /\ PassesGate(Rules[1], c)
      /\ PassesGate(Rules[2], c) <=> c.confidence >= 75
      /\ PassesGate(Rules[3], c) <=> c.confidence >= 75
      /\ PassesGate(Rules[4], c) <=> c.confidence >= 60
      /\ PassesGate(Rules[5], c) <=> c.confidence >= 60
  BY ShippedRules DEF PassesGate
<1>3. CASE \A i \in 1..Len(Rules) : ~Matches(Rules[i], c)
  <2>1. Route(c) = ReviewDecision
    BY <1>3, RouteCases, Zenon
  <2>2. ~(\E i \in 1..5 : Matches(Rules[i], c))
    BY <1>3, ShippedRules
  <2>. QED BY <1>1, <2>1, <2>2
<1>4. ASSUME NEW i \in 1..5, Matches(Rules[i], c),
             \A j \in 1..5 : j < i => ~Matches(Rules[j], c),
             Route(c) = IF PassesGate(Rules[i], c) THEN RuleDecision(Rules[i], c)
                        ELSE ReviewDecision
      PROVE  Route(c) = IF paged THEN RuleDecision(Rules[1], c)
                        ELSE IF c.category = "billing" /\ c.confidence >= 75
                          THEN RuleDecision(Rules[2], c)
                        ELSE IF c.category = "bug" /\ c.confidence >= 75
                          THEN RuleDecision(Rules[3], c)
                        ELSE IF c.category = "feature_request" /\ c.confidence >= 60
                          THEN RuleDecision(Rules[4], c)
                        ELSE IF c.category = "how_to" /\ c.confidence >= 60
                          THEN RuleDecision(Rules[5], c)
                        ELSE ReviewDecision
  <2>1. i = 1 \/ i = 2 \/ i = 3 \/ i = 4 \/ i = 5
    OBVIOUS
  <2>2. i # 1 => ~paged
    BY <1>1, <1>4, <2>1
  <2>. HIDE DEF paged
  <2>. QED BY <1>1, <1>2, <1>4, <2>1, <2>2
<1>5. 1..Len(Rules) = 1..5
  BY ShippedRules
<1>. QED BY <1>3, <1>4, <1>5, RouteCases, Zenon

(* A row of the README's table (README.md:132-139) *)
Says(d, queue, targets, review) ==
  /\ d.queue = queue /\ d.needs_review = review
  /\ [i \in DOMAIN d.actions |-> d.actions[i].target] = targets

(* The five rules and the default, row by row.                             *)
LEMMA ShippedDecisions ==
  ASSUME Shipped, NEW c \in Classification, ~c.human_verified
  PROVE  /\ Says(RuleDecision(Rules[1], c), "incident", <<"#rivergate-oncall", "ENG">>,
                 c.confidence < 60)
         /\ Says(RuleDecision(Rules[2], c), "billing", <<>>, FALSE)
         /\ Says(RuleDecision(Rules[3], c), "bug", <<"ENG-BACKLOG">>, FALSE)
         /\ Says(RuleDecision(Rules[4], c), "product", <<>>, FALSE)
         /\ Says(RuleDecision(Rules[5], c), "self-serve", <<"">>, FALSE)
         /\ Says(ReviewDecision, "human-review", <<>>, TRUE)
<1>1. Rules = RivergateRules /\ c.confidence \in Int /\ c.confidence >= 0
  <2>1. c.confidence \in Confidence
    BY DEF Classification
  <2>. QED BY <2>1, ConfidenceIsInt DEF Shipped
<1>2. ASSUME NEW i \in 1..5
      PROVE  /\ RuleDecision(Rules[i], c).queue = Rules[i].queue
             /\ RuleDecision(Rules[i], c).actions = Rules[i].actions
             /\ RuleDecision(Rules[i], c).needs_review = (c.confidence < Rules[i].also_review_below)
  BY DEF RuleDecision
<1>3. /\ RivergateRules[1].queue = "incident" /\ RivergateRules[1].also_review_below = 60
      /\ RivergateRules[1].actions = << [type |-> "notify", target |-> "#rivergate-oncall"],
                                        [type |-> "create_ticket", target |-> "ENG"] >>
  BY DEF RivergateRules, PlainRule
<1>4. /\ RivergateRules[2].queue = "billing" /\ RivergateRules[2].also_review_below = 0
      /\ RivergateRules[2].actions = <<>>
  BY DEF RivergateRules, PlainRule
<1>5. /\ RivergateRules[3].queue = "bug" /\ RivergateRules[3].also_review_below = 0
      /\ RivergateRules[3].actions = << [type |-> "create_ticket", target |-> "ENG-BACKLOG"] >>
  BY DEF RivergateRules, PlainRule
<1>6. /\ RivergateRules[4].queue = "product" /\ RivergateRules[4].also_review_below = 0
      /\ RivergateRules[4].actions = <<>>
  BY DEF RivergateRules, PlainRule
<1>7. /\ RivergateRules[5].queue = "self-serve" /\ RivergateRules[5].also_review_below = 0
      /\ RivergateRules[5].actions = << [type |-> "suggest_kb", target |-> ""] >>
  BY DEF RivergateRules, PlainRule
<1>8. /\ ReviewDecision.queue = "human-review" /\ ReviewDecision.needs_review = TRUE
      /\ ReviewDecision.actions = <<>>
  BY DEF ReviewDecision, Shipped, RivergateDefault
<1>9. Says(RuleDecision(Rules[1], c), "incident", <<"#rivergate-oncall", "ENG">>,
           c.confidence < 60)
  BY <1>1, <1>2, <1>3 DEF Says
<1>r. ASSUME NEW i \in 1..5, RivergateRules[i].also_review_below = 0
      PROVE  RuleDecision(Rules[i], c).needs_review = FALSE
  <2>1. (c.confidence < RivergateRules[i].also_review_below) = FALSE
    BY <1>1, <1>r
  <2>. QED BY <1>1, <1>2, <2>1
<1>10. Says(RuleDecision(Rules[2], c), "billing", <<>>, FALSE)
  <2>1. 2 \in 1..5
    OBVIOUS
  <2>2. /\ RuleDecision(Rules[2], c).queue = RivergateRules[2].queue
        /\ RuleDecision(Rules[2], c).actions = RivergateRules[2].actions
        /\ RuleDecision(Rules[2], c).needs_review = FALSE
    BY <1>1, <1>2, <1>r, <1>4, <2>1, Zenon
  <2>. QED BY <1>4, <2>2 DEF Says
<1>11. Says(RuleDecision(Rules[3], c), "bug", <<"ENG-BACKLOG">>, FALSE)
  <2>1. 3 \in 1..5
    OBVIOUS
  <2>2. /\ RuleDecision(Rules[3], c).queue = RivergateRules[3].queue
        /\ RuleDecision(Rules[3], c).actions = RivergateRules[3].actions
        /\ RuleDecision(Rules[3], c).needs_review = FALSE
    BY <1>1, <1>2, <1>r, <1>5, <2>1, Zenon
  <2>. QED BY <1>5, <2>2 DEF Says
<1>12. Says(RuleDecision(Rules[4], c), "product", <<>>, FALSE)
  <2>1. 4 \in 1..5
    OBVIOUS
  <2>2. /\ RuleDecision(Rules[4], c).queue = RivergateRules[4].queue
        /\ RuleDecision(Rules[4], c).actions = RivergateRules[4].actions
        /\ RuleDecision(Rules[4], c).needs_review = FALSE
    BY <1>1, <1>2, <1>r, <1>6, <2>1, Zenon
  <2>. QED BY <1>6, <2>2 DEF Says
<1>13. Says(RuleDecision(Rules[5], c), "self-serve", <<"">>, FALSE)
  <2>1. 5 \in 1..5
    OBVIOUS
  <2>2. /\ RuleDecision(Rules[5], c).queue = RivergateRules[5].queue
        /\ RuleDecision(Rules[5], c).actions = RivergateRules[5].actions
        /\ RuleDecision(Rules[5], c).needs_review = FALSE
    BY <1>1, <1>2, <1>r, <1>7, <2>1, Zenon
  <2>3. ASSUME NEW type, NEW target, NEW s, s = << [type |-> type, target |-> target] >>
        PROVE  [n \in DOMAIN s |-> s[n].target] = << target >>
    <3>1. DOMAIN s = 1..1 /\ s[1].target = target
      BY <2>3
    <3>. QED BY <3>1
  <2>4. [n \in DOMAIN RivergateRules[5].actions |-> RivergateRules[5].actions[n].target] = <<"">>
    <3>. DEFINE s == RivergateRules[5].actions
                kb == "suggest_kb"
                none == ""
    <3>1. s = << [type |-> kb, target |-> none] >>
      BY <1>7, Zenon
    <3>. HIDE DEF s, kb, none
    <3>2. [n \in DOMAIN s |-> s[n].target] = << none >>
      BY <2>3, <3>1
    <3>. QED BY <3>2, Zenon DEF s, none
  <2>. QED BY <1>7, <2>2, <2>4 DEF Says
<1>14. Says(ReviewDecision, "human-review", <<>>, TRUE)
  BY <1>8 DEF Says
<1>. QED BY <1>9, <1>10, <1>11, <1>12, <1>13, <1>14

(* Every classification the model alone vouches for lands where the        *)
(* README's routing table says (README.md:132-139).                        *)
THEOREM TicketsLandAsDocumented == Shipped => (Spec => []RoutesAsDocumented)
<1>. SUFFICES ASSUME Shipped PROVE Spec => []RoutesAsDocumented
  OBVIOUS
<1>1. ASSUME Labelled PROVE RoutesAsDocumented
  <2>. SUFFICES ASSUME ~class.human_verified PROVE RoutesAsDocumented
    BY Zenon DEF RoutesAsDocumented
  <2>1. class \in Classification /\ class.confidence \in Int
    BY <1>1, ClassFields DEF Labelled
  <2>. DEFINE paged == class.category = "outage" \/ class.priority = "critical"
              Row(category, least) ==
                ~paged /\ class.category = category /\ class.confidence >= least
              rows == {<<"billing", 75>>, <<"bug", 75>>, <<"feature_request", 60>>, <<"how_to", 60>>}
  <2>2. ASSUME NEW queue, NEW targets, NEW review
        PROVE  Lands(queue, targets, review) <=> Says(Route(class), queue, targets, review)
    BY Zenon DEF Lands, Says
  <2>3. /\ paged => Lands("incident", <<"#rivergate-oncall", "ENG">>, class.confidence < 60)
        /\ Row("billing", 75) => Lands("billing", <<>>, FALSE)
        /\ Row("bug", 75) => Lands("bug", <<"ENG-BACKLOG">>, FALSE)
        /\ Row("feature_request", 60) => Lands("product", <<>>, FALSE)
        /\ Row("how_to", 60) => Lands("self-serve", <<"">>, FALSE)
    <3>1. /\ paged => Route(class) = RuleDecision(Rules[1], class)
          /\ Row("billing", 75) => Route(class) = RuleDecision(Rules[2], class)
          /\ Row("bug", 75) => Route(class) = RuleDecision(Rules[3], class)
          /\ Row("feature_request", 60) => Route(class) = RuleDecision(Rules[4], class)
          /\ Row("how_to", 60) => Route(class) = RuleDecision(Rules[5], class)
      BY <2>1, ShippedRoutes
    <3>2. /\ Says(RuleDecision(Rules[1], class), "incident", <<"#rivergate-oncall", "ENG">>,
                  class.confidence < 60)
          /\ Says(RuleDecision(Rules[2], class), "billing", <<>>, FALSE)
          /\ Says(RuleDecision(Rules[3], class), "bug", <<"ENG-BACKLOG">>, FALSE)
          /\ Says(RuleDecision(Rules[4], class), "product", <<>>, FALSE)
          /\ Says(RuleDecision(Rules[5], class), "self-serve", <<"">>, FALSE)
      BY <2>1, ShippedDecisions
    <3>. HIDE DEF paged, Row
    <3>. QED BY <2>2, <3>1, <3>2, Zenon
  <2>4. ASSUME ~paged, ~\E r \in rows : Row(r[1], r[2])
        PROVE  Lands("human-review", <<>>, TRUE)
    <3>1. /\ ~Row("billing", 75) /\ ~Row("bug", 75)
          /\ ~Row("feature_request", 60) /\ ~Row("how_to", 60)
      <4>. HIDE DEF Row
      <4>. QED BY <2>4
    <3>2. Route(class) = ReviewDecision
      BY <2>1, <2>4, <3>1, ShippedRoutes
    <3>. QED BY <2>1, <2>2, <3>2, ShippedDecisions
  <2>. QED BY <2>3, <2>4, Zenon DEF RoutesAsDocumented
<1>. QED BY <1>1, AlwaysLabelled, PTL
=============================================================================

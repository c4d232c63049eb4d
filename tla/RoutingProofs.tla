--------------------------- MODULE RoutingProofs ---------------------------
(***************************************************************************)
(* What the rules engine does for every configuration config.Validate      *)
(* accepts and every classification, proved from the assumption            *)
(* ConfigAssumption of Routing.                                            *)
(*                                                                         *)
(* The lemmas first say what the two provers cannot see by themselves (the *)
(* least index SelectInSeq picks, the integers in record fields); every    *)
(* theorem then splits on RouteCases, the answers Route can give.          *)
(***************************************************************************)
EXTENDS Routing, WellFoundedInduction, TLAPS

(* A non-empty set of natural numbers has a least element.                 *)
LEMMA LeastNat ==
  ASSUME NEW S, S \subseteq Nat, S # {}
  PROVE  \E x \in S : \A y \in S : x <= y
<1>. DEFINE R == OpToRel(<, Nat)
<1>0. IsWellFoundedOn(R, Nat) BY NatLessThanWellFounded
<1>. HIDE DEF R
<1>1. PICK x \in S : \A y \in S : ~(<<y, x>> \in R)
  BY <1>0, WFMin
<1>2. \A u, v \in Nat : u < v => <<u, v>> \in R
   BY DEF OpToRel, R
<1>3. ASSUME NEW y \in S PROVE x <= y
  <2>1. x \in Nat /\ y \in Nat
    OBVIOUS
  <2>2. ~(y < x)
    BY <1>1, <1>2, <2>1
  <2>. QED BY <2>1, <2>2
<1>. QED BY <1>3

(* A bounded set of numbers has a greatest.                                *)
LEMMA MaxIsGreatest ==
  ASSUME NEW b \in Nat, NEW S, S # {}, S \subseteq 0..b
  PROVE  Max(S) \in S /\ \A y \in S : Max(S) >= y
<1>. DEFINE D == {b - x : x \in S}
<1>1. D \subseteq Nat /\ D # {}
  <2>1. \A x \in S : b - x \in Nat
    OBVIOUS
  <2>. QED BY <2>1
<1>2. PICK d \in D : \A e \in D : d <= e
  <2>. HIDE DEF D
  <2>. QED BY <1>1, LeastNat
<1>3. PICK x \in S : d = b - x
  BY <1>2
<1>4. \A y \in S : x >= y
  <2>. SUFFICES ASSUME NEW y \in S PROVE x >= y
    OBVIOUS
  <2>1. d <= b - y
    BY <1>2
  <2>. QED BY <1>3, <2>1
<1>. QED BY <1>4 DEF Max

(* The configured rules are a sequence of rules (config.Validate).         *)
LEMMA RulesTyped == Rules \in Seq(Rule)
  BY Zenon, ConfigAssumption DEF ConfigOK

(* FirstMatch is the index of the first rule that matches, or 0 when no    *)
(* rule does: the order of the file decides (router.go:47-51).             *)
LEMMA FirstMatchIsFirst ==
  ASSUME NEW c
  PROVE  \/ FirstMatch(c) = 0 /\ \A i \in 1..Len(Rules) : ~Matches(Rules[i], c)
         \/ /\ FirstMatch(c) \in 1..Len(Rules)
            /\ Matches(Rules[FirstMatch(c)], c)
            /\ \A i \in 1..Len(Rules) : i < FirstMatch(c) => ~Matches(Rules[i], c)
<1>. DEFINE I == {i \in 1..Len(Rules) : Matches(Rules[i], c)}
<1>0. Len(Rules) \in Nat
  BY RulesTyped
<1>a. FirstMatch(c) = IF I # {} THEN Min(I) ELSE 0
  BY DEF FirstMatch, SelectInSeq
<1>1. CASE I = {}
  BY <1>1, <1>a
<1>2. CASE I # {}
  <2>1. \E x \in I : \A y \in I : x <= y
    <3>1. I \subseteq Nat
      BY <1>0
    <3>. HIDE DEF I
    <3>. QED BY <1>2, <3>1, LeastNat
  <2>3. Min(I) \in I /\ \A y \in I : Min(I) <= y
    <3>. HIDE DEF I
    <3>. QED BY <2>1 DEF Min
  <2>4. FirstMatch(c) = Min(I)
    BY <1>2, <1>a
  <2>5. FirstMatch(c) \in 1..Len(Rules) /\ Matches(Rules[FirstMatch(c)], c)
    BY <2>3, <2>4
  <2>6. ASSUME NEW i \in 1..Len(Rules), i < FirstMatch(c), Matches(Rules[i], c)
        PROVE  FALSE
    <3>1. i \in I
      BY <2>6
    <3>2. Min(I) <= i /\ i < Min(I) /\ Min(I) \in Nat
      BY <1>0, <2>3, <2>4, <2>5, <2>6, <3>1
    <3>. QED BY <1>0, <3>2
  <2>. QED BY <2>5, <2>6
<1>. QED BY <1>1, <1>2

(* What Route answers, with the first rule that matches named.             *)
LEMMA RouteCases ==
  ASSUME NEW c
  PROVE  \/ /\ \A i \in 1..Len(Rules) : ~Matches(Rules[i], c)
            /\ Route(c) = IF c.human_verified THEN ApprovedDecision ELSE ReviewDecision
         \/ \E i \in 1..Len(Rules) :
              /\ Matches(Rules[i], c)
              /\ \A j \in 1..Len(Rules) : j < i => ~Matches(Rules[j], c)
              /\ Route(c) = IF PassesGate(Rules[i], c) THEN RuleDecision(Rules[i], c)
                            ELSE ReviewDecision
<1>1. Len(Rules) \in Nat
  BY RulesTyped
<1>2. CASE FirstMatch(c) = 0
  <2>1. \A i \in 1..Len(Rules) : ~Matches(Rules[i], c)
    BY <1>1, <1>2, FirstMatchIsFirst
  <2>. QED BY <1>2, <2>1, Zenon DEF Route
<1>3. CASE FirstMatch(c) # 0
  <2>1. /\ FirstMatch(c) \in 1..Len(Rules)
        /\ Matches(Rules[FirstMatch(c)], c)
        /\ \A i \in 1..Len(Rules) : i < FirstMatch(c) => ~Matches(Rules[i], c)
    BY <1>3, FirstMatchIsFirst, Zenon
  <2>2. Route(c) = IF PassesGate(Rules[FirstMatch(c)], c)
                   THEN RuleDecision(Rules[FirstMatch(c)], c) ELSE ReviewDecision
    BY <1>3, Zenon DEF Route
  <2>. QED BY <2>1, <2>2, Zenon
<1>. QED BY <1>2, <1>3

(* The default route has a name and two queues (config.go:86-90).          *)
LEMMA DefaultTyped == DefaultRoute \in [name: STRING, queue: STRING, approved_queue: STRING]
<1>1. DefaultRoute \in [name: STRING, queue: STRING \ {""}, approved_queue: STRING]
  BY Zenon, ConfigAssumption DEF ConfigOK
<1>. QED BY <1>1

(* A rule that acts on a classification yields a decision.                 *)
LEMMA RuleDecisionTyped ==
  ASSUME NEW r \in Rule, NEW c \in Classification
  PROVE  RuleDecision(r, c) \in Decision
  BY DEF Rule, Classification, RuleDecision, Decision, Confidence

(* Both decisions of the default route are decisions.                      *)
LEMMA DefaultDecisionsTyped == ReviewDecision \in Decision /\ ApprovedDecision \in Decision
<1>1. /\ DefaultRoute.name \in STRING /\ DefaultRoute.queue \in STRING
      /\ DefaultRoute.approved_queue \in STRING
  BY DefaultTyped
<1>2. <<>> \in Seq(Action)
  OBVIOUS
<1>. QED BY <1>1, <1>2 DEF ReviewDecision, ApprovedDecision, Decision

(* Confidences are integers; the provers reason about an interval inside   *)
(* a set of records only when told so.                                     *)
LEMMA ConfidenceIsInt == \A n \in Confidence : n \in Int /\ n >= 0
  BY DEF Confidence

(* The fields of a classification that Route compares.                     *)
LEMMA ClassFields ==
  ASSUME NEW c \in Classification
  PROVE  c.confidence \in Int /\ c.human_verified \in BOOLEAN
<1>1. c.confidence \in Confidence /\ c.human_verified \in BOOLEAN
  BY DEF Classification
<1>. QED BY <1>1, ConfidenceIsInt

(* The fields of a rule that Route compares.                               *)
LEMMA RuleFields ==
  ASSUME NEW r \in Rule
  PROVE  /\ r.min_confidence \in Int /\ r.also_review_below \in Int
         /\ r.bypass_confidence_floor \in BOOLEAN
<1>1. /\ r.min_confidence \in Confidence /\ r.also_review_below \in Confidence
      /\ r.bypass_confidence_floor \in BOOLEAN
  BY DEF Rule
<1>. QED BY <1>1, ConfidenceIsInt

(* The confidence floor is a confidence (config.Validate).                 *)
LEMMA FloorTyped == ConfidenceFloor \in Confidence
  BY Zenon, ConfigAssumption DEF ConfigOK

(* A rule's threshold is at least its own minimum and the floor            *)
(* (router.go:53-56).                                                      *)
LEMMA ThresholdIsHigher ==
  ASSUME NEW r \in Rule
  PROVE  /\ Threshold(r) \in Int
         /\ Threshold(r) >= r.min_confidence /\ Threshold(r) >= ConfidenceFloor
<1>1. ConfidenceFloor \in Int
  BY FloorTyped, ConfidenceIsInt
<1>2. r.min_confidence \in Int
  BY RuleFields
<1>. QED BY <1>1, <1>2 DEF Threshold

(* Route answers every classification an item can carry with a decision.   *)
THEOREM RouteTyped ==
  ASSUME NEW c \in Classification
  PROVE  Route(c) \in Decision
<1>1. ASSUME NEW i \in 1..Len(Rules) PROVE RuleDecision(Rules[i], c) \in Decision
  <2>1. Rules[i] \in Rule
    BY RulesTyped
  <2>. QED BY <2>1, RuleDecisionTyped
<1>. QED BY <1>1, RouteCases, DefaultDecisionsTyped, Zenon

(* An action is taken only on a label a person stands behind, from a rule  *)
(* that bypasses the floor, or at both thresholds (router.go:52-58).       *)
THEOREM ActionsPassTheGate ==
  ASSUME NEW c \in Classification, Route(c).actions # <<>>
  PROVE  \E i \in DOMAIN Rules :
           /\ Rules[i].name = Route(c).rule
           /\ \/ c.human_verified \/ Rules[i].bypass_confidence_floor
              \/ /\ c.confidence >= Rules[i].min_confidence
                 /\ c.confidence >= ConfidenceFloor
<1>1. PICK i \in 1..Len(Rules) : PassesGate(Rules[i], c) /\ Route(c) = RuleDecision(Rules[i], c)
  <2>1. ApprovedDecision.actions = <<>> /\ ReviewDecision.actions = <<>>
    BY DEF ApprovedDecision, ReviewDecision
  <2>. QED BY <2>1, RouteCases, Zenon
<1>2. Rules[i] \in Rule /\ DOMAIN Rules = 1..Len(Rules)
  BY RulesTyped
<1>3. Rules[i].name = Route(c).rule
  BY <1>1 DEF RuleDecision
<1>4. ConfidenceFloor \in Int
  BY FloorTyped, ConfidenceIsInt
<1>5. \/ c.human_verified \/ Rules[i].bypass_confidence_floor
      \/ /\ c.confidence >= Rules[i].min_confidence
         /\ c.confidence >= ConfidenceFloor
  <2>1. /\ Threshold(Rules[i]) \in Int /\ Threshold(Rules[i]) >= Rules[i].min_confidence
        /\ Threshold(Rules[i]) >= ConfidenceFloor /\ Rules[i].min_confidence \in Int
    BY <1>2, ThresholdIsHigher, RuleFields, Zenon
  <2>2. c.confidence \in Int
    BY ClassFields
  <2>. QED BY <1>1, <1>4, <2>1, <2>2 DEF PassesGate
<1>. QED BY <1>2, <1>3, <1>5

(* The decision for what a reviewer approved and no rule claims is not     *)
(* automatic and asks for nobody (router.go:70-76).                        *)
LEMMA ApprovedIsFinal == ApprovedDecision.needs_review = FALSE /\ ApprovedDecision.automatic = FALSE
<1>. DEFINE q == IF DefaultRoute.approved_queue # "" THEN DefaultRoute.approved_queue
                 ELSE DefaultRoute.queue
<1>1. ApprovedDecision = [rule |-> DefaultRoute.name, queue |-> q, actions |-> <<>>,
                          automatic |-> FALSE, needs_review |-> FALSE]
  BY DEF ApprovedDecision
<1>. HIDE DEF q
<1>. QED BY <1>1

(* No unverified item is forgotten and no verified one nags: without a     *)
(* person's word an item is routed, queued for review or both, with it the *)
(* item leaves the review queue and nothing about it is automatic          *)
(* (router.go:59-80).                                                      *)
THEOREM NobodyForgotten ==
  ASSUME NEW c \in Classification
  PROVE  /\ ~c.human_verified => Route(c).automatic \/ Route(c).needs_review
         /\ c.human_verified => ~Route(c).automatic /\ ~Route(c).needs_review
<1>1. c.human_verified \in BOOLEAN
  BY DEF Classification
<1>2. CASE \E i \in 1..Len(Rules) : PassesGate(Rules[i], c) /\ Route(c) = RuleDecision(Rules[i], c)
  <2>1. PICK i \in 1..Len(Rules) : Route(c) = RuleDecision(Rules[i], c)
    BY <1>2
  <2>2. /\ Route(c).automatic = ~c.human_verified
        /\ Route(c).needs_review = (~c.human_verified /\ c.confidence < Rules[i].also_review_below)
    BY <2>1 DEF RuleDecision
  <2>. QED BY <1>1, <2>2, Zenon
<1>3. CASE Route(c) = ReviewDecision /\ ~c.human_verified
  <2>1. Route(c).needs_review
    BY <1>3 DEF ReviewDecision
  <2>. QED BY <1>3, <2>1, Zenon
<1>4. CASE Route(c) = ApprovedDecision /\ c.human_verified
  <2>1. Route(c).needs_review = FALSE /\ Route(c).automatic = FALSE
    BY <1>4, ApprovedIsFinal
  <2>. QED BY <1>4, <2>1, Zenon
<1>5. ASSUME NEW i \in 1..Len(Rules), ~PassesGate(Rules[i], c) PROVE ~c.human_verified
  BY <1>5 DEF PassesGate
<1>. QED BY <1>2, <1>3, <1>4, <1>5, RouteCases, Zenon

(* A surer model never does less (router.go:53-56, :66): raising the       *)
(* confidence of the same labels withdraws no automatic route and adds no  *)
(* review.                                                                 *)
THEOREM SurerNeverDoesLess ==
  ASSUME NEW c \in Classification, ~c.human_verified,
         NEW n \in Confidence, n >= c.confidence
  PROVE  LET d == Route([c EXCEPT !.confidence = n])
         IN /\ Route(c).automatic => d.automatic /\ d.rule = Route(c).rule
            /\ d.needs_review => Route(c).needs_review
<1>. DEFINE s == [c EXCEPT !.confidence = n]
<1>1. /\ s \in Classification /\ ~s.human_verified
      /\ s.category = c.category /\ s.priority = c.priority /\ s.confidence = n
  BY DEF Classification
<1>2. \A r : Matches(r, s) <=> Matches(r, c)
  BY <1>1 DEF Matches
<1>3. FirstMatch(s) = FirstMatch(c)
  <2>1. {i \in 1..Len(Rules) : Matches(Rules[i], s)} = {i \in 1..Len(Rules) : Matches(Rules[i], c)}
    BY <1>2
  <2>. HIDE DEF s
  <2>. QED BY <2>1, Zenon DEF FirstMatch, SelectInSeq
<1>4. CASE FirstMatch(c) = 0
  <2>. HIDE DEF s
  <2>1. Route(c) = ReviewDecision /\ Route(s) = ReviewDecision
    BY <1>1, <1>3, <1>4, Zenon DEF Route
  <2>. QED BY <2>1 DEF ReviewDecision
<1>5. CASE FirstMatch(c) # 0
  <2>1. PICK i \in 1..Len(Rules) : i = FirstMatch(c)
    BY <1>5, FirstMatchIsFirst, Zenon
  <2>2. /\ Route(c) = IF PassesGate(Rules[i], c) THEN RuleDecision(Rules[i], c) ELSE ReviewDecision
        /\ Route(s) = IF PassesGate(Rules[i], s) THEN RuleDecision(Rules[i], s) ELSE ReviewDecision
    <3>. HIDE DEF s
    <3>. QED BY <1>3, <1>5, <2>1, Zenon DEF Route
  <2>3. Rules[i] \in Rule
    BY RulesTyped
  <2>4. /\ Threshold(Rules[i]) \in Int /\ Rules[i].also_review_below \in Int
        /\ c.confidence \in Int /\ n \in Int
    BY <2>3, ThresholdIsHigher, RuleFields, ClassFields, ConfidenceIsInt, Zenon
  <2>5. PassesGate(Rules[i], c) => PassesGate(Rules[i], s)
    <3>. HIDE DEF s
    <3>. QED BY <1>1, <2>4 DEF PassesGate
  <2>6. /\ RuleDecision(Rules[i], c).automatic /\ RuleDecision(Rules[i], s).automatic
        /\ RuleDecision(Rules[i], s).rule = RuleDecision(Rules[i], c).rule
        /\ RuleDecision(Rules[i], s).needs_review => RuleDecision(Rules[i], c).needs_review
    <3>. HIDE DEF s
    <3>1. \A x : /\ RuleDecision(Rules[i], x).automatic = ~x.human_verified
                 /\ RuleDecision(Rules[i], x).rule = Rules[i].name
                 /\ RuleDecision(Rules[i], x).needs_review =
                      (~x.human_verified /\ x.confidence < Rules[i].also_review_below)
      BY DEF RuleDecision
    <3>2. s.confidence < Rules[i].also_review_below => c.confidence < Rules[i].also_review_below
      BY <1>1, <2>4
    <3>. QED BY <1>1, <3>1, <3>2, Zenon
  <2>7. ~ReviewDecision.automatic /\ ReviewDecision.needs_review
    BY DEF ReviewDecision
  <2>. HIDE DEF s
  <2>8. CASE PassesGate(Rules[i], c)
    BY <2>2, <2>5, <2>6, <2>8, Zenon DEF s
  <2>9. CASE ~PassesGate(Rules[i], c)
    BY <2>2, <2>7, <2>9, Zenon
  <2>. QED BY <2>8, <2>9
<1>. QED BY <1>4, <1>5

(* A review that is not refused yields a classification                    *)
(* (pipeline.go:331-358).                                                  *)
LEMMA CorrectedTyped ==
  ASSUME NEW c \in Classification, NEW category, NEW priority,
         (category # "" \/ priority # "") => Valid(Corrected(c, category, priority))
  PROVE  /\ Corrected(c, category, priority) \in Classification
         /\ Corrected(c, category, priority).human_verified
<1>. DEFINE v == Corrected(c, category, priority)
            cat == IF category = "" THEN c.category ELSE category
            pri == IF priority = "" THEN c.priority ELSE priority
<1>1. v = [c EXCEPT !.category = cat, !.priority = pri, !.human_verified = TRUE]
  BY DEF Corrected
<1>. HIDE DEF cat, pri
<1>2. v.category = cat /\ v.priority = pri /\ v.human_verified
  BY <1>1 DEF Classification
<1>3. cat \in Categories /\ pri \in Priorities \cup {"medium"}
  <2>1. CASE category = "" /\ priority = ""
    BY <2>1 DEF cat, pri, Classification
  <2>2. CASE category # "" \/ priority # ""
    <3>1. v.category \in Categories /\ v.priority \in Priorities
      BY <2>2, Zenon DEF Valid
    <3>. QED BY <1>2, <3>1
  <2>. QED BY <2>1, <2>2
<1>4. v \in Classification
  BY <1>1, <1>3 DEF Classification
<1>. QED BY <1>2, <1>4 DEF v

(* Approving what was routed automatically changes neither its rule, its   *)
(* queue nor its actions, hence none of the keys that keep an action from  *)
(* being repeated (router.go:52, :59-70).                                  *)
THEOREM ApprovalKeepsTheRoute ==
  ASSUME NEW c \in Classification, Route(c).automatic
  PROVE  LET d == Route(Corrected(c, "", ""))
         IN d.rule = Route(c).rule /\ d.queue = Route(c).queue /\ d.actions = Route(c).actions
<1>. DEFINE v == Corrected(c, "", "")
<1>1. v.human_verified /\ v.category = c.category /\ v.priority = c.priority
  BY DEF Corrected, Classification
<1>. HIDE DEF v
<1>2. FirstMatch(v) = FirstMatch(c)
  <2>1. {i \in 1..Len(Rules) : Matches(Rules[i], v)} = {i \in 1..Len(Rules) : Matches(Rules[i], c)}
    BY <1>1 DEF Matches
  <2>. QED BY <2>1, Zenon DEF FirstMatch, SelectInSeq
<1>3. ~ReviewDecision.automatic /\ ~ApprovedDecision.automatic
  BY DEF ReviewDecision, ApprovedDecision
<1>4. FirstMatch(c) # 0 /\ Route(c) = RuleDecision(Rules[FirstMatch(c)], c)
  BY <1>3, Zenon DEF Route
<1>5. Route(v) = RuleDecision(Rules[FirstMatch(c)], v)
  BY <1>1, <1>2, <1>4, Zenon DEF Route, PassesGate
<1>6. /\ Route(v).rule = Route(c).rule /\ Route(v).queue = Route(c).queue
      /\ Route(v).actions = Route(c).actions
  BY <1>4, <1>5 DEF RuleDecision
<1>. QED BY <1>6 DEF v

(* What config.Validate does not check: no rule that claims the fallback's *)
(* labels acts at confidence 0.                                            *)
FallbackUnclaimed ==
  \A i \in 1..Len(Rules) : Matches(Rules[i], Fallback) =>
    ~Rules[i].bypass_confidence_floor /\ Threshold(Rules[i]) > 0

(* Under that condition a failed classification goes to a person and takes *)
(* no action (README.md:163-165, classify.go:114-126).                     *)
THEOREM FallbackDefers ==
  ASSUME FallbackUnclaimed
  PROVE  Route(Fallback) = ReviewDecision
<1>1. ~Fallback.human_verified /\ Fallback.confidence = 0
  BY DEF Fallback
<1>2. ASSUME NEW i \in 1..Len(Rules), Matches(Rules[i], Fallback)
      PROVE  ~PassesGate(Rules[i], Fallback)
  <2>1. ~Rules[i].bypass_confidence_floor /\ Threshold(Rules[i]) > 0
    BY <1>2, Zenon DEF FallbackUnclaimed
  <2>2. Threshold(Rules[i]) \in Int
    <3>1. Rules[i] \in Rule
      BY RulesTyped
    <3>. QED BY <3>1, ThresholdIsHigher, Zenon
  <2>. QED BY <1>1, <2>1, <2>2 DEF PassesGate
<1>. QED BY <1>1, <1>2, RouteCases, Zenon
=============================================================================

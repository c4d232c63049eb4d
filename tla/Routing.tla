------------------------------ MODULE Routing ------------------------------
(***************************************************************************)
(* The rules engine (internal/router/router.go), the taxonomy check of the *)
(* pipeline and the safe fallback of a failed classifier: pure operators,  *)
(* no state.  A definition named after its neighbour with a suffix that    *)
(* says what is wrong with it is a mutated form, used only to show that    *)
(* the properties notice.                                                  *)
(* Rules come from configuration; what config.Validate promises about      *)
(* them is the assumption ConfigOK.                                        *)
(*                                                                         *)
(* Confidences are whole percents: ParseModelOutput rounds them to two     *)
(* decimals (classify.go:110), so the order of the code's floats is the    *)
(* order of these integers.  A decision's Reason and a classification's    *)
(* summary and rationale are wording and are left out.                     *)
(***************************************************************************)
EXTENDS Integers, Sequences, SequencesExt

CONSTANTS
  Categories,       \* taxonomy.categories, a set of names
  Priorities,       \* taxonomy.priorities
  ConfidenceFloor,  \* routing.confidence_floor, in percent
  Rules,            \* routing.rules, a sequence: order decides
  DefaultRoute      \* routing.default: name, queue, approved_queue

Confidence == 0..100
ActionTypes == {"notify", "create_ticket", "suggest_kb"}
Action == [type: ActionTypes, target: STRING]

Rule == [name: STRING, categories: SUBSET Categories, priorities: SUBSET Priorities,
         min_confidence: Confidence, bypass_confidence_floor: BOOLEAN,
         also_review_below: Confidence, queue: STRING, actions: Seq(Action)]

(* What config.Validate accepts.  It asks for a category "other" but says  *)
(* nothing of the priority "medium", nor of the rules that claim either.   *)
ConfigOK ==
  /\ Categories \subseteq STRING /\ Priorities \subseteq STRING
  /\ "other" \in Categories /\ Priorities # {}
  /\ ConfidenceFloor \in Confidence
  /\ DefaultRoute \in [name: STRING, queue: STRING \ {""}, approved_queue: STRING]
  /\ Rules \in Seq(Rule)
  /\ \A i \in DOMAIN Rules :
       /\ Rules[i].name # "" /\ Rules[i].queue # ""
       /\ Rules[i].categories # {} \/ Rules[i].priorities # {}
       /\ \A j \in DOMAIN Rules : Rules[i].name = Rules[j].name => i = j

ASSUME ConfigAssumption == ConfigOK

(* A classification an item can carry.  "medium" is the fallback's label   *)
(* whether or not the taxonomy has it.                                     *)
Classification == [category: Categories, priority: Priorities \cup {"medium"},
                   confidence: Confidence, human_verified: BOOLEAN]

(* What a classifier may hand back without an error: any label, any number.*)
ModelOutput == [category: STRING, priority: STRING, confidence: Int,
                human_verified: {FALSE}]

Decision == [rule: STRING, queue: STRING, actions: Seq(Action),
             automatic: BOOLEAN, needs_review: BOOLEAN]

-----------------------------------------------------------------------------
(* Service.validate *)
Valid(c) == /\ c.category \in Categories
            /\ c.priority \in Priorities
            /\ c.confidence \in Confidence

(* classify.Fallback: the classification recorded when the classifier fails *)
Fallback == [category |-> "other", priority |-> "medium",
             confidence |-> 0, human_verified |-> FALSE]

ClassifiedUnchecked(answer, failed) == IF failed THEN Fallback ELSE answer

(* Service.classifyInto's choice between the answer and the fallback;      *)
(* failed is the error of the classifier call itself.                      *)
Classified(answer, failed) == IF ~failed /\ Valid(answer) THEN answer ELSE Fallback

(* review's new classification: an empty label keeps the model's (both     *)
(* empty is an approval), and a human now stands behind it.                *)
Corrected(c, category, priority) ==
  [c EXCEPT !.category = IF category = "" THEN @ ELSE category,
            !.priority = IF priority = "" THEN @ ELSE priority,
            !.human_verified = TRUE]

-----------------------------------------------------------------------------
MatchesBothLists(rule, c) ==
  c.category \in rule.categories /\ c.priority \in rule.priorities

(* matches: either list is enough *)
Matches(rule, c) == c.category \in rule.categories \/ c.priority \in rule.priorities

(* The first rule that matches, 0 if none does *)
FirstMatch(c) == SelectInSeq(Rules, LAMBDA r : Matches(r, c))

ThresholdLower(rule) ==
  IF rule.min_confidence > ConfidenceFloor THEN ConfidenceFloor ELSE rule.min_confidence

(* need in Route: the rule's own minimum or the floor, whichever is higher *)
Threshold(rule) ==
  IF rule.min_confidence > ConfidenceFloor THEN rule.min_confidence ELSE ConfidenceFloor

GateIgnoresVerified(rule, c) ==
  rule.bypass_confidence_floor \/ c.confidence >= Threshold(rule)

(* The confidence gate of Route: what lets a matched rule act *)
PassesGate(rule, c) ==
  c.human_verified \/ rule.bypass_confidence_floor \/ c.confidence >= Threshold(rule)

ReviewDecision == [rule |-> DefaultRoute.name, queue |-> DefaultRoute.queue,
                   actions |-> <<>>, automatic |-> FALSE, needs_review |-> TRUE]

RuleDecisionZeroIsUnset(rule, c) ==
  [rule |-> rule.name, queue |-> rule.queue, actions |-> rule.actions,
   automatic |-> ~c.human_verified,
   needs_review |-> ~c.human_verified /\ c.confidence > 0
                      /\ c.confidence < rule.also_review_below]

(* A rule acts.  The code's test that also_review_below is set at all is   *)
(* implied: no confidence is below 0.                                      *)
RuleDecision(rule, c) ==
  [rule |-> rule.name, queue |-> rule.queue, actions |-> rule.actions,
   automatic |-> ~c.human_verified,
   needs_review |-> ~c.human_verified /\ c.confidence < rule.also_review_below]

(* A reviewer approved what no rule claims *)
ApprovedDecision ==
  [rule |-> DefaultRoute.name,
   queue |-> IF DefaultRoute.approved_queue # "" THEN DefaultRoute.approved_queue
                                                 ELSE DefaultRoute.queue,
   actions |-> <<>>, automatic |-> FALSE, needs_review |-> FALSE]

(* Router.Route.  A rule that matches but does not pass its gate ends the  *)
(* search: later rules are not tried.                                      *)
Route(c) ==
  LET i == FirstMatch(c)
  IN IF i = 0 THEN IF c.human_verified THEN ApprovedDecision ELSE ReviewDecision
     ELSE IF PassesGate(Rules[i], c) THEN RuleDecision(Rules[i], c)
     ELSE ReviewDecision
=============================================================================

----------------------------- MODULE Rivergate -----------------------------
(***************************************************************************)
(* The routing section of config/rivergate.yaml, as values for the         *)
(* constants of Routing.                                                   *)
(***************************************************************************)
EXTENDS Sequences

RivergateCategories ==
  {"bug", "billing", "feature_request", "outage", "how_to", "other"}

(* Their order in the file *)
RivergateTaxonomy == <<"bug", "billing", "feature_request", "outage", "how_to", "other">>

RivergatePriorities == {"low", "medium", "high", "critical"}

RivergateFloor == 60

(* A rule with nothing but categories and a queue; the zero values of the  *)
(* Go struct for what the file does not give.                              *)
PlainRule(name, category, queue) ==
  [name |-> name, categories |-> {category}, priorities |-> {},
   min_confidence |-> 0, bypass_confidence_floor |-> FALSE, also_review_below |-> 0,
   queue |-> queue, actions |-> <<>>]

RivergateRules ==
  << [PlainRule("outage-or-critical", "outage", "incident") EXCEPT
        !.priorities = {"critical"},
        !.bypass_confidence_floor = TRUE,
        !.also_review_below = 60,
        !.actions = << [type |-> "notify", target |-> "#rivergate-oncall"],
                       [type |-> "create_ticket", target |-> "ENG"] >>],
     [PlainRule("billing", "billing", "billing") EXCEPT !.min_confidence = 75],
     [PlainRule("bug", "bug", "bug") EXCEPT
        !.min_confidence = 75,
        !.actions = << [type |-> "create_ticket", target |-> "ENG-BACKLOG"] >>],
     PlainRule("feature-request", "feature_request", "product"),
     [PlainRule("how-to", "how_to", "self-serve") EXCEPT
        !.min_confidence = 60,
        !.actions = << [type |-> "suggest_kb", target |-> ""] >>] >>

RivergateDefault ==
  [name |-> "human-review", queue |-> "human-review", approved_queue |-> "general-support"]
=============================================================================

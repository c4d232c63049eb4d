----------------------------- MODULE MCRouting -----------------------------
(***************************************************************************)
(* The labels of one ticket under the shipped configuration.               *)
(***************************************************************************)
EXTENDS Labelling, Rivergate

CONSTANT MaxHits   \* bound: keywords of one category in a text

(* Keywords of four categories; one that pages, one that does not *)
MCTexts ==
  {[hits |-> [c \in Categories |-> IF c \in DOMAIN h THEN h[c] ELSE 0], words |-> w] :
     h \in [{"billing", "bug", "feature_request", "outage"} -> 0..MaxHits],
     w \in {{}, {"critical"}, {"low", "high"}}}

LOCAL Labels == [category: Categories \cup {"spam"}, priority: Priorities \cup {"urgent"}]

MCAnswers == {[category |-> l.category, priority |-> l.priority,
             confidence |-> n, human_verified |-> FALSE] :
              l \in Labels, n \in Confidences \cup {-1, 101}}
=============================================================================

------------------------------ MODULE MCOutbox ------------------------------
(***************************************************************************)
(* One process with two callers on one ticket, under Rivergate's           *)
(* configuration.                                                          *)
(***************************************************************************)
EXTENDS Outbox, Rivergate

CONSTANTS t1, t2, i1

LOCAL Says(category, priority, confidence) ==
  [category |-> category, priority |-> priority, confidence |-> confidence,
   human_verified |-> FALSE]

(* Paged with a ticket and queued for review, routed with a ticket; what is *)
(* deferred is the fallback of an answer that cannot be used                *)
MCAnswers == {Says("outage", "high", 45), Says("bug", "high", 80)}

MCLabels == {<<"outage", "">>, <<"spam", "">>, <<"", "">>}

OneProcess == t1 :> "worker" @@ t2 :> "worker"

Callers == Permutations(Threads)
=============================================================================

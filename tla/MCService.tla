----------------------------- MODULE MCService -----------------------------
(***************************************************************************)
(* Small instances of Service under Rivergate's configuration.             *)
(***************************************************************************)
EXTENDS Service, Rivergate

CONSTANTS t1, t2, i1

LOCAL Says(category, priority, confidence) ==
  [category |-> category, priority |-> priority, confidence |-> confidence,
   human_verified |-> FALSE]

(* An answer for each kind of route: paged and queued for review, routed   *)
(* with a ticket, deferred below its rule's threshold.  The last two share *)
(* their label, so a second look can tip the gate.                         *)
MCAnswers == {Says("outage", "high", 45), Says("bug", "high", 80), Says("bug", "high", 70)}

(* A correction to a page, one the taxonomy refuses, one that asks nothing *)
MCLabels == {<<"outage", "">>, <<"spam", "">>, <<"", "">>}

(* The callers are interchangeable under either placement: the two         *)
(* processes are too, and no state names one.                              *)
Callers == Permutations(Threads)

OneProcess == t1 :> "worker" @@ t2 :> "worker"
TwoProcesses == t1 :> "worker" @@ t2 :> "dashboard"
=============================================================================

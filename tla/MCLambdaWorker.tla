--------------------------- MODULE MCLambdaWorker ---------------------------
(***************************************************************************)
(* Two worker Lambdas, a record from the webhook and one from the drop     *)
(* zone.  Both may carry the same ticket, and either none.                 *)
(***************************************************************************)
EXTENDS LambdaWorker, Rivergate

CONSTANTS w1, w2, sent, dropped, i1

MCKinds == sent :> {"ticket", "junk"} @@ dropped :> {"object", "invalid"}
Carries == sent :> i1 @@ dropped :> i1

Lambdas == w1 :> "w1" @@ w2 :> "w2"

LOCAL Says(category, priority, confidence) ==
  [category |-> category, priority |-> priority, confidence |-> confidence,
   human_verified |-> FALSE]

(* Routed with a ticket *)
Answer == {Says("bug", "high", 80)}
=============================================================================

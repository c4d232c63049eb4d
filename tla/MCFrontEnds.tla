---------------------------- MODULE MCFrontEnds ----------------------------
(***************************************************************************)
(* A dashboard, a worker and a terminal over one store, each a process of  *)
(* its own, with one ticket and two sign-ins.                              *)
(***************************************************************************)
EXTENDS FrontEnds, Rivergate

CONSTANTS d, w, o, a1, b2, i1

LOCAL Says(category, priority, confidence) ==
  [category |-> category, priority |-> priority, confidence |-> confidence,
   human_verified |-> FALSE]

(* Deferred to a person *)
MCAnswers == {Says("billing", "high", 70)}

MCLabels == {<<"feature_request", "">>}

MCFronts == d :> "dashboard" @@ w :> "worker" @@ o :> "icr"

MCAllowSpecs == {{"route_item"}, WriteTools}

SignIns == Permutations(Workspaces)

(* The Lambdas have ICR_SANDBOX_TTL=24h, a dashboard started by hand none *)
MCSandboxTTL == "dashboard" :> 0 @@ "worker" :> 2 @@ "icr" :> 0
=============================================================================

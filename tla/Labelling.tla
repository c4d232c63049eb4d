----------------------------- MODULE Labelling -----------------------------
(***************************************************************************)
(* The labels of one ticket: it is classified, classified again, approved  *)
(* and corrected in every order (classifyInto and review in                *)
(* internal/pipeline/pipeline.go), and every classification it can come to *)
(* carry is routed.  The classifier is one that may answer anything,       *)
(* outputs the pipeline must not trust (an unknown label, a number out of  *)
(* range, a failed call) included, or the mock, on a text.                 *)
(***************************************************************************)
EXTENDS Mock

CONSTANTS
  Answers,      \* what the classifier may say
  Texts,        \* what the mock may be given
  Confidences   \* those at which a surer answer is compared

ASSUME LabellingAssumption ==
  Answers \subseteq ModelOutput /\ Texts \subseteq Text /\ Confidences \subseteq Confidence

VARIABLES
  class,    \* the classification the ticket carries
  trusted,  \* FALSE when it stands for an answer that could not be used
  text      \* the text the mock judges, none for any other classifier

vars == <<class, trusted, text>>

Judge(answer, failed) ==
  /\ class' = Classified(answer, failed)
  /\ trusted' = (~failed /\ Valid(answer))
  /\ UNCHANGED text

Approve ==
  /\ class' = Corrected(class, "", "")
  /\ UNCHANGED <<trusted, text>>

Override(category, priority) ==
  /\ category # "" \/ priority # ""
  /\ Valid(Corrected(class, category, priority))
  /\ class' = Corrected(class, category, priority)
  /\ trusted' = TRUE
  /\ UNCHANGED text

Judged(answer, failed) ==
  /\ class = Classified(answer, failed)
  /\ trusted = (~failed /\ Valid(answer))

Init == \/ /\ text = {}
           /\ \E a \in Answers, failed \in BOOLEAN : Judged(a, failed)
        \/ \E t \in Texts : text = {t} /\ Judged(MockAnswer(t), FALSE)

Next == \/ text = {} /\ \E a \in Answers, failed \in BOOLEAN : Judge(a, failed)
        \/ \E t \in text : Judge(MockAnswer(t), FALSE)
        \/ Approve
        \/ \E cat \in Categories \cup {""}, pri \in Priorities \cup {""} : Override(cat, pri)

Spec == Init /\ [][Next]_vars

-----------------------------------------------------------------------------
(* The types of the two variables and of what Route answers.               *)
TypeOK == /\ class \in Classification /\ trusted \in BOOLEAN
          /\ \A t \in text : t \in Text /\ Valid(MockAnswer(t))
          /\ Route(class) \in Decision

(* The table of README.md:132-139 for an unverified classification, one    *)
(* row per conjunct: the queue, the actions and the review flag.           *)
Lands(queue, targets, review) ==
  LET d == Route(class)
  IN /\ d.queue = queue /\ d.needs_review = review
     /\ [i \in DOMAIN d.actions |-> d.actions[i].target] = targets

(* Every classification the model alone vouches for lands where the        *)
(* README's routing table says (router.go Route, config/rivergate.yaml).   *)
RoutesAsDocumented ==
  LET paged == class.category = "outage" \/ class.priority = "critical"
      Row(category, least) == ~paged /\ class.category = category /\ class.confidence >= least
      rows == {<<"billing", 75>>, <<"bug", 75>>, <<"feature_request", 60>>, <<"how_to", 60>>}
  IN ~class.human_verified =>
       /\ paged => Lands("incident", <<"#rivergate-oncall", "ENG">>, class.confidence < 60)
       /\ Row("billing", 75) => Lands("billing", <<>>, FALSE)
       /\ Row("bug", 75) => Lands("bug", <<"ENG-BACKLOG">>, FALSE)
       /\ Row("feature_request", 60) => Lands("product", <<>>, FALSE)
       /\ Row("how_to", 60) => Lands("self-serve", <<"">>, FALSE)
       /\ (~paged /\ ~\E r \in rows : Row(r[1], r[2])) => Lands("human-review", <<>>, TRUE)

(* A reviewer who merely approves confirms the route: what was automatic   *)
(* keeps its rule, queue and actions (hence its idempotency keys).  What   *)
(* was deferred leaves the review queue, for whatever route its label asks *)
(* for (router.go:52, :59-70).                                             *)
ApprovalConfirms ==
  [][Approve =>
       LET before == Route(class)  after == Route(class')
       IN /\ ~after.needs_review /\ ~after.automatic
          /\ before.automatic => /\ after.rule = before.rule
                                 /\ after.queue = before.queue
                                 /\ after.actions = before.actions]_vars

(* A surer model never does less: raising the confidence of the same       *)
(* labels never withdraws an automatic route nor adds a review             *)
(* (the two thresholds of router.go:53-56 and :66).                        *)
ConfidenceIsMonotone ==
  ~class.human_verified =>
    \A n \in Confidences : n >= class.confidence =>
      LET now == Route(class)  surer == Route([class EXCEPT !.confidence = n])
      IN /\ now.automatic => surer.automatic /\ surer.rule = now.rule
         /\ surer.needs_review => now.needs_review

(* A classifier error, an invalid label or malformed output goes to human  *)
(* review and takes no action: "It is never a guess" (README.md:163-165,   *)
(* classify.go:114-126).                                                   *)
NeverAGuess ==
  (~trusted /\ ~class.human_verified) =>
    /\ Route(class).needs_review /\ ~Route(class).automatic
    /\ Route(class).actions = <<>>

(* One more keyword of the category the mock chose neither unseats it nor  *)
(* lowers its confidence; one more of a rival that still loses never       *)
(* raises it (mock.go:99-110).                                             *)
MoreEvidenceIsSurer ==
  \A t \in text, c \in Categories :
    LET before == MockAnswer(t)
        after == MockAnswer([t EXCEPT !.hits[c] = @ + 1])
    IN t.hits[Winner(t.hits)] > 0 =>
         /\ c = before.category => /\ after.category = c
                                   /\ after.confidence >= before.confidence
         /\ c # before.category /\ after.category = before.category =>
              after.confidence <= before.confidence

(* The mock's scores and the thresholds of the rules fit together: on a    *)
(* single keyword, or with two categories level, no bug ticket is opened   *)
(* and no bill is handled without a person (mock.go:108-110,               *)
(* rivergate.yaml:124-134).                                                *)
SplitEvidenceDefers ==
  \A t \in text :
    LET answer == MockAnswer(t)
        top == t.hits[Winner(t.hits)]
    IN /\ answer.category \in {"bug", "billing"} /\ answer.priority # "critical"
       /\ top = 1 \/ \E c \in Categories \ {answer.category} : t.hits[c] = top
       => Route(answer).needs_review /\ ~Route(answer).automatic
=============================================================================

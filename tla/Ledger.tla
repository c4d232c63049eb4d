------------------------------- MODULE Ledger -------------------------------
(***************************************************************************)
(* What the pipeline service promises of an item when its calls are taken  *)
(* one after the other, each of them done or not: an item is entered once  *)
(* and never leaves; a judgement opens it again and takes nothing back; a  *)
(* decision is that of the label the item carries; a review corrects the   *)
(* label the item carries when it is made, none that it carried before;    *)
(* and of a decision some actions are taken, never one of another.         *)
(***************************************************************************)
CONSTANTS
  Ids,
  Verdicts,        \* the labels a classification can give
  Corrections(_),  \* those a review can make of a label
  Decide(_),       \* the decision a label leads to
  Orders(_),       \* the actions it asks for
  Nil

VARIABLE page   \* of each item: its label, its decision if it is settled, what was done

Blank == [entered |-> FALSE, label |-> Nil, decision |-> Nil, taken |-> {}]

Init == page = [id \in Ids |-> Blank]

Writes(id, label, decision, taken) ==
  page' = [page EXCEPT ![id] = [entered |-> TRUE, label |-> label,
                                decision |-> decision, taken |-> taken]]

Settles(id, label) ==
  \E done \in SUBSET Orders(label) :
    Writes(id, label, Decide(label), page[id].taken \cup done)

Enter(id) == ~page[id].entered /\ Writes(id, Nil, Nil, {})

Judge(id) == \E label \in Verdicts : Writes(id, label, Nil, page[id].taken)

Route(id) == page[id].label # Nil /\ Settles(id, page[id].label)

Review(id) ==
  /\ page[id].label # Nil
  /\ \E label \in Corrections(page[id].label) : Settles(id, label)

(* One page is written anew *)
Next ==
  \E id \in Ids :
    page'[id] # page[id] /\ (Enter(id) \/ Judge(id) \/ Route(id) \/ Review(id))

Spec == Init /\ [][Next]_page
=============================================================================

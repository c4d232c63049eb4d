------------------------------- MODULE Queue -------------------------------
(***************************************************************************)
(* What the interface ingest.Queue (internal/ingest/queue.go) promises its *)
(* users, whichever implementation is behind it: a message that was sent   *)
(* is waiting, claimed by at most one receiver, acknowledged or            *)
(* dead-lettered; only the receiver that claimed a message settles it; and *)
(* the message of a receiver that gave up comes back.                      *)
(***************************************************************************)
EXTENDS Naturals

CONSTANTS
  Messages,     \* what can be sent, each at most once
  Receivers,    \* who can claim
  MaxAttempts,  \* failed attempts after which a message is dead
  Nobody

VARIABLES
  state,     \* of each message
  holder,    \* who has claimed it; Nobody while claimed: its claimant is gone
  attempts   \* the failed attempts recorded with it, 0 once acknowledged

vars == <<state, holder, attempts>>

Init == /\ state = [m \in Messages |-> "unsent"]
        /\ holder = [m \in Messages |-> Nobody]
        /\ attempts = [m \in Messages |-> 0]

Send(m) == /\ state[m] = "unsent"
           /\ state' = [state EXCEPT ![m] = "ready"]
           /\ UNCHANGED <<holder, attempts>>

(* One message of a Receive *)
Claim(m, r) == /\ state[m] = "ready"
               /\ state' = [state EXCEPT ![m] = "claimed"]
               /\ holder' = [holder EXCEPT ![m] = r]
               /\ UNCHANGED attempts

Settle(m, r, to, tries) ==
  /\ state[m] = "claimed" /\ holder[m] = r
  /\ state' = [state EXCEPT ![m] = to]
  /\ holder' = [holder EXCEPT ![m] = Nobody]
  /\ attempts' = [attempts EXCEPT ![m] = tries]

Ack(m, r) == Settle(m, r, "acked", 0)

Nack(m, r) == Settle(m, r, IF attempts[m] + 1 < MaxAttempts THEN "ready" ELSE "dead",
                     attempts[m] + 1)

(* A message nobody can read is set aside without an attempt *)
Discard(m, r) == Settle(m, r, "dead", attempts[m])

(* The receiver is gone, what it claimed is nobody's *)
Abandon(r) == /\ holder' = [m \in Messages |-> IF holder[m] = r THEN Nobody ELSE holder[m]]
              /\ UNCHANGED <<state, attempts>>

(* Such a message is put back *)
Recover(m) == /\ state[m] = "claimed" /\ holder[m] = Nobody
              /\ state' = [state EXCEPT ![m] = "ready"]
              /\ UNCHANGED <<holder, attempts>>

Next == \/ \E m \in Messages : Send(m) \/ Recover(m)
        \/ \E m \in Messages, r \in Receivers :
             Claim(m, r) \/ Ack(m, r) \/ Nack(m, r) \/ Discard(m, r)
        \/ \E r \in Receivers : Abandon(r)

Spec == Init /\ [][Next]_vars
=============================================================================

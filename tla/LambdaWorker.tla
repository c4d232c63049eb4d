---------------------------- MODULE LambdaWorker ----------------------------
(***************************************************************************)
(* The deployed pipeline's consumers: SQS as infra/template.yaml           *)
(* configures it, and the worker Lambda (internal/awsapp/handlers.go) that *)
(* turns every record of a batch into calls of the service.  Each worker   *)
(* is a caller of Service in a process of its own.                         *)
(*                                                                         *)
(* A record is a ticket the webhook or icr has sent, a notification of a   *)
(* drop-zone object, or neither.  SQS is external: it hands out a visible  *)
(* message in some batch, keeps it hidden until its Lambda has ended (the  *)
(* visibility timeout is six times the worker's) and dead-letters it after *)
(* MaxReceives.  Left out: notifications of several objects, which S3 does *)
(* not send, and delays.                                                   *)
(***************************************************************************)
EXTENDS Service

CONSTANTS
  Messages,    \* what is in the queue
  KindsOf,     \* of "ticket", "object", "invalid" (an object that is no ticket)
               \* and "junk", what each may be
  TicketOf,    \* the ticket ID each carries
  BatchSize, MaxReceives, \* of the template
  MaxTimedOut  \* bound: no timeout once so many messages have seen one

Kinds == {"ticket", "object", "invalid", "junk"}

(* Beside Service's faults: "s3", an object cannot be read. *)
ASSUME DeliveryAssumption ==
  /\ KindsOf \in [Messages -> SUBSET Kinds] /\ TicketOf \in [Messages -> Ids]
  /\ BatchSize \in Nat \ {0} /\ MaxReceives \in Nat \ {0} /\ MaxTimedOut \in Nat
  /\ Nil \notin Messages
  /\ \A w, v \in Threads : ProcOf[w] = ProcOf[v] => w = v

VARIABLES
  kind,             \* what each message is
  state, receives,  \* of each message in SQS
  stage,            \* of each worker
  batch, left,      \* the records of its invocation, and those not begun
  failures,         \* BatchItemFailures
  doing,            \* the record it is at
  timedOut          \* history: the messages of which an invocation timed out

sqs == <<kind, state, receives, timedOut>>
loop == <<stage, batch, left, failures, doing>>
all == <<vars, sqs, loop>>

DeliveryInit ==
  /\ Init
  /\ kind \in {k \in [Messages -> Kinds] : \A m \in Messages : k[m] \in KindsOf[m]}
  /\ state = [m \in Messages |-> "visible"]
  /\ receives = [m \in Messages |-> 0]
  /\ timedOut = {}
  /\ stage = [w \in Threads |-> "waiting"]
  /\ batch = [w \in Threads |-> {}]
  /\ left = [w \in Threads |-> {}]
  /\ failures = [w \in Threads |-> {}]
  /\ doing = [w \in Threads |-> Nil]

-----------------------------------------------------------------------------
(* SQS                                                                     *)

(* An invocation of w with a batch *)
Poll(w) ==
  /\ stage[w] = "waiting"
  /\ \E B \in SUBSET {m \in Messages : state[m] = "visible"} :
       /\ B # {} /\ Cardinality(B) <= BatchSize
       /\ state' = [m \in Messages |-> IF m \in B THEN "hidden" ELSE state[m]]
       /\ receives' = [m \in Messages |-> IF m \in B THEN receives[m] + 1 ELSE receives[m]]
       /\ batch' = [batch EXCEPT ![w] = B]
       /\ left' = [left EXCEPT ![w] = B]
  /\ stage' = [stage EXCEPT ![w] = "looping"]
  /\ UNCHANGED <<vars, kind, failures, doing, timedOut>>

(* The invocation is over: SQS deletes what has not failed, and the redrive *)
(* policy takes what has failed too often                                  *)
InvocationEnds(w, failed) ==
  /\ state' = [m \in Messages |->
       CASE m \in batch[w] \ failed -> "deleted"
         [] m \in failed -> IF receives[m] < MaxReceives THEN "visible" ELSE "dead"
         [] OTHER -> state[m]]
  /\ stage' = [stage EXCEPT ![w] = "waiting"]
  /\ batch' = [batch EXCEPT ![w] = {}]
  /\ left' = [left EXCEPT ![w] = {}]
  /\ failures' = [failures EXCEPT ![w] = {}]
  /\ doing' = [doing EXCEPT ![w] = Nil]
  /\ UNCHANGED <<kind, receives>>

-----------------------------------------------------------------------------
(* handleRecord, one record after the other                                *)

TakeAgain(w, m, to) ==
  /\ stage[w] = "looping" /\ m \in left[w]
  /\ stage' = [stage EXCEPT ![w] = to]
  /\ UNCHANGED left

Take(w, m, to) ==
  /\ stage[w] = "looping" /\ m \in left[w]
  /\ left' = [left EXCEPT ![w] = @ \ {m}]
  /\ stage' = [stage EXCEPT ![w] = to]

(* Not a ticket, or an object that is none: retrying cannot fix it *)
Drop(w, m) ==
  /\ kind[m] \in {"invalid", "junk"}
  /\ Take(w, m, "looping")
  /\ UNCHANGED <<vars, sqs, batch, failures, doing>>

FetchFails(w, m) ==
  /\ "s3" \in Faults
  /\ kind[m] \in {"object", "invalid"}
  /\ Take(w, m, "looping")
  /\ failures' = [failures EXCEPT ![w] = @ \cup {m}]
  /\ UNCHANGED <<vars, sqs, batch, doing>>

CallAccept(w, id) == GetFails(w) \/ Accept(w, id)

CallProcess(w, id) ==
  \/ GetFails(w)
  \/ ProcessIgnored(w, id)
  \/ \E answer \in Answers, failed \in BOOLEAN : Process(w, id, answer, failed)

TakeTicket(w, m) ==
  /\ kind[m] = "ticket"
  /\ Take(w, m, "processing")
  /\ doing' = [doing EXCEPT ![w] = m]
  /\ CallProcess(w, TicketOf[m])
  /\ UNCHANGED <<sqs, batch, failures>>

TakeObject(w, m) ==
  /\ kind[m] = "object"
  /\ Take(w, m, "accepting")
  /\ doing' = [doing EXCEPT ![w] = m]
  /\ CallAccept(w, TicketOf[m])
  /\ UNCHANGED <<sqs, batch, failures>>

Returned(w, from) == stage[w] = from /\ call[w].pc = "idle"

AcceptedNew(w) ==
  /\ Returned(w, "accepting") /\ call[w].result # "error"
  /\ \/ /\ call[w].result = "ok"
        /\ stage' = [stage EXCEPT ![w] = "processing"]
        /\ CallProcess(w, TicketOf[doing[w]])
        /\ UNCHANGED doing
     \/ /\ call[w].result = "duplicate"
        /\ stage' = [stage EXCEPT ![w] = "looping"]
        /\ doing' = [doing EXCEPT ![w] = Nil]
        /\ UNCHANGED vars
  /\ UNCHANGED <<sqs, batch, left, failures>>

(* handleObject goes on to Process, the item new or a duplicate *)
Accepted(w) ==
  /\ Returned(w, "accepting") /\ call[w].result # "error"
  /\ stage' = [stage EXCEPT ![w] = "processing"]
  /\ CallProcess(w, TicketOf[doing[w]])
  /\ UNCHANGED <<sqs, batch, left, failures, doing>>

RecordEnds(w, failed) ==
  /\ stage' = [stage EXCEPT ![w] = "looping"]
  /\ doing' = [doing EXCEPT ![w] = Nil]
  /\ failures' = [failures EXCEPT ![w] = @ \cup failed]
  /\ UNCHANGED <<vars, sqs, batch, left>>

Succeeds(w) ==
  /\ Returned(w, "processing") /\ call[w].result # "error"
  /\ RecordEnds(w, {})

FailsSilently(w) ==
  /\ Returned(w, "accepting") \/ Returned(w, "processing")
  /\ call[w].result = "error"
  /\ RecordEnds(w, {})

Fails(w) ==
  /\ Returned(w, "accepting") \/ Returned(w, "processing")
  /\ call[w].result = "error"
  /\ RecordEnds(w, {doing[w]})

RespondAllOrNothing(w) ==
  /\ stage[w] = "looping" /\ left[w] = {}
  /\ InvocationEnds(w, IF failures[w] = {} THEN {} ELSE batch[w])
  /\ UNCHANGED <<vars, timedOut>>

(* Handle returns the failed records, ReportBatchItemFailures *)
Respond(w) ==
  /\ stage[w] = "looping" /\ left[w] = {}
  /\ InvocationEnds(w, failures[w])
  /\ UNCHANGED <<vars, timedOut>>

(* The service's steps within a call *)
Works(w) == Step(w) /\ UNCHANGED <<sqs, loop>>

(* The Lambda times out: its call is gone, all its records come back *)
TimesOut(w) ==
  /\ "crash" \in Faults
  /\ stage[w] # "waiting" /\ Cardinality(timedOut) < MaxTimedOut
  /\ InvocationEnds(w, batch[w])
  /\ timedOut' = timedOut \cup batch[w]
  /\ Crash(ProcOf[w]) \/ (call[w].pc = "idle" /\ UNCHANGED vars)

Runs(w) ==
  \/ \E m \in Messages : Drop(w, m) \/ FetchFails(w, m) \/ TakeTicket(w, m) \/ TakeObject(w, m)
  \/ Accepted(w) \/ Succeeds(w) \/ Fails(w) \/ Respond(w) \/ Works(w)

DeliveryNext == \E w \in Threads : Poll(w) \/ Runs(w) \/ TimesOut(w)

DeliverySpec == DeliveryInit /\ [][DeliveryNext]_all

(* SQS goes on delivering, and an invocation goes on *)
DeliveryFairSpec == /\ DeliverySpec
                    /\ \A w \in Threads : WF_all(Poll(w)) /\ WF_all(Runs(w))

-----------------------------------------------------------------------------
Stages == {"waiting", "looping", "accepting", "processing"}

(* Types, that a worker is at a record it has taken out of its batch, and  *)
(* that SQS offers nothing that has been received too often.               *)
DeliveryOK ==
  /\ state \in [Messages -> {"visible", "hidden", "deleted", "dead"}]
  /\ kind \in [Messages -> Kinds]
  /\ receives \in [Messages -> 0..MaxReceives]
  /\ timedOut \subseteq Messages
  /\ stage \in [Threads -> Stages]
  /\ batch \in [Threads -> SUBSET Messages]
  /\ left \in [Threads -> SUBSET Messages]
  /\ failures \in [Threads -> SUBSET Messages]
  /\ doing \in [Threads -> Messages \cup {Nil}]
  /\ \A w \in Threads :
       /\ left[w] \subseteq batch[w] /\ failures[w] \subseteq batch[w] \ left[w]
       /\ stage[w] = "waiting" => batch[w] = {}
       /\ IF stage[w] \in {"accepting", "processing"} THEN doing[w] \in batch[w] \ left[w]
                                                      ELSE doing[w] = Nil
  /\ \A m \in Messages : state[m] = "visible" => receives[m] < MaxReceives

Carriers(id) == {m \in Messages : TicketOf[m] = id /\ kind[m] \in {"ticket", "object"}}

HasSettled(id) == store[id] # Nil /\ store[id].status \in Settled

AllCarriersAre(id, where) ==
  Carriers(id) # {} /\ \A m \in Carriers(id) : state[m] = where

TimedOut(id) == Carriers(id) \cap timedOut # {}

(* What a timeout between Process's two writes leaves for good: the        *)
(* redelivery finds the item past received and is acknowledged             *)
Stranded(id) == TimedOut(id) /\ store[id] # Nil /\ store[id].status = "classified"

(* "only failed records are retried" (handlers.go:38): a ticket of         *)
(* which only the dead-letter queue knows, and of which no invocation      *)
(* timed out, is unsettled or one of its actions failed.  No record pays   *)
(* for the others of its batch.                                            *)
DeadNeedsAttention ==
  \A id \in Ids :
    HasSettled(id) /\ AllCarriersAre(id, "dead") /\ ~TimedOut(id) =>
      \E e \in Range(store[id].events) : e.type = "error" /\ e.key # Nil

(* What SQS was told to forget is settled, or a worker is at it, or it is  *)
(* stranded: a failure is never acknowledged (handlers.go:69-78), and an   *)
(* object seen before is still processed (handlers.go:120-129).            *)
ForgottenIsSettled ==
  \A id \in Ids : AllCarriersAre(id, "deleted") =>
    HasSettled(id) \/ Stranded(id) \/ \E w \in Threads : doing[w] \in Carriers(id)

(* Every ticket in the queue is routed or put before a person in the end,  *)
(* or an operator finds it in the dead-letter queue, or it is stranded.    *)
EveryTicketSettles ==
  \A id \in Ids : Carriers(id) # {} ~>
    [](HasSettled(id) \/ Stranded(id) \/ \E m \in Carriers(id) : state[m] = "dead")
=============================================================================

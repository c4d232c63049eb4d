------------------------- MODULE LambdaWorkerProofs -------------------------
(***************************************************************************)
(* The deployed workers are callers of the service and nothing else: what  *)
(* is proved of Service holds of them, for any number of workers,          *)
(* messages, receives and timeouts, and any batch size.                    *)
(***************************************************************************)
EXTENDS LambdaWorker, ServiceProofs

(* An invocation that ends leaves types right and its worker waiting, if   *)
(* only records of its batch come back.                                    *)
LEMMA EndsOK ==
  ASSUME DeliveryOK, NEW w \in Threads, NEW failed \in SUBSET batch[w],
         InvocationEnds(w, failed), timedOut' \subseteq Messages
  PROVE  DeliveryOK'
<1>1. state' \in [Messages -> {"visible", "hidden", "deleted", "dead"}]
  BY DEF DeliveryOK, InvocationEnds
<1>2. \A m \in Messages : state'[m] = "visible" => receives'[m] < MaxReceives
  BY DEF DeliveryOK, InvocationEnds
<1>. QED BY <1>1, <1>2, DeliveryAssumption DEF DeliveryOK, InvocationEnds, Stages

(* A record taken out of the batch is done with or is the one the worker   *)
(* is at.                                                                  *)
LEMMA TakeOK ==
  ASSUME DeliveryOK, NEW w \in Threads, NEW m \in Messages, NEW to \in Stages \ {"waiting"},
         Take(w, m, to), UNCHANGED <<sqs, batch>>,
         failures' \in {failures, [failures EXCEPT ![w] = @ \cup {m}]},
         doing' = IF to = "looping" THEN doing ELSE [doing EXCEPT ![w] = m]
  PROVE  DeliveryOK'
  BY DeliveryAssumption DEF DeliveryOK, Take, sqs, Stages

(* A record that ends leaves the worker at none.                           *)
LEMMA RecordOK ==
  ASSUME DeliveryOK, NEW w \in Threads, stage[w] \in {"accepting", "processing"},
         NEW failed \in SUBSET {doing[w]}, RecordEnds(w, failed)
  PROVE  DeliveryOK'
  BY DeliveryAssumption DEF DeliveryOK, RecordEnds, sqs, Stages

(* An invocation starts with a batch of visible messages.                  *)
LEMMA PollOK ==
  ASSUME DeliveryOK, NEW w \in Threads, Poll(w)
  PROVE  DeliveryOK'
<1>1. PICK B \in SUBSET {m \in Messages : state[m] = "visible"} :
        /\ state' = [m \in Messages |-> IF m \in B THEN "hidden" ELSE state[m]]
        /\ receives' = [m \in Messages |-> IF m \in B THEN receives[m] + 1 ELSE receives[m]]
        /\ batch' = [batch EXCEPT ![w] = B]
        /\ left' = [left EXCEPT ![w] = B]
  BY DEF Poll
<1>2. receives' \in [Messages -> 0..MaxReceives]
  BY <1>1, DeliveryAssumption DEF DeliveryOK
<1>3. \A m \in Messages : state'[m] = "visible" => receives'[m] < MaxReceives
  BY <1>1 DEF DeliveryOK
<1>. QED BY <1>1, <1>2, <1>3, DeliveryAssumption DEF DeliveryOK, Poll, Stages

(* Every action preserves the types.                                       *)
LEMMA DeliveryStepOK == DeliveryOK /\ [DeliveryNext]_all => DeliveryOK'
<1>. SUFFICES ASSUME DeliveryOK, [DeliveryNext]_all PROVE DeliveryOK'
  OBVIOUS
<1>1. CASE UNCHANGED all
  BY <1>1 DEF all, sqs, loop, DeliveryOK
<1>2. ASSUME NEW w \in Threads, Poll(w) PROVE DeliveryOK'
  BY <1>2, PollOK
<1>3. ASSUME NEW w \in Threads, TimesOut(w) PROVE DeliveryOK'
  BY <1>3, EndsOK DEF TimesOut, DeliveryOK
<1>4. ASSUME NEW w \in Threads, Runs(w) PROVE DeliveryOK'
  <2>1. ASSUME NEW m \in Messages,
               Drop(w, m) \/ FetchFails(w, m) \/ TakeTicket(w, m) \/ TakeObject(w, m)
        PROVE  DeliveryOK'
    BY <2>1, TakeOK DEF Drop, FetchFails, TakeTicket, TakeObject, Stages
  <2>2. CASE Accepted(w)
    BY <2>2 DEF Accepted, Returned, DeliveryOK, sqs, Stages
  <2>3. CASE Succeeds(w) \/ Fails(w)
    BY <2>3, RecordOK DEF Succeeds, Fails, Returned
  <2>4. CASE Respond(w)
    BY <2>4, EndsOK DEF Respond, DeliveryOK
  <2>5. CASE Works(w)
    BY <2>5 DEF Works, sqs, loop, DeliveryOK
  <2>. QED BY <1>4, <2>1, <2>2, <2>3, <2>4, <2>5 DEF Runs
<1>. QED BY <1>1, <1>2, <1>3, <1>4 DEF DeliveryNext

(* Types, and that SQS never hands out what it has handed out MaxReceives  *)
(* times (template.yaml:107).                                              *)
THEOREM DeliveryTypeCorrect == DeliverySpec => []DeliveryOK
<1>1. DeliveryInit => DeliveryOK
  BY DeliveryAssumption DEF DeliveryInit, DeliveryOK, Stages
<1>. QED BY <1>1, DeliveryStepOK, PTL DEF DeliverySpec

(* What a worker calls is an operation of the service.                     *)
LEMMA CallsStart ==
  ASSUME NEW w \in Threads, NEW id \in Ids, CallAccept(w, id) \/ CallProcess(w, id)
  PROVE  Start(w)
  BY DEF CallAccept, CallProcess, Start

(* A step of the deployed pipeline is a step of the service or none.       *)
LEMMA DeliverySteps == DeliveryOK /\ [DeliveryNext]_all => [Next]_vars
<1>. SUFFICES ASSUME DeliveryOK, [DeliveryNext]_all PROVE [Next]_vars
  OBVIOUS
<1>1. ASSUME NEW w \in Threads, Poll(w) \/ TimesOut(w) PROVE [Next]_vars
  BY <1>1 DEF Poll, TimesOut, Next
<1>2. ASSUME NEW w \in Threads, Runs(w) PROVE [Next]_vars
  <2>1. ASSUME NEW m \in Messages, Drop(w, m) \/ FetchFails(w, m) PROVE [Next]_vars
    BY <2>1 DEF Drop, FetchFails
  <2>2. ASSUME NEW m \in Messages, TakeTicket(w, m) \/ TakeObject(w, m) PROVE [Next]_vars
    <3>1. TicketOf[m] \in Ids
      BY DeliveryAssumption
    <3>. QED BY <2>2, <3>1, CallsStart DEF TakeTicket, TakeObject, Next
  <2>3. CASE Accepted(w)
    <3>1. doing[w] \in Messages
      BY <2>3 DEF Accepted, Returned, DeliveryOK
    <3>2. TicketOf[doing[w]] \in Ids
      BY <3>1, DeliveryAssumption
    <3>. QED BY <2>3, <3>2, CallsStart DEF Accepted, Next
  <2>4. CASE Succeeds(w) \/ Fails(w) \/ Respond(w)
    BY <2>4 DEF Succeeds, Fails, RecordEnds, Respond
  <2>5. CASE Works(w)
    BY <2>5 DEF Works, Next
  <2>. QED BY <1>2, <2>1, <2>2, <2>3, <2>4, <2>5 DEF Runs
<1>3. CASE UNCHANGED all
  BY <1>3 DEF all
<1>. QED BY <1>1, <1>2, <1>3 DEF DeliveryNext

(* The worker Lambdas implement the service: whatever SQS delivers, however *)
(* often, and whatever times out, their calls are calls Service allows     *)
(* (handlers.go:69-130).                                                   *)
THEOREM WorkersImplementService == DeliverySpec => Spec
<1>1. DeliveryInit => Init
  BY DEF DeliveryInit
<1>. QED BY <1>1, DeliverySteps, DeliveryTypeCorrect, PTL DEF DeliverySpec, Spec

(* So in the deployed pipeline too a settled item's decision is that of    *)
(* its label, no action goes out below its thresholds, no trail claims an  *)
(* action that was not taken, and each trail ends in the item's label.     *)
THEOREM DeployedStoreIsSound ==
  DeliverySpec => [](DecisionCurrent /\ GateHolds /\ NothingClaimedUndone /\ TrailExplains)
  BY WorkersImplementService, DecisionsAreCurrent, GateAlwaysHolds, NothingIsClaimedUndone,
     TrailsExplain, PTL

-----------------------------------------------------------------------------
(* Nothing unsettled is acknowledged.  The property is not inductive: that *)
(* a record was acknowledged rightly depends on who else is at its ticket. *)
(* The invariant says who will still drive a ticket that is not settled.   *)

NoLostWrites == "put" \notin Faults

(* Where a worker is in its call, at which stage, and what it will write.  *)
CallAtStage(w) ==
  /\ stage[w] \in {"waiting", "looping"} => call[w].pc = "idle"
  /\ stage[w] = "accepting" => call[w].pc \in {"idle", "accepting"}
  /\ stage[w] = "processing" => call[w].pc \in {"idle", "classified", "acting"}
  /\ stage[w] \in {"accepting", "processing"} => kind[doing[w]] \in {"ticket", "object"}
  /\ call[w].pc # "idle" => call[w].id = TicketOf[doing[w]]
  /\ call[w].pc = "accepting" => call[w].item.status = "received"
  /\ call[w].pc = "classified" => call[w].item.status = "classified"
  /\ call[w].pc = "acting" => call[w].item.status \in Settled

(* A message in a batch is hidden, and in one batch only.                  *)
BatchesApart ==
  /\ \A w \in Threads : \A m \in batch[w] : state[m] = "hidden"
  /\ \A w, v \in Threads : w # v => batch[w] \cap batch[v] = {}

Finished(w) == Returned(w, "processing") /\ call[w].result # "error"

(* The record will be looked at again, or is being looked at.              *)
Open(m) ==
  \/ state[m] \in {"visible", "dead"}
  \/ \E w \in Threads : \/ m \in left[w] \/ m \in failures[w]
                        \/ doing[w] = m /\ ~Finished(w)

ActingOn(w, id) == call[w].pc = "acting" /\ doing[w] \in Carriers(id)

IsClassified(id) == store[id] # Nil /\ store[id].status = "classified"

(* Who drives a ticket: somebody who acts on it, if it is classified;      *)
(* some record that carries it, if it is not settled.                      *)
Driven(id) ==
  /\ IsClassified(id) => TimedOut(id) \/ \E w \in Threads : ActingOn(w, id)
  /\ Carriers(id) # {} => HasSettled(id) \/ Stranded(id) \/ \E m \in Carriers(id) : Open(m)

DInv == /\ \A w \in Threads : CallAtStage(w)
        /\ BatchesApart
        /\ \A id \in Ids : Driven(id)

Good == DeliveryOK /\ IInv /\ DInv

(* What the steps of the service do to the store and to the call of the    *)
(* worker that takes them.                                                 *)
CallsElseRest(w) == \A v \in Threads \ {w} : call'[v] = call[v]

(* A call of Accept changes the caller only: refused, or about to write a  *)
(* received item.                                                          *)
LEMMA AcceptEffect ==
  ASSUME IInv, NEW w \in Threads, NEW id \in Ids, CallAccept(w, id)
  PROVE  /\ UNCHANGED store /\ CallsElseRest(w)
         /\ \/ call'[w].pc = "idle"
            \/ call'[w].pc = "accepting" /\ call'[w].id = id /\ call'[w].item.status = "received"
<1>1. call \in [Threads -> Call]
  BY DEF IInv, TypeOK
<1>. QED BY <1>1 DEF CallAccept, GetFails, Accept, Refuse, Begin, Idle, NewItem, CallsElseRest

(* A call of Process changes the caller only: failed, ignored because the  *)
(* item is past received, or about to write a classified item.             *)
LEMMA ProcessEffect ==
  ASSUME IInv, NEW w \in Threads, NEW id \in Ids, CallProcess(w, id)
  PROVE  /\ UNCHANGED store /\ CallsElseRest(w)
         /\ \/ call'[w].pc = "idle" /\ call'[w].result = "error"
            \/ /\ call'[w].pc = "idle"
               /\ store[id] # Nil /\ store[id].status # "received"
            \/ call'[w].pc = "classified" /\ call'[w].id = id /\ call'[w].item.status = "classified"
<1>1. call \in [Threads -> Call]
  BY DEF IInv, TypeOK
<1>2. CASE GetFails(w) \/ ProcessIgnored(w, id)
  BY <1>1, <1>2 DEF GetFails, ProcessIgnored, Refuse, Idle, CallsElseRest
<1>3. CASE \E answer \in Answers, failed \in BOOLEAN : Process(w, id, answer, failed)
  <2>1. PICK answer \in Answers, failed \in BOOLEAN : Process(w, id, answer, failed)
    BY <1>3
  <2>. DEFINE item == IF store[id] = Nil THEN NewItem ELSE store[id]
              it == ClassifyInto(item, answer, failed)
  <2>2. item \in Item
    BY NewItemTyped DEF IInv, TypeOK
  <2>3. it.status = "classified"
    BY <2>2 DEF ClassifyInto, Item
  <2>4. Begin(w, "process", id, "classified", it)
    BY <2>1, Zenon DEF Process
  <2>. HIDE DEF it
  <2>. QED BY <1>1, <2>3, <2>4 DEF Begin, CallsElseRest
<1>. QED BY <1>2, <1>3 DEF CallProcess

WorksTo(w, pc) == call'[w].pc = pc /\ (pc # "idle" => call'[w].id = call[w].id)

(* A later step writes the copy, or takes an action and leaves the store   *)
(* alone; with every write in effect, a call ends with its last one.       *)
LEMMA WorkEffect ==
  ASSUME IInv, NoLostWrites, NEW w \in Threads, CallAtStage(w), Step(w)
  PROVE  /\ CallsElseRest(w)
         /\ \/ call[w].pc = "accepting" /\ Written(w) /\ WorksTo(w, "idle")
            \/ /\ call[w].pc = "classified" /\ Written(w) /\ WorksTo(w, "acting")
               /\ call'[w].item.status \in Settled
            \/ /\ call[w].pc = "acting" /\ UNCHANGED store /\ WorksTo(w, "acting")
               /\ call'[w].item.status \in Settled
            \/ call[w].pc = "acting" /\ Written(w) /\ WorksTo(w, "idle")
<1>1. call \in [Threads -> Call] /\ CallOK(call[w])
  BY DEF IInv, TypeOK
<1>2. CASE PutFails(w)
  BY <1>2 DEF PutFails, NoLostWrites
<1>3. CASE PutAccepted(w)
  BY <1>1, <1>3 DEF PutAccepted, Return, Idle, WorksTo, CallsElseRest
<1>4. CASE PutClassified(w)
  <2>. DEFINE item == Routed(call[w].item)
  <2>1. call[w].item \in Item
    BY <1>1, <1>4 DEF PutClassified, CallOK
  <2>2. item.status \in Settled
    BY <2>1 DEF Routed, StatusFor, Settled, Item
  <2>3. call' = [call EXCEPT ![w] = [call[w] EXCEPT !.pc = "acting", !.item = item]]
    BY <1>4, Zenon DEF PutClassified
  <2>4. call[w].pc = "classified" /\ Written(w)
    BY <1>4 DEF PutClassified
  <2>. HIDE DEF item
  <2>5. WorksTo(w, "acting") /\ call'[w].item = item /\ CallsElseRest(w)
    BY <1>1, <2>3 DEF WorksTo, CallsElseRest, Call
  <2>. QED BY <2>2, <2>4, <2>5
<1>5. ASSUME Acting(w), UNCHANGED store, NEW item \in Item, NEW failed,
             item.status = call[w].item.status, Advance(w, item, failed)
      PROVE  /\ CallsElseRest(w)
             /\ call[w].pc = "acting" /\ UNCHANGED store /\ WorksTo(w, "acting")
             /\ call'[w].item.status \in Settled
  <2>1. call' = [call EXCEPT ![w] = [call[w] EXCEPT !.next = @ + 1, !.item = item, !.failed = failed]]
    BY <1>5, Zenon DEF Advance, Advanced
  <2>2. call[w].pc = "acting" /\ item.status \in Settled
    BY <1>5 DEF Acting, CallAtStage
  <2>. QED BY <1>1, <1>5, <2>1, <2>2 DEF WorksTo, CallsElseRest, Call
<1>6. CASE Skip(w) \/ Execute(w) \/ ExecuteFails(w)
  <2>. DEFINE key == KeyOf(call[w].item, call[w].next)
  <2>1. Acting(w) /\ UNCHANGED store
    BY <1>6 DEF Skip, Execute, ExecuteFails
  <2>2. /\ CallOK(call[w]) /\ call[w].item \in Item /\ call[w].item.class \in Classification
        /\ key \in Key /\ Backed(call[w].item, outbox[call[w].id]) /\ call[w].id \in Ids
    BY <2>1, InLoop
  <2>3. CASE Skip(w)
    <3>1. Entry("action", Nil, key) \in Event
      BY <2>2, EntryTyped DEF EventTypes
    <3>2. Logged(call[w].item, Entry("action", Nil, key)) \in Item
          /\ Logged(call[w].item, Entry("action", Nil, key)).status = call[w].item.status
      BY <2>2, <3>1, LoggedTyped
    <3>. QED BY <1>5, <2>1, <2>3, <3>2, Zenon DEF Skip
  <2>4. CASE ExecuteFails(w)
    <3>1. Entry("error", Nil, key) \in Event
      BY <2>2, EntryTyped DEF EventTypes
    <3>2. Logged(call[w].item, Entry("error", Nil, key)) \in Item
          /\ Logged(call[w].item, Entry("error", Nil, key)).status = call[w].item.status
      BY <2>2, <3>1, LoggedTyped
    <3>. QED BY <1>5, <2>1, <2>4, <3>2, Zenon DEF ExecuteFails
  <2>5. CASE Execute(w)
    <3>1. outbox[call[w].id] \in Seq(Line)
      BY <2>2 DEF IInv, TypeOK
    <3>2. Executed(call[w].item, key) \in Item
          /\ Executed(call[w].item, key).status = call[w].item.status
      BY <2>2, <3>1, ExecutedOK, Zenon
    <3>. QED BY <1>5, <2>1, <2>5, <3>2, Zenon DEF Execute
  <2>. QED BY <1>6, <2>3, <2>4, <2>5
<1>7. CASE PutRouted(w)
  BY <1>1, <1>7 DEF PutRouted, LoopDone, Return, Idle, WorksTo, CallsElseRest
<1>. QED BY <1>2, <1>3, <1>4, <1>6, <1>7, Zenon DEF Step

-----------------------------------------------------------------------------
(* Every action is one worker's; the others stay where they are.           *)
OthersRest(w) ==
  /\ CallsElseRest(w)
  /\ \A v \in Threads \ {w} : /\ stage'[v] = stage[v] /\ batch'[v] = batch[v]
                              /\ left'[v] = left[v] /\ failures'[v] = failures[v]
                              /\ doing'[v] = doing[v]

(* What another worker has to do with a record, it keeps having to do.     *)
LEMMA OpenKept ==
  ASSUME NEW w \in Threads, OthersRest(w), NEW m \in Messages, Open(m),
         state[m] \in {"visible", "dead"} => Open(m)',
         m \in left[w] \/ m \in failures[w] \/ (doing[w] = m /\ ~Finished(w)) => Open(m)'
  PROVE  Open(m)'
<1>1. ASSUME NEW v \in Threads \ {w},
             m \in left[v] \/ m \in failures[v] \/ (doing[v] = m /\ ~Finished(v))
      PROVE  Open(m)'
  BY <1>1 DEF OthersRest, CallsElseRest, Open, Finished, Returned
<1>. QED BY <1>1 DEF Open

(* A worker at its record at the same stage and call keeps acting.         *)
LEMMA ActingKept ==
  ASSUME NEW w \in Threads, OthersRest(w), UNCHANGED kind, NEW id \in Ids, NEW v \in Threads \ {w},
         ActingOn(v, id)
  PROVE  ActingOn(v, id)'
  BY DEF OthersRest, CallsElseRest, ActingOn, Carriers

(* The calls and the batches of the others stay right.                     *)
LEMMA StagesKept ==
  ASSUME NEW w \in Threads, OthersRest(w), UNCHANGED kind,
         \A v \in Threads : CallAtStage(v), CallAtStage(w)'
  PROVE  (\A v \in Threads : CallAtStage(v))'
<1>1. ASSUME NEW v \in Threads \ {w} PROVE CallAtStage(v)'
  BY <1>1 DEF OthersRest, CallsElseRest, CallAtStage
<1>. QED BY <1>1

(* A step that leaves the store alone keeps a ticket driven if it takes    *)
(* nobody off it without settling it.                                      *)
LEMMA DrivenKept ==
  ASSUME NEW id \in Ids, Driven(id), UNCHANGED <<kind, store>>, timedOut \subseteq timedOut',
         \A w \in Threads : ActingOn(w, id) => TimedOut(id)' \/ ActingOn(w, id)',
         \A m \in Carriers(id) : Open(m) =>
           HasSettled(id) \/ Stranded(id)' \/ \E n \in Carriers(id) : Open(n)'
  PROVE  Driven(id)'
<1>1. /\ Carriers(id)' = Carriers(id) /\ HasSettled(id)' = HasSettled(id)
      /\ IsClassified(id)' = IsClassified(id) /\ (TimedOut(id) => TimedOut(id)')
  BY DEF Carriers, HasSettled, IsClassified, TimedOut
<1>2. Stranded(id) => Stranded(id)'
  BY <1>1 DEF Stranded
<1>3. (IsClassified(id) => TimedOut(id) \/ \E w \in Threads : ActingOn(w, id))'
  BY <1>1 DEF Driven
<1>4. (Carriers(id) # {} => HasSettled(id) \/ Stranded(id) \/ \E m \in Carriers(id) : Open(m))'
  BY <1>1, <1>2 DEF Driven
<1>. QED BY <1>3, <1>4 DEF Driven

(* The carriers of a ticket are messages that name it.                     *)
LEMMA CarriersAre ==
  ASSUME NEW id
  PROVE  Carriers(id) \subseteq Messages /\ \A m \in Carriers(id) : TicketOf[m] = id
  BY DEF Carriers

(* Polling: what was visible is in the new batch.                          *)
LEMMA PollGood ==
  ASSUME Good, NEW w \in Threads, Poll(w)
  PROVE  DInv'
<1>1. PICK B \in SUBSET {m \in Messages : state[m] = "visible"} :
        /\ state' = [m \in Messages |-> IF m \in B THEN "hidden" ELSE state[m]]
        /\ batch' = [batch EXCEPT ![w] = B]
        /\ left' = [left EXCEPT ![w] = B]
  BY DEF Poll
<1>2. /\ stage[w] = "waiting" /\ stage' = [stage EXCEPT ![w] = "looping"]
      /\ UNCHANGED <<store, outbox, call, calls, kind, failures, doing, timedOut>>
  BY DEF Poll, vars
<1>3. DeliveryOK /\ BatchesApart /\ (\A v \in Threads : CallAtStage(v)) /\ \A id \in Ids : Driven(id)
  BY DEF Good, DInv
<1>4. OthersRest(w)
  BY <1>1, <1>2, <1>3 DEF OthersRest, CallsElseRest, DeliveryOK
<1>5. (\A v \in Threads : CallAtStage(v))'
  <2>1. CallAtStage(w)'
    BY <1>2, <1>3 DEF CallAtStage, DeliveryOK
  <2>. QED BY <1>2, <1>3, <1>4, <2>1, StagesKept
<1>6. BatchesApart'
  <2>1. \A v \in Threads : batch'[v] = IF v = w THEN B ELSE batch[v]
    BY <1>1, <1>3 DEF DeliveryOK
  <2>2. \A v \in Threads : batch[v] \cap B = {} /\ batch[v] \subseteq Messages
    BY <1>3 DEF BatchesApart, DeliveryOK
  <2>. QED BY <1>1, <1>3, <2>1, <2>2 DEF BatchesApart
<1>7. ASSUME NEW id \in Ids PROVE Driven(id)'
  <2>1. ASSUME NEW m \in Carriers(id), Open(m) PROVE Open(m)'
    <3>1. m \in Messages
      BY CarriersAre
    <3>2. state[m] \in {"visible", "dead"} => Open(m)'
      <4>1. m \in B => Open(m)'
        BY <1>1, <1>3 DEF Open, DeliveryOK
      <4>2. m \notin B /\ state[m] \in {"visible", "dead"} => Open(m)'
        BY <1>1, <3>1 DEF Open
      <4>. QED BY <4>1, <4>2
    <3>3. ~(m \in left[w] \/ m \in failures[w] \/ (doing[w] = m /\ ~Finished(w)))
      BY <1>2, <1>3, <3>1, DeliveryAssumption DEF DeliveryOK
    <3>. QED BY <1>4, <2>1, <3>1, <3>2, <3>3, OpenKept
  <2>2. \A v \in Threads : ActingOn(v, id) => ActingOn(v, id)'
    BY <1>2 DEF ActingOn, Carriers
  <2>. QED BY <1>2, <1>3, <2>1, <2>2, DrivenKept
<1>. QED BY <1>5, <1>6, <1>7 DEF DInv

(* Steps that leave SQS and the batches alone keep them apart.             *)
LEMMA ApartKept ==
  ASSUME BatchesApart, UNCHANGED <<state, batch>>
  PROVE  BatchesApart'
  BY DEF BatchesApart

(* The record the worker begins is no longer left, nobody else's changes.  *)
LEMMA TakenOpen ==
  ASSUME DeliveryOK, NEW w \in Threads, NEW m \in Messages, NEW to, Take(w, m, to),
         OthersRest(w), UNCHANGED state, failures[w] \subseteq failures'[w],
         NEW n \in Messages, n # m, Open(n)
  PROVE  Open(n)'
<1>1. /\ left' = [left EXCEPT ![w] = @ \ {m}] /\ left[w] \subseteq Messages
      /\ stage[w] = "looping" /\ doing[w] = Nil
  BY DEF Take, DeliveryOK
<1>2. n \in left[w] => n \in left'[w]
  BY <1>1 DEF DeliveryOK
<1>3. doing[w] # n
  BY <1>1, DeliveryAssumption
<1>. QED BY <1>2, <1>3, OpenKept, Zenon DEF Open

(* Dropping a record that carries no ticket, or failing to fetch one,      *)
(* takes no carrier away.                                                  *)
LEMMA DropGood ==
  ASSUME Good, NEW w \in Threads, NEW m \in Messages, Drop(w, m) \/ FetchFails(w, m)
  PROVE  DInv'
<1>1. /\ Take(w, m, "looping") /\ UNCHANGED <<store, call, kind, state, batch, doing, timedOut>>
      /\ failures' = failures \/ failures' = [failures EXCEPT ![w] = @ \cup {m}]
  BY DEF Drop, FetchFails, vars, sqs
<1>2. DeliveryOK /\ BatchesApart /\ (\A v \in Threads : CallAtStage(v)) /\ \A id \in Ids : Driven(id)
  BY DEF Good, DInv
<1>3. /\ stage[w] = "looping" /\ stage' = stage /\ failures[w] \subseteq failures'[w]
      /\ left' = [left EXCEPT ![w] = @ \ {m}]
  BY <1>1, <1>2 DEF Take, DeliveryOK
<1>4. OthersRest(w)
  BY <1>1, <1>2, <1>3 DEF OthersRest, CallsElseRest, DeliveryOK
<1>5. (\A v \in Threads : CallAtStage(v))'
  BY <1>1, <1>2, <1>3 DEF CallAtStage
<1>6. BatchesApart'
  BY <1>1, <1>2, ApartKept
<1>7. ASSUME NEW id \in Ids PROVE Driven(id)'
  <2>1. ASSUME NEW n \in Carriers(id), Open(n) PROVE Open(n)'
    <3>1. n \in Messages /\ kind[n] \in {"ticket", "object"}
      BY DEF Carriers
    <3>2. CASE n = m
      <4>1. FetchFails(w, m)
        BY <3>1, <3>2 DEF Drop, FetchFails
      <4>2. m \in failures'[w]
        BY <1>2, <4>1 DEF FetchFails, DeliveryOK
      <4>. QED BY <3>2, <4>2 DEF Open
    <3>3. CASE n # m
      BY <1>1, <1>2, <1>3, <1>4, <2>1, <3>1, <3>3, TakenOpen
    <3>. QED BY <3>2, <3>3
  <2>2. \A v \in Threads : ActingOn(v, id) => ActingOn(v, id)'
    BY <1>1 DEF ActingOn, Carriers
  <2>. QED BY <1>1, <1>2, <2>1, <2>2, DrivenKept
<1>. QED BY <1>5, <1>6, <1>7 DEF DInv

(* A record whose call of Process starts is open, unless Process finds     *)
(* that somebody has settled the ticket, acts on it, or timed out on it.   *)
LEMMA ProcessDrives ==
  ASSUME IInv, DeliveryOK, NEW w \in Threads, NEW m \in Messages, kind[m] \in {"ticket", "object"},
         Driven(TicketOf[m]), call[w].pc = "idle", OthersRest(w), CallProcess(w, TicketOf[m]),
         UNCHANGED <<kind, timedOut>>, doing'[w] = m
  PROVE  \/ HasSettled(TicketOf[m]) \/ Stranded(TicketOf[m])'
         \/ \E n \in Carriers(TicketOf[m]) : Open(n)'
<1>. DEFINE id == TicketOf[m]
<1>1. id \in Ids /\ m \in Carriers(id)
  BY DeliveryAssumption DEF Carriers
<1>2. CASE call'[w].pc # "idle" \/ call'[w].result = "error"
  <2>1. ~Finished(w)'
    BY <1>2 DEF Finished, Returned
  <2>. QED BY <1>1, <2>1 DEF Open
<1>3. CASE store[id] # Nil /\ store[id].status # "received" /\ UNCHANGED store
  <2>1. store[id] \in Item
    BY <1>1, <1>3 DEF IInv, TypeOK
  <2>2. HasSettled(id) \/ IsClassified(id)
    BY <1>3, <2>1 DEF Item, Status, Settled, HasSettled, IsClassified
  <2>3. CASE IsClassified(id) /\ TimedOut(id)
    <3>1. TimedOut(id)'
      BY <2>3 DEF TimedOut, Carriers
    <3>. QED BY <1>3, <2>3, <3>1 DEF Stranded, IsClassified
  <2>4. CASE \E v \in Threads : ActingOn(v, id)
    <3>1. PICK v \in Threads : ActingOn(v, id)
      BY <2>4
    <3>2. v # w /\ call'[v] = call[v] /\ doing'[v] = doing[v] /\ call[v].pc = "acting"
      BY <3>1 DEF ActingOn, OthersRest, CallsElseRest
    <3>3. \A n : n = doing[v] => Open(n)'
      BY <3>2 DEF Open, Finished, Returned
    <3>. QED BY <3>1, <3>3 DEF ActingOn
  <2>. QED BY <2>2, <2>3, <2>4 DEF Driven
<1>. QED BY <1>1, <1>2, <1>3, ProcessEffect

(* A ticket is taken and Process called.                                   *)
LEMMA TakeTicketGood ==
  ASSUME Good, NEW w \in Threads, NEW m \in Messages, TakeTicket(w, m)
  PROVE  DInv'
<1>1. /\ Take(w, m, "processing") /\ doing' = [doing EXCEPT ![w] = m] /\ kind[m] = "ticket"
      /\ CallProcess(w, TicketOf[m]) /\ UNCHANGED <<kind, state, batch, failures, timedOut>>
  BY DEF TakeTicket, sqs
<1>2. /\ IInv /\ DeliveryOK /\ BatchesApart /\ (\A v \in Threads : CallAtStage(v))
      /\ \A id \in Ids : Driven(id)
  BY DEF Good, DInv
<1>3. /\ stage[w] = "looping" /\ stage' = [stage EXCEPT ![w] = "processing"]
      /\ left' = [left EXCEPT ![w] = @ \ {m}] /\ call[w].pc = "idle"
  BY <1>1, <1>2 DEF Take, CallAtStage
<1>4. /\ UNCHANGED store /\ CallsElseRest(w)
      /\ \/ call'[w].pc = "idle"
         \/ /\ call'[w].pc = "classified" /\ call'[w].id = TicketOf[m]
            /\ call'[w].item.status = "classified"
  BY <1>1, <1>2, DeliveryAssumption, ProcessEffect
<1>5. OthersRest(w)
  BY <1>1, <1>2, <1>3, <1>4 DEF OthersRest, DeliveryOK
<1>6. (\A v \in Threads : CallAtStage(v))'
  <2>1. stage'[w] = "processing" /\ doing'[w] = m
    BY <1>1, <1>2, <1>3 DEF DeliveryOK
  <2>2. CallAtStage(w)'
    BY <1>1, <1>4, <2>1 DEF CallAtStage
  <2>. QED BY <1>1, <1>2, <1>5, <2>2, StagesKept
<1>7. BatchesApart'
  BY <1>1, <1>2, ApartKept
<1>8. ASSUME NEW id \in Ids PROVE Driven(id)'
  <2>1. ASSUME NEW n \in Carriers(id), Open(n)
        PROVE  HasSettled(id) \/ Stranded(id)' \/ \E k \in Carriers(id) : Open(k)'
    <3>1. n \in Messages /\ TicketOf[n] = id
      BY CarriersAre
    <3>2. CASE n = m
      <4>1. doing'[w] = m
        BY <1>1, <1>2 DEF DeliveryOK
      <4>. QED BY <1>1, <1>2, <1>3, <1>5, <3>1, <3>2, <4>1, ProcessDrives
    <3>3. CASE n # m
      BY <1>1, <1>2, <1>5, <2>1, <3>1, <3>3, TakenOpen
    <3>. QED BY <3>2, <3>3
  <2>2. ASSUME NEW v \in Threads, ActingOn(v, id) PROVE ActingOn(v, id)'
    <3>1. v # w
      BY <1>3, <2>2 DEF ActingOn
    <3>. QED BY <1>1, <1>5, <2>2, <3>1, ActingKept
  <2>. QED BY <1>1, <1>2, <1>4, <2>1, <2>2, DrivenKept
<1>. QED BY <1>6, <1>7, <1>8 DEF DInv

(* An object is taken and Accept called.                                   *)
LEMMA TakeObjectGood ==
  ASSUME Good, NEW w \in Threads, NEW m \in Messages, TakeObject(w, m)
  PROVE  DInv'
<1>1. /\ Take(w, m, "accepting") /\ doing' = [doing EXCEPT ![w] = m] /\ kind[m] = "object"
      /\ CallAccept(w, TicketOf[m]) /\ UNCHANGED <<kind, state, batch, failures, timedOut>>
  BY DEF TakeObject, sqs
<1>2. /\ IInv /\ DeliveryOK /\ BatchesApart /\ (\A v \in Threads : CallAtStage(v))
      /\ \A id \in Ids : Driven(id)
  BY DEF Good, DInv
<1>3. /\ stage[w] = "looping" /\ stage' = [stage EXCEPT ![w] = "accepting"]
      /\ left' = [left EXCEPT ![w] = @ \ {m}] /\ call[w].pc = "idle"
  BY <1>1, <1>2 DEF Take, CallAtStage
<1>4. /\ UNCHANGED store /\ CallsElseRest(w)
      /\ \/ call'[w].pc = "idle"
         \/ /\ call'[w].pc = "accepting" /\ call'[w].id = TicketOf[m]
            /\ call'[w].item.status = "received"
  BY <1>1, <1>2, DeliveryAssumption, AcceptEffect
<1>5. OthersRest(w)
  BY <1>1, <1>2, <1>3, <1>4 DEF OthersRest, DeliveryOK
<1>6. stage'[w] = "accepting" /\ doing'[w] = m
  BY <1>1, <1>2, <1>3 DEF DeliveryOK
<1>7. (\A v \in Threads : CallAtStage(v))'
  <2>1. CallAtStage(w)'
    BY <1>1, <1>4, <1>6 DEF CallAtStage
  <2>. QED BY <1>1, <1>2, <1>5, <2>1, StagesKept
<1>8. BatchesApart'
  BY <1>1, <1>2, ApartKept
<1>9. ASSUME NEW id \in Ids PROVE Driven(id)'
  <2>1. ASSUME NEW n \in Carriers(id), Open(n) PROVE Open(n)'
    <3>1. n \in Messages
      BY CarriersAre
    <3>2. CASE n = m
      BY <1>6, <3>2 DEF Open, Finished, Returned
    <3>3. CASE n # m
      BY <1>1, <1>2, <1>5, <2>1, <3>1, <3>3, TakenOpen
    <3>. QED BY <3>2, <3>3
  <2>2. ASSUME NEW v \in Threads, ActingOn(v, id) PROVE ActingOn(v, id)'
    <3>1. v # w
      BY <1>3, <2>2 DEF ActingOn
    <3>. QED BY <1>1, <1>5, <2>2, <3>1, ActingKept
  <2>. QED BY <1>1, <1>2, <1>4, <2>1, <2>2, DrivenKept
<1>. QED BY <1>7, <1>8, <1>9 DEF DInv

(* Process is called after Accept, the item new or a duplicate.            *)
LEMMA AcceptedGood ==
  ASSUME Good, NEW w \in Threads, Accepted(w)
  PROVE  DInv'
<1>1. /\ stage[w] = "accepting" /\ call[w].pc = "idle" /\ stage' = [stage EXCEPT ![w] = "processing"]
      /\ CallProcess(w, TicketOf[doing[w]])
      /\ UNCHANGED <<kind, state, batch, left, failures, doing, timedOut>>
  BY DEF Accepted, Returned, sqs
<1>2. /\ IInv /\ DeliveryOK /\ BatchesApart /\ (\A v \in Threads : CallAtStage(v))
      /\ \A id \in Ids : Driven(id)
  BY DEF Good, DInv
<1>3. /\ doing[w] \in Messages /\ kind[doing[w]] \in {"ticket", "object"}
      /\ TicketOf[doing[w]] \in Ids
  BY <1>1, <1>2, DeliveryAssumption DEF DeliveryOK, CallAtStage
<1>4. /\ UNCHANGED store /\ CallsElseRest(w)
      /\ \/ call'[w].pc = "idle"
         \/ /\ call'[w].pc = "classified" /\ call'[w].id = TicketOf[doing[w]]
            /\ call'[w].item.status = "classified"
  BY <1>1, <1>2, <1>3, ProcessEffect
<1>5. OthersRest(w)
  BY <1>1, <1>2, <1>4 DEF OthersRest, DeliveryOK
<1>6. (\A v \in Threads : CallAtStage(v))'
  <2>1. stage'[w] = "processing"
    BY <1>1, <1>2 DEF DeliveryOK
  <2>2. CallAtStage(w)'
    BY <1>1, <1>3, <1>4, <2>1 DEF CallAtStage
  <2>. QED BY <1>1, <1>2, <1>5, <2>2, StagesKept
<1>7. BatchesApart'
  BY <1>1, <1>2, ApartKept
<1>8. ASSUME NEW id \in Ids PROVE Driven(id)'
  <2>1. ASSUME NEW n \in Carriers(id), Open(n)
        PROVE  HasSettled(id) \/ Stranded(id)' \/ \E k \in Carriers(id) : Open(k)'
    <3>1. n \in Messages /\ TicketOf[n] = id
      BY CarriersAre
    <3>2. CASE n = doing[w]
      BY <1>1, <1>2, <1>3, <1>5, <3>1, <3>2, ProcessDrives
    <3>3. CASE n # doing[w]
      <4>1. state[n] \in {"visible", "dead"} => Open(n)'
        BY <1>1 DEF Open
      <4>2. n \in left[w] \/ n \in failures[w] => Open(n)'
        BY <1>1 DEF Open
      <4>. QED BY <1>5, <2>1, <3>1, <3>3, <4>1, <4>2, OpenKept
    <3>. QED BY <3>2, <3>3
  <2>2. ASSUME NEW v \in Threads, ActingOn(v, id) PROVE ActingOn(v, id)'
    <3>1. v # w
      BY <1>1, <2>2 DEF ActingOn
    <3>. QED BY <1>1, <1>5, <2>2, <3>1, ActingKept
  <2>. QED BY <1>1, <1>2, <1>4, <2>1, <2>2, DrivenKept
<1>. QED BY <1>6, <1>7, <1>8 DEF DInv

(* A record that succeeds was no longer open; one that fails stays so.     *)
LEMMA RecordGood ==
  ASSUME Good, NEW w \in Threads, Succeeds(w) \/ Fails(w)
  PROVE  DInv'
<1>1. /\ stage[w] \in {"accepting", "processing"} /\ call[w].pc = "idle"
      /\ stage' = [stage EXCEPT ![w] = "looping"] /\ doing' = [doing EXCEPT ![w] = Nil]
      /\ UNCHANGED <<store, call, kind, state, batch, left, timedOut>>
      /\ \/ Finished(w) /\ failures' = [failures EXCEPT ![w] = @ \cup {}]
         \/ failures' = [failures EXCEPT ![w] = @ \cup {doing[w]}]
  BY DEF Succeeds, Fails, RecordEnds, Finished, Returned, vars, sqs
<1>2. /\ DeliveryOK /\ BatchesApart /\ (\A v \in Threads : CallAtStage(v))
      /\ \A id \in Ids : Driven(id)
  BY DEF Good, DInv
<1>3. OthersRest(w)
  BY <1>1, <1>2 DEF OthersRest, CallsElseRest, DeliveryOK
<1>4. (\A v \in Threads : CallAtStage(v))'
  <2>1. stage'[w] = "looping"
    BY <1>1, <1>2 DEF DeliveryOK
  <2>2. CallAtStage(w)'
    BY <1>1, <2>1 DEF CallAtStage
  <2>. QED BY <1>1, <1>2, <1>3, <2>2, StagesKept
<1>5. BatchesApart'
  BY <1>1, <1>2, ApartKept
<1>6. failures[w] \subseteq failures'[w] /\ (Finished(w) \/ doing[w] \in failures'[w])
  BY <1>1, <1>2 DEF DeliveryOK
<1>7. ASSUME NEW id \in Ids PROVE Driven(id)'
  <2>1. ASSUME NEW n \in Carriers(id), Open(n) PROVE Open(n)'
    <3>1. n \in Messages
      BY CarriersAre
    <3>2. state[n] \in {"visible", "dead"} \/ n \in left[w] => Open(n)'
      BY <1>1 DEF Open
    <3>3. n \in failures[w] \/ (doing[w] = n /\ ~Finished(w)) => Open(n)'
      BY <1>6 DEF Open
    <3>. QED BY <1>3, <2>1, <3>1, <3>2, <3>3, OpenKept
  <2>2. ASSUME NEW v \in Threads, ActingOn(v, id) PROVE ActingOn(v, id)'
    <3>1. v # w
      BY <1>1, <2>2 DEF ActingOn
    <3>. QED BY <1>1, <1>3, <2>2, <3>1, ActingKept
  <2>. QED BY <1>1, <1>2, <2>1, <2>2, DrivenKept
<1>. QED BY <1>4, <1>5, <1>7 DEF DInv

(* An invocation that ends hands back what has failed: it stays open, and  *)
(* the other batches are not touched.                                      *)
LEMMA EndsGood ==
  ASSUME Good, NEW w \in Threads, NEW failed \in SUBSET batch[w],
         InvocationEnds(w, failed), OthersRest(w), UNCHANGED store, timedOut \subseteq timedOut',
         call'[w].pc = "idle",
         left[w] \cup failures[w] \subseteq failed,
         stage[w] \in {"accepting", "processing"} => doing[w] \in failed \cap timedOut'
  PROVE  DInv'
<1>1. /\ DeliveryOK /\ BatchesApart /\ (\A v \in Threads : CallAtStage(v))
      /\ \A id \in Ids : Driven(id)
  BY DEF Good, DInv
<1>2. /\ stage'[w] = "waiting" /\ batch'[w] = {} /\ UNCHANGED kind
      /\ \A m \in failed : state'[m] \in {"visible", "dead"}
      /\ \A m \in Messages \ batch[w] : state'[m] = state[m]
  <2>1. failed \subseteq Messages /\ batch[w] \subseteq Messages
    BY <1>1 DEF DeliveryOK
  <2>2. \A m \in failed : state'[m] = IF receives[m] < MaxReceives THEN "visible" ELSE "dead"
    BY <2>1 DEF InvocationEnds
  <2>3. \A m \in Messages \ batch[w] : state'[m] = state[m]
    BY <2>1 DEF InvocationEnds
  <2>. QED BY <1>1, <2>2, <2>3 DEF InvocationEnds, DeliveryOK
<1>3. (\A v \in Threads : CallAtStage(v))'
  <2>1. CallAtStage(w)'
    BY <1>2 DEF CallAtStage
  <2>. QED BY <1>1, <1>2, <2>1, StagesKept
<1>4. BatchesApart'
  <2>1. \A v \in Threads \ {w} : batch'[v] = batch[v] /\ batch[v] \subseteq Messages \ batch[w]
    BY <1>1 DEF OthersRest, BatchesApart, DeliveryOK
  <2>. QED BY <1>1, <1>2, <2>1 DEF BatchesApart
<1>5. ASSUME NEW id \in Ids PROVE Driven(id)'
  <2>1. ASSUME NEW n \in Carriers(id), Open(n) PROVE Open(n)'
    <3>1. n \in Messages
      BY CarriersAre
    <3>2. n \in failed => Open(n)'
      BY <1>2 DEF Open
    <3>3. state[n] \in {"visible", "dead"} => Open(n)'
      <4>1. state[n] \in {"visible", "dead"} => n \notin batch[w]
        BY <1>1 DEF BatchesApart
      <4>. QED BY <1>2, <3>1, <4>1 DEF Open
    <3>4. n \in left[w] \/ n \in failures[w] \/ (doing[w] = n /\ ~Finished(w)) => Open(n)'
      <4>1. doing[w] = n => stage[w] \in {"accepting", "processing"}
        BY <1>1, <3>1, DeliveryAssumption DEF DeliveryOK
      <4>. QED BY <3>2, <4>1
    <3>. QED BY <2>1, <3>1, <3>3, <3>4, OpenKept
  <2>2. ASSUME NEW v \in Threads, ActingOn(v, id) PROVE TimedOut(id)' \/ ActingOn(v, id)'
    <3>1. CASE v = w
      <4>1. stage[w] \in {"accepting", "processing"} /\ doing[w] \in Carriers(id)
        BY <1>1, <2>2, <3>1 DEF ActingOn, CallAtStage, DeliveryOK, Stages
      <4>2. doing[w] \in Carriers(id) \cap timedOut'
        BY <4>1
      <4>3. Carriers(id)' = Carriers(id)
        BY <1>2 DEF Carriers
      <4>. QED BY <4>2, <4>3 DEF TimedOut
    <3>2. CASE v # w
      BY <1>2, <2>2, <3>2, ActingKept
    <3>. QED BY <3>1, <3>2
  <2>. QED BY <1>1, <1>2, <2>1, <2>2, DrivenKept
<1>. QED BY <1>3, <1>4, <1>5 DEF DInv

(* The answer of an invocation hands back what failed.                     *)
LEMMA RespondGood ==
  ASSUME Good, NEW w \in Threads, Respond(w)
  PROVE  DInv'
<1>1. /\ stage[w] = "looping" /\ left[w] = {} /\ InvocationEnds(w, failures[w])
      /\ UNCHANGED <<store, call, timedOut>>
  BY DEF Respond, vars
<1>2. DeliveryOK /\ CallAtStage(w)
  BY DEF Good, DInv
<1>3. OthersRest(w)
  BY <1>1, <1>2 DEF OthersRest, CallsElseRest, InvocationEnds, DeliveryOK
<1>4. failures[w] \subseteq batch[w] /\ call'[w].pc = "idle"
  BY <1>1, <1>2 DEF DeliveryOK, CallAtStage
<1>. QED BY <1>1, <1>3, <1>4, EndsGood

(* A timeout hands back the whole batch.                                   *)
LEMMA TimesOutGood ==
  ASSUME Good, NEW w \in Threads, TimesOut(w)
  PROVE  DInv'
<1>1. /\ InvocationEnds(w, batch[w]) /\ timedOut' = timedOut \cup batch[w]
      /\ Crash(ProcOf[w]) \/ (call[w].pc = "idle" /\ UNCHANGED vars)
  BY DEF TimesOut
<1>2. DeliveryOK /\ call \in [Threads -> Call]
  BY DEF Good, IInv, TypeOK
<1>3. UNCHANGED store /\ CallsElseRest(w) /\ call'[w].pc = "idle"
  <2>1. CASE Crash(ProcOf[w])
    <3>1. \A v \in Threads : call'[v] = IF ProcOf[v] = ProcOf[w] THEN Idle("none") ELSE call[v]
      BY <2>1 DEF Crash
    <3>. QED BY <2>1, <3>1, DeliveryAssumption DEF Crash, CallsElseRest, Idle
  <2>2. CASE call[w].pc = "idle" /\ UNCHANGED vars
    BY <2>2 DEF vars, CallsElseRest
  <2>. QED BY <1>1, <2>1, <2>2
<1>4. OthersRest(w)
  BY <1>1, <1>2, <1>3 DEF OthersRest, InvocationEnds, DeliveryOK
<1>5. /\ left[w] \cup failures[w] \subseteq batch[w]
      /\ stage[w] \in {"accepting", "processing"} => doing[w] \in batch[w] \cap timedOut'
  BY <1>1, <1>2 DEF DeliveryOK
<1>. QED BY <1>1, <1>3, <1>4, <1>5, EndsGood

(* The service's own steps: a worker's write concerns its ticket only, and *)
(* it goes on with it until the ticket is settled.                         *)
LEMMA WorksGood ==
  ASSUME Good, NoLostWrites, NEW w \in Threads, Works(w)
  PROVE  DInv'
<1>. DEFINE i == TicketOf[doing[w]]
<1>1. Step(w) /\ UNCHANGED <<kind, state, timedOut, stage, batch, left, failures, doing>>
  BY DEF Works, sqs, loop
<1>2. /\ IInv /\ DeliveryOK /\ BatchesApart /\ (\A v \in Threads : CallAtStage(v))
      /\ \A id \in Ids : Driven(id)
  BY DEF Good, DInv
<1>3. /\ CallsElseRest(w)
      /\ \/ call[w].pc = "accepting" /\ Written(w) /\ WorksTo(w, "idle")
         \/ /\ call[w].pc = "classified" /\ Written(w) /\ WorksTo(w, "acting")
            /\ call'[w].item.status \in Settled
         \/ /\ call[w].pc = "acting" /\ UNCHANGED store /\ WorksTo(w, "acting")
            /\ call'[w].item.status \in Settled
         \/ call[w].pc = "acting" /\ Written(w) /\ WorksTo(w, "idle")
  BY <1>1, <1>2, WorkEffect
<1>4. OthersRest(w)
  BY <1>1, <1>3 DEF OthersRest
<1>5. /\ call[w].pc # "idle" /\ call[w].id = i
      /\ stage[w] = IF call[w].pc = "accepting" THEN "accepting" ELSE "processing"
      /\ doing[w] \in Messages /\ kind[doing[w]] \in {"ticket", "object"}
  BY <1>2, <1>3 DEF CallAtStage, DeliveryOK, Stages
<1>6. i \in Ids /\ doing[w] \in Carriers(i)
  BY <1>5, DeliveryAssumption DEF Carriers
<1>7. store \in [Ids -> Item \cup {Nil}] /\ call[w].item \in Item /\ call[w].item # Nil
  BY <1>2, <1>5, NilDistinct DEF IInv, TypeOK, CallOK
<1>8. Written(w) => store'[i] = call[w].item /\ \A id \in Ids \ {i} : store'[id] = store[id]
  BY <1>5, <1>6, <1>7 DEF Written
<1>9. (\A v \in Threads : CallAtStage(v))'
  <2>1. CallAtStage(w)'
    BY <1>1, <1>3, <1>5 DEF CallAtStage, WorksTo
  <2>. QED BY <1>1, <1>2, <1>4, <2>1, StagesKept
<1>10. BatchesApart'
  BY <1>1, <1>2, ApartKept
<1>. HIDE DEF i
<1>11. \A id \in Ids : Carriers(id)' = Carriers(id)
  BY <1>1 DEF Carriers
<1>12. ASSUME NEW id \in Ids, store'[id] = store[id], id = i => UNCHANGED store /\ call[w].pc = "acting" /\ call'[w].pc = "acting"
       PROVE  Driven(id)'
  <2>1. /\ HasSettled(id)' = HasSettled(id) /\ Stranded(id)' = Stranded(id)
        /\ IsClassified(id)' = IsClassified(id) /\ TimedOut(id)' = TimedOut(id)
    BY <1>1, <1>11, <1>12 DEF HasSettled, Stranded, IsClassified, TimedOut
  <2>2. ASSUME NEW v \in Threads, ActingOn(v, id) PROVE ActingOn(v, id)'
    <3>1. CASE v = w
      <4>1. TicketOf[doing[w]] = id
        BY <2>2, <3>1, CarriersAre DEF ActingOn
      <4>. QED BY <1>1, <1>11, <1>12, <2>2, <3>1, <4>1 DEF ActingOn, i
    <3>2. CASE v # w
      BY <1>1, <1>4, <2>2, <3>2, ActingKept
    <3>. QED BY <3>1, <3>2
  <2>3. ASSUME NEW n \in Carriers(id), Open(n) PROVE Open(n)'
    <3>1. n \in Messages /\ TicketOf[n] = id
      BY CarriersAre
    <3>2. state[n] \in {"visible", "dead"} \/ n \in left[w] \/ n \in failures[w] => Open(n)'
      BY <1>1 DEF Open
    <3>3. doing[w] = n => Open(n)'
      <4>1. doing[w] = n => call'[w].pc = "acting"
        BY <1>12, <3>1 DEF i
      <4>. QED BY <1>1, <4>1 DEF Open, Finished, Returned
    <3>. QED BY <1>4, <2>3, <3>1, <3>2, <3>3, OpenKept
  <2>4. Driven(id)
    BY <1>2
  <2>. QED BY <1>11, <2>1, <2>2, <2>3, <2>4, Zenon DEF Driven
<1>13. ASSUME NEW id \in Ids, id = i, Written(w) PROVE Driven(id)'
  <2>1. HasSettled(id)' <=> call[w].item.status \in Settled
    BY <1>6, <1>7, <1>8, <1>13 DEF HasSettled
  <2>2. IsClassified(id)' <=> call[w].item.status = "classified"
    BY <1>6, <1>7, <1>8, <1>13 DEF IsClassified
  <2>3. CASE call[w].pc = "accepting"
    <3>1. call[w].item.status = "received"
      BY <1>2, <2>3 DEF CallAtStage
    <3>2. \A n : n = doing[w] => Open(n)'
      BY <1>1, <1>5, <2>3 DEF Open, Finished, Returned
    <3>. QED BY <1>6, <1>11, <1>13, <2>2, <3>1, <3>2 DEF Driven
  <2>4. CASE call[w].pc = "classified"
    <3>1. call'[w].pc = "acting"
      BY <1>3, <1>13, <2>4 DEF WorksTo
    <3>2. ActingOn(w, id)'
      BY <1>1, <1>6, <1>11, <1>13, <3>1 DEF ActingOn
    <3>3. \A n : n = doing[w] => Open(n)'
      BY <1>1, <3>1 DEF Open, Finished, Returned
    <3>. QED BY <1>6, <1>11, <1>13, <3>2, <3>3 DEF Driven
  <2>5. CASE call[w].pc = "acting"
    <3>1. call[w].item.status \in Settled
      BY <1>2, <2>5 DEF CallAtStage
    <3>2. HasSettled(id)' /\ ~IsClassified(id)'
      BY <2>1, <2>2, <3>1 DEF Settled
    <3>. QED BY <3>2 DEF Driven
  <2>. QED BY <1>3, <2>3, <2>4, <2>5
<1>14. ASSUME NEW id \in Ids PROVE Driven(id)'
  <2>1. CASE Written(w) /\ id = i
    BY <1>13, <2>1
  <2>2. CASE Written(w) /\ id # i
    BY <1>8, <1>12, <2>2
  <2>3. CASE UNCHANGED store /\ call[w].pc = "acting" /\ call'[w].pc = "acting"
    BY <1>12, <2>3
  <2>. QED BY <1>3, <2>1, <2>2, <2>3 DEF WorksTo
<1>. QED BY <1>9, <1>10, <1>14 DEF DInv

(* At first every message is visible and nothing is stored.                *)
LEMMA DInvInit == DeliveryInit => DInv
<1>. SUFFICES ASSUME DeliveryInit PROVE DInv
  OBVIOUS
<1>1. \A w \in Threads : CallAtStage(w)
  BY DEF DeliveryInit, Init, Idle, CallAtStage
<1>2. BatchesApart
  BY DEF DeliveryInit, BatchesApart
<1>3. ASSUME NEW id \in Ids PROVE Driven(id)
  <2>1. ~IsClassified(id)
    BY DEF DeliveryInit, Init, IsClassified
  <2>2. \A m \in Carriers(id) : Open(m)
    BY CarriersAre DEF DeliveryInit, Open
  <2>. QED BY <2>1, <2>2 DEF Driven
<1>. QED BY <1>1, <1>2, <1>3 DEF DInv

(* Every step keeps every ticket driven: one lemma per kind of action.     *)
LEMMA DInvStep ==
  ASSUME NoLostWrites
  PROVE  DeliveryOK /\ IInv /\ DInv /\ [DeliveryNext]_all => DInv'
<1>. SUFFICES ASSUME Good, [DeliveryNext]_all PROVE DInv'
  BY DEF Good
<1>1. ASSUME NEW w \in Threads, Runs(w) PROVE DInv'
  <2>1. ASSUME NEW m \in Messages,
               Drop(w, m) \/ FetchFails(w, m) \/ TakeTicket(w, m) \/ TakeObject(w, m)
        PROVE  DInv'
    BY <2>1, DropGood, TakeTicketGood, TakeObjectGood
  <2>. QED BY <1>1, <2>1, AcceptedGood, RecordGood, RespondGood, WorksGood DEF Runs
<1>2. ASSUME NEW w \in Threads, Poll(w) \/ TimesOut(w) PROVE DInv'
  BY <1>2, PollGood, TimesOutGood
<1>3. CASE UNCHANGED all
  <2>1. UNCHANGED <<store, call, kind, state, timedOut, stage, batch, left, failures, doing>>
    BY <1>3 DEF all, vars, sqs, loop
  <2>2. DInv
    BY DEF Good
  <2>. QED BY <2>1, <2>2 DEF DInv, CallAtStage, BatchesApart, Driven, IsClassified, TimedOut,
                             ActingOn, Carriers, HasSettled, Stranded, Open, Finished, Returned
<1>. QED BY <1>1, <1>2, <1>3 DEF DeliveryNext

(* What SQS was told to forget is settled, or a worker is at it, or a      *)
(* timeout stranded it, if no write of the store fails (handlers.go:69-78, *)
(* :102, :120-129): for any number of workers, records, receives and       *)
(* timeouts.                                                               *)
THEOREM NothingUnsettledIsForgotten ==
  ASSUME NoLostWrites
  PROVE  DeliverySpec => []ForgottenIsSettled
<1>1. DeliveryOK /\ DInv => ForgottenIsSettled
  <2>. SUFFICES ASSUME DeliveryOK, DInv, NEW id \in Ids, AllCarriersAre(id, "deleted"),
                       ~HasSettled(id), ~Stranded(id)
               PROVE  \E w \in Threads : doing[w] \in Carriers(id)
    BY DEF ForgottenIsSettled
  <2>1. PICK m \in Carriers(id) : Open(m)
    BY DEF DInv, Driven, AllCarriersAre
  <2>2. m \in Messages /\ state[m] = "deleted"
    BY CarriersAre DEF AllCarriersAre
  <2>3. \A w \in Threads : m \notin left[w] /\ m \notin failures[w]
    BY <2>2 DEF DInv, BatchesApart, DeliveryOK
  <2>. QED BY <2>1, <2>2, <2>3 DEF Open
<1>2. DeliveryInit => DInv
  BY DInvInit
<1>3. DeliveryOK /\ IInv /\ DInv /\ [DeliveryNext]_all => DInv'
  BY DInvStep
<1>. QED BY <1>1, <1>2, <1>3, DeliveryTypeCorrect, WorkersImplementService, Inductive, PTL
         DEF DeliverySpec

-----------------------------------------------------------------------------
(* Only what failed is dead-lettered.  That a ticket was settled is not    *)
(* enough: the invariant says which of its records is the one that will be *)
(* acknowledged for it, and that a call which will report a failure has it *)
(* in the trail of its copy.                                               *)

FailedAction(item) == \E e \in Range(item.events) : e.type = "error" /\ e.key # Nil

(* A call reports a failure only of an action its copy's trail records; a  *)
(* record the worker is at has not failed yet.                             *)
Honest(w) ==
  /\ call[w].failed => call[w].pc = "acting" /\ FailedAction(call[w].item)
  /\ doing[w] \notin failures[w]

(* The record has been begun and has not failed, and if the worker is at   *)
(* it, its call has succeeded.                                             *)
Cleared(w, m) ==
  /\ m \in batch[w] /\ m \notin left[w] /\ m \notin failures[w]
  /\ doing[w] = m => Finished(w)

Acknowledged(m) == state[m] = "deleted" \/ \E w \in Threads : Cleared(w, m)

Answered(id) ==
  HasSettled(id) /\ ~TimedOut(id) =>
    FailedAction(store[id]) \/ \E m \in Carriers(id) : Acknowledged(m)

AInv == /\ \A w \in Threads : Honest(w)
        /\ \A id \in Ids : Answered(id)

Sound == Good /\ AInv

(* A trail that grows keeps the failures it records (store.go:96-99).      *)
LEMMA FailureKept ==
  ASSUME NEW item \in Item, NEW it \in Item, NEW e \in Event,
         it.events = Append(item.events, e)
  PROVE  /\ FailedAction(item) => FailedAction(it)
         /\ e.type = "error" /\ e.key # Nil => FailedAction(it)
<1>1. item.events \in Seq(Event)
  BY DEF Item
<1>2. Range(item.events) \subseteq Range(it.events) /\ e \in Range(it.events)
  BY <1>1, RangeAppend, Zenon
<1>. QED BY <1>2, Zenon DEF FailedAction

(* A call that starts has met no failure.                                  *)
LEMMA StartsClean ==
  ASSUME IInv, NEW w \in Threads, NEW id, CallAccept(w, id) \/ CallProcess(w, id)
  PROVE  ~call'[w].failed
<1>1. call \in [Threads -> Call]
  BY DEF IInv, TypeOK
<1>. QED BY <1>1 DEF CallAccept, CallProcess, GetFails, Accept, ProcessIgnored, Process,
                     Refuse, Begin, Idle

(* A turn of the loop over the actions: the copy gets an entry, and the    *)
(* call is failed only if it was or the entry says so.                     *)
LEMMA TurnHonest ==
  ASSUME IInv, NEW w \in Threads, Honest(w), call[w].pc = "acting",
         NEW item \in Item, NEW e \in Event, item.events = Append(call[w].item.events, e),
         NEW failed \in BOOLEAN, failed => call[w].failed \/ (e.type = "error" /\ e.key # Nil),
         Advance(w, item, failed)
  PROVE  call'[w].failed => call'[w].pc = "acting" /\ FailedAction(call'[w].item)
<1>1. call \in [Threads -> Call] /\ CallOK(call[w])
  BY DEF IInv, TypeOK
<1>2. call' = [call EXCEPT ![w] = [call[w] EXCEPT !.next = @ + 1, !.item = item, !.failed = failed]]
  BY Zenon DEF Advance, Advanced
<1>3. call'[w].pc = "acting" /\ call'[w].item = item /\ call'[w].failed = failed
  BY <1>1, <1>2 DEF Call
<1>4. call[w].item \in Item
  BY <1>1 DEF CallOK
<1>5. FailedAction(call[w].item) => FailedAction(item)
  BY <1>4, FailureKept
<1>6. e.type = "error" /\ e.key # Nil => FailedAction(item)
  BY <1>4, FailureKept
<1>. QED BY <1>3, <1>5, <1>6 DEF Honest

(* A call that ends with its last write reports success unless its copy    *)
(* records a failure (pipeline.go:293-316).                                *)
LEMMA WorkHonest ==
  ASSUME IInv, NoLostWrites, NEW w \in Threads, Honest(w), Step(w)
  PROVE  /\ call'[w].failed => call'[w].pc = "acting" /\ FailedAction(call'[w].item)
         /\ call[w].pc = "acting" /\ call'[w].pc = "idle" =>
              call'[w].result # "error" \/ FailedAction(call[w].item)
<1>1. call \in [Threads -> Call] /\ CallOK(call[w])
  BY DEF IInv, TypeOK
<1>2. CASE PutFails(w)
  BY <1>2 DEF PutFails, NoLostWrites
<1>3. CASE PutAccepted(w)
  BY <1>1, <1>3 DEF PutAccepted, Return, Idle
<1>4. CASE PutClassified(w)
  <2>. DEFINE item == Routed(call[w].item)
  <2>1. call[w].pc = "classified"
        /\ call' = [call EXCEPT ![w] = [call[w] EXCEPT !.pc = "acting", !.item = item]]
    BY <1>4, Zenon DEF PutClassified
  <2>2. ~call[w].failed
    BY <2>1 DEF Honest
  <2>. HIDE DEF item
  <2>3. ~call'[w].failed /\ call'[w].pc = "acting"
    BY <1>1, <2>1, <2>2 DEF Call
  <2>. QED BY <2>3
<1>5. CASE Skip(w) \/ Execute(w) \/ ExecuteFails(w)
  <2>. DEFINE key == KeyOf(call[w].item, call[w].next)
              did == Entry("action", call[w].item.class, key)
              skipped == Entry("action", Nil, key)
              error == Entry("error", Nil, key)
  <2>1. Acting(w)
    BY <1>5 DEF Skip, Execute, ExecuteFails
  <2>2. /\ call[w].pc = "acting" /\ call[w].item \in Item /\ call[w].item.class \in Classification
        /\ key \in Key /\ Backed(call[w].item, outbox[call[w].id]) /\ call[w].id \in Ids
        /\ call[w].failed \in BOOLEAN
    BY <2>1, InLoop
  <2>3. did \in Event /\ skipped \in Event /\ error \in Event
    BY <2>2, EntryTyped DEF EventTypes
  <2>4. error.type = "error" /\ error.key # Nil
    BY <2>2, NilDistinct DEF Entry
  <2>5. call'[w].failed => call'[w].pc = "acting" /\ FailedAction(call'[w].item)
    <3>1. CASE Skip(w)
      <4>1. Advance(w, Logged(call[w].item, skipped), call[w].failed)
        BY <3>1, Zenon DEF Skip
      <4>2. /\ Logged(call[w].item, skipped) \in Item
            /\ Logged(call[w].item, skipped).events = Append(call[w].item.events, skipped)
        BY <2>2, <2>3, LoggedTyped
      <4>. HIDE DEF skipped
      <4>. QED BY <2>2, <2>3, <4>1, <4>2, TurnHonest
    <3>2. CASE ExecuteFails(w)
      <4>1. Advance(w, Logged(call[w].item, error), TRUE)
        BY <3>2, Zenon DEF ExecuteFails
      <4>2. /\ Logged(call[w].item, error) \in Item
            /\ Logged(call[w].item, error).events = Append(call[w].item.events, error)
        BY <2>2, <2>3, LoggedTyped
      <4>. HIDE DEF error
      <4>. QED BY <2>2, <2>3, <2>4, <4>1, <4>2, TurnHonest
    <3>3. CASE Execute(w)
      <4>1. Advance(w, Executed(call[w].item, key), call[w].failed)
        BY <3>3, Zenon DEF Execute
      <4>2. outbox[call[w].id] \in Seq(Line)
        BY <2>2 DEF IInv, TypeOK
      <4>3. Executed(call[w].item, key) \in Item
        BY <2>2, <4>2, ExecutedOK, Zenon
      <4>4. Executed(call[w].item, key).events = Append(call[w].item.events, did)
        BY <2>2, <2>3, LoggedTyped DEF Executed, Item
      <4>. HIDE DEF did, key
      <4>. QED BY <2>2, <2>3, <4>1, <4>3, <4>4, TurnHonest
    <3>. QED BY <1>5, <3>1, <3>2, <3>3
  <2>6. call'[w].pc = "acting"
    <3>1. \E item, failed : Advance(w, item, failed)
      BY <1>5, Zenon DEF Skip, Execute, ExecuteFails
    <3>2. PICK item, failed : Advance(w, item, failed)
      BY <3>1
    <3>. QED BY <1>1, <2>2, <3>2 DEF Advance, Advanced, Call
  <2>. QED BY <2>5, <2>6
<1>6. CASE PutRouted(w)
  <2>1. call' = [call EXCEPT ![w] = Idle(IF call[w].failed THEN "error" ELSE "ok")]
    BY <1>6 DEF PutRouted, Return
  <2>2. call'[w] = Idle(IF call[w].failed THEN "error" ELSE "ok")
    BY <1>1, <2>1
  <2>. QED BY <2>2 DEF Idle, Honest
<1>. QED BY <1>2, <1>3, <1>4, <1>5, <1>6, Zenon DEF Step

(* The calls and records of the others stay honest.                        *)
LEMMA HonestKept ==
  ASSUME NEW w \in Threads, OthersRest(w), \A v \in Threads : Honest(v), Honest(w)'
  PROVE  (\A v \in Threads : Honest(v))'
<1>1. ASSUME NEW v \in Threads \ {w} PROVE Honest(v)'
  BY <1>1 DEF OthersRest, CallsElseRest, Honest
<1>. QED BY <1>1

(* A step that leaves the store alone keeps a ticket answered for if it    *)
(* takes nobody's acknowledgement away.                                    *)
LEMMA AnsweredKept ==
  ASSUME NEW w \in Threads, OthersRest(w), NEW id \in Ids, Answered(id),
         kind' = kind, store'[id] = store[id], timedOut \subseteq timedOut',
         \A m \in Carriers(id) : state[m] = "deleted" => state'[m] = "deleted",
         \A m \in Carriers(id) : Cleared(w, m) => TimedOut(id)' \/ Acknowledged(m)'
  PROVE  Answered(id)'
<1>1. /\ Carriers(id)' = Carriers(id) /\ HasSettled(id)' = HasSettled(id)
      /\ TimedOut(id) => TimedOut(id)'
  BY DEF Carriers, HasSettled, TimedOut
<1>2. FailedAction(store[id])' <=> FailedAction(store[id])
  BY DEF FailedAction
<1>3. ASSUME NEW m \in Carriers(id), Acknowledged(m) PROVE TimedOut(id)' \/ Acknowledged(m)'
  <2>1. CASE state[m] = "deleted"
    BY <2>1 DEF Acknowledged
  <2>2. ASSUME NEW v \in Threads \ {w}, Cleared(v, m) PROVE Acknowledged(m)'
    <3>1. Cleared(v, m)'
      BY <2>2 DEF OthersRest, CallsElseRest, Cleared, Finished, Returned
    <3>. QED BY <3>1 DEF Acknowledged
  <2>. QED BY <1>3, <2>1, <2>2 DEF Acknowledged
<1>. QED BY <1>1, <1>2, <1>3 DEF Answered

(* Polling takes no record that was acknowledged.                          *)
LEMMA PollSound ==
  ASSUME Sound, NEW w \in Threads, Poll(w)
  PROVE  AInv'
<1>1. PICK B \in SUBSET {m \in Messages : state[m] = "visible"} :
        /\ state' = [m \in Messages |-> IF m \in B THEN "hidden" ELSE state[m]]
        /\ batch' = [batch EXCEPT ![w] = B]
        /\ left' = [left EXCEPT ![w] = B]
  BY DEF Poll
<1>2. /\ stage[w] = "waiting" /\ stage' = [stage EXCEPT ![w] = "looping"]
      /\ UNCHANGED <<store, call, kind, failures, doing, timedOut>>
  BY DEF Poll, vars
<1>3. DeliveryOK /\ (\A v \in Threads : Honest(v)) /\ \A id \in Ids : Answered(id)
  BY DEF Sound, Good, AInv
<1>4. OthersRest(w)
  BY <1>1, <1>2, <1>3 DEF OthersRest, CallsElseRest, DeliveryOK
<1>5. (\A v \in Threads : Honest(v))'
  BY <1>2, <1>3 DEF Honest
<1>6. ASSUME NEW id \in Ids PROVE Answered(id)'
  <2>1. \A m \in Carriers(id) : state[m] = "deleted" => state'[m] = "deleted"
    BY <1>1, CarriersAre
  <2>2. \A m \in Carriers(id) : ~Cleared(w, m)
    BY <1>2, <1>3 DEF Cleared, DeliveryOK
  <2>. QED BY <1>2, <1>3, <1>4, <2>1, <2>2, AnsweredKept
<1>. QED BY <1>5, <1>6 DEF AInv

(* A record the worker begins was in no way cleared, and clears no other.  *)
LEMMA TakeSound ==
  ASSUME Sound, NEW w \in Threads, NEW m \in Messages,
         Drop(w, m) \/ FetchFails(w, m) \/ TakeTicket(w, m) \/ TakeObject(w, m)
  PROVE  AInv'
<1>1. /\ IInv /\ DeliveryOK /\ CallAtStage(w) /\ (\A v \in Threads : Honest(v))
      /\ \A id \in Ids : Answered(id)
  BY DEF Sound, Good, DInv, AInv
<1>2. /\ stage[w] = "looping" /\ m \in left[w] /\ left' = [left EXCEPT ![w] = @ \ {m}]
      /\ UNCHANGED <<kind, state, batch, timedOut>>
  BY DEF Drop, FetchFails, TakeTicket, TakeObject, Take, sqs
<1>3. /\ \E to : stage' = [stage EXCEPT ![w] = to]
      /\ doing' = doing \/ doing' = [doing EXCEPT ![w] = m]
      /\ failures' = failures \/ (doing' = doing /\ failures' = [failures EXCEPT ![w] = @ \cup {m}])
  BY DEF Drop, FetchFails, TakeTicket, TakeObject, Take
<1>4. TicketOf[m] \in Ids
  BY DeliveryAssumption
<1>5. UNCHANGED store /\ CallsElseRest(w) /\ (call' = call \/ ~call'[w].failed)
  <2>1. CASE Drop(w, m) \/ FetchFails(w, m)
    BY <2>1 DEF Drop, FetchFails, vars, CallsElseRest
  <2>2. CASE TakeTicket(w, m)
    BY <1>1, <1>4, <2>2, ProcessEffect, StartsClean DEF TakeTicket
  <2>3. CASE TakeObject(w, m)
    BY <1>1, <1>4, <2>3, AcceptEffect, StartsClean DEF TakeObject
  <2>. QED BY <2>1, <2>2, <2>3
<1>6. OthersRest(w)
  BY <1>1, <1>2, <1>3, <1>5 DEF OthersRest, DeliveryOK
<1>7. doing[w] = Nil /\ m \notin failures[w] /\ Nil \notin Messages /\ failures[w] \subseteq Messages
  BY <1>1, <1>2, DeliveryAssumption DEF DeliveryOK
<1>8. (\A v \in Threads : Honest(v))'
  <2>1. doing'[w] \notin failures'[w]
    BY <1>1, <1>3, <1>7 DEF DeliveryOK
  <2>2. Honest(w)'
    BY <1>1, <1>5, <2>1 DEF Honest
  <2>. QED BY <1>1, <1>6, <2>2, HonestKept
<1>9. ASSUME NEW id \in Ids PROVE Answered(id)'
  <2>1. ASSUME NEW n \in Carriers(id), Cleared(w, n) PROVE Acknowledged(n)'
    <3>1. n # m /\ n \in Messages
      BY <1>2, <2>1, CarriersAre DEF Cleared
    <3>2. doing'[w] # n
      BY <1>1, <1>3, <1>7, <3>1 DEF DeliveryOK
    <3>3. n \notin left'[w] /\ n \notin failures'[w] /\ n \in batch'[w]
      BY <1>1, <1>2, <1>3, <2>1, <3>1 DEF Cleared, DeliveryOK
    <3>4. Cleared(w, n)'
      BY <3>2, <3>3 DEF Cleared
    <3>. QED BY <3>4 DEF Acknowledged
  <2>. QED BY <1>1, <1>2, <1>5, <1>6, <2>1, AnsweredKept
<1>. QED BY <1>8, <1>9 DEF AInv

(* The record whose Accept has returned was not cleared yet.               *)
LEMMA AcceptedSound ==
  ASSUME Sound, NEW w \in Threads, Accepted(w)
  PROVE  AInv'
<1>1. /\ IInv /\ DeliveryOK /\ CallAtStage(w) /\ (\A v \in Threads : Honest(v))
      /\ \A id \in Ids : Answered(id)
  BY DEF Sound, Good, DInv, AInv
<1>2. /\ stage[w] = "accepting" /\ stage' = [stage EXCEPT ![w] = "processing"]
      /\ CallProcess(w, TicketOf[doing[w]])
      /\ UNCHANGED <<kind, state, batch, left, failures, doing, timedOut>>
  BY DEF Accepted, Returned, sqs
<1>3. TicketOf[doing[w]] \in Ids
  BY <1>1, <1>2, DeliveryAssumption DEF DeliveryOK
<1>4. UNCHANGED store /\ CallsElseRest(w) /\ ~call'[w].failed
  BY <1>1, <1>2, <1>3, ProcessEffect, StartsClean
<1>5. OthersRest(w)
  BY <1>1, <1>2, <1>4 DEF OthersRest, DeliveryOK
<1>6. (\A v \in Threads : Honest(v))'
  <2>1. Honest(w)'
    BY <1>1, <1>2, <1>4 DEF Honest
  <2>. QED BY <1>1, <1>5, <2>1, HonestKept
<1>7. ASSUME NEW id \in Ids PROVE Answered(id)'
  <2>1. ASSUME NEW n \in Carriers(id), Cleared(w, n) PROVE Acknowledged(n)'
    <3>1. doing[w] # n
      BY <1>2, <2>1 DEF Cleared, Finished, Returned
    <3>2. Cleared(w, n)'
      BY <1>2, <2>1, <3>1 DEF Cleared
    <3>. QED BY <3>2 DEF Acknowledged
  <2>. QED BY <1>1, <1>2, <1>4, <1>5, <2>1, AnsweredKept
<1>. QED BY <1>6, <1>7 DEF AInv

(* A record that succeeds stays cleared; one that fails was not.           *)
LEMMA RecordSound ==
  ASSUME Sound, NEW w \in Threads, Succeeds(w) \/ Fails(w)
  PROVE  AInv'
<1>1. DeliveryOK /\ (\A v \in Threads : Honest(v)) /\ \A id \in Ids : Answered(id)
  BY DEF Sound, Good, AInv
<1>2. /\ stage' = [stage EXCEPT ![w] = "looping"] /\ doing' = [doing EXCEPT ![w] = Nil]
      /\ UNCHANGED <<store, call, kind, state, batch, left, timedOut>>
      /\ \/ failures' = [failures EXCEPT ![w] = @ \cup {}]
         \/ ~Finished(w) /\ failures' = [failures EXCEPT ![w] = @ \cup {doing[w]}]
      /\ stage[w] \in {"accepting", "processing"}
  BY DEF Succeeds, Fails, RecordEnds, Finished, Returned, vars, sqs
<1>3. OthersRest(w)
  BY <1>1, <1>2 DEF OthersRest, CallsElseRest, DeliveryOK
<1>4. doing'[w] = Nil /\ failures'[w] \subseteq Messages
  BY <1>1, <1>2 DEF DeliveryOK
<1>5. (\A v \in Threads : Honest(v))'
  <2>1. Honest(w)'
    BY <1>1, <1>2, <1>4, DeliveryAssumption DEF Honest
  <2>. QED BY <1>1, <1>3, <2>1, HonestKept
<1>6. ASSUME NEW id \in Ids PROVE Answered(id)'
  <2>1. ASSUME NEW n \in Carriers(id), Cleared(w, n) PROVE Acknowledged(n)'
    <3>1. n \in Messages
      BY CarriersAre
    <3>2. n \notin failures'[w]
      BY <1>1, <1>2, <2>1 DEF Cleared, DeliveryOK
    <3>3. doing'[w] # n
      BY <1>4, <3>1, DeliveryAssumption
    <3>4. Cleared(w, n)'
      BY <1>2, <2>1, <3>2, <3>3 DEF Cleared
    <3>. QED BY <3>4 DEF Acknowledged
  <2>. QED BY <1>1, <1>2, <1>3, <2>1, AnsweredKept
<1>. QED BY <1>5, <1>6 DEF AInv

(* The answer of an invocation has every cleared record deleted.           *)
LEMMA RespondSound ==
  ASSUME Sound, NEW w \in Threads, Respond(w)
  PROVE  AInv'
<1>1. /\ DeliveryOK /\ BatchesApart /\ (\A v \in Threads : Honest(v))
      /\ \A id \in Ids : Answered(id)
  BY DEF Sound, Good, DInv, AInv
<1>2. InvocationEnds(w, failures[w]) /\ UNCHANGED <<store, call, timedOut, kind>>
  BY DEF Respond, InvocationEnds, vars
<1>3. OthersRest(w)
  BY <1>1, <1>2 DEF OthersRest, CallsElseRest, InvocationEnds, DeliveryOK
<1>4. failures'[w] = {}
  BY <1>1, <1>2 DEF InvocationEnds, DeliveryOK
<1>5. (\A v \in Threads : Honest(v))'
  <2>1. Honest(w)'
    BY <1>1, <1>2, <1>4 DEF Honest
  <2>. QED BY <1>1, <1>3, <2>1, HonestKept
<1>6. ASSUME NEW id \in Ids PROVE Answered(id)'
  <2>1. ASSUME NEW n \in Carriers(id), state[n] = "deleted" PROVE state'[n] = "deleted"
    <3>1. n \in Messages /\ n \notin batch[w] /\ n \notin failures[w]
      BY <1>1, <2>1, CarriersAre DEF BatchesApart, DeliveryOK
    <3>. QED BY <1>2, <2>1, <3>1 DEF InvocationEnds
  <2>2. ASSUME NEW n \in Carriers(id), Cleared(w, n) PROVE Acknowledged(n)'
    <3>1. n \in Messages /\ n \in batch[w] \ failures[w]
      BY <2>2, CarriersAre DEF Cleared
    <3>2. state'[n] = "deleted"
      BY <1>2, <3>1 DEF InvocationEnds
    <3>. QED BY <3>2 DEF Acknowledged
  <2>. QED BY <1>1, <1>2, <1>3, <2>1, <2>2, AnsweredKept
<1>. QED BY <1>5, <1>6 DEF AInv

(* A timeout takes back what it had cleared, and is remembered.            *)
LEMMA TimesOutSound ==
  ASSUME Sound, NEW w \in Threads, TimesOut(w)
  PROVE  AInv'
<1>1. /\ DeliveryOK /\ BatchesApart /\ (\A v \in Threads : Honest(v))
      /\ \A id \in Ids : Answered(id)
      /\ call \in [Threads -> Call]
  BY DEF Sound, Good, DInv, AInv, IInv, TypeOK
<1>2. /\ InvocationEnds(w, batch[w]) /\ timedOut' = timedOut \cup batch[w]
      /\ Crash(ProcOf[w]) \/ (call[w].pc = "idle" /\ UNCHANGED vars)
  BY DEF TimesOut
<1>3. UNCHANGED store /\ CallsElseRest(w) /\ ~call'[w].failed
  <2>1. CASE Crash(ProcOf[w])
    <3>1. \A v \in Threads : call'[v] = IF ProcOf[v] = ProcOf[w] THEN Idle("none") ELSE call[v]
      BY <2>1 DEF Crash
    <3>. QED BY <2>1, <3>1, DeliveryAssumption DEF Crash, CallsElseRest, Idle
  <2>2. CASE call[w].pc = "idle" /\ UNCHANGED vars
    BY <1>1, <2>2 DEF vars, CallsElseRest, Honest
  <2>. QED BY <1>2, <2>1, <2>2
<1>4. OthersRest(w)
  BY <1>1, <1>2, <1>3 DEF OthersRest, InvocationEnds, DeliveryOK
<1>5. (\A v \in Threads : Honest(v))'
  <2>1. failures'[w] = {}
    BY <1>1, <1>2 DEF InvocationEnds, DeliveryOK
  <2>2. Honest(w)'
    BY <1>3, <2>1 DEF Honest
  <2>. QED BY <1>1, <1>4, <2>2, HonestKept
<1>6. ASSUME NEW id \in Ids PROVE Answered(id)'
  <2>1. ASSUME NEW n \in Carriers(id), state[n] = "deleted" PROVE state'[n] = "deleted"
    <3>1. n \in Messages /\ n \notin batch[w]
      BY <1>1, <2>1, CarriersAre DEF BatchesApart
    <3>. QED BY <1>2, <2>1, <3>1 DEF InvocationEnds
  <2>2. ASSUME NEW n \in Carriers(id), Cleared(w, n) PROVE TimedOut(id)'
    <3>1. n \in timedOut' /\ kind' = kind
      BY <1>2, <2>2 DEF Cleared, InvocationEnds
    <3>. QED BY <3>1 DEF TimedOut, Carriers
  <2>3. kind' = kind /\ store' = store /\ timedOut \subseteq timedOut'
    BY <1>2, <1>3 DEF InvocationEnds
  <2>. QED BY <1>1, <1>4, <2>1, <2>2, <2>3, AnsweredKept
<1>. QED BY <1>5, <1>6 DEF AInv

(* The last write of a call settles the ticket: the call reports success   *)
(* and its record is cleared, or the copy it wrote records the failure.    *)
LEMMA WorksSound ==
  ASSUME Sound, NoLostWrites, NEW w \in Threads, Works(w)
  PROVE  AInv'
<1>. DEFINE i == TicketOf[doing[w]]
<1>1. Step(w) /\ UNCHANGED <<kind, state, timedOut, stage, batch, left, failures, doing>>
  BY DEF Works, sqs, loop
<1>2. /\ IInv /\ DeliveryOK /\ CallAtStage(w) /\ (\A v \in Threads : Honest(v))
      /\ \A id \in Ids : Answered(id)
  BY DEF Sound, Good, DInv, AInv
<1>3. /\ CallsElseRest(w)
      /\ \/ /\ call[w].pc \in {"accepting", "classified"} /\ Written(w)
         \/ call[w].pc = "acting" /\ UNCHANGED store
         \/ call[w].pc = "acting" /\ Written(w) /\ call'[w].pc = "idle"
  BY <1>1, <1>2, WorkEffect, Zenon DEF WorksTo
<1>4. /\ call'[w].failed => call'[w].pc = "acting" /\ FailedAction(call'[w].item)
      /\ call[w].pc = "acting" /\ call'[w].pc = "idle" =>
           call'[w].result # "error" \/ FailedAction(call[w].item)
  BY <1>1, <1>2, WorkHonest
<1>5. OthersRest(w)
  BY <1>1, <1>3 DEF OthersRest
<1>6. (\A v \in Threads : Honest(v))'
  <2>1. Honest(w)'
    BY <1>1, <1>2, <1>4 DEF Honest
  <2>. QED BY <1>2, <1>5, <2>1, HonestKept
<1>7. call[w].pc # "idle" /\ call[w].id = i /\ doing[w] \in batch[w] \ left[w] /\ doing[w] \in Messages
  BY <1>2, <1>3 DEF CallAtStage, DeliveryOK, Stages
<1>8. i \in Ids /\ doing[w] \in Carriers(i)
  BY <1>2, <1>3, <1>7, DeliveryAssumption DEF Carriers, CallAtStage, DeliveryOK, Stages
<1>9. store \in [Ids -> Item \cup {Nil}] /\ call[w].item \in Item /\ call[w].item # Nil
  BY <1>2, <1>7, NilDistinct DEF IInv, TypeOK, CallOK
<1>10. Written(w) => store'[i] = call[w].item /\ \A id \in Ids \ {i} : store'[id] = store[id]
  BY <1>7, <1>8, <1>9 DEF Written
<1>. HIDE DEF i
<1>11. ASSUME NEW id \in Ids, store'[id] = store[id] PROVE Answered(id)'
  <2>1. ASSUME NEW n \in Carriers(id), Cleared(w, n) PROVE Acknowledged(n)'
    <3>1. doing[w] # n
      BY <1>7, <2>1 DEF Cleared, Finished, Returned
    <3>2. Cleared(w, n)'
      BY <1>1, <2>1, <3>1 DEF Cleared
    <3>. QED BY <3>2 DEF Acknowledged
  <2>. QED BY <1>1, <1>2, <1>5, <1>11, <2>1, AnsweredKept
<1>12. ASSUME NEW id \in Ids, id = i, Written(w), store'[id] # store[id] PROVE Answered(id)'
  <2>1. HasSettled(id)' <=> call[w].item.status \in Settled
    BY <1>8, <1>9, <1>10, <1>12 DEF HasSettled
  <2>2. CASE call[w].pc \in {"accepting", "classified"}
    <3>1. call[w].item.status \notin Settled
      BY <1>2, <2>2 DEF CallAtStage, Settled
    <3>. QED BY <2>1, <3>1 DEF Answered
  <2>3. CASE FailedAction(call[w].item)
    <3>1. FailedAction(store[id])'
      BY <1>10, <1>12, <2>3 DEF FailedAction
    <3>. QED BY <3>1 DEF Answered
  <2>4. CASE call[w].pc = "acting" /\ call'[w].pc = "idle" /\ call'[w].result # "error"
    <3>1. stage[w] = "processing" /\ doing[w] \notin failures[w]
      BY <1>2, <2>4 DEF CallAtStage, DeliveryOK, Stages, Honest
    <3>2. Finished(w)'
      BY <1>1, <2>4, <3>1 DEF Finished, Returned
    <3>3. \A n : n = doing[w] => Acknowledged(n)'
      BY <1>1, <1>7, <3>1, <3>2 DEF Cleared, Acknowledged
    <3>4. Carriers(id)' = Carriers(id)
      BY <1>1 DEF Carriers
    <3>. QED BY <1>8, <1>12, <3>3, <3>4 DEF Answered
  <2>. QED BY <1>3, <1>4, <1>12, <2>2, <2>3, <2>4
<1>13. ASSUME NEW id \in Ids PROVE Answered(id)'
  BY <1>3, <1>10, <1>11, <1>12
<1>. QED BY <1>6, <1>13 DEF AInv

(* At first no call is under way and nothing is settled.                   *)
LEMMA AInvInit == DeliveryInit => AInv
  BY DEF DeliveryInit, Init, Idle, AInv, Honest, Answered, HasSettled

(* Every step keeps every settled ticket answered for.                     *)
LEMMA AInvStep ==
  ASSUME NoLostWrites
  PROVE  DeliveryOK /\ IInv /\ DInv /\ AInv /\ [DeliveryNext]_all => AInv'
<1>. SUFFICES ASSUME Sound, [DeliveryNext]_all PROVE AInv'
  BY DEF Sound, Good
<1>1. ASSUME NEW w \in Threads, Runs(w) PROVE AInv'
  BY <1>1, TakeSound, AcceptedSound, RecordSound, RespondSound, WorksSound DEF Runs
<1>2. ASSUME NEW w \in Threads, Poll(w) \/ TimesOut(w) PROVE AInv'
  BY <1>2, PollSound, TimesOutSound
<1>3. CASE UNCHANGED all
  <2>1. UNCHANGED <<store, call, kind, state, timedOut, stage, batch, left, failures, doing>>
    BY <1>3 DEF all, vars, sqs, loop
  <2>2. AInv
    BY DEF Sound
  <2>. QED BY <2>1, <2>2 DEF AInv, Honest, Answered, HasSettled, TimedOut, Carriers, Acknowledged,
                             Cleared, Finished, Returned, FailedAction
<1>. QED BY <1>1, <1>2, <1>3 DEF DeliveryNext

(* A ticket all of whose records were dead-lettered, none of them through  *)
(* a timeout, is unsettled or one of its actions failed, if no write of    *)
(* the store fails (handlers.go:38, :69-78, pipeline.go:293-316): nobody's *)
(* record pays for another of its batch, for any number of workers,        *)
(* records and receives.                                                   *)
THEOREM OnlyFailuresAreDeadLettered ==
  ASSUME NoLostWrites
  PROVE  DeliverySpec => []DeadNeedsAttention
<1>1. DeliveryOK /\ DInv /\ AInv => DeadNeedsAttention
  <2>. SUFFICES ASSUME DInv, AInv, NEW id \in Ids, HasSettled(id), AllCarriersAre(id, "dead"),
                       ~TimedOut(id)
               PROVE  FailedAction(store[id])
    BY DEF DeadNeedsAttention, FailedAction
  <2>1. ASSUME NEW m \in Carriers(id) PROVE ~Acknowledged(m)
    <3>1. state[m] = "dead"
      BY DEF AllCarriersAre
    <3>2. \A w \in Threads : m \notin batch[w]
      BY <3>1 DEF DInv, BatchesApart
    <3>. QED BY <3>1, <3>2 DEF Acknowledged, Cleared
  <2>. QED BY <2>1 DEF AInv, Answered
<1>2. DeliveryInit => DInv /\ AInv
  BY DInvInit, AInvInit
<1>3. DeliveryOK /\ IInv /\ DInv /\ [DeliveryNext]_all => DInv'
  BY DInvStep
<1>4. DeliveryOK /\ IInv /\ DInv /\ AInv /\ [DeliveryNext]_all => AInv'
  BY AInvStep
<1>. QED BY <1>1, <1>2, <1>3, <1>4, DeliveryTypeCorrect, WorkersImplementService, Inductive, PTL
         DEF DeliverySpec
=============================================================================

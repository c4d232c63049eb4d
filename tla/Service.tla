------------------------------ MODULE Service ------------------------------
(***************************************************************************)
(* The pipeline service (internal/pipeline/pipeline.go) over a store       *)
(* several processes share: Accept, Process, Reclassify, Route, Approve    *)
(* and Override, from the store read that opens each call to the store     *)
(* write that ends it, with the actions executed in between.               *)
(*                                                                         *)
(* Service.mu lets one call of a process run at a time; nothing orders the *)
(* calls of two processes.  A step of the model is one access to what the  *)
(* processes share (a Get, a Put, an Execute) with the local computation   *)
(* up to the next one.  The store is what its three implementations have   *)
(* in common: Get is consistent, Put replaces the whole item and checks    *)
(* nothing.                                                                *)
(*                                                                         *)
(* Left out: times and expiry, the ticket's text, the actor and the        *)
(* wording of events, Item.Queue and NeedsReview (copies of the decision's *)
(* fields, written with it), the priority field of an action, which is not *)
(* part of its key.                                                        *)
(***************************************************************************)
EXTENDS Routing, FiniteSets

CONSTANTS
  Threads,   \* callers: a worker loop, an HTTP handler, an MCP client, a CLI run
  ProcOf,    \* the process each caller runs in
  Ids,       \* ticket IDs
  Answers,   \* what the classifier can answer
  Labels,    \* <<category, priority>> a reviewer can ask for, "" to keep one
  Faults,    \* of "get", "put", "act", "crash": what can go wrong
  MaxCalls,  \* bound: calls made in a behaviour
  Nil

ASSUME ServiceAssumption ==
  /\ Answers \subseteq ModelOutput
  /\ Labels \subseteq STRING \X STRING
  /\ DOMAIN ProcOf = Threads
  /\ MaxCalls \in Nat

(* One key per rule, type and target: the idempotency key of routeLocked    *)
Key == [rule: STRING, type: ActionTypes, target: STRING]

Status == {"received", "classified", "routed", "pending_review", "reviewed"}
Settled == {"routed", "pending_review", "reviewed"}

(* An audit-trail entry.  Only the event of an action that was executed     *)
(* has both a classification and a key; "skipped" has the key alone.        *)
EventTypes == {"received", "classified", "routed", "action", "review", "error"}
Event == [type: EventTypes, class: Classification \cup {Nil}, key: Key \cup {Nil}]

Review == [outcome: {"approved", "overridden"}, original: Classification \cup {Nil}]

Item == [status: Status, class: Classification \cup {Nil}, decision: Decision \cup {Nil},
         review: Review \cup {Nil}, executed: SUBSET Key, events: Seq(Event)]

(* A line of the outbox: the key and the classification it was sent under   *)
Line == [key: Key, class: Classification]

Ops == {"accept", "process", "reclassify", "route", "review"}
Call == [pc: {"idle", "accepting", "classified", "acting"}, op: Ops \cup {Nil},
         id: Ids \cup {Nil}, item: Item \cup {Nil}, next: Nat, failed: BOOLEAN,
         result: {"none", "ok", "duplicate", "error"}]

ASSUME NilAssumption ==
  Nil \notin Item \cup Classification \cup Decision \cup Review \cup Key \cup Ids \cup Ops

VARIABLES
  store,    \* the item under each ID, Nil if there is none
  outbox,   \* the lines the actions of each item have written
  call,     \* each caller's call under way, its local copy of the item with it
  calls     \* the number of calls made

vars == <<store, outbox, call, calls>>

Idle(result) == [pc |-> "idle", op |-> Nil, id |-> Nil, item |-> Nil, next |-> 0,
                 failed |-> FALSE, result |-> result]

Init == /\ store = [id \in Ids |-> Nil]
        /\ outbox = [id \in Ids |-> <<>>]
        /\ call = [t \in Threads |-> Idle("none")]
        /\ calls = 0

-----------------------------------------------------------------------------
(* What the calls do to their copy of the item                             *)

Entry(type, class, key) == [type |-> type, class |-> class, key |-> key]

(* AddEvent *)
Logged(item, entry) == [item EXCEPT !.events = Append(@, entry)]

NewItem == [status |-> "received", class |-> Nil, decision |-> Nil, review |-> Nil,
            executed |-> {}, events |-> <<Entry("received", Nil, Nil)>>]

ClassifyIntoLogsAnswer(item, answer, failed) ==
  LET c == Classified(answer, failed)
  IN [item EXCEPT !.class = c,
                  !.status = "classified",
                  !.events = Append(@, Entry("classified", answer, Nil))]

(* classifyInto *)
ClassifyInto(item, answer, failed) ==
  LET c == Classified(answer, failed)
      usable == ~failed /\ Valid(answer)
  IN [item EXCEPT !.class = c,
                  !.status = "classified",
                  !.events = Append(IF usable THEN @ ELSE Append(@, Entry("error", Nil, Nil)),
                                    Entry("classified", c, Nil))]

StatusFor(c) == IF c.human_verified THEN "reviewed"
                ELSE IF Route(c).automatic THEN "routed"
                ELSE "pending_review"

RoutedOnce(item) ==
  [item EXCEPT !.decision = IF @ = Nil THEN Route(item.class) ELSE @,
               !.status = StatusFor(item.class),
               !.events = Append(@, Entry("routed", item.class, Nil))]

(* routeLocked up to its loop over the actions *)
Routed(item) ==
  [item EXCEPT !.decision = Route(item.class),
               !.status = StatusFor(item.class),
               !.events = Append(@, Entry("routed", item.class, Nil))]

(* review up to its call of routeLocked *)
Reviewed(item, category, priority) ==
  LET overridden == category # "" \/ priority # ""
      c == Corrected(item.class, category, priority)
  IN [item EXCEPT !.class = c,
                  !.review = [outcome |-> IF overridden THEN "overridden" ELSE "approved",
                              original |-> IF overridden THEN item.class ELSE Nil],
                  !.events = Append(@, Entry("review", c, Nil))]

KeyOf(item, i) == [rule |-> item.decision.rule,
                   type |-> item.decision.actions[i].type,
                   target |-> item.decision.actions[i].target]

-----------------------------------------------------------------------------
(* The lock and the shape of a call                                        *)

Free(t) == call[t].pc = "idle" /\ calls < MaxCalls

CanCallUnlocked(t) == Free(t)

(* mu: no call of the same process is under way *)
CanCall(t) ==
  /\ Free(t)
  /\ \A u \in Threads : ProcOf[u] = ProcOf[t] => call[u].pc = "idle"

(* The call goes on from pc with its copy of the item *)
Begin(t, op, id, pc, item) ==
  /\ call' = [call EXCEPT ![t] = [pc |-> pc, op |-> op, id |-> id, item |-> item,
                                  next |-> 1, failed |-> FALSE, result |-> "none"]]
  /\ calls' = calls + 1
  /\ UNCHANGED <<store, outbox>>

(* The call returns at once, having changed nothing *)
Refuse(t, result) ==
  /\ call' = [call EXCEPT ![t] = Idle(result)]
  /\ calls' = calls + 1
  /\ UNCHANGED <<store, outbox>>

Return(t, result) == call' = [call EXCEPT ![t] = Idle(result)]

-----------------------------------------------------------------------------
(* The calls.  Each starts with Store.Get, which "get" lets fail; only an  *)
(* override that asks for nothing is refused before the lock is taken.     *)

GetFails(t) ==
  /\ "get" \in Faults
  /\ CanCall(t)
  /\ Refuse(t, "error")

AcceptOverwrites(t, id) == CanCall(t) /\ Begin(t, "accept", id, "accepting", NewItem)

Accept(t, id) ==
  /\ CanCall(t)
  /\ \/ store[id] # Nil /\ Refuse(t, "duplicate")
     \/ store[id] = Nil /\ Begin(t, "accept", id, "accepting", NewItem)

(* Process on a delivery of what is past received: nothing is done and the *)
(* message is acknowledged.                                                *)
ProcessIgnored(t, id) ==
  /\ CanCall(t)
  /\ store[id] # Nil /\ store[id].status # "received"
  /\ Refuse(t, "ok")

ProcessAnyStatus(t, id, answer, failed) ==
  /\ CanCall(t)
  /\ LET item == IF store[id] = Nil THEN NewItem ELSE store[id]
     IN Begin(t, "process", id, "classified", ClassifyInto(item, answer, failed))

Process(t, id, answer, failed) ==
  /\ CanCall(t)
  /\ store[id] # Nil => store[id].status = "received"
  /\ LET item == IF store[id] = Nil THEN NewItem ELSE store[id]
     IN Begin(t, "process", id, "classified", ClassifyInto(item, answer, failed))

Reclassify(t, id, answer, failed) ==
  /\ CanCall(t)
  /\ \/ store[id] = Nil /\ Refuse(t, "error")
     \/ store[id] # Nil /\ Begin(t, "reclassify", id, "classified",
                                 ClassifyInto(store[id], answer, failed))

HasClass(id) == store[id] # Nil /\ store[id].class # Nil

RouteItem(t, id) ==
  /\ CanCall(t)
  /\ \/ ~HasClass(id) /\ Refuse(t, "error")
     \/ HasClass(id) /\ Begin(t, "route", id, "acting", Routed(store[id]))

CanReviewAnyLabel(id, category, priority) == HasClass(id)

(* review refuses an unknown label before it records anything *)
CanReview(id, category, priority) ==
  /\ HasClass(id)
  /\ (category # "" \/ priority # "") => Valid(Corrected(store[id].class, category, priority))

ReviewItem(t, id, category, priority) ==
  /\ CanCall(t)
  /\ \/ ~CanReview(id, category, priority) /\ Refuse(t, "error")
     \/ /\ CanReview(id, category, priority)
        /\ Begin(t, "review", id, "acting", Routed(Reviewed(store[id], category, priority)))

Approve(t, id) == ReviewItem(t, id, "", "")

Override(t, id, category, priority) ==
  \/ category = "" /\ priority = "" /\ Free(t) /\ Refuse(t, "error")
  \/ (category # "" \/ priority # "") /\ ReviewItem(t, id, category, priority)

-----------------------------------------------------------------------------
(* The rest of a call                                                      *)

Written(t) == store' = [store EXCEPT ![call[t].id] = call[t].item]

Acting(t) == call[t].pc = "acting" /\ call[t].next <= Len(call[t].item.decision.actions)

LoopDone(t) == call[t].pc = "acting" /\ call[t].next > Len(call[t].item.decision.actions)

(* Store.Put with an error: the write took place or it did not *)
PutFails(t) ==
  /\ "put" \in Faults
  /\ call[t].pc \in {"accepting", "classified"} \/ LoopDone(t)
  /\ Written(t) \/ UNCHANGED store
  /\ Return(t, "error")
  /\ UNCHANGED <<outbox, calls>>

PutAccepted(t) ==
  /\ call[t].pc = "accepting"
  /\ Written(t)
  /\ Return(t, "ok")
  /\ UNCHANGED <<outbox, calls>>

PutClassified(t) ==
  /\ call[t].pc = "classified"
  /\ Written(t)
  /\ call' = [call EXCEPT ![t] = [call[t] EXCEPT !.pc = "acting", !.item = Routed(call[t].item)]]
  /\ UNCHANGED <<outbox, calls>>

(* The loop goes on to the next action *)
Advanced(c, item, failed) ==
  [c EXCEPT !.next = @ + 1, !.item = item, !.failed = failed]

Advance(t, item, failed) == call' = [call EXCEPT ![t] = Advanced(call[t], item, failed)]

(* One turn of routeLocked's loop over the actions: skip what the item has *)
(* been through, execute, or log a failure and go on.                      *)
Skip(t) ==
  /\ Acting(t)
  /\ LET key == KeyOf(call[t].item, call[t].next)
     IN /\ key \in call[t].item.executed
        /\ Advance(t, Logged(call[t].item, Entry("action", Nil, key)), call[t].failed)
  /\ UNCHANGED <<store, outbox, calls>>

ExecutedUnlogged(item, key) == [item EXCEPT !.executed = @ \cup {key}]

Executed(item, key) ==
  [Logged(item, Entry("action", item.class, key)) EXCEPT !.executed = @ \cup {key}]

(* ActionSink.Execute that succeeds: one line, whichever file it goes to *)
Send(id, key, class) ==
  outbox' = [outbox EXCEPT ![id] = Append(@, [key |-> key, class |-> class])]

Execute(t) ==
  /\ Acting(t)
  /\ LET item == call[t].item
         key == KeyOf(item, call[t].next)
     IN /\ key \notin item.executed
        /\ Send(call[t].id, key, item.class)
        /\ Advance(t, Executed(item, key), call[t].failed)
  /\ UNCHANGED <<store, calls>>

ExecuteFailsMarked(t) ==
  /\ "act" \in Faults
  /\ Acting(t)
  /\ LET key == KeyOf(call[t].item, call[t].next)
     IN /\ key \notin call[t].item.executed
        /\ Advance(t, [call[t].item EXCEPT !.executed = @ \cup {key}], TRUE)
  /\ UNCHANGED <<store, outbox, calls>>

ExecuteFails(t) ==
  /\ "act" \in Faults
  /\ Acting(t)
  /\ LET key == KeyOf(call[t].item, call[t].next)
     IN /\ key \notin call[t].item.executed
        /\ Advance(t, Logged(call[t].item, Entry("error", Nil, key)), TRUE)
  /\ UNCHANGED <<store, outbox, calls>>

PutRoutedUnlessFailed(t) ==
  /\ LoopDone(t)
  /\ IF call[t].failed THEN UNCHANGED store ELSE Written(t)
  /\ Return(t, IF call[t].failed THEN "error" ELSE "ok")
  /\ UNCHANGED <<outbox, calls>>

PutRouted(t) ==
  /\ LoopDone(t)
  /\ Written(t)
  /\ Return(t, IF call[t].failed THEN "error" ELSE "ok")
  /\ UNCHANGED <<outbox, calls>>

(* A process dies: its calls and the lock are gone, what was written stays *)
Crash(p) ==
  /\ "crash" \in Faults
  /\ \E t \in Threads : ProcOf[t] = p /\ call[t].pc # "idle"
  /\ call' = [t \in Threads |-> IF ProcOf[t] = p THEN Idle("none") ELSE call[t]]
  /\ UNCHANGED <<store, outbox, calls>>

Step(t) == \/ PutFails(t) \/ PutAccepted(t) \/ PutClassified(t)
           \/ Skip(t) \/ Execute(t) \/ ExecuteFails(t) \/ PutRouted(t)

Start(t) ==
  \/ GetFails(t)
  \/ \E id \in Ids :
       \/ Accept(t, id)
       \/ ProcessIgnored(t, id)
       \/ \E a \in Answers, failed \in BOOLEAN :
            Process(t, id, a, failed) \/ Reclassify(t, id, a, failed)
       \/ RouteItem(t, id)
       \/ Approve(t, id)
       \/ \E l \in Labels : Override(t, id, l[1], l[2])

Next == \/ \E t \in Threads : Start(t) \/ Step(t)
        \/ \E t \in Threads : Crash(ProcOf[t])

Spec == Init /\ [][Next]_vars

-----------------------------------------------------------------------------
(* Types.  Everything stored, sent or held by a call is of the shape the   *)
(* Go structs declare.                                                     *)
TypeOK == /\ store \in [Ids -> Item \cup {Nil}]
          /\ outbox \in [Ids -> Seq(Line)]
          /\ call \in [Threads -> Call]
          /\ calls \in 0..MaxCalls

Stored == {id \in Ids : store[id] # Nil}

Consistent(it) ==
  /\ it.status \in Settled => /\ it.class # Nil
                              /\ it.decision = Route(it.class)
                              /\ it.status = StatusFor(it.class)
  /\ it.status = "received" <=> it.class = Nil
  /\ it.class = Nil => it.decision = Nil /\ it.executed = {}

(* A settled item's decision and status are those of the classification it *)
(* carries, and a received one carries neither (pipeline.go:264-280): no   *)
(* interleaving of two processes mixes one's label with the other's route. *)
DecisionCurrent == \A id \in Stored : Consistent(store[id])

Justified(line) ==
  \E i \in DOMAIN Rules :
    /\ Rules[i].name = line.key.rule
    /\ \/ line.class.human_verified \/ Rules[i].bypass_confidence_floor
       \/ /\ line.class.confidence >= Rules[i].min_confidence
          /\ line.class.confidence >= ConfidenceFloor

(* No action goes out on a label a person has not confirmed and the model  *)
(* was not sure enough of, except from a rule that bypasses the floor      *)
(* (rivergate.yaml:103-105, router.go:52-58), whatever was re-judged,      *)
(* reviewed or replayed meanwhile.                                         *)
GateHolds == \A id \in Ids : \A n \in DOMAIN outbox[id] : Justified(outbox[id][n])

IsDone(e) == e.type = "action" /\ e.class # Nil

LineOf(e) == [key |-> e.key, class |-> e.class]

DoneLines(events) == {LineOf(events[n]) : n \in {m \in DOMAIN events : IsDone(events[m])}}

Backed(item, lines) ==
  /\ DoneLines(item.events) \subseteq Range(lines)
  /\ item.executed = {line.key : line \in DoneLines(item.events)}

(* The trail never claims an action that was not taken, under the label it *)
(* was taken under (pipeline.go:304-308), and the item's idempotency keys  *)
(* are the trail's, through every crash and failed write.                  *)
NothingClaimedUndone == \A id \in Stored : Backed(store[id], outbox[id])

Judgements(events) == {n \in DOMAIN events : events[n].type \in {"classified", "review"}}

Explained(it) ==
  LET judged == Judgements(it.events)
  IN /\ judged = {} <=> it.class = Nil
     /\ \A n \in judged :
          (\A m \in judged : m <= n) =>
            /\ it.class = it.events[n].class
            /\ it.class.human_verified <=> it.events[n].type = "review"

(* The audit trail alone explains the item: its last label is the item's   *)
(* label, and an item a person stands behind has the review in its trail.  *)
TrailExplains == \A id \in Stored : Explained(store[id])

PagedOnce(lines) ==
  \A m, n \in DOMAIN lines :
    /\ lines[m].key.type = lines[n].key.type
    /\ lines[m].key.target = lines[n].key.target
    => m = n

(* "Re-routing, reclassifying or approving never pages twice"              *)
(* (README.md:168-169): of one item's lines no two have the same type and  *)
(* target.                                                                 *)
NeverPagesTwice == \A id \in Ids : PagedOnce(outbox[id])

(* ActionsFromItems: the action feed rebuilt from an item's audit trail *)
ActionFeed(events) ==
  LET feed[n \in 0..Len(events)] ==
        IF n = 0 THEN <<>>
        ELSE IF IsDone(events[n]) THEN Append(feed[n - 1], LineOf(events[n]))
        ELSE feed[n - 1]
  IN feed[Len(events)]

FeedOf(id) == IF store[id] = Nil THEN <<>> ELSE ActionFeed(store[id].events)

(* A stored trail only grows at its end: no call loses what another wrote. *)
AuditAppendOnly ==
  [][\A id \in Stored : store'[id] # Nil /\ IsPrefix(store[id].events, store'[id].events)]_vars

Verified(item) == item # Nil /\ item.class # Nil /\ item.class.human_verified

(* A person's verdict is replaced only by asking for a new classification: *)
(* no late delivery or re-route undoes it (pipeline.go:172-174).           *)
VerdictStands ==
  [][\A id \in Ids : Verified(store[id]) /\ ~Verified(store'[id]) =>
       \E t \in Threads : call[t].op = "reclassify" /\ call[t].id = id]_vars

Deferred(id) == Route(store[id].class).needs_review =>
                  store[id].decision # Nil /\ store[id].decision.needs_review

(* "Low confidence always defers to a human" (README.md:163): a delivery   *)
(* is acknowledged unprocessed only if the item, when its label calls for  *)
(* a person, is in the review queue (pipeline.go:172-174, :389-392).       *)
LowConfidenceDefers ==
  [][\A t \in Threads, id \in Ids : ProcessIgnored(t, id) => Deferred(id)]_vars

-----------------------------------------------------------------------------
(* The service as a ledger: of an item its label, the decision while it is *)
(* settled, and the keys of what was done.                                 *)
Page(item) ==
  IF item = Nil THEN [entered |-> FALSE, label |-> Nil, decision |-> Nil, taken |-> {}]
  ELSE [entered |-> TRUE,
        label |-> item.class,
        decision |-> IF item.status \in Settled THEN item.decision ELSE Nil,
        taken |-> item.executed]

Book == [id \in Ids |-> Page(store[id])]

Verdicts == {Classified(a, failed) : a \in Answers, failed \in BOOLEAN}

(* Approved as it is, or overridden with a label that is valid *)
Corrections(class) ==
  {Corrected(class, "", "")} \cup
  {c \in {Corrected(class, l[1], l[2]) : l \in Labels} : Valid(c)}

Orders(class) ==
  LET decision == Route(class)
  IN {[rule |-> decision.rule, type |-> a.type, target |-> a.target] :
        a \in Range(decision.actions)}

Contract == INSTANCE Ledger WITH page <- Book, Decide <- Route

(* The calls of one process are atomic: what they do to an item, several   *)
(* reads, writes and actions each, some failing and some cut short, comes  *)
(* to the same as whole calls one after the other (pipeline.go:35).        *)
CallsAreAtomic == Contract!Spec
=============================================================================

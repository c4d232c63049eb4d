-------------------------- MODULE FrontEndsProofs --------------------------
(***************************************************************************)
(* Who may ask the service for what, and for how long, for any number of   *)
(* processes, callers, sandboxes and tickets, whatever expires, fails or   *)
(* dies.                                                                   *)
(*                                                                         *)
(* FrontEnds is not a refinement of Service: items expire.  So what holds  *)
(* of Service is proved again of its steps here, from the lemmas on its    *)
(* actions, and each invariant says what the callers' copies of an item    *)
(* have to do with the item, which others write and time takes away.       *)
(***************************************************************************)
EXTENDS FrontEnds, ServiceProofs

(* One caller takes the step.                                              *)
OthersKept(t) == \A u \in Threads \ {t} : call'[u] = call[u]

(* Whether a person stands behind an item is a matter of its label.        *)
LEMMA SameVerdict ==
  ASSUME NEW item \in Item, NEW it \in Item, it.class = item.class
  PROVE  Verified(it) <=> Verified(item)
  BY NilDistinct, Zenon DEF Verified

(* routeLocked keeps a verdict (pipeline.go:264-284).                      *)
LEMMA RoutedVerdict ==
  ASSUME NEW item \in Item, item.class \in Classification
  PROVE  Verified(Routed(item)) <=> Verified(item)
  BY RoutedOK, SameVerdict, Zenon

(* A new classification is nobody's verdict (pipeline.go:184-198).         *)
LEMMA ClassifiedVerdict ==
  ASSUME NEW item \in Item, NEW a \in Answers, NEW failed \in BOOLEAN
  PROVE  ~Verified(ClassifyInto(item, a, failed))
<1>. DEFINE c == Classified(a, failed)
            it == ClassifyInto(item, a, failed)
<1>1. ~c.human_verified
  BY ServiceAssumption DEF Classified, Fallback, ModelOutput
<1>. HIDE DEF c
<1>2. it.class = c
  BY DEF ClassifyInto, Item, c
<1>. QED BY <1>1, <1>2, Zenon DEF Verified

(* A review is a verdict (pipeline.go:331-372).                            *)
LEMMA ReviewedVerdict ==
  ASSUME NEW item \in Item, item.class \in Classification, NEW category, NEW priority,
         (category # "" \/ priority # "") => Valid(Corrected(item.class, category, priority))
  PROVE  Verified(Routed(Reviewed(item, category, priority)))
<1>. DEFINE it == Reviewed(item, category, priority)
            c == Corrected(item.class, category, priority)
<1>1. it \in Item /\ it.class \in Classification
  BY ReviewedOK
<1>2. c.human_verified
  BY DEF Corrected, Classification
<1>. HIDE DEF c
<1>3. it.class = c
  BY DEF Reviewed, Item, c
<1>. HIDE DEF it
<1>4. it # Nil /\ it.class # Nil
  BY <1>1, NilDistinct
<1>5. Verified(it)
  BY <1>2, <1>3, <1>4 DEF Verified
<1>. QED BY <1>1, <1>5, RoutedVerdict DEF it

-----------------------------------------------------------------------------
(* A call that starts leaves everything alone but its caller, who goes on  *)
(* with a copy of the item or a new one.                                   *)
StartedOn(t, id) ==
  /\ OthersKept(t) /\ UNCHANGED <<store, outbox>> /\ call[t].pc = "idle"
  /\ call'[t].pc # "idle" =>
       /\ call'[t].id = id
       /\ store[id] = Nil => call'[t].op \in {"accept", "process"}
       /\ Verified(call'[t].item) => Verified(store[id]) \/ call'[t].op = "review"
       /\ call'[t].op # "reclassify" /\ Verified(store[id]) => Verified(call'[t].item)

(* What Begin and Refuse do to the callers.                                *)
LEMMA BeginEffect ==
  ASSUME IInv, NEW t \in Threads, CanCall(t) \/ Free(t), NEW op, NEW id, NEW pc, NEW item,
         Begin(t, op, id, pc, item)
  PROVE  /\ OthersKept(t) /\ UNCHANGED <<store, outbox>> /\ call[t].pc = "idle"
         /\ call'[t].pc = pc /\ call'[t].op = op /\ call'[t].id = id /\ call'[t].item = item
<1>1. call \in [Threads -> Call]
  BY DEF IInv, TypeOK
<1>. QED BY <1>1 DEF Begin, OthersKept, CanCall, Free

LEMMA RefuseEffect ==
  ASSUME IInv, NEW t \in Threads, CanCall(t) \/ Free(t), NEW result, Refuse(t, result), NEW id
  PROVE  StartedOn(t, id) /\ call'[t].pc = "idle" /\ call'[t].result = result
<1>1. call \in [Threads -> Call]
  BY DEF IInv, TypeOK
<1>. QED BY <1>1 DEF Refuse, OthersKept, StartedOn, Idle, CanCall, Free

(* What a stored item is.                                                  *)
LEMMA StoredIs ==
  ASSUME IInv, NEW id \in Ids, store[id] # Nil
  PROVE  /\ store[id] \in Item /\ Consistent(store[id])
         /\ HasClass(id) => store[id].class \in Classification
<1>1. store[id] \in Item /\ Consistent(store[id])
  BY DEF IInv, TypeOK, DecisionCurrent, Stored
<1>. QED BY <1>1 DEF Item, HasClass

(* Accept is answered at once or has a received item to write.             *)
LEMMA AcceptStarts ==
  ASSUME IInv, NEW t \in Threads, NEW id \in Ids, Accept(t, id)
  PROVE  /\ StartedOn(t, id)
         /\ \/ call'[t].pc = "idle" /\ store[id] # Nil
            \/ call'[t].pc = "accepting" /\ call'[t].op = "accept"
<1>1. CASE store[id] # Nil /\ Refuse(t, "duplicate")
  BY <1>1, RefuseEffect DEF Accept
<1>2. CASE store[id] = Nil /\ Begin(t, "accept", id, "accepting", NewItem)
  <2>1. ~Verified(NewItem) /\ ~Verified(store[id])
    BY <1>2 DEF Verified, NewItem
  <2>. QED BY <1>2, <2>1, BeginEffect DEF Accept, StartedOn
<1>. QED BY <1>1, <1>2 DEF Accept

(* Process begins only on an item no person has judged.                    *)
LEMMA ProcessStarts ==
  ASSUME IInv, NEW t \in Threads, NEW id \in Ids,
         ProcessIgnored(t, id) \/ \E a \in Answers : Process(t, id, a, FALSE)
  PROVE  StartedOn(t, id) /\ (call'[t].pc # "idle" => call'[t].op = "process")
<1>1. CASE ProcessIgnored(t, id)
  BY <1>1, RefuseEffect DEF ProcessIgnored
<1>2. ASSUME NEW a \in Answers, Process(t, id, a, FALSE)
      PROVE  StartedOn(t, id) /\ (call'[t].pc # "idle" => call'[t].op = "process")
  <2>. DEFINE item == IF store[id] = Nil THEN NewItem ELSE store[id]
              it == ClassifyInto(item, a, FALSE)
  <2>1. item \in Item
    BY StoredIs, NewItemTyped
  <2>. HIDE DEF item
  <2>2. ~Verified(it)
    BY <2>1, ClassifiedVerdict
  <2>. HIDE DEF it
  <2>3. CanCall(t) /\ Begin(t, "process", id, "classified", it)
    BY <1>2, Zenon DEF Process, item, it
  <2>4. ~Verified(store[id])
    <3>1. store[id] # Nil => store[id].class = Nil
      BY <1>2, StoredIs DEF Process, Consistent
    <3>. QED BY <3>1 DEF Verified
  <2>. QED BY <2>2, <2>3, <2>4, BeginEffect DEF StartedOn
<1>. QED BY <1>1, <1>2

(* A re-classification gives the verdict up.                               *)
LEMMA ClassifyStarts ==
  ASSUME IInv, NEW t \in Threads, NEW id \in Ids, Classifies(t, id)
  PROVE  StartedOn(t, id) /\ (call'[t].pc # "idle" => call'[t].op = "reclassify")
<1>1. PICK a \in Answers : Reclassify(t, id, a, FALSE)
  BY DEF Classifies
<1>2. CASE store[id] = Nil /\ Refuse(t, "error")
  BY <1>1, <1>2, RefuseEffect DEF Reclassify
<1>3. CASE store[id] # Nil /\ Begin(t, "reclassify", id, "classified",
                                    ClassifyInto(store[id], a, FALSE))
  <2>. DEFINE it == ClassifyInto(store[id], a, FALSE)
  <2>1. ~Verified(it)
    BY <1>3, StoredIs, ClassifiedVerdict
  <2>. HIDE DEF it
  <2>2. CanCall(t) /\ Begin(t, "reclassify", id, "classified", it)
    BY <1>1, <1>3, Zenon DEF Reclassify, it
  <2>. QED BY <1>3, <2>1, <2>2, BeginEffect DEF StartedOn
<1>. QED BY <1>1, <1>2, <1>3, Zenon DEF Reclassify

(* A re-route keeps it.                                                    *)
LEMMA RouteStarts ==
  ASSUME IInv, NEW t \in Threads, NEW id \in Ids, RouteItem(t, id)
  PROVE  StartedOn(t, id) /\ (call'[t].pc # "idle" => call'[t].op = "route")
<1>1. CASE Refuse(t, "error")
  BY <1>1, RefuseEffect DEF RouteItem
<1>2. CASE HasClass(id) /\ Begin(t, "route", id, "acting", Routed(store[id]))
  <2>1. store[id] # Nil /\ (Verified(Routed(store[id])) <=> Verified(store[id]))
    BY <1>2, StoredIs, RoutedVerdict DEF HasClass
  <2>. QED BY <1>2, <2>1, BeginEffect DEF RouteItem, StartedOn
<1>. QED BY <1>1, <1>2 DEF RouteItem

(* A review makes one.                                                     *)
LEMMA ReviewStarts ==
  ASSUME IInv, NEW t \in Threads, NEW id \in Ids, Reviews(t, id)
  PROVE  StartedOn(t, id) /\ (call'[t].pc # "idle" => call'[t].op = "review")
<1>1. ASSUME NEW category, NEW priority, ReviewItem(t, id, category, priority)
      PROVE  StartedOn(t, id) /\ (call'[t].pc # "idle" => call'[t].op = "review")
  <2>. DEFINE it == Routed(Reviewed(store[id], category, priority))
  <2>1. CASE Refuse(t, "error")
    BY <1>1, <2>1, RefuseEffect DEF ReviewItem
  <2>2. CASE CanReview(id, category, priority) /\ Begin(t, "review", id, "acting", it)
    <3>1. store[id] # Nil /\ store[id] \in Item /\ store[id].class \in Classification
      BY <2>2, StoredIs, Zenon DEF CanReview, HasClass
    <3>2. Verified(it)
      BY <2>2, <3>1, ReviewedVerdict, Zenon DEF CanReview
    <3>. HIDE DEF it
    <3>. QED BY <1>1, <2>2, <3>1, <3>2, BeginEffect DEF ReviewItem, StartedOn
  <2>. QED BY <1>1, <2>1, <2>2, Zenon DEF ReviewItem
<1>2. ASSUME Free(t), Refuse(t, "error")
      PROVE  StartedOn(t, id) /\ (call'[t].pc # "idle" => call'[t].op = "review")
  BY <1>2, RefuseEffect
<1>. QED BY <1>1, <1>2, Zenon DEF Reviews, Approve, Override

-----------------------------------------------------------------------------
(* A step of a call: it goes on with its item under the same verdict or    *)
(* ends, having written, hidden or left alone what is stored.              *)
StoresAt(t, item) ==
  /\ store'[call[t].id] = item
  /\ \A id \in Ids : id # call[t].id => store'[id] = store[id]

(* The call of t goes on, or it is over.                                   *)
WentOn(t) ==
  /\ OthersKept(t) /\ call[t].pc # "idle"
  /\ call'[t].pc # "idle" =>
       /\ call'[t].id = call[t].id /\ call'[t].op = call[t].op /\ call[t].pc # "accepting"
       /\ Verified(call'[t].item) <=> Verified(call[t].item)

WroteOrNot(t) ==
  \/ StoresAt(t, call[t].item) /\ Live(t) /\ Writes(t)
  \/ StoresAt(t, Nil) /\ ~Live(t) /\ Writes(t)
  \/ /\ UNCHANGED <<store, expires, due>>
     /\ behind' = behind \/ (call'[t].pc = "idle" /\ behind' = behind \ {t})
     /\ call[t].pc = "accepting" => call'[t].result = "error"

(* What a call under way holds.                                            *)
LEMMA CallHolds ==
  ASSUME IInv, NEW t \in Threads, call[t].pc # "idle"
  PROVE  /\ call \in [Threads -> Call] /\ call[t] \in Call /\ call[t].id \in Ids
         /\ call[t].item \in Item /\ call[t].item # Nil
         /\ call[t].pc \in {"classified", "acting"} => call[t].item.class \in Classification
  BY NilDistinct DEF IInv, TypeOK, CallOK

(* A Put stores the copy and touches no other item.                        *)
LEMMA WrittenStores ==
  ASSUME IInv, NEW t \in Threads, call[t].pc # "idle", Written(t)
  PROVE  StoresAt(t, call[t].item)
  BY CallHolds DEF Written, StoresAt, IInv, TypeOK

(* A call that returns is idle.                                            *)
LEMMA ReturnEffect ==
  ASSUME IInv, NEW t \in Threads, call[t].pc # "idle", NEW r, Return(t, r)
  PROVE  WentOn(t) /\ call'[t].pc = "idle" /\ call'[t].result = r
<1>1. call \in [Threads -> Call]
  BY CallHolds
<1>. QED BY <1>1 DEF Return, Idle, OthersKept, WentOn

(* After its first Put a call routes its copy (pipeline.go:199-203).       *)
LEMMA RoutesEffect ==
  ASSUME IInv, NEW t \in Threads, call[t].pc = "classified",
         call' = [call EXCEPT ![t] = [call[t] EXCEPT !.pc = "acting", !.item = Routed(call[t].item)]]
  PROVE  WentOn(t)
<1>. DEFINE item == Routed(call[t].item)
<1>1. Verified(item) <=> Verified(call[t].item)
  BY CallHolds, RoutedVerdict
<1>. HIDE DEF item
<1>2. call' = [call EXCEPT ![t] = [call[t] EXCEPT !.pc = "acting", !.item = item]]
  BY DEF item
<1>3. call \in [Threads -> Call] /\ call[t] \in Call
  BY CallHolds
<1>. DEFINE d == [call[t] EXCEPT !.pc = "acting", !.item = item]
<1>4. d.pc = "acting" /\ d.item = item /\ d.id = call[t].id /\ d.op = call[t].op
  BY <1>3 DEF Call
<1>. HIDE DEF d
<1>5. call' = [call EXCEPT ![t] = d]
  BY <1>2 DEF d
<1>. QED BY <1>1, <1>3, <1>4, <1>5 DEF OthersKept, WentOn

(* One turn of the loop keeps the label.                                   *)
LEMMA TurnEffect ==
  ASSUME IInv, NEW t \in Threads, Skip(t) \/ Execute(t) \/ ExecuteFails(t)
  PROVE  WentOn(t) /\ UNCHANGED store /\ call[t].pc = "acting"
<1>. DEFINE key == KeyOf(call[t].item, call[t].next)
<1>1. Acting(t) /\ UNCHANGED store
  BY DEF Skip, Execute, ExecuteFails
<1>2. /\ call[t].pc = "acting" /\ call[t].item \in Item /\ call[t].item.class \in Classification
      /\ key \in Key /\ Backed(call[t].item, outbox[call[t].id]) /\ call[t].id \in Ids
  BY <1>1, InLoop
<1>3. call \in [Threads -> Call] /\ outbox[call[t].id] \in Seq(Line)
  BY <1>2 DEF IInv, TypeOK
<1>4. Entry("action", Nil, key) \in Event /\ Entry("error", Nil, key) \in Event
  BY <1>2, EntryTyped DEF EventTypes
<1>5. \E item \in Item : \E failed : item.class = call[t].item.class /\ Advance(t, item, failed)
  <2>1. CASE Skip(t)
    <3>1. Advance(t, Logged(call[t].item, Entry("action", Nil, key)), call[t].failed)
      BY <2>1, Zenon DEF Skip
    <3>. QED BY <1>2, <1>4, <3>1, LoggedTyped, Zenon
  <2>2. CASE ExecuteFails(t)
    <3>1. Advance(t, Logged(call[t].item, Entry("error", Nil, key)), TRUE)
      BY <2>2, Zenon DEF ExecuteFails
    <3>. QED BY <1>2, <1>4, <3>1, LoggedTyped, Zenon
  <2>3. CASE Execute(t)
    <3>1. Advance(t, Executed(call[t].item, key), call[t].failed)
      BY <2>3, Zenon DEF Execute
    <3>. QED BY <1>2, <1>3, <3>1, ExecutedOK, Zenon
  <2>. QED BY <2>1, <2>2, <2>3
<1>6. PICK item \in Item : \E failed : item.class = call[t].item.class /\ Advance(t, item, failed)
  BY <1>5
<1>7. PICK failed : item.class = call[t].item.class /\ Advance(t, item, failed)
  BY <1>6
<1>8. Verified(item) <=> Verified(call[t].item)
  BY <1>2, <1>7, SameVerdict
<1>9. call' = [call EXCEPT ![t] = [call[t] EXCEPT !.next = @ + 1, !.item = item, !.failed = failed]]
  BY <1>7, Zenon DEF Advance, Advanced
<1>10. WentOn(t)
  BY <1>2, <1>3, <1>8, <1>9 DEF WentOn, OthersKept, Call
<1>. QED BY <1>1, <1>2, <1>10

(* What a step of a call does.                                             *)
LEMMA GoesEffect ==
  ASSUME IInv, NEW t \in Threads, Goes(t)
  PROVE  WentOn(t) /\ WroteOrNot(t)
<1>1. CASE Puts(t)
  <2>1. call[t].pc # "idle" /\ Written(t) /\ Live(t) /\ Writes(t)
    BY <1>1 DEF Puts, Live, PutAccepted, PutClassified, PutRouted
  <2>2. WentOn(t)
    BY <1>1, <2>1, ReturnEffect, RoutesEffect DEF Puts, PutAccepted, PutClassified, PutRouted
  <2>. QED BY <2>1, <2>2, WrittenStores DEF WroteOrNot
<1>2. CASE PutsExpired(t)
  <2>1. /\ call[t].pc # "idle" /\ ~Live(t) /\ Writes(t)
        /\ store' = [store EXCEPT ![call[t].id] = Nil]
    BY <1>2 DEF PutsExpired
  <2>2. WentOn(t)
    BY <1>2, <2>1, ReturnEffect, RoutesEffect DEF PutsExpired
  <2>3. StoresAt(t, Nil)
    BY <2>1, CallHolds DEF StoresAt, IInv, TypeOK
  <2>. QED BY <2>1, <2>2, <2>3 DEF WroteOrNot
<1>3. CASE PutErrs(t)
  <2>1. Live(t) /\ call[t].pc # "idle" /\ Return(t, "error")
    BY <1>3 DEF PutErrs, Live, PutFails
  <2>2. WentOn(t) /\ call'[t].pc = "idle" /\ call'[t].result = "error"
    BY <2>1, ReturnEffect
  <2>3. CASE store'[call[t].id] = call[t].item /\ Writes(t)
    <3>1. CASE Written(t)
      BY <2>1, <2>2, <2>3, <3>1, WrittenStores DEF WroteOrNot
    <3>2. CASE UNCHANGED store
      BY <2>1, <2>2, <2>3, <3>2 DEF WroteOrNot, StoresAt
    <3>. QED BY <1>3, <3>1, <3>2 DEF PutErrs, PutFails
  <2>4. CASE store' = store /\ behind' = behind \ {t} /\ UNCHANGED <<expires, due>>
    BY <2>2, <2>4 DEF WroteOrNot
  <2>. QED BY <1>3, <2>3, <2>4 DEF PutErrs
<1>4. CASE Acts(t)
  BY <1>4, TurnEffect DEF Acts, lives, WroteOrNot
<1>. QED BY <1>1, <1>2, <1>3, <1>4 DEF Goes

(* A dying process ends its calls.                                         *)
LEMMA DiesEffect ==
  ASSUME IInv, NEW t \in Threads, Dies(t)
  PROVE  /\ UNCHANGED <<store, outbox, calls, expires, due>>
         /\ \A u \in Threads : \/ call'[u].pc = "idle" /\ call'[u].result = "none" /\ request'[u] = Nil
                               \/ call'[u] = call[u] /\ request'[u] = request[u]
<1>1. \A u \in Threads : call'[u] = IF ProcOf[u] = ProcOf[t] THEN Idle("none") ELSE call[u]
  BY DEF Dies, Crash
<1>. QED BY <1>1 DEF Dies, Crash, Idle

-----------------------------------------------------------------------------
(* What is true of the service's calls and items holds with expiry as      *)
(* well: that an item is hidden breaks nothing.                            *)
LEMMA HiddenStep ==
  ASSUME IInv, NEW t \in Threads, NEW c, CallOK(c), CallBacked(c),
         call' \in {call, [call EXCEPT ![t] = c]}, UNCHANGED <<outbox, calls>>,
         store' \in [Ids -> Item \cup {Nil}], \A id \in Ids : store'[id] \in {store[id], Nil}
  PROVE  IInv'
<1>1. call \in [Threads -> Call] /\ c \in Call
  BY DEF IInv, TypeOK, CallOK
<1>2. \A u \in Threads : call'[u] \in {c, call[u]}
  BY <1>1
<1>3. TypeOK'
  BY <1>1 DEF IInv, TypeOK
<1>4. (DecisionCurrent /\ GateHolds /\ NothingClaimedUndone)'
  BY DEF IInv, DecisionCurrent, GateHolds, NothingClaimedUndone, Stored
<1>5. \A u \in Threads : CallOK(call'[u]) /\ CallBacked(call'[u])
  BY <1>2 DEF IInv
<1>6. (\A u \in Threads : CallOK(call[u]) /\ CallBacked(call[u]))'
  BY <1>5 DEF CallBacked
<1>. QED BY <1>3, <1>4, <1>6 DEF IInv

(* A call whose item has expired goes on as it would have.                 *)
LEMMA ExpiredStep ==
  ASSUME IInv, NEW t \in Threads, PutsExpired(t)
  PROVE  IInv'
<1>1. /\ call[t].pc # "idle" /\ store' = [store EXCEPT ![call[t].id] = Nil]
      /\ UNCHANGED <<outbox, calls>>
  BY DEF PutsExpired
<1>2. store' \in [Ids -> Item \cup {Nil}] /\ \A id \in Ids : store'[id] \in {store[id], Nil}
  BY <1>1 DEF IInv, TypeOK
<1>3. ASSUME NEW r \in {"none", "ok", "duplicate", "error"}, Return(t, r)
      PROVE  IInv'
  <2>1. CallOK(Idle(r)) /\ CallBacked(Idle(r))
    BY IdleOK DEF CallBacked
  <2>. QED BY <1>1, <1>2, <1>3, <2>1, HiddenStep DEF Return
<1>4. ASSUME call[t].pc = "classified",
             call' = [call EXCEPT ![t] = [call[t] EXCEPT !.pc = "acting",
                                                         !.item = Routed(call[t].item)]]
      PROVE  IInv'
  <2>. DEFINE c == call[t]
              item == Routed(c.item)
              d == [c EXCEPT !.pc = "acting", !.item = item]
  <2>1. CallOK(c) /\ CallBacked(c) /\ c.pc = "classified" /\ call' = [call EXCEPT ![t] = d]
    BY <1>4 DEF IInv
  <2>. HIDE DEF c
  <2>2. /\ c \in Call /\ c.op \in Ops /\ c.id \in Ids /\ c.item \in Item
        /\ c.item.class \in Classification /\ Backed(c.item, outbox[c.id])
    BY <2>1 DEF CallOK, CallBacked
  <2>3. /\ item \in Item /\ item.class \in Classification /\ item.decision = Route(item.class)
        /\ Consistent(item) /\ Backed(item, outbox[c.id])
    BY <2>2, RoutedOK
  <2>. HIDE DEF item
  <2>4. d \in Call /\ d.pc = "acting" /\ d.op = c.op /\ d.id = c.id /\ d.item = item /\ d.next = c.next
    BY <2>2, <2>3 DEF Call
  <2>5. c.next >= 1
    BY <2>1 DEF CallOK
  <2>. HIDE DEF d
  <2>6. CallOK(d) /\ CallBacked(d)
    BY <2>2, <2>3, <2>4, <2>5 DEF CallOK, CallBacked
  <2>. QED BY <1>1, <1>2, <2>1, <2>6, HiddenStep
<1>. QED BY <1>3, <1>4 DEF PutsExpired

-----------------------------------------------------------------------------
(* What the front ends keep is of its shape, only what belongs to a        *)
(* sandbox expires, and what getOwned let through may be reviewed          *)
(* (server.go:231-244).                                                    *)
Reviewer == [front: {"cli", "mcp", "dashboard"}, ws: Workspaces \cup {Shared}]

Deployed ==
  /\ sandboxes \in BOOLEAN /\ locked \in BOOLEAN
  /\ home \in [Ids -> IF sandboxes THEN Workspaces ELSE {Shared}]

Opened(t) == request[t] # Nil /\ request[t].kind = "review"

Submitting(t) == request[t] # Nil /\ request[t].kind = "submit"

RequestsOK ==
  /\ request \in [Threads -> Request \cup {Nil}]
  /\ \A t \in Threads : request[t] # Nil => FrontOf[t] = "dashboard"
  /\ \A t \in Threads : Opened(t) =>
       MayReview([front |-> "dashboard", ws |-> request[t].ws], request[t].id)

LivesOK ==
  /\ clock \in 0 .. MaxClock
  /\ until \in [Workspaces \cup {Shared} -> 0 .. MaxClock + SessionTTL \cup {Nil}]
  /\ expires \in [Ids -> Nat \cup {Nil}]
  /\ due \in [Threads -> Nat \cup {Nil}]
  /\ by \in [Ids -> SUBSET Reviewer]
  /\ \A id \in Ids : expires[id] # Nil => home[id] # Shared
  /\ \A t \in Threads : call[t].pc # "idle" /\ due[t] # Nil => home[call[t].id] # Shared

FInv == IInv /\ Deployed /\ RequestsOK /\ LivesOK

-----------------------------------------------------------------------------
(* The steps, as the invariants see them: a call begins, goes on or dies   *)
(* with its process, time passes, or no item and no call is touched.       *)
Entered(ws) == ws = Shared \/ until[ws] # Nil

Asked(t, id) ==
  \/ call'[t].op # "review" /\ UNCHANGED by
  \/ call'[t].pc = "idle" /\ UNCHANGED by
  \/ \E reviewer \in Reviewer : /\ MayReview(reviewer, id)
                                /\ by' = [by EXCEPT ![id] = @ \cup {reviewer}]

Submitted(t, id) ==
  /\ FrontOf[t] = "dashboard" /\ Entered(home[id])
  /\ request'[t] = [kind |-> "submit", ws |-> home[id], id |-> id]
  /\ IF call'[t].pc = "idle" THEN store[id] # Nil ELSE call'[t].pc = "accepting"

Begins(t, id) ==
  /\ StartedOn(t, id) /\ Carries(t, id) /\ Asked(t, id)
  /\ call'[t].pc # "idle" /\ store[id] = Nil => Entered(home[id]) \/ id \in mail
  /\ \A u \in Threads \ {t} : request'[u] = request[u]
  /\ request'[t] = Nil \/ Submitted(t, id)
  /\ UNCHANGED <<deployment, session, mail, told>>

(* Submitting, the rest of a review, a tool, icr and a worker begin calls. *)
Called(t, id) ==
  \/ \E ws \in Workspaces \cup {Shared} : Submits(t, ws, id)
  \/ ReviewsOpened(t) /\ request[t].id = id
  \/ AgentCalls(t, id) \/ PersonCalls(t, id) \/ Delivers(t, id)

(* A review is one the caller may ask for.                                 *)
LEMMA ReviewAsked ==
  ASSUME NEW t \in Threads, NEW id \in Ids, NEW front, NEW ws, Asks(t, front, ws, id),
         [front |-> front, ws |-> ws] \in Reviewer, MayReview([front |-> front, ws |-> ws], id)
  PROVE  Asked(t, id)
  BY DEF Asks, Asked

(* What begins, begins on a copy of the item, for one who may ask for it.  *)
LEMMA CallsBegin ==
  ASSUME FInv, NEW t \in Threads, NEW id \in Ids, Called(t, id)
  PROVE  Begins(t, id)
<1>. USE DEF FInv
<1>1. ASSUME NEW ws \in Workspaces \cup {Shared}, Submits(t, ws, id) PROVE Begins(t, id)
  <2>1. /\ StartedOn(t, id)
        /\ \/ call'[t].pc = "idle" /\ store[id] # Nil
           \/ call'[t].pc = "accepting" /\ call'[t].op = "accept"
    BY <1>1, AcceptStarts DEF Submits
  <2>2. Asked(t, id)
    BY <1>1, <2>1 DEF Submits, Serves, Asked
  <2>3. Entered(home[id])
    BY <1>1 DEF Submits, Serves, SignedIn, Entered
  <2>4. Submitted(t, id)
    BY <1>1, <2>1, <2>3 DEF Submits, Serves, Submitted, RequestsOK
  <2>5. \A u \in Threads \ {t} : request'[u] = request[u]
    BY <1>1 DEF Submits, Serves, RequestsOK
  <2>. QED BY <1>1, <2>1, <2>2, <2>3, <2>4, <2>5 DEF Begins, Submits, Serves
<1>2. CASE ReviewsOpened(t) /\ request[t].id = id
  <2>1. StartedOn(t, id) /\ (call'[t].pc # "idle" => call'[t].op = "review")
    BY <1>2, ReviewStarts DEF ReviewsOpened
  <2>2. request[t] \in Request /\ Opened(t)
    BY <1>2 DEF ReviewsOpened, RequestsOK, Opened
  <2>3. Asked(t, id)
    <3>1. [front |-> "dashboard", ws |-> request[t].ws] \in Reviewer
      BY <2>2 DEF Request, Reviewer
    <3>2. MayReview([front |-> "dashboard", ws |-> request[t].ws], id)
      BY <1>2, <2>2 DEF RequestsOK
    <3>. QED BY <1>2, <3>1, <3>2, ReviewAsked DEF ReviewsOpened
  <2>4. request'[t] = Nil /\ \A u \in Threads \ {t} : request'[u] = request[u]
    BY <1>2 DEF ReviewsOpened, RequestsOK
  <2>. QED BY <1>2, <2>1, <2>3, <2>4 DEF Begins, StartedOn, ReviewsOpened
<1>3. ASSUME FrontOf[t] # "dashboard", UNCHANGED request
      PROVE  request'[t] = Nil /\ \A u \in Threads \ {t} : request'[u] = request[u]
  BY <1>3 DEF RequestsOK
<1>4. CASE AgentCalls(t, id) \/ PersonCalls(t, id)
  <2>1. request'[t] = Nil /\ \A u \in Threads \ {t} : request'[u] = request[u]
    BY <1>3, <1>4 DEF AgentCalls, PersonCalls
  <2>2. CASE (RouteItem(t, id) \/ Classifies(t, id)) /\ UNCHANGED by
    <3>1. StartedOn(t, id) /\ (call'[t].pc # "idle" => call'[t].op \in {"route", "reclassify"})
      BY <2>2, RouteStarts, ClassifyStarts
    <3>2. Asked(t, id)
      BY <2>2, <3>1 DEF Asked
    <3>. QED BY <1>4, <2>1, <3>1, <3>2 DEF Begins, StartedOn, AgentCalls, PersonCalls
  <2>3. ASSUME Reviews(t, id), Asked(t, id) PROVE Begins(t, id)
    <3>1. StartedOn(t, id) /\ (call'[t].pc # "idle" => call'[t].op = "review")
      BY <2>3, ReviewStarts
    <3>. QED BY <1>4, <2>1, <2>3, <3>1 DEF Begins, StartedOn, AgentCalls, PersonCalls
  <2>4. CASE Enabled("approve") /\ Reviews(t, id) /\ Asks(t, "mcp", Shared, id)
    <3>1. /\ [front |-> "mcp", ws |-> Shared] \in Reviewer
          /\ MayReview([front |-> "mcp", ws |-> Shared], id)
      BY <2>4 DEF Reviewer, MayReview, Enabled
    <3>. QED BY <2>3, <2>4, <3>1, ReviewAsked
  <2>5. CASE Reviews(t, id) /\ Asks(t, "cli", Shared, id)
    <3>1. /\ [front |-> "cli", ws |-> Shared] \in Reviewer
          /\ MayReview([front |-> "cli", ws |-> Shared], id)
      BY DEF Reviewer, MayReview
    <3>. QED BY <2>3, <2>5, <3>1, ReviewAsked
  <2>. QED BY <1>4, <2>2, <2>4, <2>5 DEF AgentCalls, PersonCalls
<1>5. CASE Delivers(t, id)
  <2>1. StartedOn(t, id) /\ (call'[t].pc # "idle" => call'[t].op = "process")
    BY <1>5, ProcessStarts DEF Delivers
  <2>2. request'[t] = Nil /\ \A u \in Threads \ {t} : request'[u] = request[u]
    BY <1>3, <1>5 DEF Delivers
  <2>3. Asked(t, id)
    BY <1>5, <2>1 DEF Delivers, Asked
  <2>. QED BY <1>5, <2>1, <2>2, <2>3 DEF Begins, Delivers
<1>. QED BY <1>1, <1>2, <1>4, <1>5 DEF Called

(* A step that touches no item and no call.                                *)
Quiet == UNCHANGED <<vars, deployment, clock, lives, by>>

(* Every step is one of these.                                             *)
LEMMA StepKinds ==
  ASSUME FInv, [FrontNext]_world
  PROVE  \/ Quiet \/ Tick
         \/ \E t \in Threads : Goes(t) \/ Dies(t) \/ \E id \in Ids : Called(t, id)
<1>1. CASE UNCHANGED world
  BY <1>1 DEF world, fronts, session, Quiet
<1>2. ASSUME NEW ws \in Workspaces \cup {Shared}, LogIn(ws) PROVE Quiet
  BY <1>2 DEF LogIn, Quiet
<1>3. ASSUME NEW t \in Threads, Redirects(t) PROVE Quiet
  BY <1>3 DEF Redirects, session, Quiet
<1>4. ASSUME NEW t \in Threads, NEW ws, NEW id, Opens(t, ws, id) PROVE Quiet
  BY <1>4 DEF Opens, Serves, session, Quiet
<1>5. ASSUME NEW t \in Threads, ReviewsOpened(t) PROVE \E id \in Ids : Called(t, id)
  <2>1. request[t].id \in Ids
    BY <1>5 DEF ReviewsOpened, FInv, RequestsOK, Request
  <2>. QED BY <1>5, <2>1 DEF Called
<1>6. CASE FrontNext
  BY <1>2, <1>3, <1>4, <1>5, <1>6, Zenon DEF FrontNext, Called
<1>. QED BY <1>1, <1>6

(* Every step keeps what is true of the service's calls and items.         *)
LEMMA FrontServiceStep ==
  ASSUME FInv, [FrontNext]_world
  PROVE  IInv'
<1>. USE DEF FInv
<1>1. CASE Quiet
  BY <1>1, NextOK DEF Quiet
<1>2. CASE Tick
  <2>1. store' \in [Ids -> Item \cup {Nil}] /\ \A id \in Ids : store'[id] \in {store[id], Nil}
    BY <1>2 DEF Tick, IInv, TypeOK
  <2>2. UNCHANGED <<outbox, call, calls>>
    BY <1>2 DEF Tick
  <2>3. TypeOK'
    BY <2>1, <2>2 DEF IInv, TypeOK
  <2>4. (DecisionCurrent /\ GateHolds /\ NothingClaimedUndone)'
    BY <2>1, <2>2 DEF IInv, DecisionCurrent, GateHolds, NothingClaimedUndone, Stored
  <2>5. (\A u \in Threads : CallOK(call[u]) /\ CallBacked(call[u]))'
    BY <2>2 DEF IInv, CallBacked
  <2>. QED BY <2>3, <2>4, <2>5 DEF IInv
<1>3. ASSUME NEW t \in Threads, Goes(t) PROVE IInv'
  <2>1. CASE PutsExpired(t)
    BY <2>1, ExpiredStep
  <2>2. CASE Step(t)
    BY <2>2, StepStep
  <2>. QED BY <1>3, <2>1, <2>2, Zenon DEF Goes, Puts, Acts, PutErrs, Step
<1>4. ASSUME NEW t \in Threads, Dies(t) PROVE IInv'
  BY <1>4, CrashStep DEF Dies
<1>5. ASSUME NEW t \in Threads, NEW id \in Ids, Called(t, id) PROVE IInv'
  <2>1. ASSUME Start(t) PROVE IInv'
    BY <2>1, StartStep
  <2>2. Reviews(t, id) \/ Classifies(t, id) => Start(t)
    BY Zenon DEF Start, Reviews, Classifies
  <2>3. (ProcessIgnored(t, id) \/ \E a \in Answers : Process(t, id, a, FALSE)) => Start(t)
    BY Zenon DEF Start
  <2>4. Accept(t, id) \/ RouteItem(t, id) => Start(t)
    BY Zenon DEF Start
  <2>. QED BY <1>5, <2>1, <2>2, <2>3, <2>4
           DEF Called, Submits, ReviewsOpened, AgentCalls, PersonCalls, Delivers
<1>. QED BY <1>1, <1>2, <1>3, <1>4, <1>5, StepKinds

(* No step changes how the front ends were started.                        *)
LEMMA DeployedStep ==
  ASSUME FInv, [FrontNext]_world
  PROVE  UNCHANGED deployment
<1>1. Quiet => UNCHANGED deployment
  BY DEF Quiet
<1>2. Tick => UNCHANGED deployment
  BY DEF Tick
<1>3. ASSUME NEW t \in Threads, Goes(t) \/ Dies(t) PROVE UNCHANGED deployment
  BY <1>3 DEF Goes, Dies
<1>4. ASSUME NEW t \in Threads, NEW id \in Ids, Called(t, id) PROVE UNCHANGED deployment
  BY <1>4, CallsBegin DEF Begins
<1>. QED BY <1>1, <1>2, <1>3, <1>4, StepKinds

(* Requests are taken by the dashboard, for items it may show.             *)
LEMMA RequestsStep ==
  ASSUME FInv, [FrontNext]_world
  PROVE  RequestsOK'
<1>. USE DEF FInv
<1>1. UNCHANGED <<sandboxes, locked, allow, home>>
  BY DeployedStep DEF deployment
<1>2. ASSUME request' \in [Threads -> Request \cup {Nil}],
             \A t \in Threads : request'[t] \in {request[t], Nil}
      PROVE  RequestsOK'
  BY <1>1, <1>2 DEF RequestsOK, Opened, MayReview
<1>3. ASSUME UNCHANGED request PROVE RequestsOK'
  BY <1>2, <1>3 DEF RequestsOK
<1>4. ASSUME NEW t \in Threads, NEW ws \in Workspaces \cup {Shared}, NEW id \in Ids,
             Submits(t, ws, id) \/ Opens(t, ws, id)
      PROVE  RequestsOK'
  <2>1. PICK kind \in {"submit", "review"} :
          /\ FrontOf[t] = "dashboard"
          /\ request' = [request EXCEPT ![t] = [kind |-> kind, ws |-> ws, id |-> id]]
          /\ kind = "review" => GetOwned(ws, id)
    BY <1>4 DEF Submits, Opens, Serves
  <2>. DEFINE r == [kind |-> kind, ws |-> ws, id |-> id]
  <2>2. r \in Request /\ r.kind = kind /\ r.ws = ws /\ r.id = id
    BY DEF Request
  <2>3. kind = "review" => MayReview([front |-> "dashboard", ws |-> ws], id)
    <3>1. ~sandboxes => home[id] = Shared
      BY DEF Deployed
    <3>. QED BY <2>1, <3>1 DEF GetOwned, MayReview
  <2>. HIDE DEF r
  <2>4. request' = [request EXCEPT ![t] = r]
    BY <2>1 DEF r
  <2>. QED BY <1>1, <2>1, <2>2, <2>3, <2>4 DEF RequestsOK, Opened, MayReview
<1>5. ASSUME NEW t \in Threads, Dies(t) PROVE RequestsOK'
  <2>1. request' \in [Threads -> Request \cup {Nil}]
    BY <1>5 DEF Dies, RequestsOK
  <2>. QED BY <1>2, <1>5, <2>1 DEF Dies
<1>6. ASSUME NEW t \in Threads, Redirects(t) \/ ReviewsOpened(t) PROVE RequestsOK'
  <2>1. request' = [request EXCEPT ![t] = Nil]
    BY <1>6 DEF Redirects, ReviewsOpened
  <2>. QED BY <1>2, <2>1 DEF RequestsOK
<1>. QED BY <1>3, <1>4, <1>5, <1>6, Zenon
         DEF FrontNext, world, fronts, Tick, LogIn, Goes, AgentCalls, PersonCalls, Delivers

(* Times are natural numbers.                                              *)
LEMMA Times ==
  /\ SessionTTL \in Nat /\ DefaultTTL \in Nat /\ MaxClock \in Nat
  /\ \A t \in Threads : SandboxTTL[ProcOf[t]] \in Nat
  /\ Nil \notin Nat /\ Shared \notin Workspaces
  BY FrontEndsAssumption DEF Shared

(* The expiry a new item gets is some time from now, or none (newItem).    *)
LEMMA NewExpiryTyped ==
  ASSUME FInv, NEW t \in Threads, NEW id \in Ids
  PROVE  NewExpiry(t, id) \in Nat \cup {Nil} /\ (NewExpiry(t, id) # Nil => home[id] # Shared)
<1>1. clock \in Nat
  BY Times DEF FInv, LivesOK
<1>. QED BY <1>1, Times DEF NewExpiry

(* What a call carries is typed and is of a sandbox, if it expires.        *)
LEMMA CarriesTyped ==
  ASSUME FInv, NEW t \in Threads, NEW id \in Ids, Carries(t, id)
  PROVE  /\ due' \in [Threads -> Nat \cup {Nil}] /\ UNCHANGED <<expires, behind>>
         /\ \A u \in Threads \ {t} : due'[u] = due[u]
         /\ call'[t].pc # "idle" => due'[t] = IF store[id] = Nil THEN NewExpiry(t, id) ELSE expires[id]
         /\ due'[t] # Nil => home[id] # Shared
<1>1. due \in [Threads -> Nat \cup {Nil}] /\ expires[id] \in Nat \cup {Nil}
      /\ (expires[id] # Nil => home[id] # Shared)
  BY DEF FInv, LivesOK
<1>. DEFINE new == IF call'[t].pc = "idle" THEN Nil
                   ELSE IF store[id] = Nil THEN NewExpiry(t, id) ELSE expires[id]
<1>2. new \in Nat \cup {Nil} /\ (new # Nil => home[id] # Shared)
  BY <1>1, NewExpiryTyped
<1>3. call'[t].pc # "idle" => new = IF store[id] = Nil THEN NewExpiry(t, id) ELSE expires[id]
  OBVIOUS
<1>. HIDE DEF new
<1>4. due' = [due EXCEPT ![t] = new] /\ UNCHANGED <<expires, behind>>
  BY DEF Carries, new
<1>. QED BY <1>1, <1>2, <1>3, <1>4

(* What a step of a call does to the lives of items.                       *)
LEMMA WritesTyped ==
  ASSUME FInv, NEW t \in Threads, call[t].pc # "idle", Writes(t)
  PROVE  /\ expires' \in [Ids -> Nat \cup {Nil}] /\ UNCHANGED due
         /\ expires'[call[t].id] = due[t]
         /\ \A id \in Ids : id # call[t].id => expires'[id] = expires[id]
         /\ \A u \in Threads \ {t} : call[u].id = call[t].id /\ call'[u].pc # "idle" => u \in behind'
         /\ \A u \in behind : call'[u].pc # "idle" => u \in behind'
<1>1. call[t].id \in Ids
  BY CallHolds DEF FInv
<1>2. expires \in [Ids -> Nat \cup {Nil}] /\ due \in [Threads -> Nat \cup {Nil}]
  BY DEF FInv, LivesOK
<1>. QED BY <1>1, <1>2 DEF Writes

(* Sessions end some time after now, and what expires is of a sandbox.     *)
LEMMA LivesStep ==
  ASSUME FInv, [FrontNext]_world
  PROVE  LivesOK'
<1>. USE DEF FInv
<1>1. UNCHANGED <<sandboxes, locked, allow, home>>
  BY DeployedStep DEF deployment
<1>2. CASE Quiet
  <2>1. UNCHANGED until \/ \E ws \in Workspaces \cup {Shared} :
                             until' = [until EXCEPT ![ws] = clock + SessionTTL]
    <3>1. CASE UNCHANGED world
      BY <3>1 DEF world, fronts, session
    <3>2. ASSUME NEW ws \in Workspaces \cup {Shared}, LogIn(ws)
          PROVE  \E v \in Workspaces \cup {Shared} : until' = [until EXCEPT ![v] = clock + SessionTTL]
      BY <3>2 DEF LogIn
    <3>3. ASSUME NEW t \in Threads, Goes(t) \/ Dies(t) PROVE UNCHANGED until
      BY <3>3 DEF Goes, Dies, session
    <3>4. ASSUME NEW t \in Threads, NEW id \in Ids, Called(t, id) PROVE UNCHANGED until
      BY <3>4, CallsBegin DEF Begins, session
    <3>5. ASSUME NEW t \in Threads, Redirects(t) PROVE UNCHANGED until
      BY <3>5 DEF Redirects, session
    <3>6. ASSUME NEW t \in Threads, NEW ws, NEW id, Opens(t, ws, id) PROVE UNCHANGED until
      BY <3>6 DEF Opens, Serves, session
    <3>7. Tick => UNCHANGED until
      BY DEF Tick
    <3>8. ASSUME NEW t \in Threads, ReviewsOpened(t) PROVE UNCHANGED until
      BY <3>8 DEF ReviewsOpened, session
    <3>. QED BY <3>1, <3>2, <3>3, <3>4, <3>5, <3>6, <3>7, <3>8, Zenon DEF FrontNext, Called
  <2>2. clock + SessionTTL \in 0 .. MaxClock + SessionTTL
    BY Times DEF LivesOK
  <2>3. until' \in [Workspaces \cup {Shared} -> 0 .. MaxClock + SessionTTL \cup {Nil}]
    BY <2>1, <2>2 DEF LivesOK
  <2>. QED BY <1>2, <2>3 DEF Quiet, LivesOK, lives, vars, deployment
<1>3. CASE Tick
  BY <1>1, <1>3, Times DEF Tick, LivesOK, lives
<1>4. ASSUME NEW t \in Threads, Goes(t) PROVE LivesOK'
  <2>1. WentOn(t) /\ WroteOrNot(t) /\ UNCHANGED <<session, by>> /\ call[t].id \in Ids
    BY <1>4, GoesEffect, CallHolds DEF Goes, WentOn
  <2>2. expires' \in [Ids -> Nat \cup {Nil}] /\ UNCHANGED due
        /\ \A id \in Ids : expires'[id] # Nil => home[id] # Shared
    BY <2>1, WritesTyped DEF WroteOrNot, WentOn, LivesOK
  <2>3. \A u \in Threads : call'[u].pc # "idle" => call[u].pc # "idle" /\ call'[u].id = call[u].id
    BY <2>1 DEF WentOn, OthersKept
  <2>. QED BY <1>1, <2>1, <2>2, <2>3 DEF LivesOK, session
<1>5. ASSUME NEW t \in Threads, Dies(t) PROVE LivesOK'
  <2>1. /\ UNCHANGED <<expires, due, session, by>>
        /\ \A u \in Threads : call'[u].pc = "idle" \/ call'[u] = call[u]
    BY <1>5, DiesEffect DEF Dies
  <2>. QED BY <1>1, <2>1 DEF LivesOK, session
<1>6. ASSUME NEW t \in Threads, NEW id \in Ids, Called(t, id) PROVE LivesOK'
  <2>1. Begins(t, id) /\ StartedOn(t, id) /\ Carries(t, id)
    BY <1>6, CallsBegin DEF Begins
  <2>2. by' \in [Ids -> SUBSET Reviewer]
    BY <2>1 DEF Begins, Asked, LivesOK
  <2>3. \A u \in Threads : call'[u].pc # "idle" /\ due'[u] # Nil => home[call'[u].id] # Shared
    BY <2>1, CarriesTyped DEF StartedOn, OthersKept, LivesOK
  <2>. QED BY <1>1, <2>1, <2>2, <2>3, CarriesTyped DEF Begins, session, LivesOK
<1>. QED BY <1>2, <1>3, <1>4, <1>5, <1>6, StepKinds

(* The initial states are of that shape.                                   *)
LEMMA FrontInitOK == FrontInit => FInv
<1>. SUFFICES ASSUME FrontInit PROVE FInv
  OBVIOUS
<1>1. IInv
  BY InitOK DEF FrontInit
<1>2. \A t \in Threads : call[t].pc = "idle"
  BY DEF FrontInit, Init, Idle
<1>3. Deployed /\ RequestsOK
  BY DEF FrontInit, Deployed, RequestsOK, Opened
<1>4. LivesOK
  BY <1>2, Times DEF FrontInit, LivesOK
<1>. QED BY <1>1, <1>3, <1>4 DEF FInv

(* Every step keeps the shape.                                             *)
LEMMA FrontStepOK == FInv /\ [FrontNext]_world => FInv'
<1>. SUFFICES ASSUME FInv, [FrontNext]_world PROVE FInv'
  OBVIOUS
<1>1. Deployed'
  BY DeployedStep DEF deployment, Deployed, FInv
<1>. QED BY <1>1, FrontServiceStep, RequestsStep, LivesStep DEF FInv

(* It holds in every reachable state.                                      *)
LEMMA FrontInductive == FrontSpec => []FInv
  BY FrontInitOK, FrontStepOK, PTL DEF FrontSpec

(* Types, with sandboxes and requests (store.go, auth.go, server.go): an   *)
(* item of the shared workspace never expires.                             *)
THEOREM FrontTypesCorrect == FrontSpec => []FrontOK
<1>1. FInv => FrontOK
  BY DEF FInv, IInv, LivesOK, RequestsOK, FrontOK
<1>. QED BY <1>1, FrontInductive, PTL

-----------------------------------------------------------------------------
(* A call no other has overtaken holds a copy of the item with its expiry  *)
(* and, unless it re-classifies, with its verdict; what is stored has not  *)
(* expired.                                                                *)
UpToDate(t) ==
  LET id == call[t].id
  IN /\ store[id] # Nil => due[t] = expires[id]
     /\ call[t].op # "reclassify" /\ Verified(store[id]) => Verified(call[t].item)

VInv ==
  /\ \A t \in Threads : call[t].pc # "idle" /\ t \notin behind => UpToDate(t)
  /\ \A id \in Ids : store[id] # Nil => ~Over(expires[id], clock)

(* Nothing is stored that a person stands behind.                          *)
LEMMA NilUnverified == ~Verified(Nil)
  BY DEF Verified

(* A step that leaves a call's copy, its item and who is behind alone.     *)
LEMMA StaysUpToDate ==
  ASSUME NEW t, UpToDate(t), call'[t] = call[t], due'[t] = due[t],
         expires'[call[t].id] = expires[call[t].id],
         store'[call[t].id] \in {store[call[t].id], Nil}
  PROVE  UpToDate(t)'
  BY NilUnverified DEF UpToDate

(* A step of a call: the others on its item fall behind.                   *)
LEMMA GoesUpToDate ==
  ASSUME FInv, VInv, NEW t \in Threads, Goes(t)
  PROVE  VInv'
<1>1. WentOn(t) /\ WroteOrNot(t) /\ UNCHANGED clock /\ call[t].id \in Ids /\ call[t].item # Nil
  BY GoesEffect, CallHolds DEF Goes, WentOn, FInv, session
<1>2. \A u \in Threads : call'[u].pc # "idle" => call[u].pc # "idle" /\ call'[u].id = call[u].id
                                                /\ call[u].id \in Ids
  BY <1>1, CallHolds DEF WentOn, OthersKept, FInv
<1>3. CASE UNCHANGED <<store, expires, due>> /\ (behind' = behind \/ (call'[t].pc = "idle" /\ behind' = behind \ {t}))
  <2>1. ASSUME NEW u \in Threads, call'[u].pc # "idle", u \notin behind'
        PROVE  UpToDate(u)'
    <3>1. u \notin behind /\ UpToDate(u)
      BY <1>2, <1>3, <2>1 DEF VInv
    <3>2. call'[u].id = call[u].id /\ call'[u].op = call[u].op
          /\ (Verified(call[u].item) => Verified(call'[u].item))
      BY <1>1, <2>1 DEF WentOn, OthersKept
    <3>. QED BY <1>3, <3>1, <3>2 DEF UpToDate
  <2>. QED BY <1>1, <1>3, <2>1 DEF VInv
<1>4. ASSUME NEW item \in {call[t].item, Nil}, StoresAt(t, item), Writes(t), item # Nil => Live(t)
      PROVE  VInv'
  <2>1. ASSUME NEW u \in Threads, call'[u].pc # "idle", u \notin behind'
        PROVE  UpToDate(u)'
    <3>1. CASE u = t
      <4>1. call'[t].id = call[t].id /\ (Verified(call[t].item) => Verified(call'[t].item))
        BY <1>1, <2>1, <3>1 DEF WentOn
      <4>. QED BY <1>1, <1>4, <3>1, <4>1, WritesTyped, NilUnverified DEF UpToDate, StoresAt, WentOn
    <3>2. CASE u # t
      <4>1. call'[u] = call[u] /\ call[u].id # call[t].id /\ u \notin behind /\ call[u].id \in Ids
        BY <1>1, <1>2, <1>4, <2>1, <3>2, WritesTyped DEF WentOn, OthersKept
      <4>2. UpToDate(u)
        BY <2>1, <4>1 DEF VInv
      <4>. QED BY <1>1, <1>4, <4>1, <4>2, WritesTyped, StaysUpToDate DEF StoresAt, WentOn
    <3>. QED BY <3>1, <3>2
  <2>2. ASSUME NEW id \in Ids, store'[id] # Nil
        PROVE  ~Over(expires'[id], clock)
    <3>1. CASE id = call[t].id
      BY <1>1, <1>4, <2>2, <3>1, WritesTyped DEF StoresAt, WentOn, Live
    <3>2. CASE id # call[t].id
      BY <1>1, <1>4, <2>2, <3>2, WritesTyped DEF StoresAt, WentOn, VInv
    <3>. QED BY <3>1, <3>2
  <2>. QED BY <1>1, <2>1, <2>2 DEF VInv
<1>. QED BY <1>1, <1>3, <1>4 DEF WroteOrNot

(* Every step keeps it.                                                    *)
LEMMA UpToDateStep == FInv /\ VInv /\ [FrontNext]_world => VInv'
<1>. SUFFICES ASSUME FInv, VInv, [FrontNext]_world PROVE VInv'
  OBVIOUS
<1>1. CASE Quiet
  BY <1>1 DEF Quiet, VInv, UpToDate, vars, lives
<1>2. CASE Tick
  <2>1. /\ UNCHANGED <<call, due, expires, behind>> /\ store \in [Ids -> Item \cup {Nil}]
        /\ \A id \in Ids : store'[id] = IF Over(expires[id], clock') THEN Nil ELSE store[id]
    BY <1>2 DEF Tick, lives, FInv, IInv, TypeOK
  <2>2. ASSUME NEW t \in Threads, call[t].pc # "idle", t \notin behind PROVE UpToDate(t)'
    BY <2>1, <2>2, CallHolds, StaysUpToDate DEF VInv, FInv
  <2>. QED BY <2>1, <2>2 DEF VInv
<1>3. ASSUME NEW t \in Threads, Dies(t) PROVE VInv'
  <2>1. /\ UNCHANGED <<store, expires, due, clock>>
        /\ \A u \in Threads : call'[u].pc = "idle" \/ call'[u] = call[u]
        /\ \A u \in Threads : call'[u].pc # "idle" /\ u \notin behind' => u \notin behind
    BY <1>3, DiesEffect DEF Dies, FInv, session
  <2>. QED BY <2>1 DEF VInv, UpToDate
<1>4. ASSUME NEW t \in Threads, NEW id \in Ids, Called(t, id) PROVE VInv'
  <2>1. Begins(t, id) /\ StartedOn(t, id) /\ Carries(t, id) /\ UNCHANGED <<store, clock>>
    BY <1>4, CallsBegin DEF Begins, StartedOn, session
  <2>2. ASSUME NEW u \in Threads, call'[u].pc # "idle", u \notin behind' PROVE UpToDate(u)'
    <3>1. CASE u = t
      BY <2>1, <2>2, <3>1, CarriesTyped DEF StartedOn, UpToDate
    <3>2. CASE u # t
      BY <2>1, <2>2, <3>2, CarriesTyped DEF StartedOn, OthersKept, UpToDate, VInv
    <3>. QED BY <3>1, <3>2
  <2>. QED BY <2>1, <2>2, CarriesTyped DEF VInv
<1>. QED BY <1>1, <1>2, <1>3, <1>4, GoesUpToDate, StepKinds

(* A verdict is given up only to a new classification somebody asked for,  *)
(* to the end of the sandbox, or to a call of another process that had     *)
(* read the item before the verdict was written (pipeline.go:172-174).     *)
THEOREM VerdictsYieldOnlyToRivals == FrontSpec => VerdictYieldsToRivalsOnly
<1>. DEFINE Yields == \A id \in Ids : Verified(store[id]) /\ ~Verified(store'[id]) =>
              \/ clock' # clock
              \/ \E t \in Threads : call[t].id = id /\ (call[t].op = "reclassify" \/ t \in behind)
<1>1. FrontInit => VInv
  BY DEF FrontInit, Init, Idle, VInv
<1>2. FInv /\ VInv /\ [FrontNext]_world => Yields
  <2>. SUFFICES ASSUME FInv, VInv, [FrontNext]_world,
                       NEW id \in Ids, Verified(store[id]), ~Verified(store'[id]), clock' = clock
                PROVE  \E t \in Threads : call[t].id = id /\ (call[t].op = "reclassify" \/ t \in behind)
    OBVIOUS
  <2>1. store[id] # Nil /\ store'[id] # store[id]
    BY NilUnverified
  <2>2. ~Quiet
    BY <2>1 DEF Quiet, vars
  <2>3. ~Tick
    BY Times DEF Tick, FInv, LivesOK
  <2>4. ASSUME NEW t \in Threads PROVE ~Dies(t)
    BY <2>1, DiesEffect DEF FInv
  <2>5. ASSUME NEW t \in Threads, NEW i \in Ids PROVE ~Called(t, i)
    BY <2>1, CallsBegin DEF Begins, StartedOn
  <2>6. PICK t \in Threads : Goes(t)
    BY <2>2, <2>3, <2>4, <2>5, StepKinds
  <2>7. WentOn(t) /\ WroteOrNot(t)
    BY <2>6, GoesEffect DEF FInv
  <2>8. call[t].id = id
    BY <2>1, <2>7 DEF WroteOrNot, StoresAt
  <2>9. SUFFICES ASSUME call[t].op # "reclassify", t \notin behind PROVE FALSE
    BY <2>8
  <2>10. due[t] = expires[id] /\ Verified(call[t].item)
    BY <2>1, <2>7, <2>8, <2>9 DEF VInv, UpToDate, WentOn
  <2>11. ~Over(expires[id], clock)
    BY <2>1 DEF VInv
  <2>. QED BY <2>1, <2>7, <2>8, <2>10, <2>11 DEF WroteOrNot, StoresAt, Live, WentOn
<1>. QED BY <1>1, <1>2, FrontInductive, UpToDateStep, PTL DEF FrontSpec, VerdictYieldsToRivalsOnly

-----------------------------------------------------------------------------
(* The verdict a call holds has been asked for, like the one that is       *)
(* stored, by some who may.                                                *)
RInv ==
  /\ ReviewedByOneWhoMay
  /\ \A t \in Threads : call[t].pc # "idle" /\ Verified(call[t].item) => by[call[t].id] # {}

(* A step that asks for no review and makes no verdict.                    *)
LEMMA NoneReviewed ==
  ASSUME RInv, UNCHANGED deployment, UNCHANGED by,
         \A id \in Ids : Verified(store'[id]) =>
           \/ Verified(store[id])
           \/ \E t \in Threads : call[t].pc # "idle" /\ call[t].id = id /\ Verified(call[t].item),
         \A t \in Threads : call'[t].pc # "idle" /\ Verified(call'[t].item) =>
           \/ call'[t].id \in Ids /\ Verified(store[call'[t].id])
           \/ call[t].pc # "idle" /\ call'[t].id = call[t].id /\ Verified(call[t].item)
  PROVE  RInv'
<1>1. \A id \in Ids : Verified(store'[id]) => by'[id] # {}
  BY DEF RInv, ReviewedByOneWhoMay
<1>2. \A id \in Ids : \A reviewer \in by'[id] : MayReview(reviewer, id)'
  BY DEF RInv, ReviewedByOneWhoMay, MayReview, deployment
<1>3. \A t \in Threads : call'[t].pc # "idle" /\ Verified(call'[t].item) => by'[call'[t].id] # {}
  BY DEF RInv, ReviewedByOneWhoMay
<1>. QED BY <1>1, <1>2, <1>3 DEF RInv, ReviewedByOneWhoMay

(* A call that begins.                                                     *)
LEMMA BeginsReviewed ==
  ASSUME FInv, RInv, NEW t \in Threads, NEW id \in Ids, Begins(t, id)
  PROVE  RInv'
<1>1. /\ StartedOn(t, id) /\ Asked(t, id) /\ UNCHANGED <<store, deployment>>
      /\ \A u \in Threads \ {t} : call'[u] = call[u]
  BY DEF Begins, StartedOn, OthersKept
<1>2. CASE UNCHANGED by /\ (call'[t].op # "review" \/ call'[t].pc = "idle")
  <2>1. \A u \in Threads : call'[u].pc # "idle" /\ Verified(call'[u].item) =>
           \/ call'[u].id \in Ids /\ Verified(store[call'[u].id])
           \/ call[u].pc # "idle" /\ call'[u].id = call[u].id /\ Verified(call[u].item)
    BY <1>1, <1>2 DEF StartedOn
  <2>. QED BY <1>1, <1>2, <2>1, NoneReviewed
<1>3. ASSUME NEW reviewer \in Reviewer, MayReview(reviewer, id),
             by' = [by EXCEPT ![id] = @ \cup {reviewer}]
      PROVE  RInv'
  <2>1. /\ by'[id] = by[id] \cup {reviewer}
        /\ \A i \in Ids : by'[i] = by[i] \/ i = id
        /\ \A i \in Ids : by[i] # {} => by'[i] # {}
    BY <1>3 DEF FInv, LivesOK
  <2>2. ASSUME NEW i \in Ids PROVE \A r \in by'[i] : MayReview(r, i)'
    <3>1. \A r \in by'[i] : MayReview(r, i)
      BY <1>3, <2>1 DEF RInv, ReviewedByOneWhoMay
    <3>. QED BY <1>1, <3>1 DEF MayReview, deployment
  <2>3. ASSUME NEW u \in Threads, call'[u].pc # "idle", Verified(call'[u].item)
        PROVE  by'[call'[u].id] # {}
    <3>1. CASE u = t
      BY <1>1, <2>1, <2>3, <3>1 DEF StartedOn
    <3>2. CASE u # t
      <4>1. call[u].pc # "idle" /\ Verified(call[u].item) /\ call'[u].id = call[u].id
            /\ call[u].id \in Ids
        BY <1>1, <2>3, <3>2, CallHolds DEF FInv
      <4>. QED BY <2>1, <4>1 DEF RInv
    <3>. QED BY <3>1, <3>2
  <2>. QED BY <1>1, <2>1, <2>2, <2>3 DEF RInv, ReviewedByOneWhoMay
<1>. QED BY <1>1, <1>2, <1>3 DEF Asked

(* Every step keeps it.                                                    *)
LEMMA ReviewedStep == FInv /\ RInv /\ [FrontNext]_world => RInv'
<1>. SUFFICES ASSUME FInv, RInv, [FrontNext]_world PROVE RInv'
  OBVIOUS
<1>1. UNCHANGED deployment
  BY DeployedStep
<1>2. \A t \in Threads : call[t].pc # "idle" => call[t].id \in Ids
  BY CallHolds DEF FInv
<1>3. CASE Quiet
  BY <1>1, <1>2, <1>3, NoneReviewed DEF Quiet, vars
<1>4. CASE Tick
  <2>1. UNCHANGED <<call, by>> /\ \A id \in Ids : store'[id] \in {store[id], Nil}
    BY <1>4 DEF Tick, FInv, IInv, TypeOK
  <2>. QED BY <1>1, <1>2, <2>1, NilUnverified, NoneReviewed
<1>5. ASSUME NEW t \in Threads, Goes(t) PROVE RInv'
  <2>1. WentOn(t) /\ WroteOrNot(t) /\ UNCHANGED by
    BY <1>5, GoesEffect DEF Goes, FInv
  <2>2. \A id \in Ids : Verified(store'[id]) =>
           \/ Verified(store[id])
           \/ \E u \in Threads : call[u].pc # "idle" /\ call[u].id = id /\ Verified(call[u].item)
    BY <2>1, NilUnverified DEF WroteOrNot, StoresAt, WentOn
  <2>3. \A u \in Threads : call'[u].pc # "idle" /\ Verified(call'[u].item) =>
           call[u].pc # "idle" /\ call'[u].id = call[u].id /\ Verified(call[u].item)
    BY <2>1 DEF WentOn, OthersKept
  <2>. QED BY <1>1, <2>1, <2>2, <2>3, NoneReviewed
<1>6. ASSUME NEW t \in Threads, Dies(t) PROVE RInv'
  <2>1. /\ UNCHANGED <<store, by>>
        /\ \A u \in Threads : call'[u].pc = "idle" \/ call'[u] = call[u]
    BY <1>6, DiesEffect DEF Dies, FInv
  <2>. QED BY <1>1, <2>1, NoneReviewed
<1>. QED BY <1>3, <1>4, <1>5, <1>6, CallsBegin, BeginsReviewed, StepKinds

(* An item passes as human-verified only after a review by one who may     *)
(* give it (server.go:231-244, mcp/server.go:273), although a review is    *)
(* checked on one copy of the item and done on another.                    *)
THEOREM ReviewsAreAllowed == FrontSpec => []ReviewedByOneWhoMay
<1>1. FrontInit => RInv
  BY NilUnverified DEF FrontInit, Init, Idle, RInv, ReviewedByOneWhoMay
<1>2. RInv => ReviewedByOneWhoMay
  BY DEF RInv
<1>. QED BY <1>1, <1>2, FrontInductive, ReviewedStep, PTL DEF FrontSpec

-----------------------------------------------------------------------------
(* Expiry is past the end of the session whose sandbox the item is in, so  *)
(* a ticket that was promised is stored or its session is over.            *)
ExpiryOutlivesSessions ==
  /\ DefaultTTL > SessionTTL
  /\ \A t \in Threads : SandboxTTL[ProcOf[t]] = 0 \/ SandboxTTL[ProcOf[t]] > SessionTTL

Outlives(expiry, ws) ==
  IF ws = Shared THEN expiry = Nil
  ELSE until[ws] # Nil /\ expiry # Nil /\ expiry > until[ws]

Ended(ws) == ws # Shared /\ until[ws] # Nil /\ clock > until[ws]

Known(id) == store[id] # Nil \/ Ended(home[id])

(* What the dashboard has in hand for a submission.                        *)
SubmissionOK(t) ==
  LET id == request[t].id
  IN /\ FrontOf[t] = "dashboard" /\ id \in Ids /\ Entered(home[id])
     /\ call[t].pc # "idle" => call[t].pc = "accepting" /\ call[t].id = id
     /\ call[t].pc = "idle" /\ call[t].result \in {"ok", "duplicate"} => Known(id)

KInv ==
  /\ \A ws \in Workspaces \cup {Shared} : until[ws] # Nil => until[ws] <= clock + SessionTTL
  /\ \A t \in Threads : call[t].pc # "idle" => Outlives(due[t], home[call[t].id])
  /\ \A id \in Ids : store[id] # Nil => Outlives(expires[id], home[id])
  /\ mail \subseteq Ids /\ \A id \in mail : Entered(home[id])
  /\ told \subseteq Ids /\ \A id \in told : Known(id)
  /\ \A t \in Threads : Submitting(t) => SubmissionOK(t)

(* What is over stays over, and sessions once drawn stay drawn.            *)
SessionsKept ==
  /\ clock' \in Nat /\ clock' >= clock /\ UNCHANGED home
  /\ \A ws \in Workspaces : until[ws] # Nil => until'[ws] = until[ws]

(* What has expired outlived its session.                                  *)
LEMMA OverIsEnded ==
  ASSUME FInv, NEW expiry \in Nat \cup {Nil}, NEW ws \in Workspaces \cup {Shared},
         Outlives(expiry, ws), NEW now \in Nat, Over(expiry, now)
  PROVE  ws # Shared /\ until[ws] # Nil /\ now > until[ws]
<1>1. ws # Shared /\ until[ws] # Nil /\ expiry # Nil /\ expiry > until[ws] /\ now >= expiry
  BY DEF Outlives, Over
<1>2. until[ws] \in Nat
  BY <1>1, Times DEF FInv, LivesOK
<1>. QED BY <1>1, <1>2

LEMMA HomeTyped ==
  ASSUME FInv, NEW id \in Ids
  PROVE  home[id] \in Workspaces \cup {Shared}
  BY DEF FInv, Deployed

LEMMA OutlivesKept ==
  ASSUME SessionsKept, NEW expiry, NEW ws \in Workspaces \cup {Shared}, Outlives(expiry, ws)
  PROVE  Outlives(expiry, ws)'
  BY DEF SessionsKept, Outlives

LEMMA EndedKept ==
  ASSUME FInv, SessionsKept, NEW ws \in Workspaces \cup {Shared}, Ended(ws)
  PROVE  Ended(ws)'
<1>1. until[ws] \in Nat /\ until'[ws] = until[ws] /\ clock \in Nat
  BY Times DEF Ended, FInv, LivesOK, SessionsKept
<1>. QED BY <1>1 DEF Ended, SessionsKept

LEMMA EnteredKept ==
  ASSUME SessionsKept, NEW ws \in Workspaces \cup {Shared}, Entered(ws)
  PROVE  Entered(ws)'
  BY DEF SessionsKept, Entered

(* A new item of an entered workspace outlives its session (newItem).      *)
LEMMA NewOutlives ==
  ASSUME FInv, KInv, ExpiryOutlivesSessions, NEW t \in Threads, NEW id \in Ids, Entered(home[id])
  PROVE  Outlives(NewExpiry(t, id), home[id])
<1>1. clock \in Nat /\ home[id] \in Workspaces \cup {Shared}
  BY Times, HomeTyped DEF FInv, LivesOK
<1>2. CASE home[id] = Shared
  BY <1>2 DEF NewExpiry, Outlives
<1>3. CASE home[id] # Shared
  <2>1. until[home[id]] # Nil /\ until[home[id]] \in Nat /\ until[home[id]] <= clock + SessionTTL
    BY <1>1, <1>3, Times DEF Entered, KInv, FInv, LivesOK
  <2>2. NewExpiry(t, id) \in Nat /\ NewExpiry(t, id) > clock + SessionTTL
    BY <1>1, <1>3, Times DEF NewExpiry, ExpiryOutlivesSessions
  <2>3. NewExpiry(t, id) > until[home[id]]
    BY <1>1, <2>1, <2>2, Times
  <2>. QED BY <1>3, <2>1, <2>2, <2>3, Times DEF Outlives
<1>. QED BY <1>2, <1>3

(* Time goes forward and a sandbox is drawn once (login).                  *)
LEMMA SessionsStep ==
  ASSUME FInv, KInv, [FrontNext]_world
  PROVE  /\ SessionsKept
         /\ \A ws \in Workspaces \cup {Shared} : until'[ws] # Nil => until'[ws] <= clock' + SessionTTL
<1>1. clock \in Nat /\ UNCHANGED home
      /\ \A ws \in Workspaces \cup {Shared} : until[ws] # Nil => until[ws] \in Nat
  BY DeployedStep, Times DEF FInv, LivesOK, deployment
<1>. DEFINE Goal == /\ SessionsKept
                    /\ \A ws \in Workspaces \cup {Shared} :
                         until'[ws] # Nil => until'[ws] <= clock' + SessionTTL
<1>2. UNCHANGED <<clock, until>> => Goal
  BY <1>1 DEF SessionsKept, KInv
<1>3. CASE Tick
  BY <1>1, <1>3, Times DEF Tick, SessionsKept, KInv
<1>4. ASSUME NEW ws \in Workspaces \cup {Shared}, LogIn(ws) PROVE Goal
  <2>1. ws \in Workspaces => until[ws] = Nil
    BY <1>4, Times DEF LogIn
  <2>2. until' = [until EXCEPT ![ws] = clock + SessionTTL] /\ UNCHANGED clock
    BY <1>4 DEF LogIn
  <2>. QED BY <1>1, <2>1, <2>2, Times DEF SessionsKept, KInv, FInv, LivesOK
<1>5. ASSUME ~Tick, \A ws \in Workspaces \cup {Shared} : ~LogIn(ws) PROVE UNCHANGED <<clock, until>>
  <2>1. CASE UNCHANGED world
    BY <2>1 DEF world, fronts, session
  <2>2. ASSUME NEW t \in Threads, Goes(t) \/ Dies(t) \/ Redirects(t) \/ ReviewsOpened(t)
        PROVE  UNCHANGED <<clock, until>>
    BY <2>2 DEF Goes, Dies, Redirects, ReviewsOpened, session
  <2>3. ASSUME NEW t \in Threads, NEW id \in Ids, Called(t, id) PROVE UNCHANGED <<clock, until>>
    BY <2>3, CallsBegin DEF Begins, session
  <2>4. ASSUME NEW t \in Threads, NEW ws, NEW id, Opens(t, ws, id) PROVE UNCHANGED <<clock, until>>
    BY <2>4 DEF Opens, Serves, session
  <2>. QED BY <1>5, <2>1, <2>2, <2>3, <2>4, Zenon DEF FrontNext, Called
<1>. QED BY <1>2, <1>3, <1>4, <1>5

(* What is known stays known, or is made known.                            *)
KeepsKnown == \A id \in Ids : Known(id) => store'[id] # Nil \/ Ended(home[id])'

(* A submission nobody touched.                                            *)
LEMMA SubmissionKept ==
  ASSUME FInv, SessionsKept, KeepsKnown, NEW t \in Threads, SubmissionOK(t),
         request'[t] = request[t], call'[t] = call[t]
  PROVE  SubmissionOK(t)'
<1>1. home[request[t].id] \in Workspaces \cup {Shared} /\ UNCHANGED home
  BY HomeTyped DEF SubmissionOK, SessionsKept
<1>2. Entered(home[request[t].id])'
  BY <1>1, EnteredKept DEF SubmissionOK
<1>3. Known(request[t].id) => Known(request[t].id)'
  BY <1>1 DEF SubmissionOK, KeepsKnown, Known, Ended
<1>. QED BY <1>1, <1>2, <1>3 DEF SubmissionOK, Known, Ended, Entered

(* What a step has to do to keep the invariant.                            *)
LEMMA KnownFrame ==
  ASSUME FInv, KInv, [FrontNext]_world, KeepsKnown,
         \A t \in Threads : call'[t].pc # "idle" =>
           \/ call[t].pc # "idle" /\ call'[t].id = call[t].id /\ due'[t] = due[t]
           \/ call'[t].id \in Ids /\ Outlives(due'[t], home[call'[t].id]),
         \A id \in Ids : store'[id] # Nil =>
           \/ store[id] # Nil /\ expires'[id] = expires[id]
           \/ Outlives(expires'[id], home[id]),
         mail' \subseteq Ids, \A id \in mail' : id \in mail \/ Entered(home[id]),
         told' \subseteq Ids, \A id \in told' : id \in told \/ Known(id),
         \A t \in Threads : Submitting(t)' => SubmissionOK(t)'
  PROVE  KInv'
<1>1. SessionsKept /\ UNCHANGED home
  BY SessionsStep DEF SessionsKept
<1>2. ASSUME NEW t \in Threads, call'[t].pc # "idle"
      PROVE  Outlives(due[t], home[call[t].id])'
  <2>1. call'[t].id \in Ids /\ Outlives(due'[t], home[call'[t].id])
    BY <1>2, CallHolds DEF KInv, FInv
  <2>2. home[call'[t].id] \in Workspaces \cup {Shared}
    BY <2>1, HomeTyped
  <2>. QED BY <1>1, <2>1, <2>2 DEF SessionsKept, Outlives
<1>3. ASSUME NEW id \in Ids, store'[id] # Nil
      PROVE  Outlives(expires[id], home[id])'
  <2>1. Outlives(expires'[id], home[id])
    BY <1>3 DEF KInv
  <2>. QED BY <1>1, <2>1, HomeTyped DEF SessionsKept, Outlives
<1>4. ASSUME NEW id \in mail' PROVE Entered(home[id])'
  <2>1. Entered(home[id]) /\ home[id] \in Workspaces \cup {Shared}
    BY <1>4, HomeTyped DEF KInv
  <2>. QED BY <1>1, <2>1, EnteredKept DEF Entered
<1>5. ASSUME NEW id \in told' PROVE Known(id)'
  BY <1>1, <1>5 DEF KInv, KeepsKnown, Known
<1>6. \A ws \in Workspaces \cup {Shared} : until'[ws] # Nil => until'[ws] <= clock' + SessionTTL
  BY SessionsStep
<1>. QED BY <1>2, <1>3, <1>4, <1>5, <1>6 DEF KInv, Outlives

(* A step of a call: an item is hidden only at the end of its session, and *)
(* a submission is answered "ok" only if its item was written.             *)
LEMMA GoesKnown ==
  ASSUME FInv, KInv, [FrontNext]_world, NEW t \in Threads, Goes(t)
  PROVE  KInv'
<1>1. /\ WentOn(t) /\ WroteOrNot(t) /\ call[t].id \in Ids /\ call[t].item # Nil
      /\ due[t] \in Nat \cup {Nil} /\ clock \in Nat
      /\ UNCHANGED <<clock, until, home, request, mail, told>>
  BY GoesEffect, CallHolds, Times DEF Goes, WentOn, FInv, LivesOK, session, deployment
<1>2. SessionsKept
  BY SessionsStep
<1>. DEFINE id0 == call[t].id
<1>3. Outlives(due[t], home[id0])
  BY <1>1 DEF KInv, WentOn
<1>4. ~Live(t) => Ended(home[id0])
  <2>1. ~Live(t) => Over(due[t], clock)
    BY <1>1 DEF Live, WentOn
  <2>. QED BY <1>1, <1>3, <2>1, HomeTyped, OverIsEnded DEF Ended
<1>5. KeepsKnown
  <2>1. ASSUME NEW id \in Ids, Known(id), store'[id] = store[id]
        PROVE  store'[id] # Nil \/ Ended(home[id])'
    BY <1>1, <2>1 DEF Known, Ended
  <2>2. store'[id0] = store[id0] \/ store'[id0] # Nil \/ Ended(home[id0])
    BY <1>1, <1>4 DEF WroteOrNot, StoresAt
  <2>3. \A id \in Ids : id # id0 => store'[id] = store[id]
    BY <1>1 DEF WroteOrNot, StoresAt
  <2>4. \A id \in Ids : Ended(home[id]) => Ended(home[id])'
    BY <1>1 DEF Ended
  <2>. QED BY <1>1, <2>1, <2>2, <2>3, <2>4 DEF KeepsKnown
<1>6. \A u \in Threads : call'[u].pc # "idle" => call[u].pc # "idle" /\ call'[u].id = call[u].id
                                                /\ due'[u] = due[u]
  BY <1>1, WritesTyped DEF WroteOrNot, WentOn, OthersKept, FInv, LivesOK
<1>7. ASSUME NEW id \in Ids, store'[id] # Nil
      PROVE  (store[id] # Nil /\ expires'[id] = expires[id]) \/ Outlives(expires'[id], home[id])
  <2>1. CASE id = id0 /\ Writes(t)
    BY <1>1, <1>3, <2>1, WritesTyped DEF WentOn
  <2>2. CASE id # id0 /\ Writes(t)
    BY <1>1, <1>7, <2>2, WritesTyped DEF WentOn, WroteOrNot, StoresAt
  <2>3. CASE UNCHANGED <<store, expires>>
    BY <1>7, <2>3
  <2>. QED BY <1>1, <2>1, <2>2, <2>3 DEF WroteOrNot
<1>8. ASSUME NEW u \in Threads, Submitting(u)' PROVE SubmissionOK(u)'
  <2>1. SubmissionOK(u) /\ request'[u] = request[u]
    BY <1>1, <1>8 DEF KInv, Submitting
  <2>2. CASE u # t
    BY <1>1, <1>2, <1>5, <2>1, <2>2, SubmissionKept DEF WentOn, OthersKept
  <2>3. CASE u = t
    <3>1. call[t].pc = "accepting" /\ call[t].id = request[t].id /\ call'[t].pc = "idle"
      BY <1>1, <2>1, <2>3 DEF SubmissionOK, WentOn
    <3>2. call'[t].result \in {"ok", "duplicate"} => store'[id0] # Nil \/ Ended(home[id0])
      BY <1>1, <1>4, <3>1 DEF WroteOrNot, StoresAt
    <3>. QED BY <1>1, <2>1, <2>3, <3>1, <3>2 DEF SubmissionOK, Known, Ended, Entered
  <2>. QED BY <2>2, <2>3
<1>9. mail' \subseteq Ids /\ told' \subseteq Ids /\ mail' = mail /\ told' = told
  BY <1>1 DEF KInv
<1>. QED BY <1>5, <1>6, <1>7, <1>8, <1>9, KnownFrame

(* A call that begins carries an expiry past its session's end.            *)
LEMMA BeginsKnown ==
  ASSUME FInv, KInv, [FrontNext]_world, ExpiryOutlivesSessions,
         NEW t \in Threads, NEW id \in Ids, Begins(t, id)
  PROVE  KInv'
<1>1. /\ StartedOn(t, id) /\ Carries(t, id) /\ UNCHANGED <<store, expires, clock, until, home, mail, told>>
      /\ \A u \in Threads \ {t} : call'[u] = call[u] /\ request'[u] = request[u] /\ due'[u] = due[u]
  BY CarriesTyped DEF Begins, StartedOn, OthersKept, session, deployment
<1>2. SessionsKept
  BY SessionsStep
<1>3. KeepsKnown
  BY <1>1 DEF KeepsKnown, Known, Ended
<1>4. call'[t].pc # "idle" => call'[t].id = id /\ Outlives(due'[t], home[id])
  <2>1. SUFFICES ASSUME call'[t].pc # "idle"
                 PROVE  call'[t].id = id /\ Outlives(due'[t], home[id])
    OBVIOUS
  <2>2. call'[t].id = id /\ due'[t] = IF store[id] = Nil THEN NewExpiry(t, id) ELSE expires[id]
    BY <1>1, <2>1, CarriesTyped DEF StartedOn
  <2>3. store[id] = Nil => Entered(home[id])
    BY <2>1 DEF Begins, KInv
  <2>4. CASE store[id] = Nil
    BY <2>2, <2>3, <2>4, NewOutlives
  <2>5. CASE store[id] # Nil
    BY <2>2, <2>5 DEF KInv
  <2>. QED BY <2>4, <2>5
<1>5. ASSUME NEW u \in Threads, Submitting(u)' PROVE SubmissionOK(u)'
  <2>1. CASE u # t
    <3>1. Submitting(u)
      BY <1>1, <1>5, <2>1 DEF Submitting
    <3>. QED BY <1>1, <1>2, <1>3, <2>1, <3>1, SubmissionKept DEF KInv
  <2>2. CASE u = t
    <3>1. /\ FrontOf[t] = "dashboard" /\ Entered(home[id]) /\ request'[t].id = id
          /\ IF call'[t].pc = "idle" THEN store[id] # Nil ELSE call'[t].pc = "accepting"
      BY <1>5, <2>2 DEF Begins, Submitted, Submitting
    <3>. QED BY <1>1, <1>4, <2>2, <3>1 DEF SubmissionOK, Entered, Known
  <2>. QED BY <2>1, <2>2
<1>6. mail' \subseteq Ids /\ told' \subseteq Ids /\ mail' = mail /\ told' = told
  BY <1>1 DEF KInv
<1>. QED BY <1>1, <1>3, <1>4, <1>5, <1>6, KnownFrame

(* A step that touches no item and no call: only Redirects sends a message *)
(* and a promise.                                                          *)
LEMMA QuietKnown ==
  ASSUME FInv, KInv, [FrontNext]_world, Quiet,
         \A t \in Threads : request'[t] \in {request[t], Nil} \/ Opened(t)',
         mail' \subseteq Ids, \A id \in mail' : id \in mail \/ Entered(home[id]),
         told' \subseteq Ids, \A id \in told' : id \in told \/ Known(id)
  PROVE  KInv'
<1>1. UNCHANGED <<store, call, expires, due, clock, home>> /\ SessionsKept
  BY SessionsStep DEF Quiet, vars, lives, deployment
<1>2. KeepsKnown
  BY <1>1, EndedKept, HomeTyped DEF KeepsKnown, Known, Ended
<1>3. ASSUME NEW t \in Threads, Submitting(t)' PROVE SubmissionOK(t)'
  <2>1. request'[t] = request[t]
    BY <1>3 DEF Submitting, Opened
  <2>2. SubmissionOK(t)
    BY <1>3, <2>1 DEF Submitting, KInv
  <2>. QED BY <1>1, <1>2, <2>1, <2>2, SubmissionKept
<1>. QED BY <1>1, <1>2, <1>3, KnownFrame

(* Every step keeps it.                                                    *)
LEMMA KnownStep ==
  ASSUME ExpiryOutlivesSessions
  PROVE  FInv /\ KInv /\ [FrontNext]_world => KInv'
<1>. SUFFICES ASSUME FInv, KInv, [FrontNext]_world PROVE KInv'
  OBVIOUS
<1>1. mail \subseteq Ids /\ told \subseteq Ids /\ request \in [Threads -> Request \cup {Nil}]
  BY DEF KInv, FInv, RequestsOK
<1>2. CASE UNCHANGED world
  BY <1>1, <1>2, QuietKnown DEF world, fronts, session, Quiet
<1>3. ASSUME NEW ws \in Workspaces \cup {Shared}, LogIn(ws) PROVE KInv'
  BY <1>1, <1>3, QuietKnown DEF LogIn, Quiet
<1>4. ASSUME NEW t \in Threads, NEW ws, NEW id, Opens(t, ws, id) PROVE KInv'
  <2>1. Quiet /\ UNCHANGED <<mail, told>>
    BY <1>4 DEF Opens, Serves, session, Quiet
  <2>2. ASSUME NEW u \in Threads PROVE request'[u] \in {request[u], Nil} \/ Opened(u)'
    <3>1. request' = [request EXCEPT ![t] = [kind |-> "review", ws |-> ws, id |-> id]]
      BY <1>4 DEF Opens, Serves
    <3>2. request' \in [Threads -> Request \cup {Nil}]
      BY FrontStepOK DEF FInv, RequestsOK
    <3>. QED BY <1>1, <3>1, <3>2 DEF Opened
  <2>. QED BY <1>1, <2>1, <2>2, QuietKnown
<1>5. ASSUME NEW t \in Threads, Redirects(t) PROVE KInv'
  <2>1. Quiet /\ request' = [request EXCEPT ![t] = Nil]
    BY <1>5 DEF Redirects, session, Quiet
  <2>2. SubmissionOK(t) /\ call[t].pc = "idle"
    BY <1>5 DEF Redirects, Answered, KInv, Submitting
  <2>3. /\ mail' = mail \/ mail' = mail \cup {request[t].id}
        /\ told' = told \/ (told' = told \cup {request[t].id} /\ call[t].result \in {"ok", "duplicate"})
    BY <1>5 DEF Redirects
  <2>. QED BY <1>1, <2>1, <2>2, <2>3, QuietKnown DEF SubmissionOK
<1>6. CASE Tick
  <2>1. /\ UNCHANGED <<call, due, expires, request, mail, told, until, home>>
        /\ \A id \in Ids : store'[id] = IF Over(expires[id], clock') THEN Nil ELSE store[id]
        /\ clock' \in Nat
    BY <1>6, Times DEF Tick, FInv, IInv, TypeOK, LivesOK, lives, deployment
  <2>2. SessionsKept
    BY SessionsStep
  <2>3. KeepsKnown
    <3>1. ASSUME NEW id \in Ids, store[id] # Nil, Over(expires[id], clock')
          PROVE  Ended(home[id])'
      <4>1. Outlives(expires[id], home[id]) /\ expires[id] \in Nat \cup {Nil}
        BY <3>1 DEF KInv, FInv, LivesOK
      <4>. QED BY <2>1, <3>1, <4>1, HomeTyped, OverIsEnded DEF Ended
    <3>2. ASSUME NEW id \in Ids, Ended(home[id]) PROVE Ended(home[id])'
      <4>1. Ended(home[id])'
        BY <2>1, <2>2, <3>2, HomeTyped, EndedKept DEF Ended
      <4>. QED BY <4>1
    <3>. QED BY <2>1, <3>1, <3>2 DEF KeepsKnown, Known
  <2>4. ASSUME NEW t \in Threads, Submitting(t)' PROVE SubmissionOK(t)'
    BY <2>1, <2>2, <2>3, <2>4, SubmissionKept DEF KInv, Submitting
  <2>. QED BY <1>1, <2>1, <2>3, <2>4, KnownFrame
<1>7. ASSUME NEW t \in Threads, Dies(t) PROVE KInv'
  <2>1. /\ UNCHANGED <<store, expires, due, clock, until, home, mail, told>>
        /\ \A u \in Threads : \/ call'[u].pc = "idle" /\ call'[u].result = "none" /\ request'[u] = Nil
                              \/ call'[u] = call[u] /\ request'[u] = request[u]
    BY <1>7, DiesEffect DEF Dies, FInv, session, deployment
  <2>2. SessionsKept
    BY SessionsStep
  <2>3. KeepsKnown
    BY <2>1 DEF KeepsKnown, Known, Ended
  <2>4. ASSUME NEW u \in Threads, Submitting(u)' PROVE SubmissionOK(u)'
    <3>1. call'[u] = call[u] /\ request'[u] = request[u] /\ SubmissionOK(u)
      BY <2>1, <2>4 DEF KInv, Submitting
    <3>. QED BY <2>2, <2>3, <3>1, SubmissionKept
  <2>5. \A u \in Threads : call'[u].pc # "idle" =>
          call[u].pc # "idle" /\ call'[u].id = call[u].id /\ due'[u] = due[u]
    BY <2>1
  <2>. QED BY <1>1, <2>1, <2>3, <2>4, <2>5, KnownFrame
<1>8. ASSUME NEW t \in Threads, ReviewsOpened(t) PROVE \E id \in Ids : Called(t, id)
  <2>1. request[t].id \in Ids
    BY <1>1, <1>8 DEF ReviewsOpened, Request
  <2>. QED BY <1>8, <2>1 DEF Called
<1>9. ASSUME NEW t \in Threads, NEW id \in Ids, Called(t, id) PROVE KInv'
  BY <1>9, CallsBegin, BeginsKnown
<1>10. CASE FrontNext
  BY <1>3, <1>4, <1>5, <1>6, <1>7, <1>8, <1>9, <1>10, GoesKnown, Zenon DEF FrontNext, Called
<1>. QED BY <1>2, <1>10

(* A sandbox lasts as long as its session, if expiry is set past it        *)
(* (auth.go:19, pipeline.go:125-132, template.yaml:61): while a visitor is *)
(* signed in, every ticket they were redirected to is listed and opens.    *)
THEOREM SandboxesLast ==
  ASSUME ExpiryOutlivesSessions
  PROVE  FrontSpec => []SignedInKeepsTickets
<1>1. FrontInit => KInv
  BY DEF FrontInit, Init, Idle, KInv, Submitting
<1>2. FInv /\ KInv => SignedInKeepsTickets
  <2>. SUFFICES ASSUME FInv, KInv, NEW id \in told, SignedIn(home[id])
                PROVE  id \in Listed(home[id]) /\ GetOwned(home[id], id)
    BY DEF SignedInKeepsTickets
  <2>1. id \in Ids /\ Known(id)
    BY DEF KInv
  <2>2. home[id] = Shared => ~sandboxes
    BY <2>1, Times DEF FInv, Deployed
  <2>3. ~Ended(home[id])
    <3>1. clock \in Nat
      BY Times DEF FInv, LivesOK
    <3>2. until[home[id]] # Nil => until[home[id]] \in Nat
      BY <2>1, HomeTyped, Times DEF FInv, LivesOK
    <3>. QED BY <3>1, <3>2 DEF SignedIn, Ended
  <2>. QED BY <2>1, <2>2, <2>3 DEF Known, Listed, Stored, GetOwned
<1>3. FInv /\ KInv /\ [FrontNext]_world => KInv'
  BY KnownStep
<1>. QED BY <1>1, <1>2, <1>3, FrontInductive, PTL DEF FrontSpec

=============================================================================

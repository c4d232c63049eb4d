-------------------------- MODULE OneProcessProofs --------------------------
(***************************************************************************)
(* What Service.mu adds: where one process serves every caller, at most    *)
(* one call is under way, so the copy it took when it began stays a        *)
(* continuation of what is stored.  The trail then only grows, and a       *)
(* person's verdict falls only to a call that asks for a new               *)
(* classification.  And the outbox of such a process: Outbox implements    *)
(* Service; its tickets are numbered without gaps; and of every item whose *)
(* calls all learnt what became of their Put, no action is repeated, the   *)
(* feed is what can be read of the outbox, and a delivery is ignored only  *)
(* once the item is decided, with a person if its label needs one, and     *)
(* with each action ordered taken or in the trail as failed.               *)
(***************************************************************************)
EXTENDS Outbox, ServiceProofs

(* The elements of a sequence over a set are in the set.                   *)
LEMMA ElementsOfSeq ==
  ASSUME NEW T, NEW s \in Seq(T), NEW y, y \in Range(s)
  PROVE  y \in T
<1>1. PICK n \in DOMAIN s : y = s[n]
  BY DEF Range
<1>. QED BY <1>1

(* Every caller runs in one process.                                       *)
OneService == \A t, u \in Threads : ProcOf[t] = ProcOf[u]

Busy(t) == call[t].pc # "idle"

(* The mutex: one call at a time.                                          *)
OneAtATime == \A t, u \in Threads : Busy(t) /\ Busy(u) => t = u

(* What the item continues: the stored trail, and the stored verdict.      *)
TrailKept(item, id) == store[id] # Nil => IsPrefix(store[id].events, item.events)
VerdictKept(item, id) == Verified(store[id]) => Verified(item)

(* The copy of a call continues the stored item.                           *)
Continues(c) ==
  c.pc # "idle" => /\ TrailKept(c.item, c.id)
                   /\ c.op # "reclassify" => VerdictKept(c.item, c.id)

(* The inductive invariant.                                                *)
LockInv == IInv /\ OneAtATime /\ \A t \in Threads : Continues(call[t])

-----------------------------------------------------------------------------
(* A sequence is a prefix of itself.                                       *)
LEMMA PrefixOfItself ==
  ASSUME NEW S, NEW s \in Seq(S)
  PROVE  IsPrefix(s, s)
  BY DEF IsPrefix

(* Appending keeps the prefixes of a sequence.                             *)
LEMMA PrefixAppended ==
  ASSUME NEW S, NEW p \in Seq(S), NEW s \in Seq(S), NEW e \in S, IsPrefix(p, s)
  PROVE  IsPrefix(p, Append(s, e))
<1>1. Len(p) \in Nat /\ Len(s) \in Nat /\ Len(p) <= Len(s)
  BY DEF IsPrefix
<1>2. Append(s, e) \in Seq(S) /\ Len(Append(s, e)) = Len(s) + 1
  OBVIOUS
<1>3. \A i \in 1..Len(p) : Append(s, e)[i] = s[i]
  BY <1>1
<1>. DEFINE a == Append(s, e)
<1>. HIDE DEF a
<1>4. SubSeq(a, 1, Len(p)) = SubSeq(s, 1, Len(p))
  BY <1>1, <1>2, <1>3 DEF a
<1>. QED BY <1>1, <1>2, <1>4 DEF IsPrefix, a

(* classifyInto only appends to the trail (pipeline.go:184-198).           *)
LEMMA ClassifyIntoGrows ==
  ASSUME NEW item \in Item, NEW answer \in ModelOutput, NEW failed \in BOOLEAN,
         NEW p \in Seq(Event), IsPrefix(p, item.events)
  PROVE  IsPrefix(p, ClassifyInto(item, answer, failed).events)
<1>. DEFINE c == Classified(answer, failed)
            error == Entry("error", Nil, Nil)
            judged == Entry("classified", c, Nil)
            before == IF ~failed /\ Valid(answer) THEN item.events ELSE Append(item.events, error)
            it == ClassifyInto(item, answer, failed)
<1>1. error \in Event /\ judged \in Event
  BY ClassifiedTyped, EntryTyped DEF EventTypes
<1>2. item.events \in Seq(Event)
  BY DEF Item
<1>3. it = [item EXCEPT !.class = c, !.status = "classified", !.events = Append(before, judged)]
  BY Zenon DEF ClassifyInto
<1>. HIDE DEF error, judged, it
<1>4. before \in Seq(Event) /\ IsPrefix(p, before)
  BY <1>1, <1>2, PrefixAppended
<1>. HIDE DEF before
<1>5. IsPrefix(p, Append(before, judged))
  BY <1>1, <1>4, PrefixAppended
<1>6. it.events = Append(before, judged)
  BY <1>3 DEF Item
<1>. QED BY <1>5, <1>6 DEF it

(* routeLocked and review only append to the trail, and review leaves a    *)
(* verdict (pipeline.go:264-284, :331-372).                                *)
LEMMA RoutedGrows ==
  ASSUME NEW item \in Item, item.class \in Classification,
         NEW p \in Seq(Event), IsPrefix(p, item.events)
  PROVE  IsPrefix(p, Routed(item).events) /\ (Verified(item) => Verified(Routed(item)))
<1>. DEFINE e == Entry("routed", item.class, Nil)
<1>1. e \in Event
  BY EntryTyped DEF EventTypes
<1>2. item.events \in Seq(Event)
  BY DEF Item
<1>3. Routed(item).events = Append(item.events, e)
  BY DEF Routed, Item
<1>. HIDE DEF e
<1>4. IsPrefix(p, Append(item.events, e))
  BY <1>1, <1>2, PrefixAppended
<1>5. Verified(item) => Verified(Routed(item))
  <2>1. Routed(item) \in Item /\ Routed(item).class = item.class
    BY RoutedOK
  <2>2. Routed(item) # Nil
    BY <2>1, NilDistinct
  <2>. QED BY <2>1, <2>2, Zenon DEF Verified
<1>. QED BY <1>3, <1>4, <1>5

LEMMA ReviewedGrows ==
  ASSUME NEW item \in Item, item.class \in Classification, NEW category, NEW priority,
         (category # "" \/ priority # "") => Valid(Corrected(item.class, category, priority)),
         NEW p \in Seq(Event), IsPrefix(p, item.events)
  PROVE  LET it == Reviewed(item, category, priority)
         IN IsPrefix(p, it.events) /\ Verified(it)
<1>. DEFINE it == Reviewed(item, category, priority)
            c == Corrected(item.class, category, priority)
            e == Entry("review", c, Nil)
<1>1. c \in Classification
  BY CorrectedTyped
<1>2. c.human_verified
  BY DEF Corrected, Classification
<1>3. e \in Event
  BY <1>1, EntryTyped DEF EventTypes
<1>4. item.events \in Seq(Event)
  BY DEF Item
<1>. HIDE DEF c
<1>5. it.class = c /\ it.events = Append(item.events, e)
  BY DEF Reviewed, Item, c
<1>6. it # Nil /\ c # Nil
  <2>1. it \in Item
    BY ReviewedOK
  <2>. QED BY <1>1, <2>1, NilDistinct
<1>. HIDE DEF it, e
<1>7. Verified(it)
  BY <1>2, <1>5, <1>6 DEF Verified
<1>8. IsPrefix(p, it.events)
  BY <1>3, <1>4, <1>5, PrefixAppended
<1>. QED BY <1>7, <1>8 DEF it

-----------------------------------------------------------------------------
(* With one process a call begins only when no other is under way, and a   *)
(* caller's own call does not add to the number of those that are.         *)
LEMMA OneAtATimeKept ==
  ASSUME IInv, OneAtATime, NEW t \in Threads, NEW c, call' = [call EXCEPT ![t] = c],
         c.pc = "idle" \/ Busy(t) \/ \A u \in Threads : ~Busy(u)
  PROVE  OneAtATime'
<1>1. \A u \in Threads : call'[u] = IF u = t THEN c ELSE call[u]
  BY DEF IInv, TypeOK
<1>2. \A u \in Threads \ {t} : Busy(u)' => Busy(u)
  BY <1>1 DEF Busy
<1>3. Busy(t)' => Busy(t) \/ \A u \in Threads : ~Busy(u)
  BY <1>1 DEF Busy
<1>. QED BY <1>2, <1>3 DEF OneAtATime

(* A step that changes one call and no item.                               *)
LEMMA CallContinues ==
  ASSUME LockInv, NEW t \in Threads, NEW c, call' = [call EXCEPT ![t] = c],
         UNCHANGED store, Continues(c),
         c.pc = "idle" \/ Busy(t) \/ \A u \in Threads : ~Busy(u)
  PROVE  (OneAtATime /\ \A u \in Threads : Continues(call[u]))'
<1>1. \A u \in Threads : call'[u] = IF u = t THEN c ELSE call[u]
  BY DEF LockInv, IInv, TypeOK
<1>2. OneAtATime'
  BY OneAtATimeKept DEF LockInv
<1>3. \A u \in Threads : Continues(call'[u])
  BY <1>1 DEF LockInv
<1>4. (\A u \in Threads : Continues(call[u]))'
  BY <1>3 DEF Continues, TrailKept, VerdictKept
<1>. QED BY <1>2, <1>4

(* A step that writes the copy: whoever else has a copy of the item would  *)
(* be a second call under way.                                             *)
LEMMA WriteContinues ==
  ASSUME LockInv, NEW t \in Threads, Busy(t), Written(t),
         NEW c, call' = [call EXCEPT ![t] = c],
         c.pc = "idle" \/ /\ c.id = call[t].id
                          /\ IsPrefix(call[t].item.events, c.item.events)
                          /\ Verified(call[t].item) => Verified(c.item)
  PROVE  (OneAtATime /\ \A u \in Threads : Continues(call[u]))'
<1>1. \A u \in Threads : call'[u] = IF u = t THEN c ELSE call[u]
  BY DEF LockInv, IInv, TypeOK
<1>2. OneAtATime'
  BY OneAtATimeKept DEF LockInv
<1>3. \A u \in Threads : u # t => ~Busy(u)
  BY DEF LockInv, OneAtATime
<1>4. call[t].id \in Ids /\ store' = [store EXCEPT ![call[t].id] = call[t].item]
  BY DEF LockInv, IInv, CallOK, Busy, Written
<1>5. store'[call[t].id] = call[t].item
  BY <1>4 DEF LockInv, IInv, TypeOK
<1>6. \A u \in Threads : call'[u].pc # "idle" => u = t
  BY <1>1, <1>3 DEF Busy
<1>7. c.pc # "idle" => /\ store'[c.id] # Nil => IsPrefix(store'[c.id].events, c.item.events)
                       /\ Verified(store'[c.id]) => Verified(c.item)
  BY <1>5
<1>8. (\A u \in Threads : Continues(call[u]))'
  BY <1>1, <1>6, <1>7, Zenon DEF Continues, TrailKept, VerdictKept
<1>. QED BY <1>2, <1>8

(* What a stored item is.                                                  *)
LEMMA StoredTyped ==
  ASSUME IInv, NEW id \in Ids, store[id] # Nil
  PROVE  /\ store[id] \in Item /\ store[id].events \in Seq(Event) /\ Consistent(store[id])
         /\ store[id].class # Nil => store[id].class \in Classification
         /\ IsPrefix(store[id].events, store[id].events)
<1>1. store[id] \in Item /\ Consistent(store[id])
  BY DEF IInv, TypeOK, DecisionCurrent, Stored
<1>2. /\ store[id].events \in Seq(Event)
      /\ store[id].class # Nil => store[id].class \in Classification
  BY <1>1 DEF Item
<1>. QED BY <1>1, <1>2, PrefixOfItself

(* What a call holds of the trail.                                         *)
LEMMA CopyTyped ==
  ASSUME IInv, NEW t \in Threads, Busy(t)
  PROVE  /\ call[t].item \in Item /\ call[t].item.events \in Seq(Event) /\ call[t].id \in Ids
         /\ call[t].item # Nil
         /\ store[call[t].id] # Nil => store[call[t].id].events \in Seq(Event)
<1>1. call[t].item \in Item /\ call[t].id \in Ids
  BY DEF IInv, CallOK, Busy
<1>2. call[t].item.events \in Seq(Event)
  BY <1>1 DEF Item
<1>. QED BY <1>1, <1>2, NilDistinct, StoredTyped

(* A call begins with a copy that continues what it read.                  *)
LEMMA StartContinues ==
  ASSUME LockInv, OneService, NEW t \in Threads, Start(t)
  PROVE  (OneAtATime /\ \A u \in Threads : Continues(call[u]))'
<1>. DEFINE Goal == (OneAtATime /\ \A u \in Threads : Continues(call[u]))'
<1>1. ASSUME NEW r \in {"none", "ok", "duplicate", "error"}, Refuse(t, r)
      PROVE  Goal
  <2>1. Continues(Idle(r)) /\ Idle(r).pc = "idle"
    BY IdleOK DEF Continues
  <2>. QED BY <1>1, <2>1, CallContinues, Zenon DEF Refuse
<1>2. ASSUME NEW op, NEW id \in Ids, NEW pc, NEW item, CanCall(t), Begin(t, op, id, pc, item),
             TrailKept(item, id), op # "reclassify" => VerdictKept(item, id)
      PROVE  Goal
  <2>. DEFINE c == [pc |-> pc, op |-> op, id |-> id, item |-> item,
                    next |-> 1, failed |-> FALSE, result |-> "none"]
  <2>1. call' = [call EXCEPT ![t] = c] /\ UNCHANGED store
    BY <1>2 DEF Begin
  <2>2. c.op = op /\ c.id = id /\ c.item = item
    OBVIOUS
  <2>3. \A u \in Threads : ~Busy(u)
    BY <1>2, Zenon DEF OneService, CanCall, Busy
  <2>. HIDE DEF c
  <2>4. Continues(c)
    BY <1>2, <2>2 DEF Continues
  <2>. QED BY <2>1, <2>3, <2>4, CallContinues, Zenon
<1>3. IInv
  BY DEF LockInv
<1>4. CASE GetFails(t)
  BY <1>1, <1>4, Zenon DEF GetFails
<1>5. ASSUME NEW id \in Ids, Accept(t, id)
      PROVE  Goal
  <2>1. ASSUME store[id] = Nil
        PROVE  TrailKept(NewItem, id) /\ VerdictKept(NewItem, id)
    BY <2>1 DEF TrailKept, VerdictKept, Verified
  <2>. QED BY <1>1, <1>2, <1>5, <2>1, Zenon DEF Accept
<1>6. ASSUME NEW id \in Ids, ProcessIgnored(t, id)
      PROVE  Goal
  BY <1>1, <1>6, Zenon DEF ProcessIgnored
<1>7. ASSUME NEW id \in Ids, NEW a \in Answers, NEW failed \in BOOLEAN, store[id] # Nil
      PROVE  TrailKept(ClassifyInto(store[id], a, failed), id)
  <2>1. a \in ModelOutput
    BY ServiceAssumption
  <2>. QED BY <1>3, <1>7, <2>1, StoredTyped, ClassifyIntoGrows DEF TrailKept
<1>8. ASSUME NEW id \in Ids, NEW a \in Answers, NEW failed \in BOOLEAN, Process(t, id, a, failed)
      PROVE  Goal
  <2>. DEFINE item == IF store[id] = Nil THEN NewItem ELSE store[id]
              it == ClassifyInto(item, a, failed)
  <2>1. TrailKept(it, id)
    BY <1>7 DEF TrailKept
  <2>2. ~Verified(store[id])
    <3>1. store[id] # Nil => store[id].class = Nil
      BY <1>3, <1>8, StoredTyped DEF Process, Consistent
    <3>. QED BY <3>1 DEF Verified
  <2>3. CanCall(t) /\ Begin(t, "process", id, "classified", it)
    BY <1>8, Zenon DEF Process
  <2>. HIDE DEF it
  <2>. QED BY <1>2, <2>1, <2>2, <2>3 DEF VerdictKept
<1>9. ASSUME NEW id \in Ids, NEW a \in Answers, NEW failed \in BOOLEAN, Reclassify(t, id, a, failed)
      PROVE  Goal
  BY <1>1, <1>2, <1>7, <1>9 DEF Reclassify
<1>10. ASSUME NEW id \in Ids, HasClass(id)
       PROVE  store[id] # Nil /\ store[id].class \in Classification
  BY <1>3, <1>10, StoredTyped DEF HasClass
<1>11. ASSUME NEW id \in Ids, RouteItem(t, id)
       PROVE  Goal
  <2>1. ASSUME HasClass(id)
        PROVE  TrailKept(Routed(store[id]), id) /\ VerdictKept(Routed(store[id]), id)
    <3>1. IsPrefix(store[id].events, Routed(store[id]).events)
          /\ (Verified(store[id]) => Verified(Routed(store[id])))
      BY <1>3, <1>10, <2>1, StoredTyped, RoutedGrows, Zenon
    <3>. QED BY <3>1 DEF TrailKept, VerdictKept
  <2>. QED BY <1>1, <1>2, <1>11, <2>1 DEF RouteItem
<1>12. ASSUME NEW id \in Ids, NEW category, NEW priority, ReviewItem(t, id, category, priority)
       PROVE  Goal
  <2>. DEFINE it == Reviewed(store[id], category, priority)
  <2>1. ASSUME CanReview(id, category, priority)
        PROVE  TrailKept(Routed(it), id) /\ VerdictKept(Routed(it), id)
    <3>1. store[id] # Nil /\ store[id] \in Item /\ store[id].class \in Classification
      BY <1>3, <1>10, <2>1, StoredTyped, Zenon DEF CanReview
    <3>2. IsPrefix(store[id].events, it.events) /\ Verified(it)
      BY <1>3, <2>1, <3>1, StoredTyped, ReviewedGrows, Zenon DEF CanReview
    <3>3. it \in Item /\ it.class \in Classification
      BY <2>1, <3>1, ReviewedOK, Zenon DEF CanReview
    <3>. HIDE DEF it
    <3>4. IsPrefix(store[id].events, Routed(it).events) /\ Verified(Routed(it))
      BY <1>3, <3>1, <3>2, <3>3, StoredTyped, RoutedGrows
    <3>. QED BY <3>4 DEF TrailKept, VerdictKept
  <2>. QED BY <1>1, <1>2, <1>12, <2>1 DEF ReviewItem
<1>13. ASSUME NEW id \in Ids, NEW category, NEW priority, Override(t, id, category, priority)
       PROVE  Goal
  BY <1>1, <1>12, <1>13 DEF Override
<1>. QED BY <1>4, <1>5, <1>6, <1>8, <1>9, <1>11, <1>12, <1>13, Zenon DEF Start, Approve

(* A turn of the loop appends to the copy's trail and keeps its label.     *)
LEMMA AdvanceContinues ==
  ASSUME LockInv, NEW t \in Threads, Busy(t), NEW item \in Item, NEW failed,
         NEW e \in Event, item.events = Append(call[t].item.events, e),
         item.class = call[t].item.class,
         Advance(t, item, failed), UNCHANGED store
  PROVE  (OneAtATime /\ \A u \in Threads : Continues(call[u]))'
<1>. DEFINE c == Advanced(call[t], item, failed)
<1>1. call[t] \in Call /\ Continues(call[t]) /\ IInv
  BY DEF LockInv, IInv, CallOK
<1>2. c.id = call[t].id /\ c.op = call[t].op /\ c.item = item
  BY <1>1 DEF Advanced, Call
<1>3. call' = [call EXCEPT ![t] = c]
  BY DEF Advance
<1>. HIDE DEF c
<1>4. TrailKept(call[t].item, call[t].id)
      /\ (call[t].op # "reclassify" => VerdictKept(call[t].item, call[t].id))
  BY <1>1 DEF Continues, Busy
<1>5. TrailKept(item, call[t].id)
  BY <1>1, <1>4, CopyTyped, PrefixAppended DEF TrailKept
<1>6. item # Nil
  BY NilDistinct
<1>7. Verified(call[t].item) => Verified(item)
  BY <1>6, Zenon DEF Verified
<1>8. Continues(c)
  BY <1>2, <1>4, <1>5, <1>7 DEF Continues, VerdictKept
<1>. QED BY <1>3, <1>8, CallContinues

(* Every later step of a call keeps its copy a continuation.               *)
LEMMA StepContinues ==
  ASSUME LockInv, NEW t \in Threads, Step(t)
  PROVE  (OneAtATime /\ \A u \in Threads : Continues(call[u]))'
<1>. DEFINE Goal == (OneAtATime /\ \A u \in Threads : Continues(call[u]))'
<1>0. IInv
  BY DEF LockInv
<1>1. ASSUME NEW r \in {"none", "ok", "duplicate", "error"}, Busy(t), Return(t, r),
             Written(t) \/ UNCHANGED store
      PROVE  Goal
  <2>1. Continues(Idle(r)) /\ Idle(r).pc = "idle"
    BY IdleOK DEF Continues
  <2>. QED BY <1>1, <2>1, CallContinues, WriteContinues, Zenon DEF Return
<1>2. CASE PutFails(t)
  BY <1>1, <1>2 DEF PutFails, LoopDone, Busy
<1>3. CASE PutAccepted(t)
  BY <1>1, <1>3 DEF PutAccepted, Busy
<1>4. CASE PutRouted(t)
  BY <1>1, <1>4 DEF PutRouted, LoopDone, Busy
<1>5. CASE PutClassified(t)
  <2>. DEFINE item == call[t].item
              c == [call[t] EXCEPT !.pc = "acting", !.item = Routed(item)]
  <2>1. Busy(t) /\ Written(t) /\ call' = [call EXCEPT ![t] = c]
    BY <1>5 DEF PutClassified, Busy
  <2>2. call[t] \in Call /\ item \in Item /\ item.events \in Seq(Event) /\ item.class \in Classification
    BY <1>0, <1>5, <2>1, CopyTyped DEF PutClassified, IInv, CallOK
  <2>3. c.id = call[t].id /\ c.item = Routed(item)
    BY <2>2 DEF Call
  <2>. HIDE DEF c, item
  <2>4. IsPrefix(item.events, Routed(item).events) /\ (Verified(item) => Verified(Routed(item)))
    BY <2>2, PrefixOfItself, RoutedGrows
  <2>. QED BY <2>1, <2>3, <2>4, WriteContinues DEF item
<1>6. ASSUME Acting(t), NEW e \in Event, NEW failed, Advance(t, Logged(call[t].item, e), failed),
             UNCHANGED store
      PROVE  Goal
  <2>1. Busy(t) /\ call[t].item \in Item
    BY <1>0, <1>6, CopyTyped DEF Acting, Busy
  <2>. QED BY <1>6, <2>1, LoggedTyped, AdvanceContinues
<1>7. ASSUME Acting(t)
      PROVE  LET key == KeyOf(call[t].item, call[t].next)
             IN Entry("action", Nil, key) \in Event /\ Entry("error", Nil, key) \in Event
  <2>1. KeyOf(call[t].item, call[t].next) \in Key
    BY <1>0, <1>7, InLoop
  <2>. QED BY <2>1, EntryTyped DEF EventTypes
<1>8. CASE Skip(t)
  BY <1>6, <1>7, <1>8, Zenon DEF Skip
<1>9. CASE ExecuteFails(t)
  BY <1>6, <1>7, <1>9, Zenon DEF ExecuteFails
<1>10. CASE Execute(t)
  <2>. DEFINE key == KeyOf(call[t].item, call[t].next)
              e == Entry("action", call[t].item.class, key)
              item == Executed(call[t].item, key)
  <2>1. /\ Busy(t) /\ call[t].item \in Item /\ key \in Key /\ call[t].item.class \in Classification
        /\ call[t].id \in Ids /\ Backed(call[t].item, outbox[call[t].id])
        /\ outbox[call[t].id] \in Seq(Line)
    BY <1>0, <1>10, InLoop DEF Execute, Busy, IInv, TypeOK
  <2>2. item \in Item /\ item.class = call[t].item.class
    BY <2>1, ExecutedOK, Zenon
  <2>3. e \in Event
    BY <2>1, EntryTyped DEF EventTypes
  <2>4. Advance(t, item, call[t].failed) /\ UNCHANGED store
    BY <1>10, Zenon DEF Execute
  <2>5. item.events = Append(call[t].item.events, e)
    <3>1. Logged(call[t].item, e) \in Item /\ Logged(call[t].item, e).events = Append(call[t].item.events, e)
      BY <2>1, <2>3, LoggedTyped
    <3>2. item = [Logged(call[t].item, e) EXCEPT !.executed = @ \cup {key}]
      BY DEF Executed
    <3>. HIDE DEF item, e
    <3>. QED BY <3>1, <3>2 DEF Item
  <2>. HIDE DEF item, e
  <2>. QED BY <2>1, <2>2, <2>3, <2>4, <2>5, AdvanceContinues
<1>. QED BY <1>2, <1>3, <1>4, <1>5, <1>8, <1>9, <1>10, Zenon DEF Step

(* A crash only ends calls.                                                *)
LEMMA CrashContinues ==
  ASSUME LockInv, NEW p, Crash(p)
  PROVE  (OneAtATime /\ \A u \in Threads : Continues(call[u]))'
<1>1. \A t \in Threads : call'[t].pc = "idle" \/ call'[t] = call[t]
  BY IdleOK DEF Crash
<1>2. OneAtATime'
  BY <1>1 DEF LockInv, OneAtATime, Busy
<1>3. UNCHANGED store
  BY DEF Crash
<1>4. (\A u \in Threads : Continues(call[u]))'
  BY <1>1, <1>3 DEF LockInv, Continues, TrailKept, VerdictKept
<1>. QED BY <1>2, <1>4

(* The initial states satisfy the invariant and every step preserves it.   *)
LEMMA LockInit == Init => LockInv
<1>. SUFFICES ASSUME Init PROVE LockInv
  OBVIOUS
<1>1. \A t \in Threads : call[t].pc = "idle"
  BY IdleOK DEF Init
<1>2. OneAtATime /\ \A t \in Threads : Continues(call[t])
  BY <1>1 DEF OneAtATime, Busy, Continues
<1>. QED BY <1>2, InitOK DEF LockInv

LEMMA LockNext == OneService /\ LockInv /\ [Next]_vars => LockInv'
<1>. SUFFICES ASSUME OneService, LockInv, [Next]_vars PROVE LockInv'
  OBVIOUS
<1>1. IInv'
  BY NextOK DEF LockInv
<1>2. ASSUME NEW t \in Threads, Start(t) \/ Step(t)
      PROVE  (OneAtATime /\ \A u \in Threads : Continues(call[u]))'
  BY <1>2, StartContinues, StepContinues
<1>3. ASSUME NEW t \in Threads, Crash(ProcOf[t])
      PROVE  (OneAtATime /\ \A u \in Threads : Continues(call[u]))'
  BY <1>3, CrashContinues
<1>4. ASSUME UNCHANGED vars
      PROVE  (OneAtATime /\ \A u \in Threads : Continues(call[u]))'
  BY <1>4 DEF vars, LockInv, OneAtATime, Busy, Continues, TrailKept, VerdictKept
<1>5. (OneAtATime /\ \A u \in Threads : Continues(call[u]))'
  BY <1>2, <1>3, <1>4, Zenon DEF Next
<1>. QED BY <1>1, <1>5 DEF LockInv

LEMMA LockInductive == OneService => (Spec => []LockInv)
<1>. SUFFICES ASSUME OneService PROVE Spec => []LockInv
  OBVIOUS
<1>1. LockInv /\ [Next]_vars => LockInv'
  BY LockNext
<1>. QED BY <1>1, LockInit, PTL DEF Spec

-----------------------------------------------------------------------------
(* A step leaves the items alone or writes one call's copy.                *)
LEMMA WhatIsWritten ==
  ASSUME [Next]_vars
  PROVE  UNCHANGED store \/ \E t \in Threads : Busy(t) /\ Written(t)
<1>1. ASSUME NEW t \in Threads, Start(t)
      PROVE  UNCHANGED store
  BY <1>1 DEF Start, GetFails, Accept, ProcessIgnored, Process, Reclassify, RouteItem,
              Approve, Override, ReviewItem, Refuse, Begin
<1>2. ASSUME NEW t \in Threads, Step(t)
      PROVE  UNCHANGED store \/ (Busy(t) /\ Written(t))
  BY <1>2 DEF Step, PutFails, PutAccepted, PutClassified, Skip, Execute, ExecuteFails,
              PutRouted, LoopDone, Busy
<1>3. ASSUME NEW p, Crash(p)
      PROVE  UNCHANGED store
  BY <1>3 DEF Crash
<1>4. UNCHANGED vars => UNCHANGED store
  BY DEF vars
<1>. QED BY <1>1, <1>2, <1>3, <1>4, Zenon DEF Next

(* What such a write puts under each ID.                                   *)
LEMMA WrittenItem ==
  ASSUME LockInv, NEW t \in Threads, Busy(t), Written(t), NEW id \in Ids
  PROVE  \/ store'[id] = store[id]
         \/ /\ call[t].id = id /\ store'[id] = call[t].item /\ store'[id] # Nil
            /\ TrailKept(store'[id], id)
            /\ call[t].op # "reclassify" => VerdictKept(store'[id], id)
<1>1. store' = [store EXCEPT ![call[t].id] = call[t].item]
  BY DEF Written
<1>2. store' [id] = IF id = call[t].id THEN call[t].item ELSE store[id]
  BY <1>1 DEF LockInv, IInv, TypeOK
<1>3. call[t].item # Nil /\ Continues(call[t])
  BY CopyTyped DEF LockInv
<1>. QED BY <1>2, <1>3 DEF Continues, Busy

(* One process, any number of callers and tickets, any faults: no call     *)
(* loses what another has written to a trail (pipeline.go:35,              *)
(* store.go:96-99).                                                        *)
THEOREM TrailsOnlyGrow == OneService => (Spec => AuditAppendOnly)
<1>. SUFFICES ASSUME OneService PROVE Spec => AuditAppendOnly
  OBVIOUS
<1>1. ASSUME LockInv, [Next]_vars
      PROVE  \A id \in Stored : store'[id] # Nil /\ IsPrefix(store[id].events, store'[id].events)
  <2>. SUFFICES ASSUME NEW id \in Ids, store[id] # Nil
                PROVE  store'[id] # Nil /\ IsPrefix(store[id].events, store'[id].events)
    BY DEF Stored
  <2>1. IsPrefix(store[id].events, store[id].events)
    BY <1>1, StoredTyped DEF LockInv
  <2>2. CASE store'[id] = store[id]
    BY <2>1, <2>2
  <2>3. CASE store'[id] # store[id]
    <3>1. PICK t \in Threads : Busy(t) /\ Written(t)
      BY <1>1, <2>3, WhatIsWritten
    <3>. QED BY <1>1, <2>3, <3>1, WrittenItem, Zenon DEF TrailKept
  <2>. QED BY <2>2, <2>3
<1>2. LockInv /\ [Next]_vars
        => [\A id \in Stored : store'[id] # Nil /\ IsPrefix(store[id].events, store'[id].events)]_vars
  BY <1>1
<1>. QED BY <1>2, LockInductive, PTL DEF Spec, AuditAppendOnly

(* One process: a person's verdict falls to nothing but a request to       *)
(* classify the ticket again; no late delivery and no re-route undoes it   *)
(* (pipeline.go:172-174).                                                  *)
THEOREM VerdictsStand == OneService => (Spec => VerdictStands)
<1>. SUFFICES ASSUME OneService PROVE Spec => VerdictStands
  OBVIOUS
<1>. DEFINE Stands == \A id \in Ids : Verified(store[id]) /\ ~Verified(store'[id]) =>
                        \E t \in Threads : call[t].op = "reclassify" /\ call[t].id = id
<1>1. ASSUME LockInv, [Next]_vars
      PROVE  Stands
  <2>. SUFFICES ASSUME NEW id \in Ids, Verified(store[id]), ~Verified(store'[id])
                PROVE  \E t \in Threads : call[t].op = "reclassify" /\ call[t].id = id
    OBVIOUS
  <2>1. store'[id] # store[id]
    OBVIOUS
  <2>2. PICK t \in Threads : Busy(t) /\ Written(t)
    BY <1>1, <2>1, WhatIsWritten
  <2>. QED BY <1>1, <2>1, <2>2, WrittenItem, Zenon DEF VerdictKept
<1>2. LockInv /\ [Next]_vars => [Stands]_vars
  BY <1>1
<1>. QED BY <1>2, LockInductive, PTL DEF Spec, VerdictStands

-----------------------------------------------------------------------------
(* What the steps of the local outbox leave of the state.                  *)
all == <<vars, sink, past>>

(* What LosesPut, Appends and AppendFails do is what Service allows.       *)
LEMMA SinkStepIsService == [SinkNext]_all => [Next]_vars
<1>. SUFFICES ASSUME [SinkNext]_all PROVE [Next]_vars
  OBVIOUS
<1>1. ASSUME NEW t \in Threads, Counts(t)
      PROVE  UNCHANGED vars
  BY <1>1 DEF Counts
<1>2. ASSUME NEW t \in Threads, Appends(t) \/ AppendFails(t) \/ LosesPut(t)
      PROVE  Step(t)
  BY <1>2, Zenon DEF Appends, AppendFails, LosesPut, Step
<1>3. ASSUME NEW t \in Threads, Start(t) \/ Others(t)
      PROVE  Start(t) \/ Step(t)
  BY <1>3, Zenon DEF Others, Step
<1>4. ASSUME NEW p, DiesWriting(p)
      PROVE  Crash(p)
  BY <1>4, Zenon DEF DiesWriting
<1>5. CASE UNCHANGED all
  BY <1>5 DEF all
<1>6. CASE SinkNext
  BY <1>1, <1>2, <1>3, <1>4, <1>6, Zenon DEF SinkNext, Next
<1>. QED BY <1>5, <1>6

(* The local action sink, its counting and appending, its torn lines and   *)
(* dying processes, does what Service says of an action                    *)
(* (actions.go:78-125): all that is proved of Service holds of Outbox.     *)
THEOREM SinkImplementsService == SinkSpec => Spec
<1>1. SinkInit => Init
  BY DEF SinkInit
<1>. QED BY <1>1, SinkStepIsService, PTL DEF SinkSpec, Spec, all

(* So the invariants of Service are invariants of Outbox.                  *)
LEMMA SinkLocked == OneService => (SinkSpec => []LockInv)
  BY SinkImplementsService, LockInductive, PTL

-----------------------------------------------------------------------------
TicketLine == [number: Nat, readable: BOOLEAN]

(* A caller has a number only between its count and its write, and the     *)
(* number is still the next one.                                           *)
Numbered(t) ==
  /\ CreatesTicket(t)
  /\ KeyOf(call[t].item, call[t].next) \notin call[t].item.executed
  /\ number[t] = 1001 + Len(tickets)

(* Line m has number 1000 + m.                                             *)
NumberInv == /\ tickets \in Seq(TicketLine)
             /\ number \in [Threads -> Nat]
             /\ \A m \in DOMAIN tickets : tickets[m].number = 1000 + m
             /\ \A t \in Threads : number[t] # 0 => Numbered(t)

(* A call in its loop has an action before it or is done, not both.        *)
LEMMA LoopOrDone ==
  ASSUME IInv, NEW t \in Threads, Acting(t)
  PROVE  ~LoopDone(t)
<1>1. CallOK(call[t]) /\ call[t].pc = "acting"
  BY DEF IInv, Acting
<1>2. call[t].next \in Nat /\ Len(call[t].item.decision.actions) \in Nat
  <2>1. call[t].item.decision \in Decision
    BY <1>1, RouteTyped DEF CallOK
  <2>. QED BY <1>1, <2>1 DEF CallOK, Call, Decision
<1>. QED BY <1>2 DEF Acting, LoopDone

(* While a caller has a number its call can only execute, fail or die:     *)
(* nobody else's call can move, for there is none.                         *)
LEMMA NumberedWaits ==
  ASSUME LockInv, OneService, NEW t \in Threads, Numbered(t), NEW u \in Threads
  PROVE  /\ ~PutFails(u) /\ ~Others(u)
         /\ u # t => ~Busy(u) /\ ~Acting(u) /\ ~CanCall(u)
         /\ ~CanCall(t)
<1>1. Acting(t) /\ Busy(t) /\ call[t].pc = "acting" /\ IInv
  BY DEF Numbered, CreatesTicket, Acting, Busy, LockInv
<1>2. ~LoopDone(t)
  BY <1>1, LoopOrDone
<1>3. ~PutFails(t) /\ ~Others(t)
  BY <1>1, <1>2, Zenon DEF PutFails, Others, PutAccepted, PutClassified, Skip, PutRouted, Numbered
<1>4. u # t => ~Busy(u)
  BY <1>1, Zenon DEF LockInv, OneAtATime
<1>5. ~Busy(u) => ~PutFails(u) /\ ~Others(u) /\ ~Acting(u)
  BY DEF Busy, PutFails, Others, PutAccepted, PutClassified, Skip, PutRouted, LoopDone, Acting
<1>6. ~CanCall(u) /\ ~CanCall(t)
  BY <1>1, Zenon DEF CanCall, OneService, Busy
<1>. QED BY <1>3, <1>4, <1>5, <1>6

(* A call that begins is of a caller that was idle, and of it alone.       *)
LEMMA StartIsOwn ==
  ASSUME IInv, NEW t \in Threads, Start(t)
  PROVE  /\ ~Busy(t) /\ \A u \in Threads : u # t => call'[u] = call[u]
         /\ UNCHANGED <<store, outbox>>
<1>1. /\ Free(t) /\ \E c : call' = [call EXCEPT ![t] = c]
      /\ UNCHANGED <<store, outbox>>
  <2>1. ASSUME NEW r, Refuse(t, r)
        PROVE  (\E c : call' = [call EXCEPT ![t] = c]) /\ UNCHANGED <<store, outbox>>
    BY <2>1 DEF Refuse
  <2>2. ASSUME NEW op, NEW id, NEW pc, NEW item, Begin(t, op, id, pc, item)
        PROVE  (\E c : call' = [call EXCEPT ![t] = c]) /\ UNCHANGED <<store, outbox>>
    BY <2>2 DEF Begin
  <2>. QED BY <2>1, <2>2, Zenon DEF Start, GetFails, Accept, ProcessIgnored, Process, Reclassify,
              RouteItem, Approve, Override, ReviewItem, CanCall
<1>2. call \in [Threads -> Call]
  BY DEF IInv, TypeOK
<1>. QED BY <1>1, <1>2 DEF Free, Busy

(* The callers in a process that dies, all of them here.                   *)
LEMMA DeadAreIdle ==
  ASSUME OneService, NEW p \in Threads, Crash(ProcOf[p]), NEW t \in Threads
  PROVE  call'[t] = Idle("none") /\ ProcOf[t] = ProcOf[p]
<1>1. ProcOf[t] = ProcOf[p]
  BY Zenon DEF OneService
<1>. QED BY <1>1 DEF Crash

(* A call nobody touches keeps its number.                                 *)
LEMMA NumberedStays ==
  ASSUME NEW t, Numbered(t), call'[t] = call[t], number'[t] = number[t], UNCHANGED tickets
  PROVE  Numbered(t)'
  BY DEF Numbered, CreatesTicket, Kind, Acting, KeyOf

(* Every step keeps the numbers in order.                                  *)
LEMMA NumberNext ==
  ASSUME LockInv, OneService, NumberInv, [SinkNext]_all
  PROVE  NumberInv'
<1>0. /\ tickets \in Seq(TicketLine) /\ number \in [Threads -> Nat]
      /\ \A m \in DOMAIN tickets : tickets[m].number = 1000 + m
      /\ \A t \in Threads : number[t] # 0 => Numbered(t)
  BY DEF NumberInv
<1>a. ASSUME number' \in [Threads -> Nat], \A t \in Threads : number'[t] = 0,
             tickets' \in Seq(TicketLine), \A m \in DOMAIN tickets' : tickets'[m].number = 1000 + m
      PROVE  NumberInv'
  BY <1>a DEF NumberInv
<1>1. ASSUME number' \in [Threads -> Nat], \A t \in Threads : number'[t] = 0,
             UNCHANGED tickets
      PROVE  NumberInv'
  BY <1>0, <1>1, <1>a
<1>2. ASSUME NEW t \in Threads, Acting(t), NEW u \in Threads, u # t
      PROVE  number[u] = 0
  BY <1>0, <1>2, NumberedWaits
<1>3. ASSUME NEW t \in Threads, Counts(t)
      PROVE  NumberInv'
  <2>1. /\ Acting(t) /\ CreatesTicket(t) /\ KeyOf(call[t].item, call[t].next) \notin call[t].item.executed
        /\ number' = [number EXCEPT ![t] = 1001 + Len(tickets)]
        /\ UNCHANGED <<call, tickets>>
    BY <1>3 DEF Counts, CreatesTicket, ToExecute, Count, vars
  <2>2. number' \in [Threads -> Nat] /\ \A u \in Threads : number'[u] # 0 => u = t
    BY <1>0, <1>2, <2>1
  <2>3. Numbered(t)'
    <3>1. number'[t] = 1001 + Len(tickets')
      BY <1>0, <2>1
    <3>2. CreatesTicket(t)' /\ (KeyOf(call[t].item, call[t].next) \notin call[t].item.executed)'
      BY <2>1, Zenon DEF CreatesTicket, Kind, Acting, KeyOf
    <3>. QED BY <3>1, <3>2 DEF Numbered
  <2>4. \A u \in Threads : number'[u] # 0 => Numbered(u)'
    BY <2>2, <2>3
  <2>. QED BY <1>0, <2>1, <2>2, <2>4 DEF NumberInv
<1>4. ASSUME NEW t \in Threads, Acting(t), Forget(t)
      PROVE  number' \in [Threads -> Nat] /\ \A u \in Threads : number'[u] = 0
  BY <1>0, <1>2, <1>4 DEF Forget
<1>5. ASSUME NEW t \in Threads, Appends(t)
      PROVE  NumberInv'
  <2>1. Acting(t) /\ Forget(t) /\ Chosen(t)
    BY <1>5 DEF Appends, Writing, ToExecute
  <2>2. CASE CreatesTicket(t)
    <3>. DEFINE line == [number |-> number[t], readable |-> Kind(t) \notin torn]
    <3>1. tickets' = Append(tickets, line)
      BY <1>5, <2>2, Zenon DEF Appends, Ended
    <3>2. number[t] = 1001 + Len(tickets)
      BY <1>0, <2>1, <2>2 DEF Chosen, Numbered
    <3>3. line \in TicketLine /\ line.number = 1000 + (Len(tickets) + 1)
      BY <1>0, <3>2 DEF TicketLine
    <3>. HIDE DEF line
    <3>4. tickets' \in Seq(TicketLine) /\ \A m \in DOMAIN tickets' : tickets'[m].number = 1000 + m
      BY <1>0, <3>1, <3>3
    <3>5. number' \in [Threads -> Nat] /\ \A u \in Threads : number'[u] = 0
      BY <1>4, <2>1
    <3>. QED BY <1>a, <3>4, <3>5
  <2>3. CASE ~CreatesTicket(t)
    BY <1>0, <1>1, <1>4, <1>5, <2>1, <2>3 DEF Appends, Ended
  <2>. QED BY <2>2, <2>3
<1>6. ASSUME NEW t \in Threads, AppendFails(t)
      PROVE  NumberInv'
  <2>1. Acting(t) /\ Forget(t) /\ UNCHANGED tickets
    BY <1>6 DEF AppendFails, ExecuteFails
  <2>. QED BY <1>0, <1>1, <1>4, <2>1
<1>7. ASSUME NEW t \in Threads, PutFails(t) \/ Others(t), UNCHANGED sink
      PROVE  NumberInv'
  <2>1. \A u \in Threads : number[u] = 0
    BY <1>0, <1>7, NumberedWaits
  <2>. QED BY <1>0, <1>1, <1>7, <2>1 DEF sink
<1>8. ASSUME NEW t \in Threads, Start(t), UNCHANGED sink
      PROVE  NumberInv'
  <2>1. ~Busy(t) /\ \A u \in Threads : u # t => call'[u] = call[u]
    BY <1>8, StartIsOwn DEF LockInv
  <2>2. ASSUME NEW u \in Threads, number[u] # 0
        PROVE  Numbered(u)'
    <3>1. Numbered(u) /\ Busy(u)
      BY <1>0, <2>2 DEF Numbered, CreatesTicket, Acting, Busy
    <3>2. call'[u] = call[u]
      BY <2>1, <3>1
    <3>. QED BY <1>8, <3>1, <3>2, NumberedStays DEF sink
  <2>. QED BY <1>0, <1>8, <2>2 DEF NumberInv, sink
<1>9. ASSUME NEW p \in Threads, DiesWriting(ProcOf[p])
      PROVE  NumberInv'
  <2>. DEFINE busy == {t \in Threads : ProcOf[t] = ProcOf[p] /\ call[t].pc # "idle"}
  <2>1. /\ number' = [t \in Threads |-> IF t \in busy THEN 0 ELSE number[t]]
        /\ UNCHANGED tickets
    BY <1>9, Zenon DEF DiesWriting
  <2>2. \A t \in Threads : number[t] # 0 => t \in busy
    <3>. SUFFICES ASSUME NEW t \in Threads, number[t] # 0 PROVE t \in busy
      OBVIOUS
    <3>1. ProcOf[t] = ProcOf[p]
      BY Zenon DEF OneService
    <3>2. call[t].pc = "acting"
      BY <1>0 DEF Numbered, CreatesTicket, Acting
    <3>. QED BY <3>1, <3>2
  <2>3. number' \in [Threads -> Nat] /\ \A t \in Threads : number'[t] = 0
    BY <1>0, <2>1, <2>2
  <2>. QED BY <1>1, <2>1, <2>3
<1>10. CASE UNCHANGED all
  <2>1. UNCHANGED <<call, tickets, number>>
    BY <1>10 DEF all, vars, sink
  <2>2. \A t \in Threads : number'[t] # 0 => Numbered(t)'
    BY <1>0, <2>1, NumberedStays
  <2>. QED BY <1>0, <2>1, <2>2 DEF NumberInv
<1>. QED BY <1>3, <1>5, <1>6, <1>7, <1>8, <1>9, <1>10, Zenon DEF SinkNext, LosesPut

(* One process: no two tickets are given one number, however its writes    *)
(* fail and its lines are torn, and however often it dies                  *)
(* (actions.go:80-87).                                                     *)
THEOREM TicketNumbersAreUnique == OneService => (SinkSpec => []NumbersAreUnique)
<1>. SUFFICES ASSUME OneService PROVE SinkSpec => []NumbersAreUnique
  OBVIOUS
<1>1. SinkInit => NumberInv
  <2>. SUFFICES ASSUME SinkInit PROVE NumberInv
    OBVIOUS
  <2>1. tickets = <<>> /\ number = [t \in Threads |-> 0]
    BY DEF SinkInit
  <2>2. tickets \in Seq(TicketLine) /\ DOMAIN tickets = {}
    BY <2>1
  <2>3. number \in [Threads -> Nat] /\ \A t \in Threads : number[t] = 0
    BY <2>1
  <2>. QED BY <2>1, <2>2, <2>3 DEF NumberInv
<1>2. LockInv /\ NumberInv /\ [SinkNext]_all => NumberInv'
  BY NumberNext
<1>3. NumberInv => NumbersAreUnique
  BY DEF NumberInv, NumbersAreUnique
<1>. QED BY <1>1, <1>2, <1>3, SinkLocked, PTL DEF SinkSpec, all

-----------------------------------------------------------------------------
(* No two rules have an action of the same type and target: what config    *)
(* does not promise and the shipped rules keep.                            *)
DistinctActions ==
  \A i, k \in DOMAIN Rules : \A j \in DOMAIN Rules[i].actions, l \in DOMAIN Rules[k].actions :
    /\ Rules[i].actions[j].type = Rules[k].actions[l].type
    /\ Rules[i].actions[j].target = Rules[k].actions[l].target
    => i = k

FromRule(key) ==
  \E i \in DOMAIN Rules : \E j \in DOMAIN Rules[i].actions :
    /\ key.rule = Rules[i].name
    /\ key.type = Rules[i].actions[j].type
    /\ key.target = Rules[i].actions[j].target

LinesInv == \A id \in Ids : \A n \in DOMAIN outbox[id] : FromRule(outbox[id][n].key)

(* A copy that will be written is received before it is classified, and    *)
(* settled once it acts.                                                   *)
CallStatus(c) == /\ c.pc = "accepting" => c.item.status = "received"
                 /\ c.pc = "acting" => c.item.status \in Settled

(* What was sent for a ticket, and what an item has recorded of it.        *)
Sent(id) == [keys |-> {outbox[id][n].key : n \in DOMAIN outbox[id]}, feed |-> outbox[id]]

Recorded(item) == IF item = Nil THEN [keys |-> {}, feed |-> <<>>]
                  ELSE [keys |-> item.executed, feed |-> ActionFeed(item.events)]

Rests(id) == \A t \in Threads : Busy(t) => call[t].id # id

(* Each action was sent once, and the copy of the call under way, or else  *)
(* the store, has the key of every one, and all of them in its trail, in   *)
(* the order they were sent; at rest no item is between classified and     *)
(* routed.                                                                 *)
Accounted(id) ==
  /\ \A m, n \in DOMAIN outbox[id] : outbox[id][m].key = outbox[id][n].key => m = n
  /\ \A t \in Threads : Busy(t) /\ call[t].id = id => Sent(id) = Recorded(call[t].item)
  /\ Rests(id) => /\ Sent(id) = Recorded(store[id])
                  /\ store[id] # Nil => store[id].status # "classified"

SinkInv == /\ LinesInv
           /\ \A t \in Threads : CallStatus(call[t])
           /\ \A id \in Ids \ spoiled : Accounted(id)

(* The key of an action is a rule's.                                       *)
LEMMA KeyFromRule ==
  ASSUME NEW item, item.class \in Classification, item.decision = Route(item.class),
         NEW i \in 1..Len(item.decision.actions)
  PROVE  FromRule(KeyOf(item, i))
<1>1. item.decision.actions \in Seq(Action) /\ item.decision.actions # <<>>
  <2>1. item.decision \in Decision
    BY RouteTyped
  <2>. QED BY <2>1 DEF Decision
<1>2. ApprovedDecision.actions = <<>> /\ ReviewDecision.actions = <<>>
  BY DEF ApprovedDecision, ReviewDecision
<1>3. PICK r \in 1..Len(Rules) : item.decision = RuleDecision(Rules[r], item.class)
  BY <1>1, <1>2, RouteCases, Zenon
<1>4. item.decision.rule = Rules[r].name /\ item.decision.actions = Rules[r].actions
  BY <1>3 DEF RuleDecision
<1>5. r \in DOMAIN Rules /\ i \in DOMAIN Rules[r].actions
  BY <1>1, <1>4, RulesTyped
<1>6. /\ KeyOf(item, i).rule = Rules[r].name
      /\ KeyOf(item, i).type = Rules[r].actions[i].type
      /\ KeyOf(item, i).target = Rules[r].actions[i].target
  BY <1>4 DEF KeyOf
<1>. QED BY <1>5, <1>6, Zenon DEF FromRule

(* Copies that claim the same have recorded the same.                      *)
LEMMA SameRecord ==
  ASSUME NEW it \in Item, NEW item \in Item, SameDone(it, item)
  PROVE  Recorded(it) = Recorded(item)
<1>1. it # Nil /\ item # Nil
  BY NilDistinct
<1>. QED BY <1>1 DEF SameDone, Recorded

(* Routing settles an item.                                                *)
LEMMA RoutedSettles ==
  ASSUME NEW item \in Item, item.class \in Classification
  PROVE  Routed(item).status \in Settled /\ Recorded(Routed(item)) = Recorded(item)
<1>1. Routed(item).status = StatusFor(item.class)
  BY DEF Routed, Item
<1>2. Routed(item) \in Item /\ SameDone(Routed(item), item)
  BY RoutedOK
<1>. QED BY <1>1, <1>2, StatusForTyped, SameRecord

(* A call is refused, or begins with the keys that are stored.             *)
LEMMA HowCallsBegin ==
  ASSUME IInv, NEW t \in Threads, Start(t)
  PROVE  \/ \E r \in {"none", "ok", "duplicate", "error"} : Refuse(t, r)
         \/ \E op, pc, item : \E id \in Ids :
              /\ CanCall(t) /\ Begin(t, op, id, pc, item)
              /\ Recorded(item) = Recorded(store[id])
              /\ pc = "accepting" => item.status = "received"
              /\ pc = "classified" => item.status = "classified"
              /\ pc = "acting" => item.status \in Settled
<1>. DEFINE Refused == \E r \in {"none", "ok", "duplicate", "error"} : Refuse(t, r)
            Begun(op, id, pc, item) ==
              /\ CanCall(t) /\ Begin(t, op, id, pc, item)
              /\ Recorded(item) = Recorded(store[id])
              /\ pc = "accepting" => item.status = "received"
              /\ pc = "classified" => item.status = "classified"
              /\ pc = "acting" => item.status \in Settled
            Goal == Refused \/ \E op, pc, item : \E id \in Ids : Begun(op, id, pc, item)
<1>1. CASE GetFails(t)
  BY <1>1 DEF GetFails
<1>2. ASSUME NEW id \in Ids, ProcessIgnored(t, id) PROVE Goal
  BY <1>2 DEF ProcessIgnored
<1>3. NewItem.status = "received" /\ NewItem \in Item /\ Recorded(NewItem) = Recorded(Nil)
  <2>1. NewItem.executed = {} /\ NewItem.events = <<Entry("received", Nil, Nil)>>
    BY DEF NewItem
  <2>2. ActionFeed(NewItem.events) = <<>>
    <3>. DEFINE e == Entry("received", Nil, Nil)
    <3>1. e \in Event /\ ~IsDone(e)
      BY EntryTyped, NotDone DEF EventTypes
    <3>. HIDE DEF e
    <3>2. <<>> \in Seq(Event) /\ <<e>> = Append(<<>>, e)
      BY <3>1
    <3>3. ActionFeed(Append(<<>>, e)) = <<>>
      BY <3>1, <3>2, AppendNotDone, FeedEmpty
    <3>. QED BY <2>1, <3>2, <3>3 DEF e
  <2>3. NewItem \in Item /\ NewItem # Nil
    BY NewItemTyped, NilDistinct
  <2>4. NewItem.status = "received"
    BY DEF NewItem
  <2>. QED BY <2>1, <2>2, <2>3, <2>4 DEF Recorded
<1>4. ASSUME NEW id \in Ids, Accept(t, id) PROVE Goal
  <2>1. CASE Refuse(t, "duplicate")
    BY <2>1
  <2>2. CASE store[id] = Nil /\ Begin(t, "accept", id, "accepting", NewItem)
    <3>1. Begun("accept", id, "accepting", NewItem)
      BY <1>3, <1>4, <2>2 DEF Accept
    <3>. QED BY <3>1, Zenon
  <2>. QED BY <1>4, <2>1, <2>2, Zenon DEF Accept
<1>5. ASSUME NEW id \in Ids, NEW item \in Item, Recorded(item) = Recorded(store[id]),
             NEW a \in Answers, NEW failed \in BOOLEAN, NEW op, CanCall(t),
             Begin(t, op, id, "classified", ClassifyInto(item, a, failed))
      PROVE  Goal
  <2>1. a \in ModelOutput
    BY ServiceAssumption
  <2>2. Recorded(ClassifyInto(item, a, failed)) = Recorded(item)
    BY <2>1, ClassifyIntoOK, SameRecord
  <2>3. ClassifyInto(item, a, failed).status = "classified"
    BY DEF ClassifyInto, Item
  <2>4. Begun(op, id, "classified", ClassifyInto(item, a, failed))
    BY <1>5, <2>2, <2>3
  <2>. QED BY <2>4, Zenon
<1>6. ASSUME NEW id \in Ids, NEW a \in Answers, NEW failed \in BOOLEAN, Process(t, id, a, failed)
      PROVE  Goal
  <2>. DEFINE item == IF store[id] = Nil THEN NewItem ELSE store[id]
  <2>1. item \in Item /\ Recorded(item) = Recorded(store[id])
    BY <1>3, StoredTyped
  <2>2. CanCall(t) /\ Begin(t, "process", id, "classified", ClassifyInto(item, a, failed))
    BY <1>6, Zenon DEF Process
  <2>. HIDE DEF item
  <2>. QED BY <1>5, <2>1, <2>2, Zenon
<1>7. ASSUME NEW id \in Ids, NEW a \in Answers, NEW failed \in BOOLEAN, Reclassify(t, id, a, failed)
      PROVE  Goal
  <2>1. CASE Refuse(t, "error")
    BY <2>1
  <2>2. CASE store[id] # Nil /\ Begin(t, "reclassify", id, "classified", ClassifyInto(store[id], a, failed))
    <3>1. store[id] \in Item
      BY <2>2, StoredTyped
    <3>. QED BY <1>5, <1>7, <2>2, <3>1, Zenon DEF Reclassify
  <2>. QED BY <1>7, <2>1, <2>2, Zenon DEF Reclassify
<1>8. ASSUME NEW id \in Ids, NEW item \in Item, item.class \in Classification,
             Recorded(item) = Recorded(store[id]), NEW op, CanCall(t),
             Begin(t, op, id, "acting", Routed(item))
      PROVE  Goal
  <2>1. Begun(op, id, "acting", Routed(item))
    BY <1>8, RoutedSettles
  <2>. QED BY <2>1, Zenon
<1>9. ASSUME NEW id \in Ids, HasClass(id)
      PROVE  store[id] \in Item /\ store[id].class \in Classification
  BY <1>9, StoredTyped DEF HasClass
<1>10. ASSUME NEW id \in Ids, RouteItem(t, id) PROVE Goal
  <2>1. CASE Refuse(t, "error")
    BY <2>1
  <2>2. CASE HasClass(id) /\ Begin(t, "route", id, "acting", Routed(store[id]))
    BY <1>8, <1>9, <1>10, <2>2, Zenon DEF RouteItem
  <2>. QED BY <1>10, <2>1, <2>2, Zenon DEF RouteItem
<1>11. ASSUME NEW id \in Ids, NEW category, NEW priority, ReviewItem(t, id, category, priority)
       PROVE  Goal
  <2>. DEFINE it == Reviewed(store[id], category, priority)
  <2>1. CASE Refuse(t, "error")
    BY <2>1
  <2>2. CASE CanReview(id, category, priority) /\ Begin(t, "review", id, "acting", Routed(it))
    <3>1. it \in Item /\ it.class \in Classification /\ SameDone(it, store[id])
          /\ store[id] \in Item
      BY <1>9, <2>2, ReviewedOK, Zenon DEF CanReview
    <3>. HIDE DEF it
    <3>2. Recorded(it) = Recorded(store[id])
      BY <3>1, SameRecord
    <3>. QED BY <1>8, <1>11, <2>2, <3>1, <3>2, Zenon DEF ReviewItem
  <2>. QED BY <1>11, <2>1, <2>2, Zenon DEF ReviewItem
<1>12. ASSUME NEW id \in Ids, NEW category, NEW priority, Override(t, id, category, priority)
       PROVE  Goal
  BY <1>11, <1>12, Zenon DEF Override
<1>. QED BY <1>1, <1>2, <1>4, <1>6, <1>7, <1>10, <1>11, <1>12, Zenon DEF Start, Approve

(* A step of another item's call.                                          *)
LEMMA NotThisItem ==
  ASSUME IInv, NEW t \in Threads, NEW c, call' = [call EXCEPT ![t] = c],
         NEW id \in Ids, Accounted(id), Busy(t) => call[t].id # id,
         c.pc # "idle" => c.id # id,
         store'[id] = store[id], outbox'[id] = outbox[id]
  PROVE  Accounted(id)'
<1>1. \A u \in Threads : call'[u] = IF u = t THEN c ELSE call[u]
  BY DEF IInv, TypeOK
<1>2. Sent(id)' = Sent(id)
  BY DEF Sent
<1>3. \A u \in Threads : Busy(u)' /\ call'[u].id = id => Busy(u) /\ call'[u] = call[u]
  BY <1>1 DEF Busy
<1>4. Rests(id)' => Rests(id)
  BY <1>1 DEF Rests, Busy
<1>. QED BY <1>2, <1>3, <1>4 DEF Accounted, Recorded

(* A call begins: its copy takes over the keys of the store.               *)
LEMMA Begins ==
  ASSUME IInv, NEW t \in Threads, NEW c, call' = [call EXCEPT ![t] = c],
         \A u \in Threads : ~Busy(u), NEW id \in Ids, Accounted(id),
         c.pc # "idle", c.id = id, Recorded(c.item) = Recorded(store[id]),
         outbox'[id] = outbox[id]
  PROVE  Accounted(id)'
<1>1. \A u \in Threads : call'[u] = IF u = t THEN c ELSE call[u]
  BY DEF IInv, TypeOK
<1>2. Sent(id)' = Sent(id) /\ Rests(id)
  BY DEF Sent, Rests
<1>3. \A u \in Threads : Busy(u)' => u = t
  BY <1>1 DEF Busy
<1>4. ~Rests(id)'
  BY <1>1 DEF Rests, Busy
<1>. QED BY <1>1, <1>2, <1>3, <1>4 DEF Accounted

(* A call moves on without executing anything.                             *)
LEMMA MovesOn ==
  ASSUME IInv, NEW t \in Threads, Busy(t), NEW c, call' = [call EXCEPT ![t] = c],
         NEW id \in Ids, Accounted(id), call[t].id = id, c.pc # "idle", c.id = id,
         Recorded(c.item) = Recorded(call[t].item), outbox'[id] = outbox[id]
  PROVE  Accounted(id)'
<1>1. \A u \in Threads : call'[u] = IF u = t THEN c ELSE call[u]
  BY DEF IInv, TypeOK
<1>2. Sent(id)' = Sent(id)
  BY DEF Sent
<1>3. ~Rests(id)'
  BY <1>1 DEF Rests, Busy
<1>4. \A u \in Threads : Busy(u)' => Busy(u)
  BY <1>1 DEF Busy
<1>. QED BY <1>1, <1>2, <1>3, <1>4 DEF Accounted

(* A call returns having written its copy.                                 *)
LEMMA Ends ==
  ASSUME LockInv, NEW t \in Threads, Busy(t), NEW c, call' = [call EXCEPT ![t] = c],
         c.pc = "idle", NEW id \in Ids, Accounted(id), call[t].id = id, Written(t),
         call[t].item.status # "classified", outbox'[id] = outbox[id]
  PROVE  Accounted(id)'
<1>1. \A u \in Threads : call'[u] = IF u = t THEN c ELSE call[u]
  BY DEF LockInv, IInv, TypeOK
<1>2. Sent(id)' = Sent(id) /\ Sent(id) = Recorded(call[t].item)
  BY DEF Sent, Accounted
<1>3. \A u \in Threads : ~Busy(u)'
  <2>1. \A u \in Threads : u # t => ~Busy(u)
    BY Zenon DEF LockInv, OneAtATime
  <2>. QED BY <1>1, <2>1 DEF Busy
<1>4. store'[id] = call[t].item /\ call[t].item # Nil
  <2>1. IInv
    BY DEF LockInv
  <2>2. store \in [Ids -> Item \cup {Nil}]
    BY <2>1 DEF IInv, TypeOK
  <2>. QED BY <2>1, <2>2, CopyTyped DEF Written
<1>5. \A m, n \in DOMAIN outbox'[id] : outbox'[id][m].key = outbox'[id][n].key => m = n
  BY DEF Accounted
<1>6. Sent(id)' = Recorded(store'[id]) /\ (store'[id] # Nil => store'[id].status # "classified")
  BY <1>2, <1>4
<1>7. Recorded(store[id])' = Recorded(store'[id])
  BY DEF Recorded
<1>. QED BY <1>3, <1>5, <1>6, <1>7 DEF Accounted

(* An action is executed: its line is new, and so is its key.              *)
LEMMA Sends ==
  ASSUME LockInv, NEW t \in Threads, Busy(t), NEW c, call' = [call EXCEPT ![t] = c],
         c.pc # "idle", NEW id \in Ids, Accounted(id), call[t].id = id, c.id = id,
         NEW line \in Line, outbox'[id] = Append(outbox[id], line),
         line.key \notin Recorded(call[t].item).keys,
         Recorded(c.item) = [keys |-> Recorded(call[t].item).keys \cup {line.key},
                             feed |-> Append(Recorded(call[t].item).feed, line)]
  PROVE  Accounted(id)'
<1>1. \A u \in Threads : call'[u] = IF u = t THEN c ELSE call[u]
  BY DEF LockInv, IInv, TypeOK
<1>2. \A u \in Threads : Busy(u)' => u = t
  <2>1. \A u \in Threads \ {t} : Busy(u)' => Busy(u)
    BY <1>1 DEF Busy
  <2>. QED BY <2>1 DEF LockInv, OneAtATime
<1>3. ~Rests(id)'
  BY <1>1 DEF Rests, Busy
<1>. DEFINE old == outbox[id]
            new == Append(old, line)
<1>4. old \in Seq(Line)
  BY DEF LockInv, IInv, TypeOK
<1>5. /\ Len(old) \in Nat /\ DOMAIN old = 1..Len(old) /\ DOMAIN new = 1..(Len(old) + 1)
      /\ new[Len(old) + 1] = line /\ \A n \in 1..Len(old) : new[n] = old[n]
  BY <1>4
<1>6. outbox'[id] = new
  OBVIOUS
<1>7. Sent(id) = Recorded(call[t].item) /\ \A m, n \in DOMAIN old : old[m].key = old[n].key => m = n
  BY DEF Accounted
<1>. HIDE DEF old, new
<1>8. \A n \in DOMAIN old : old[n].key # line.key
  <2>1. Sent(id).keys = {old[n].key : n \in DOMAIN old}
    BY DEF Sent, old
  <2>2. line.key \notin {old[n].key : n \in DOMAIN old}
    BY <1>7, <2>1
  <2>. QED BY <2>2, Zenon
<1>9. \A m, n \in DOMAIN new : new[m].key = new[n].key => m = n
  <2>1. \A m, n \in DOMAIN old : old[m].key = old[n].key => m = n
    BY <1>7
  <2>. SUFFICES ASSUME NEW m \in DOMAIN new, NEW n \in DOMAIN new, new[m].key = new[n].key
                PROVE  m = n
    OBVIOUS
  <2>2. (m \in DOMAIN old \/ m = Len(old) + 1) /\ (n \in DOMAIN old \/ n = Len(old) + 1)
    BY <1>5
  <2>. QED BY <1>5, <1>8, <2>1, <2>2
<1>10. {new[n].key : n \in DOMAIN new} = {old[n].key : n \in DOMAIN old} \cup {line.key}
  <2>1. \A n \in DOMAIN new : (n \in DOMAIN old /\ new[n] = old[n]) \/ new[n] = line
    BY <1>5
  <2>2. \A n \in DOMAIN old : n \in DOMAIN new /\ new[n] = old[n]
    BY <1>5
  <2>3. Len(old) + 1 \in DOMAIN new /\ new[Len(old) + 1] = line
    BY <1>5
  <2>4. {new[n].key : n \in DOMAIN new} \subseteq {old[n].key : n \in DOMAIN old} \cup {line.key}
    BY <2>1
  <2>5. {old[n].key : n \in DOMAIN old} \subseteq {new[n].key : n \in DOMAIN new}
    BY <2>2
  <2>6. line.key \in {new[n].key : n \in DOMAIN new}
    BY <2>3
  <2>. QED BY <2>4, <2>5, <2>6
<1>11. Sent(id)' = [keys |-> Sent(id).keys \cup {line.key}, feed |-> Append(Sent(id).feed, line)]
  BY <1>6, <1>10 DEF Sent, old, new
<1>. QED BY <1>1, <1>2, <1>3, <1>6, <1>7, <1>9, <1>11 DEF Accounted

(* One call changes: what is left to show of the others.                   *)
LEMMA OneCallStatus ==
  ASSUME IInv, SinkInv, NEW t \in Threads, NEW c, call' = [call EXCEPT ![t] = c], CallStatus(c)
  PROVE  (\A u \in Threads : CallStatus(call[u]))'
<1>1. \A u \in Threads : call'[u] = IF u = t THEN c ELSE call[u]
  BY DEF IInv, TypeOK
<1>2. \A u \in Threads : CallStatus(call'[u])
  BY <1>1 DEF SinkInv
<1>. QED BY <1>2 DEF CallStatus

LEMMA IdleStatus ==
  ASSUME NEW r \in {"none", "ok", "duplicate", "error"}
  PROVE  CallStatus(Idle(r)) /\ Idle(r).pc = "idle"
  BY IdleOK DEF CallStatus

(* A call that begins.                                                     *)
LEMMA SinkStart ==
  ASSUME LockInv, SinkInv, OneService, NEW t \in Threads, Start(t), UNCHANGED <<sink, past>>
  PROVE  SinkInv'
<1>0. IInv
  BY DEF LockInv
<1>1. UNCHANGED <<store, outbox, spoiled>> /\ ~Busy(t)
  BY <1>0, StartIsOwn DEF past
<1>2. LinesInv'
  BY <1>1 DEF SinkInv, LinesInv
<1>3. ASSUME NEW r \in {"none", "ok", "duplicate", "error"}, Refuse(t, r)
      PROVE  SinkInv'
  <2>1. call' = [call EXCEPT ![t] = Idle(r)]
    BY <1>3 DEF Refuse
  <2>2. (\A u \in Threads : CallStatus(call[u]))'
    BY <1>0, <2>1, IdleStatus, OneCallStatus
  <2>3. ASSUME NEW id \in Ids \ spoiled' PROVE Accounted(id)'
    <3>1. id \in Ids /\ Accounted(id)
      BY <1>1 DEF SinkInv
    <3>. QED BY <1>0, <1>1, <2>1, <3>1, IdleStatus, NotThisItem
  <2>. QED BY <1>2, <2>2, <2>3 DEF SinkInv
<1>4. ASSUME NEW op, NEW pc, NEW item, NEW id \in Ids,
             CanCall(t), Begin(t, op, id, pc, item), Recorded(item) = Recorded(store[id]),
             pc = "accepting" => item.status = "received",
             pc = "acting" => item.status \in Settled
      PROVE  SinkInv'
  <2>. DEFINE c == [pc |-> pc, op |-> op, id |-> id, item |-> item,
                    next |-> 1, failed |-> FALSE, result |-> "none"]
  <2>1. call' = [call EXCEPT ![t] = c]
    BY <1>4 DEF Begin
  <2>2. c.pc = pc /\ c.id = id /\ c.item = item
    OBVIOUS
  <2>3. \A u \in Threads : ~Busy(u)
    BY <1>4, Zenon DEF OneService, CanCall, Busy
  <2>. HIDE DEF c
  <2>4. (\A u \in Threads : CallStatus(call[u]))'
    BY <1>0, <1>4, <2>1, <2>2, OneCallStatus DEF CallStatus
  <2>5. ASSUME NEW i \in Ids \ spoiled' PROVE Accounted(i)'
    <3>1. i \in Ids /\ Accounted(i)
      BY <1>1 DEF SinkInv
    <3>2. CASE i = id /\ c.pc # "idle"
      BY <1>0, <1>1, <1>4, <2>1, <2>2, <2>3, <3>1, <3>2, Begins
    <3>3. CASE i # id \/ c.pc = "idle"
      BY <1>0, <1>1, <2>1, <2>2, <3>1, <3>3, NotThisItem
    <3>. QED BY <3>2, <3>3
  <2>. QED BY <1>2, <2>4, <2>5 DEF SinkInv
<1>5. \/ \E r \in {"none", "ok", "duplicate", "error"} : Refuse(t, r)
      \/ \E op, pc, item : \E id \in Ids :
           /\ CanCall(t) /\ Begin(t, op, id, pc, item)
           /\ Recorded(item) = Recorded(store[id])
           /\ pc = "accepting" => item.status = "received"
           /\ pc = "classified" => item.status = "classified"
           /\ pc = "acting" => item.status \in Settled
  BY <1>0, HowCallsBegin
<1>. QED BY <1>3, <1>4, <1>5, Zenon

(* A call that moves on without executing anything.                        *)
LEMMA SinkMove ==
  ASSUME LockInv, SinkInv, NEW t \in Threads, Busy(t), NEW c, call' = [call EXCEPT ![t] = c],
         CallStatus(c), c.pc # "idle", c.id = call[t].id,
         Recorded(c.item) = Recorded(call[t].item),
         Written(t) \/ UNCHANGED store, UNCHANGED <<outbox, spoiled>>
  PROVE  SinkInv'
<1>0. IInv /\ store \in [Ids -> Item \cup {Nil}]
  BY DEF LockInv, IInv, TypeOK
<1>1. LinesInv'
  BY DEF SinkInv, LinesInv
<1>2. (\A u \in Threads : CallStatus(call[u]))'
  BY <1>0, OneCallStatus
<1>3. ASSUME NEW id \in Ids \ spoiled' PROVE Accounted(id)'
  <2>1. id \in Ids /\ Accounted(id)
    BY DEF SinkInv
  <2>2. CASE id = call[t].id
    BY <1>0, <2>1, <2>2, MovesOn
  <2>3. CASE id # call[t].id
    <3>1. store'[id] = store[id]
      BY <1>0, <2>3 DEF Written
    <3>. QED BY <1>0, <2>1, <2>3, <3>1, NotThisItem
  <2>. QED BY <2>2, <2>3
<1>. QED BY <1>1, <1>2, <1>3 DEF SinkInv

(* A call that returns: it wrote its copy, or its item is spoiled.         *)
LEMMA SinkReturn ==
  ASSUME LockInv, SinkInv, NEW t \in Threads, Busy(t),
         NEW r \in {"none", "ok", "duplicate", "error"}, Return(t, r),
         Written(t) \/ UNCHANGED store, UNCHANGED outbox,
         \/ Written(t) /\ call[t].item.status # "classified" /\ UNCHANGED spoiled
         \/ spoiled' = spoiled \cup {call[t].id}
  PROVE  SinkInv'
<1>0. IInv /\ store \in [Ids -> Item \cup {Nil}] /\ call' = [call EXCEPT ![t] = Idle(r)]
  BY DEF LockInv, IInv, TypeOK, Return
<1>1. LinesInv'
  BY DEF SinkInv, LinesInv
<1>2. (\A u \in Threads : CallStatus(call[u]))'
  BY <1>0, IdleStatus, OneCallStatus
<1>3. ASSUME NEW id \in Ids \ spoiled' PROVE Accounted(id)'
  <2>1. id \in Ids /\ Accounted(id)
    BY DEF SinkInv
  <2>2. CASE id = call[t].id
    BY <1>0, <2>1, <2>2, IdleStatus, Ends
  <2>3. CASE id # call[t].id
    <3>1. store'[id] = store[id]
      BY <1>0, <2>3 DEF Written
    <3>. QED BY <1>0, <2>1, <2>3, <3>1, IdleStatus, NotThisItem
  <2>. QED BY <2>2, <2>3
<1>. QED BY <1>1, <1>2, <1>3 DEF SinkInv

(* One turn of the loop.                                                   *)
LEMMA SinkLogs ==
  ASSUME LockInv, SinkInv, NEW t \in Threads, Acting(t), NEW type \in {"action", "error"},
         NEW failed \in BOOLEAN, UNCHANGED <<store, outbox, spoiled>>,
         LET key == KeyOf(call[t].item, call[t].next)
         IN Advance(t, Logged(call[t].item, Entry(type, Nil, key)), failed)
  PROVE  SinkInv'
<1>. DEFINE key == KeyOf(call[t].item, call[t].next)
            e == Entry(type, Nil, key)
            item == Logged(call[t].item, e)
            c == Advanced(call[t], item, failed)
<1>1. call[t].pc = "acting" /\ CallOK(call[t]) /\ call[t].item \in Item /\ key \in Key
  BY InLoop DEF LockInv
<1>2. e \in Event
  BY <1>1, EntryTyped DEF EventTypes
<1>3. call' = [call EXCEPT ![t] = c]
  BY Zenon DEF Advance
<1>. HIDE DEF e
<1>4. /\ item \in Item /\ item.class = call[t].item.class /\ item.decision = call[t].item.decision
      /\ item.status = call[t].item.status /\ Recorded(item) = Recorded(call[t].item)
  <2>1. item \in Item /\ item.class = call[t].item.class /\ item.decision = call[t].item.decision
        /\ item.status = call[t].item.status
    BY <1>1, <1>2, LoggedTyped, Zenon
  <2>2. ~IsDone(e)
    BY NotDone DEF e
  <2>3. SameDone(item, call[t].item)
    BY <1>1, <1>2, <2>2, InLoop, LoggedBacked DEF LockInv
  <2>. QED BY <1>1, <2>1, <2>3, SameRecord
<1>. HIDE DEF item
<1>5. c.item = item /\ c.id = call[t].id /\ c.pc = "acting"
  BY <1>1, <1>4, AdvancedOK, Zenon
<1>. HIDE DEF c
<1>6. CallStatus(c)
  BY <1>1, <1>4, <1>5 DEF SinkInv, CallStatus
<1>. QED BY <1>1, <1>3, <1>4, <1>5, <1>6, SinkMove DEF Busy

LEMMA SinkExecutes ==
  ASSUME LockInv, SinkInv, NEW t \in Threads, Execute(t), UNCHANGED spoiled
  PROVE  SinkInv'
<1>. DEFINE key == KeyOf(call[t].item, call[t].next)
            line == [key |-> key, class |-> call[t].item.class]
            item == Executed(call[t].item, key)
            c == Advanced(call[t], item, call[t].failed)
            i == call[t].id
<1>0. IInv
  BY DEF LockInv
<1>1. /\ call[t].pc = "acting" /\ CallOK(call[t]) /\ call[t].item \in Item /\ i \in Ids
      /\ call[t].failed \in BOOLEAN /\ call[t].item.class \in Classification
      /\ Backed(call[t].item, outbox[i]) /\ key \in Key /\ line \in Line
  BY <1>0, InLoop DEF Execute
<1>2. /\ outbox' = [outbox EXCEPT ![i] = Append(outbox[i], line)] /\ call' = [call EXCEPT ![t] = c]
      /\ UNCHANGED store /\ key \notin call[t].item.executed
  BY Zenon DEF Execute, Send, Advance
<1>3. outbox \in [Ids -> Seq(Line)] /\ outbox[i] \in Seq(Line)
  BY <1>0, <1>1 DEF IInv, TypeOK
<1>4. /\ item \in Item /\ item.class = call[t].item.class
      /\ item.decision = call[t].item.decision /\ item.status = call[t].item.status
  BY <1>1, <1>3, ExecutedOK, Zenon
<1>5. /\ Recorded(call[t].item).keys = call[t].item.executed
      /\ Recorded(item) = [keys |-> call[t].item.executed \cup {key},
                           feed |-> Append(Recorded(call[t].item).feed, line)]
  <2>. DEFINE log == Logged(call[t].item, Entry("action", call[t].item.class, key))
  <2>1. log \in Item /\ log.executed = call[t].item.executed
    BY <1>1, EntryTyped, LoggedTyped DEF EventTypes
  <2>2. item = [log EXCEPT !.executed = @ \cup {key}]
    BY DEF Executed
  <2>3. ActionFeed(item.events) = Append(ActionFeed(call[t].item.events), line)
    BY <1>1, <1>3, ExecutedOK, Zenon
  <2>. HIDE DEF log, item
  <2>4. item.executed = call[t].item.executed \cup {key}
    BY <2>1, <2>2 DEF Item
  <2>. HIDE DEF line
  <2>. QED BY <1>1, <1>4, <2>3, <2>4, NilDistinct DEF Recorded
<1>6. FromRule(key)
  <2>1. call[t].next \in 1..Len(call[t].item.decision.actions)
    <3>1. call[t].item.decision = Route(call[t].item.class) /\ call[t].next \in Nat /\ call[t].next >= 1
      BY <1>1 DEF CallOK, Call
    <3>2. Len(call[t].item.decision.actions) \in Nat
      BY <1>1, <3>1, RouteTyped DEF Decision
    <3>. QED BY <3>1, <3>2 DEF Execute, Acting
  <2>. QED BY <1>1, <2>1, KeyFromRule DEF CallOK
<1>7. line.key = key
  OBVIOUS
<1>. HIDE DEF item, key
<1>8. c.item = item /\ c.id = i /\ c.pc = "acting"
  BY <1>1, <1>4, AdvancedOK, Zenon
<1>. HIDE DEF line, c, i
<1>9. \A id \in Ids : outbox'[id] = IF id = i THEN Append(outbox[i], line) ELSE outbox[id]
  BY <1>2, <1>3
<1>10. LinesInv'
  <2>1. \A n \in DOMAIN Append(outbox[i], line) :
          (n \in DOMAIN outbox[i] /\ Append(outbox[i], line)[n] = outbox[i][n])
            \/ Append(outbox[i], line)[n] = line
    BY <1>1, <1>3
  <2>2. \A id \in Ids : \A n \in DOMAIN outbox'[id] : FromRule(outbox'[id][n].key)
    BY <1>6, <1>7, <1>9, <2>1, Zenon DEF SinkInv, LinesInv
  <2>. QED BY <2>2 DEF LinesInv
<1>11. (\A u \in Threads : CallStatus(call[u]))'
  <2>1. CallStatus(c)
    BY <1>1, <1>4, <1>8 DEF SinkInv, CallStatus
  <2>. QED BY <1>0, <1>2, <2>1, OneCallStatus
<1>12. ASSUME NEW id \in Ids \ spoiled' PROVE Accounted(id)'
  <2>1. id \in Ids /\ Accounted(id)
    BY DEF SinkInv
  <2>2. CASE id = i
    <3>1. Busy(t) /\ call[t].id = id /\ c.id = id /\ c.pc # "idle"
      BY <1>1, <1>8, <2>2 DEF Busy, i
    <3>2. line \in Line /\ outbox'[id] = Append(outbox[id], line)
      BY <1>1, <1>9, <2>1, <2>2
    <3>3. /\ line.key \notin Recorded(call[t].item).keys
          /\ Recorded(c.item) = [keys |-> Recorded(call[t].item).keys \cup {line.key},
                                 feed |-> Append(Recorded(call[t].item).feed, line)]
      BY <1>2, <1>5, <1>7, <1>8
    <3>. QED BY <1>2, <2>1, <3>1, <3>2, <3>3, Sends
  <2>3. CASE id # i
    BY <1>0, <1>2, <1>8, <1>9, <2>1, <2>3, NotThisItem DEF i
  <2>. QED BY <2>2, <2>3
<1>. QED BY <1>10, <1>11, <1>12 DEF SinkInv

(* A process that dies spoils the items of its calls.                      *)
LEMMA SinkDies ==
  ASSUME LockInv, SinkInv, OneService, NEW p \in Threads, DiesWriting(ProcOf[p])
  PROVE  SinkInv'
<1>1. Crash(ProcOf[p]) /\ UNCHANGED <<store, outbox>>
  BY DEF DiesWriting, Crash
<1>2. \A t \in Threads : call'[t] = Idle("none") /\ ProcOf[t] = ProcOf[p]
  BY <1>1, DeadAreIdle
<1>3. spoiled' = spoiled \cup {call[t].id : t \in {u \in Threads : ProcOf[u] = ProcOf[p] /\ call[u].pc # "idle"}}
  BY DEF DiesWriting, Loses
<1>4. LinesInv'
  BY <1>1 DEF SinkInv, LinesInv
<1>5. \A t \in Threads : CallStatus(call'[t]) /\ call'[t].pc = "idle"
  BY <1>2, IdleStatus
<1>6. (\A t \in Threads : CallStatus(call[t]))'
  BY <1>5 DEF CallStatus
<1>7. ASSUME NEW id \in Ids \ spoiled' PROVE Accounted(id)'
  <2>1. id \in Ids /\ Accounted(id)
    BY <1>3 DEF SinkInv
  <2>2. Rests(id)
    BY <1>2, <1>3 DEF Rests, Busy
  <2>3. Sent(id)' = Sent(id) /\ Recorded(store[id])' = Recorded(store[id])
    BY <1>1 DEF Sent, Recorded
  <2>4. \A t \in Threads : ~Busy(t)'
    BY <1>5 DEF Busy
  <2>. QED BY <1>1, <2>1, <2>2, <2>3, <2>4 DEF Accounted
<1>. QED BY <1>4, <1>6, <1>7 DEF SinkInv

(* Every step keeps the account.                                           *)
LEMMA SinkInvNext ==
  ASSUME LockInv, SinkInv, OneService, [SinkNext]_all
  PROVE  SinkInv'
<1>0. IInv /\ \A t \in Threads : CallStatus(call[t])
  BY DEF LockInv, SinkInv
<1>1. ASSUME UNCHANGED <<vars, spoiled>> PROVE SinkInv'
  BY <1>1 DEF vars, SinkInv, LinesInv, CallStatus, Accounted, Busy, Rests, Sent, Recorded
<1>2. ASSUME NEW t \in Threads, Counts(t) PROVE SinkInv'
  BY <1>1, <1>2, Zenon DEF Counts, past
<1>3. ASSUME NEW t \in Threads, Appends(t) PROVE SinkInv'
  BY <1>3, SinkExecutes, Zenon DEF Appends
<1>4. ASSUME NEW t \in Threads, AppendFails(t) PROVE SinkInv'
  <2>1. UNCHANGED spoiled
    BY <1>4 DEF AppendFails, Loses, past
  <2>. QED BY <1>4, <2>1, SinkLogs DEF AppendFails, ExecuteFails
<1>5. ASSUME NEW t \in Threads, LosesPut(t) PROVE SinkInv'
  BY <1>5, SinkReturn DEF LosesPut, Loses, PutFails, LoopDone, Busy
<1>6. ASSUME NEW t \in Threads, Start(t), UNCHANGED <<sink, past>> PROVE SinkInv'
  BY <1>6, SinkStart
<1>7. ASSUME NEW t \in Threads, PutAccepted(t), UNCHANGED past PROVE SinkInv'
  BY <1>0, <1>7, SinkReturn DEF PutAccepted, CallStatus, Busy, past
<1>8. ASSUME NEW t \in Threads, PutRouted(t), UNCHANGED past PROVE SinkInv'
  BY <1>0, <1>8, SinkReturn DEF PutRouted, LoopDone, CallStatus, Busy, past, Settled
<1>9. ASSUME NEW t \in Threads, Skip(t), UNCHANGED past PROVE SinkInv'
  <2>1. call[t].failed \in BOOLEAN
    BY <1>0, <1>9, InLoop DEF Skip
  <2>. QED BY <1>9, <2>1, SinkLogs DEF Skip, past
<1>10. ASSUME NEW t \in Threads, PutClassified(t), UNCHANGED past PROVE SinkInv'
  <2>. DEFINE item == call[t].item
              c == [call[t] EXCEPT !.pc = "acting", !.item = Routed(item)]
  <2>1. Busy(t) /\ Written(t) /\ call' = [call EXCEPT ![t] = c] /\ UNCHANGED outbox
    BY <1>10 DEF PutClassified, Busy
  <2>2. call[t] \in Call /\ item \in Item /\ item.class \in Classification
    BY <1>0, <1>10, <2>1, CopyTyped DEF PutClassified, IInv, CallOK
  <2>3. c.id = call[t].id /\ c.item = Routed(item) /\ c.pc = "acting"
    BY <2>2 DEF Call
  <2>. HIDE DEF c, item
  <2>4. CallStatus(c) /\ Recorded(c.item) = Recorded(item)
    BY <2>2, <2>3, RoutedSettles DEF CallStatus
  <2>. QED BY <1>10, <2>1, <2>3, <2>4, SinkMove DEF item, past
<1>11. ASSUME NEW p \in Threads, DiesWriting(ProcOf[p]) PROVE SinkInv'
  BY <1>11, SinkDies
<1>12. ASSUME UNCHANGED all PROVE SinkInv'
  BY <1>1, <1>12 DEF all, past
<1>. QED BY <1>2, <1>3, <1>4, <1>5, <1>6, <1>7, <1>8, <1>9, <1>10, <1>11, <1>12, Zenon
     DEF SinkNext, Others

LEMMA SinkInvInit == SinkInit => SinkInv
<1>. SUFFICES ASSUME SinkInit PROVE SinkInv
  OBVIOUS
<1>1. /\ \A id \in Ids : outbox[id] = <<>> /\ store[id] = Nil
      /\ \A t \in Threads : call[t] = Idle("none")
  BY DEF SinkInit, Init
<1>2. \A t \in Threads : CallStatus(call[t]) /\ call[t].pc = "idle"
  BY <1>1, IdleStatus
<1>3. \A id \in Ids : DOMAIN outbox[id] = {} /\ Sent(id) = Recorded(store[id])
  <2>. SUFFICES ASSUME NEW id \in Ids
                PROVE  DOMAIN outbox[id] = {} /\ Sent(id) = Recorded(store[id])
    OBVIOUS
  <2>1. outbox[id] = <<>> /\ store[id] = Nil
    BY <1>1
  <2>2. DOMAIN outbox[id] = {}
    BY <2>1
  <2>3. {outbox[id][n].key : n \in DOMAIN outbox[id]} = {}
    BY <2>2
  <2>4. Sent(id) = [keys |-> {}, feed |-> <<>>]
    BY <2>1, <2>3, Zenon DEF Sent
  <2>5. Recorded(store[id]) = [keys |-> {}, feed |-> <<>>]
    BY <2>1, Zenon DEF Recorded
  <2>. QED BY <2>2, <2>4, <2>5
<1>. QED BY <1>1, <1>2, <1>3 DEF SinkInv, LinesInv, Accounted, Busy

LEMMA SinkInductive == OneService => (SinkSpec => [](LockInv /\ SinkInv))
<1>. SUFFICES ASSUME OneService PROVE SinkSpec => [](LockInv /\ SinkInv)
  OBVIOUS
<1>1. LockInv /\ SinkInv /\ [SinkNext]_all => SinkInv'
  BY SinkInvNext
<1>. QED BY <1>1, SinkInvInit, SinkLocked, PTL DEF SinkSpec, all

-----------------------------------------------------------------------------
(* "Re-routing, reclassifying or approving never pages twice"              *)
(* (README.md:168-169): in one process, with rules that share no action,   *)
(* for every item whose calls all learnt what became of their Put,         *)
(* whatever is re-judged and whichever actions fail.                       *)
THEOREM NeverPagedTwice ==
  OneService /\ DistinctActions => (SinkSpec => []PagesOnceUnlessLost)
<1>. SUFFICES ASSUME OneService, DistinctActions PROVE SinkSpec => []PagesOnceUnlessLost
  OBVIOUS
<1>1. ASSUME LockInv, SinkInv PROVE PagesOnceUnlessLost
  <2>. SUFFICES ASSUME NEW id \in Ids \ spoiled, NEW m \in DOMAIN outbox[id], NEW n \in DOMAIN outbox[id],
                       outbox[id][m].key.type = outbox[id][n].key.type,
                       outbox[id][m].key.target = outbox[id][n].key.target
                PROVE  m = n
    BY DEF PagesOnceUnlessLost, PagedOnce
  <2>. DEFINE k == outbox[id][m].key
              l == outbox[id][n].key
  <2>1. k \in Key /\ l \in Key
    <3>1. outbox[id] \in Seq(Line)
      BY <1>1 DEF LockInv, IInv, TypeOK
    <3>2. outbox[id][m] \in Line /\ outbox[id][n] \in Line
      BY <3>1
    <3>. QED BY <3>2 DEF Line
  <2>2. FromRule(k) /\ FromRule(l)
    BY <1>1 DEF SinkInv, LinesInv
  <2>3. k.type = l.type /\ k.target = l.target
    OBVIOUS
  <2>4. k = l => m = n
    BY <1>1 DEF SinkInv, Accounted
  <2>. HIDE DEF k, l
  <2>5. k.rule = l.rule
    <3>1. PICK i \in DOMAIN Rules : \E j \in DOMAIN Rules[i].actions :
            /\ k.rule = Rules[i].name /\ k.type = Rules[i].actions[j].type
            /\ k.target = Rules[i].actions[j].target
      BY <2>2, Zenon DEF FromRule
    <3>2. PICK r \in DOMAIN Rules : \E q \in DOMAIN Rules[r].actions :
            /\ l.rule = Rules[r].name /\ l.type = Rules[r].actions[q].type
            /\ l.target = Rules[r].actions[q].target
      BY <2>2, Zenon DEF FromRule
    <3>3. i = r
      BY <2>3, <3>1, <3>2 DEF DistinctActions
    <3>. QED BY <3>1, <3>2, <3>3
  <2>6. k = l
    BY <2>1, <2>3, <2>5 DEF Key
  <2>. QED BY <2>4, <2>6
<1>. QED BY <1>1, SinkInductive, PTL

(* The actions before the n-th, each taken, or its failure in the trail.   *)
TriedBefore(item, n) ==
  \A i \in DOMAIN item.decision.actions :
    i < n => \/ KeyOf(item, i) \in item.executed
             \/ Entry("error", Nil, KeyOf(item, i)) \in Range(item.events)

CallTried(c) ==
  /\ c.pc \in {"accepting", "classified"} => c.item.status \notin Settled
  /\ c.pc = "classified" => c.next = 1
  /\ c.pc = "acting" => TriedBefore(c.item, c.next)

(* What is settled has been through its loop.                              *)
TriedInv ==
  /\ \A t \in Threads : CallTried(call[t])
  /\ \A id \in Ids : store[id] # Nil /\ store[id].status \in Settled => Tried(store[id])

LEMMA NothingBefore ==
  ASSUME NEW item \in Item, item.class \in Classification, item.decision = Route(item.class)
  PROVE  TriedBefore(item, 1)
<1>1. item.decision.actions \in Seq(Action)
  BY RouteTyped DEF Decision
<1>. QED BY <1>1 DEF TriedBefore

(* A turn of the loop that takes action n, skips it or logs its failure.   *)
LEMMA OneMoreTried ==
  ASSUME NEW item \in Item, NEW it \in Item, NEW n \in Nat, TriedBefore(item, n),
         item.class \in Classification, item.decision = Route(item.class),
         it.decision = item.decision, item.executed \subseteq it.executed,
         Range(item.events) \subseteq Range(it.events),
         \/ KeyOf(item, n) \in it.executed
         \/ Entry("error", Nil, KeyOf(item, n)) \in Range(it.events)
  PROVE  TriedBefore(it, n + 1)
<1>. SUFFICES ASSUME NEW i \in DOMAIN it.decision.actions, i < n + 1
              PROVE  \/ KeyOf(it, i) \in it.executed
                     \/ Entry("error", Nil, KeyOf(it, i)) \in Range(it.events)
  BY DEF TriedBefore
<1>1. KeyOf(it, i) = KeyOf(item, i)
  BY DEF KeyOf
<1>2. i \in Nat
  <2>1. item.decision.actions \in Seq(Action)
    BY RouteTyped DEF Decision
  <2>. QED BY <2>1
<1>3. CASE i = n
  BY <1>1, <1>3
<1>4. CASE i < n
  BY <1>1, <1>4 DEF TriedBefore
<1>. QED BY <1>2, <1>3, <1>4

(* A call's copy that is written is not settled, or is through its loop.   *)
LEMMA TriedWhenWritten ==
  ASSUME IInv, TriedInv, NEW t \in Threads, call[t].pc \in {"accepting", "classified"} \/ LoopDone(t),
         Written(t) \/ UNCHANGED store
  PROVE  \A id \in Ids : store'[id] # Nil /\ store'[id].status \in Settled => Tried(store'[id])
<1>1. call[t].item \in Item /\ CallOK(call[t])
  BY DEF IInv, CallOK, LoopDone
<1>2. call[t].item.status \in Settled => Tried(call[t].item)
  <2>. SUFFICES ASSUME call[t].item.status \in Settled PROVE Tried(call[t].item)
    OBVIOUS
  <2>1. LoopDone(t) /\ TriedBefore(call[t].item, call[t].next)
    BY DEF TriedInv, CallTried, LoopDone
  <2>2. /\ call[t].item.class \in Classification
        /\ call[t].item.decision = Route(call[t].item.class) /\ call[t].next \in Nat
    BY <1>1, <2>1 DEF LoopDone, CallOK, Call
  <2>3. call[t].item.decision \in Decision /\ call[t].item.decision # Nil
    BY <2>2, RouteTyped, NilDistinct
  <2>4. \A i \in DOMAIN call[t].item.decision.actions : i < call[t].next
    BY <2>1, <2>2, <2>3 DEF LoopDone, Decision
  <2>. QED BY <2>1, <2>3, <2>4, Zenon DEF Tried, TriedBefore
<1>3. store \in [Ids -> Item \cup {Nil}]
  BY DEF IInv, TypeOK
<1>4. \A id \in Ids : store'[id] = store[id] \/ store'[id] = call[t].item
  BY <1>3 DEF Written
<1>. QED BY <1>2, <1>4, Zenon DEF TriedInv

(* One caller's call changes.                                              *)
LEMMA OneCallTried ==
  ASSUME IInv, TriedInv, NEW t \in Threads, NEW c, call' = [call EXCEPT ![t] = c], CallTried(c)
  PROVE  \A u \in Threads : CallTried(call'[u])
<1>1. \A u \in Threads : call'[u] = IF u = t THEN c ELSE call[u]
  BY DEF IInv, TypeOK
<1>. QED BY <1>1 DEF TriedInv

LEMMA IdleTried == ASSUME NEW r PROVE CallTried(Idle(r))
  BY DEF CallTried, Idle

(* A turn of the loop.                                                     *)
LEMMA AdvanceTried ==
  ASSUME IInv, TriedInv, NEW t \in Threads, Acting(t), NEW item \in Item, NEW failed \in BOOLEAN,
         Advance(t, item, failed), UNCHANGED store,
         item.decision = call[t].item.decision, call[t].item.executed \subseteq item.executed,
         Range(call[t].item.events) \subseteq Range(item.events),
         LET key == KeyOf(call[t].item, call[t].next)
         IN key \in item.executed \/ Entry("error", Nil, key) \in Range(item.events)
  PROVE  TriedInv'
<1>. DEFINE c == Advanced(call[t], item, failed)
<1>1. /\ call[t].pc = "acting" /\ CallOK(call[t]) /\ call[t].item \in Item
      /\ call[t].item.class \in Classification
  BY InLoop
<1>2. call[t] \in Call /\ call[t].next \in Nat /\ call[t].item.decision = Route(call[t].item.class)
  BY <1>1 DEF CallOK, Call
<1>3. c.pc = "acting" /\ c.item = item /\ c.next = call[t].next + 1
  BY <1>1, <1>2 DEF Advanced, Call
<1>4. call' = [call EXCEPT ![t] = c]
  BY Zenon DEF Advance
<1>. HIDE DEF c
<1>5. TriedBefore(item, call[t].next + 1)
  <2>1. TriedBefore(call[t].item, call[t].next)
    BY <1>1 DEF TriedInv, CallTried
  <2>. QED BY <1>1, <1>2, <2>1, OneMoreTried
<1>6. CallTried(c)
  BY <1>3, <1>5 DEF CallTried
<1>7. \A u \in Threads : CallTried(call'[u])
  BY <1>4, <1>6, OneCallTried
<1>. QED BY <1>7 DEF TriedInv, CallTried, TriedBefore, Tried

LEMMA TriedNext ==
  ASSUME IInv, TriedInv, [Next]_vars
  PROVE  TriedInv'
<1>0. IInv'
  BY NextOK
<1>a. ASSUME NEW t \in Threads, NEW c, call' = [call EXCEPT ![t] = c], CallTried(c),
             \/ UNCHANGED store
             \/ /\ call[t].pc \in {"accepting", "classified"} \/ LoopDone(t)
                /\ Written(t) \/ UNCHANGED store
      PROVE  TriedInv'
  <2>1. \A u \in Threads : CallTried(call'[u])
    BY <1>a, OneCallTried
  <2>2. \A id \in Ids : store'[id] # Nil /\ store'[id].status \in Settled => Tried(store'[id])
    <3>1. CASE UNCHANGED store
      BY <3>1 DEF TriedInv
    <3>. QED BY <1>a, <3>1, TriedWhenWritten
  <2>. QED BY <2>1, <2>2 DEF TriedInv, CallTried, TriedBefore, Tried
<1>1. ASSUME NEW t \in Threads, Start(t) PROVE TriedInv'
  <2>0. UNCHANGED store
    BY <1>1, StartIsOwn
  <2>1. ASSUME NEW r, Refuse(t, r) PROVE TriedInv'
    BY <1>a, <2>0, <2>1, IdleTried DEF Refuse
  <2>2. ASSUME NEW op, NEW pc, NEW item, NEW id \in Ids, Begin(t, op, id, pc, item),
               pc = "accepting" => item.status = "received",
               pc = "classified" => item.status = "classified"
        PROVE  TriedInv'
    <3>. DEFINE c == [pc |-> pc, op |-> op, id |-> id, item |-> item,
                      next |-> 1, failed |-> FALSE, result |-> "none"]
    <3>1. call' = [call EXCEPT ![t] = c]
      BY <2>2 DEF Begin
    <3>2. c.pc = pc /\ c.item = item /\ c.next = 1
      OBVIOUS
    <3>. HIDE DEF c
    <3>3. call'[t] = c
      BY <3>1 DEF IInv, TypeOK
    <3>4. CallOK(c)
      BY <1>0, <3>3 DEF IInv, CallOK
    <3>5. c.pc = "acting" => TriedBefore(c.item, 1)
      BY <3>4, NothingBefore DEF CallOK
    <3>6. CallTried(c)
      BY <2>2, <3>2, <3>5 DEF CallTried, Settled
    <3>. QED BY <1>a, <2>0, <3>1, <3>6
  <2>. QED BY <1>1, <2>1, <2>2, HowCallsBegin, Zenon
<1>2. ASSUME NEW t \in Threads, PutFails(t) \/ PutAccepted(t) \/ PutRouted(t) PROVE TriedInv'
  <2>1. \E r : call' = [call EXCEPT ![t] = Idle(r)]
    BY <1>2, Zenon DEF PutFails, PutAccepted, PutRouted, Return
  <2>2. /\ call[t].pc \in {"accepting", "classified"} \/ LoopDone(t)
        /\ Written(t) \/ UNCHANGED store
    BY <1>2 DEF PutFails, PutAccepted, PutRouted
  <2>. QED BY <1>a, <2>1, <2>2, IdleTried
<1>3. ASSUME NEW t \in Threads, PutClassified(t) PROVE TriedInv'
  <2>. DEFINE c == [call[t] EXCEPT !.pc = "acting", !.item = Routed(call[t].item)]
  <2>1. /\ call' = [call EXCEPT ![t] = c] /\ call[t].pc = "classified" /\ Written(t)
        /\ call[t] \in Call /\ call[t].next = 1
    BY <1>3 DEF PutClassified, IInv, CallOK, TriedInv, CallTried
  <2>2. c.pc = "acting" /\ c.next = 1
    BY <2>1 DEF Call
  <2>. HIDE DEF c
  <2>3. call'[t] = c
    BY <2>1 DEF IInv, TypeOK
  <2>4. CallOK(c)
    BY <1>0, <2>3 DEF IInv, CallOK
  <2>5. TriedBefore(c.item, 1)
    BY <2>2, <2>4, NothingBefore DEF CallOK
  <2>6. CallTried(c)
    BY <2>2, <2>5 DEF CallTried
  <2>. QED BY <1>a, <2>1, <2>6
<1>4. ASSUME NEW t \in Threads, NEW type \in {"action", "error"}, NEW failed \in BOOLEAN, Acting(t),
             LET key == KeyOf(call[t].item, call[t].next)
             IN /\ type = "error" \/ key \in call[t].item.executed
                /\ Advance(t, Logged(call[t].item, Entry(type, Nil, key)), failed),
             UNCHANGED store
      PROVE  TriedInv'
  <2>. DEFINE key == KeyOf(call[t].item, call[t].next)
              e == Entry(type, Nil, key)
              item == Logged(call[t].item, e)
  <2>1. call[t].item \in Item /\ key \in Key
    BY <1>4, InLoop
  <2>2. e \in Event
    BY <2>1, EntryTyped DEF EventTypes
  <2>3. /\ type = "error" \/ key \in call[t].item.executed
        /\ type = "error" => e = Entry("error", Nil, key)
        /\ Advance(t, item, failed)
    BY <1>4
  <2>. HIDE DEF e
  <2>4. /\ item \in Item /\ item.decision = call[t].item.decision
        /\ item.executed = call[t].item.executed
        /\ item.events = Append(call[t].item.events, e) /\ call[t].item.events \in Seq(Event)
    BY <2>1, <2>2, LoggedTyped DEF Item
  <2>. HIDE DEF item
  <2>5. Range(call[t].item.events) \subseteq Range(item.events) /\ e \in Range(item.events)
    BY <2>2, <2>4, RangeAppend
  <2>6. key \in item.executed \/ Entry("error", Nil, key) \in Range(item.events)
    BY <2>3, <2>4, <2>5
  <2>. QED BY <1>4, <2>3, <2>4, <2>5, <2>6, AdvanceTried
<1>5. ASSUME NEW t \in Threads, Skip(t) PROVE TriedInv'
  <2>1. call[t].failed \in BOOLEAN
    BY <1>5, InLoop DEF Skip
  <2>. QED BY <1>4, <1>5, <2>1 DEF Skip
<1>6. ASSUME NEW t \in Threads, ExecuteFails(t) PROVE TriedInv'
  BY <1>4, <1>6 DEF ExecuteFails
<1>7. ASSUME NEW t \in Threads, Execute(t) PROVE TriedInv'
  <2>. DEFINE key == KeyOf(call[t].item, call[t].next)
              e == Entry("action", call[t].item.class, key)
              log == Logged(call[t].item, e)
              item == Executed(call[t].item, key)
  <2>1. /\ call[t].item \in Item /\ key \in Key /\ call[t].failed \in BOOLEAN
        /\ call[t].item.class \in Classification
        /\ Acting(t) /\ Advance(t, item, call[t].failed) /\ UNCHANGED store
    BY <1>7, InLoop DEF Execute
  <2>2. e \in Event
    BY <2>1, EntryTyped DEF EventTypes
  <2>3. item = [log EXCEPT !.executed = @ \cup {key}]
    BY DEF Executed
  <2>. HIDE DEF e, key
  <2>4. /\ log \in Item /\ log.decision = call[t].item.decision
        /\ log.executed = call[t].item.executed
        /\ log.events = Append(call[t].item.events, e) /\ call[t].item.events \in Seq(Event)
    BY <2>1, <2>2, LoggedTyped DEF Item
  <2>. HIDE DEF log
  <2>5. /\ item \in Item /\ item.decision = log.decision /\ item.events = log.events
        /\ item.executed = log.executed \cup {key}
    BY <2>1, <2>3, <2>4 DEF Item
  <2>. HIDE DEF item
  <2>6. Range(call[t].item.events) \subseteq Range(item.events)
    BY <2>2, <2>4, <2>5, RangeAppend
  <2>7. key \in item.executed
    BY <2>5
  <2>. QED BY <2>1, <2>4, <2>5, <2>6, <2>7, AdvanceTried DEF key
<1>8. ASSUME NEW p, Crash(p) PROVE TriedInv'
  <2>1. \A t \in Threads : call'[t] = call[t] \/ call'[t] = Idle("none")
    BY <1>8 DEF Crash
  <2>2. \A t \in Threads : CallTried(call'[t])
    BY <2>1, IdleTried DEF TriedInv
  <2>. QED BY <1>8, <2>2 DEF Crash, TriedInv, CallTried, TriedBefore, Tried
<1>9. CASE UNCHANGED vars
  BY <1>9 DEF vars, TriedInv, CallTried, TriedBefore, Tried
<1>. QED BY <1>1, <1>2, <1>3, <1>5, <1>6, <1>7, <1>8, <1>9, Zenon DEF Next, Step

LEMMA TriedInit == Init => TriedInv
  BY IdleTried DEF Init, TriedInv

(* "Low confidence always defers to a human" (README.md:163), and high     *)
(* confidence is acted on: in one process, a delivery of an item none of   *)
(* whose Puts was lost is ignored only once the item is decided, with a    *)
(* person if its label needs one, and with every action of its decision    *)
(* taken, or its failure in the trail (pipeline.go:172-174, :299-308).     *)
THEOREM DefersToHuman == OneService => (SinkSpec => DefersUnlessLost)
<1>. SUFFICES ASSUME OneService PROVE SinkSpec => DefersUnlessLost
  OBVIOUS
<1>. DEFINE Defers == \A t \in Threads, id \in Ids \ spoiled :
                        ProcessIgnored(t, id) => Deferred(id) /\ Tried(store[id])
<1>1. ASSUME LockInv, SinkInv, TriedInv PROVE Defers
  <2>. SUFFICES ASSUME NEW t \in Threads, NEW id \in Ids \ spoiled, ProcessIgnored(t, id)
                PROVE  Deferred(id) /\ Tried(store[id])
    OBVIOUS
  <2>1. store[id] # Nil /\ store[id].status # "received" /\ store[id] \in Item /\ Consistent(store[id])
    BY <1>1, StoredTyped DEF ProcessIgnored, LockInv
  <2>2. Rests(id)
    BY Zenon DEF ProcessIgnored, CanCall, OneService, Rests, Busy
  <2>3. store[id].status # "classified"
    BY <1>1, <2>1, <2>2 DEF SinkInv, Accounted
  <2>4. store[id].status \in Settled
    BY <2>1, <2>3 DEF Item, Status, Settled
  <2>5. store[id].class \in Classification /\ store[id].decision = Route(store[id].class)
    BY <2>1, <2>4 DEF Consistent, Item
  <2>6. store[id].decision # Nil
    BY <2>5, RouteTyped, NilDistinct
  <2>7. Deferred(id)
    BY <2>5, <2>6, Zenon DEF Deferred
  <2>. QED BY <1>1, <2>1, <2>4, <2>7 DEF TriedInv
<1>2. LockInv /\ SinkInv /\ TriedInv /\ [SinkNext]_all => [Defers]_<<vars, past>>
  BY <1>1
<1>3. SinkInit => TriedInv
  BY TriedInit DEF SinkInit
<1>4. LockInv /\ TriedInv /\ [SinkNext]_all => TriedInv'
  BY TriedNext, SinkStepIsService DEF LockInv
<1>. QED BY <1>2, <1>3, <1>4, SinkInductive, PTL DEF SinkSpec, all, DefersUnlessLost

(* What can be read of an item's lines is all of them, or a line of it was *)
(* glued to a torn piece.                                                  *)
RecordsInv ==
  /\ records \in [Ids -> Seq(Line)]
  /\ \A id \in Ids : /\ id \notin glued => records[id] = outbox[id]
                     /\ Range(records[id]) \subseteq Range(outbox[id])

LEMMA RangeOfAppended ==
  ASSUME NEW s \in Seq(Line), NEW line \in Line
  PROVE  Range(Append(s, line)) = Range(s) \cup {line}
<1>. DEFINE a == Append(s, line)
<1>1. /\ DOMAIN s = 1..Len(s) /\ DOMAIN a = 1..(Len(s) + 1) /\ Len(s) \in Nat
      /\ \A n \in 1..Len(s) : a[n] = s[n]
      /\ a[Len(s) + 1] = line
  OBVIOUS
<1>. HIDE DEF a
<1>2. \A n \in 1..(Len(s) + 1) : n \in 1..Len(s) \/ n = Len(s) + 1
  BY <1>1
<1>3. Range(a) \subseteq Range(s) \cup {line}
  BY <1>1, <1>2 DEF Range
<1>4. Range(s) \cup {line} \subseteq Range(a)
  BY <1>1 DEF Range
<1>. QED BY <1>3, <1>4 DEF a

(* Only a line that is appended changes what there is to read.             *)
LEMMA RecordsNext ==
  ASSUME IInv, RecordsInv, [SinkNext]_all
  PROVE  RecordsInv'
<1>0. outbox \in [Ids -> Seq(Line)]
  BY DEF IInv, TypeOK
<1>1. ASSUME UNCHANGED <<outbox, records, glued>> PROVE RecordsInv'
  BY <1>1 DEF RecordsInv
<1>2. ASSUME NEW t \in Threads, Appends(t) PROVE RecordsInv'
  <2>. DEFINE id == call[t].id
              line == [key |-> KeyOf(call[t].item, call[t].next), class |-> call[t].item.class]
  <2>1. /\ id \in Ids /\ line \in Line
        /\ outbox' = [outbox EXCEPT ![id] = Append(@, line)]
    BY <1>2, InLoop DEF Appends, Execute, Send
  <2>2. \/ UNCHANGED records /\ glued' = glued \cup {id}
        \/ records' = [records EXCEPT ![id] = Append(@, line)] /\ UNCHANGED glued
    BY <1>2, Zenon DEF Appends, Ended
  <2>. HIDE DEF id, line
  <2>3. /\ outbox[id] \in Seq(Line) /\ records[id] \in Seq(Line)
        /\ outbox'[id] = Append(outbox[id], line)
        /\ \A i \in Ids : i # id => outbox'[i] = outbox[i]
    BY <1>0, <2>1 DEF RecordsInv
  <2>4. Range(outbox'[id]) = Range(outbox[id]) \cup {line}
    BY <2>1, <2>3, RangeOfAppended
  <2>5. CASE UNCHANGED records /\ glued' = glued \cup {id}
    BY <2>3, <2>4, <2>5 DEF RecordsInv
  <2>6. CASE records' = [records EXCEPT ![id] = Append(@, line)] /\ UNCHANGED glued
    <3>1. /\ records'[id] = Append(records[id], line) /\ records' \in [Ids -> Seq(Line)]
          /\ \A i \in Ids : i # id => records'[i] = records[i]
      BY <2>1, <2>3, <2>6 DEF RecordsInv
    <3>2. Range(records'[id]) = Range(records[id]) \cup {line}
      BY <2>1, <2>3, <3>1, RangeOfAppended
    <3>3. ASSUME NEW i \in Ids
          PROVE  /\ i \notin glued' => records'[i] = outbox'[i]
                 /\ Range(records'[i]) \subseteq Range(outbox'[i])
      BY <2>3, <2>4, <2>6, <3>1, <3>2 DEF RecordsInv
    <3>. QED BY <3>1, <3>3 DEF RecordsInv
  <2>. QED BY <2>2, <2>5, <2>6
<1>3. ASSUME NEW t \in Threads, Counts(t) \/ AppendFails(t) \/ LosesPut(t) PROVE RecordsInv'
  <2>1. CASE Counts(t)
    BY <1>1, <2>1 DEF Counts, vars, past
  <2>2. CASE AppendFails(t)
    <3>1. UNCHANGED <<outbox, records>>
      BY <2>2 DEF AppendFails, ExecuteFails
    <3>2. UNCHANGED glued
      BY <2>2 DEF AppendFails, Loses, past
    <3>. QED BY <1>1, <3>1, <3>2
  <2>3. CASE LosesPut(t)
    BY <1>1, <2>3 DEF LosesPut, PutFails, Loses, sink
  <2>. QED BY <1>3, <2>1, <2>2, <2>3
<1>4. ASSUME NEW t \in Threads, Start(t) \/ Others(t), UNCHANGED <<sink, past>> PROVE RecordsInv'
  <2>1. UNCHANGED outbox
    BY <1>4, StartIsOwn DEF Others, PutAccepted, PutClassified, Skip, PutRouted
  <2>. QED BY <1>1, <1>4, <2>1 DEF sink, past
<1>5. ASSUME NEW p, DiesWriting(p) PROVE RecordsInv'
  BY <1>1, <1>5 DEF DiesWriting, Crash, Loses
<1>6. CASE UNCHANGED all
  BY <1>1, <1>6 DEF all, vars, sink, past
<1>. QED BY <1>2, <1>3, <1>4, <1>5, <1>6, Zenon DEF SinkNext

(* "Every automatic action is logged [...] both in the item's audit trail  *)
(* and in the outbox record" (README.md:166-167): in one process, between  *)
(* calls, the feed ActionsFromItems rebuilds from the trail is what        *)
(* ReadOutbox reads, line for line and in its order, of every item none of *)
(* whose Puts was lost and none of whose lines was glued to a torn piece.  *)
(* After the former the outbox has all the feed has, after the latter the  *)
(* feed all that can be read.                                              *)
THEOREM FeedsAreTheOutbox == OneService => (SinkSpec => []FeedIsOutbox)
<1>. SUFFICES ASSUME OneService PROVE SinkSpec => []FeedIsOutbox
  OBVIOUS
<1>1. ASSUME LockInv, SinkInv, RecordsInv PROVE FeedIsOutbox
  <2>. SUFFICES ASSUME \A t \in Threads : call[t].pc = "idle", NEW id \in Ids
                PROVE  /\ id \notin spoiled => FeedOf(id) = outbox[id]
                       /\ Range(FeedOf(id)) \subseteq Range(outbox[id])
    BY <1>1, Zenon DEF FeedIsOutbox, RecordsInv
  <2>1. id \notin spoiled => FeedOf(id) = outbox[id]
    <3>. SUFFICES ASSUME id \notin spoiled PROVE FeedOf(id) = outbox[id]
      OBVIOUS
    <3>1. Sent(id) = Recorded(store[id])
      BY <1>1 DEF SinkInv, Accounted, Rests, Busy
    <3>2. Recorded(store[id]).feed = FeedOf(id)
      BY DEF Recorded, FeedOf
    <3>. QED BY <3>1, <3>2 DEF Sent
  <2>2. CASE store[id] = Nil
    BY <2>1, <2>2 DEF FeedOf, Range
  <2>3. CASE store[id] # Nil
    <3>1. store[id].events \in Seq(Event) /\ Backed(store[id], outbox[id])
      BY <1>1, <2>3, StoredTyped DEF LockInv, IInv, NothingClaimedUndone, Stored
    <3>2. FeedOf(id) \in Seq(DoneLines(store[id].events))
      BY <2>3, <3>1, FeedIsDone DEF FeedOf
    <3>3. Range(FeedOf(id)) \subseteq DoneLines(store[id].events)
      BY <3>2, ElementsOfSeq
    <3>. QED BY <2>1, <3>1, <3>3 DEF Backed
  <2>. QED BY <2>2, <2>3
<1>2. SinkInit => RecordsInv
  <2>. SUFFICES ASSUME SinkInit PROVE RecordsInv
    OBVIOUS
  <2>1. records = [id \in Ids |-> <<>>] /\ outbox = [id \in Ids |-> <<>>]
    BY DEF SinkInit, Init
  <2>. QED BY <2>1 DEF RecordsInv
<1>3. LockInv /\ RecordsInv /\ [SinkNext]_all => RecordsInv'
  BY RecordsNext DEF LockInv
<1>. QED BY <1>1, <1>2, <1>3, SinkInductive, PTL DEF SinkSpec, all

-----------------------------------------------------------------------------
(* The calls of one process are atomic.  The copy a call holds, written    *)
(* now, is one step of the ledger from what is stored: nobody else has     *)
(* written since the copy was taken.                                       *)

Done(old) == IF old = Nil THEN {} ELSE old.executed

Fresh(item, old) ==
  old = Nil /\ item.class = Nil /\ item.executed = {} /\ item.status = "received"

FromModel(item, old) ==
  item.class \in Verdicts /\ item.executed = Done(old) /\ item.status = "classified"

FromLabel(item, old) ==
  /\ old # Nil /\ old.class # Nil
  /\ item.class = old.class \/ item.class \in Corrections(old.class)
  /\ Done(old) \subseteq item.executed /\ item.executed \subseteq Done(old) \cup Orders(item.class)
  /\ item.status \in Settled

(* A call's copy, one step ahead of what is stored.                        *)
Foreseen(c, old) == /\ c.pc = "accepting" => Fresh(c.item, old)
                    /\ c.pc = "classified" => FromModel(c.item, old)
                    /\ c.pc = "acting" => FromLabel(c.item, old)

AllForeseen == \A t \in Threads : Foreseen(call[t], store[call[t].id])

(* What a copy says of its item, kept apart from the rest of it.           *)
LEMMA JudgedByModel ==
  ASSUME NEW item \in Item, NEW a \in Answers, NEW failed \in BOOLEAN
  PROVE  LET it == ClassifyInto(item, a, failed)
         IN it.class \in Verdicts /\ it.executed = item.executed /\ it.status = "classified"
<1>. DEFINE c == Classified(a, failed)
            it == ClassifyInto(item, a, failed)
<1>1. c \in Verdicts
  BY DEF Verdicts
<1>2. a \in ModelOutput
  BY ServiceAssumption
<1>3. it.executed = item.executed
  BY <1>2, ClassifyIntoOK DEF SameDone
<1>. HIDE DEF c
<1>4. it.class = c /\ it.status = "classified"
  BY DEF ClassifyInto, Item, c
<1>. QED BY <1>1, <1>3, <1>4

LEMMA RoutedFromLabel ==
  ASSUME NEW item \in Item, item.class \in Classification
  PROVE  /\ Routed(item).class = item.class /\ Routed(item).executed = item.executed
         /\ Routed(item).status \in Settled
  BY RoutedOK, RoutedSettles DEF SameDone

LEMMA ReviewCorrects ==
  ASSUME NEW item \in Item, item.class \in Classification,
         NEW category, NEW priority,
         (category = "" /\ priority = "") \/ (\E l \in Labels : category = l[1] /\ priority = l[2]),
         (category # "" \/ priority # "") => Valid(Corrected(item.class, category, priority))
  PROVE  Reviewed(item, category, priority).class \in Corrections(item.class)
<1>. DEFINE c == Corrected(item.class, category, priority)
<1>1. Reviewed(item, category, priority).class = c
  BY DEF Reviewed, Item
<1>2. CASE category = "" /\ priority = ""
  BY <1>1, <1>2 DEF Corrections
<1>3. CASE category # "" \/ priority # ""
  <2>1. PICK l \in Labels : category = l[1] /\ priority = l[2]
    BY <1>3
  <2>2. Valid(c) /\ c = Corrected(item.class, l[1], l[2])
    BY <1>3, <2>1
  <2>. HIDE DEF c
  <2>. QED BY <1>1, <2>2 DEF Corrections
<1>. QED BY <1>2, <1>3

(* A call begins with a copy that is one step ahead of the store.          *)
LEMMA StartForeseen ==
  ASSUME IInv, AllForeseen, NEW t \in Threads, Start(t)
  PROVE  AllForeseen'
<1>1. ASSUME NEW c, call' = [call EXCEPT ![t] = c], UNCHANGED store, Foreseen(c, store[c.id])
      PROVE  AllForeseen'
  <2>1. \A u \in Threads : call'[u] = IF u = t THEN c ELSE call[u]
    BY <1>1 DEF IInv, TypeOK
  <2>2. \A u \in Threads : Foreseen(call'[u], store[call'[u].id])
    BY <1>1, <2>1 DEF AllForeseen
  <2>. QED BY <1>1, <2>2 DEF AllForeseen
<1>2. ASSUME NEW r \in {"none", "ok", "duplicate", "error"}, Refuse(t, r)
      PROVE  AllForeseen'
  <2>1. Foreseen(Idle(r), store[Idle(r).id])
    BY IdleOK DEF Foreseen
  <2>. QED BY <1>1, <1>2, <2>1, Zenon DEF Refuse
<1>3. ASSUME NEW op, NEW id \in Ids, NEW pc, NEW item, Begin(t, op, id, pc, item),
             \/ pc = "accepting" /\ Fresh(item, store[id])
             \/ pc = "classified" /\ FromModel(item, store[id])
             \/ pc = "acting" /\ FromLabel(item, store[id])
      PROVE  AllForeseen'
  <2>. DEFINE c == [pc |-> pc, op |-> op, id |-> id, item |-> item,
                    next |-> 1, failed |-> FALSE, result |-> "none"]
  <2>1. call' = [call EXCEPT ![t] = c] /\ UNCHANGED store
    BY <1>3 DEF Begin
  <2>2. c.pc = pc /\ c.id = id /\ c.item = item
    OBVIOUS
  <2>. HIDE DEF c
  <2>3. Foreseen(c, store[c.id])
    BY <1>3, <2>2 DEF Foreseen
  <2>. QED BY <1>1, <2>1, <2>3, Zenon
<1>4. CASE GetFails(t)
  BY <1>2, <1>4, Zenon DEF GetFails
<1>5. ASSUME NEW id \in Ids, Accept(t, id)
      PROVE  AllForeseen'
  <2>1. ASSUME store[id] = Nil
        PROVE  Fresh(NewItem, store[id])
    BY <2>1 DEF Fresh, NewItem
  <2>. QED BY <1>2, <1>3, <1>5, <2>1, Zenon DEF Accept
<1>6. ASSUME NEW id \in Ids, ProcessIgnored(t, id)
      PROVE  AllForeseen'
  BY <1>2, <1>6, Zenon DEF ProcessIgnored
<1>7. ASSUME NEW id \in Ids, NEW a \in Answers, NEW failed \in BOOLEAN, Process(t, id, a, failed)
      PROVE  AllForeseen'
  <2>. DEFINE item == IF store[id] = Nil THEN NewItem ELSE store[id]
  <2>1. item \in Item /\ item.executed = Done(store[id])
    BY StoredTyped, NewItemTyped DEF Done, NewItem
  <2>2. Begin(t, "process", id, "classified", ClassifyInto(item, a, failed))
    BY <1>7, Zenon DEF Process
  <2>. HIDE DEF item
  <2>3. FromModel(ClassifyInto(item, a, failed), store[id])
    BY <2>1, JudgedByModel DEF FromModel
  <2>. QED BY <1>3, <2>2, <2>3, Zenon
<1>8. ASSUME NEW id \in Ids, NEW a \in Answers, NEW failed \in BOOLEAN, Reclassify(t, id, a, failed)
      PROVE  AllForeseen'
  <2>1. ASSUME store[id] # Nil
        PROVE  FromModel(ClassifyInto(store[id], a, failed), store[id])
    <3>1. store[id] \in Item /\ store[id].executed = Done(store[id])
      BY <2>1, StoredTyped DEF Done
    <3>. QED BY <3>1, JudgedByModel DEF FromModel
  <2>. QED BY <1>2, <1>3, <1>8, <2>1, Zenon DEF Reclassify
<1>9. ASSUME NEW id \in Ids, HasClass(id)
      PROVE  store[id] # Nil /\ store[id] \in Item /\ store[id].class # Nil
             /\ store[id].class \in Classification /\ store[id].executed = Done(store[id])
  BY <1>9, StoredTyped DEF HasClass, Done
<1>10. ASSUME NEW id \in Ids, NEW item \in Item, item.class \in Classification, HasClass(id),
              item.class = store[id].class \/ item.class \in Corrections(store[id].class),
              item.executed = Done(store[id])
       PROVE  FromLabel(Routed(item), store[id])
  <2>1. Routed(item).class = item.class /\ Routed(item).executed = Done(store[id])
        /\ Routed(item).status \in Settled
    BY <1>10, RoutedFromLabel
  <2>. QED BY <1>9, <1>10, <2>1 DEF FromLabel
<1>11. ASSUME NEW id \in Ids, RouteItem(t, id)
       PROVE  AllForeseen'
  <2>1. ASSUME HasClass(id)
        PROVE  FromLabel(Routed(store[id]), store[id])
    BY <1>9, <1>10, <2>1
  <2>. QED BY <1>2, <1>3, <1>11, <2>1, Zenon DEF RouteItem
<1>12. ASSUME NEW id \in Ids, NEW category, NEW priority, ReviewItem(t, id, category, priority),
              (category = "" /\ priority = "")
                \/ (\E l \in Labels : category = l[1] /\ priority = l[2])
       PROVE  AllForeseen'
  <2>. DEFINE it == Reviewed(store[id], category, priority)
  <2>1. ASSUME CanReview(id, category, priority)
        PROVE  FromLabel(Routed(it), store[id])
    <3>1. HasClass(id) /\ store[id] \in Item /\ store[id].class \in Classification
          /\ store[id].executed = Done(store[id])
      BY <1>9, <2>1, Zenon DEF CanReview
    <3>2. (category # "" \/ priority # "") => Valid(Corrected(store[id].class, category, priority))
      BY <2>1, Zenon DEF CanReview
    <3>3. it \in Item /\ it.class \in Classification /\ it.executed = Done(store[id])
      BY <3>1, <3>2, ReviewedOK DEF SameDone
    <3>4. it.class \in Corrections(store[id].class)
      BY <1>12, <3>1, <3>2, ReviewCorrects
    <3>. HIDE DEF it
    <3>. QED BY <1>10, <3>1, <3>3, <3>4
  <2>. QED BY <1>2, <1>3, <1>12, <2>1, Zenon DEF ReviewItem
<1>13. ASSUME NEW id \in Ids, NEW l \in Labels, Override(t, id, l[1], l[2])
       PROVE  AllForeseen'
  BY <1>2, <1>12, <1>13, Zenon DEF Override
<1>14. ASSUME NEW id \in Ids, Approve(t, id)
       PROVE  AllForeseen'
  BY <1>12, <1>14, Zenon DEF Approve
<1>. QED BY <1>4, <1>5, <1>6, <1>7, <1>8, <1>11, <1>13, <1>14, Zenon DEF Start

(* A key of the loop is one the decision asks for.                         *)
LEMMA KeyIsOrdered ==
  ASSUME IInv, NEW t \in Threads, Acting(t)
  PROVE  KeyOf(call[t].item, call[t].next) \in Orders(call[t].item.class)
<1>. DEFINE c == call[t]
            d == Route(c.item.class)
<1>1. c.item.decision = d /\ c.item.class \in Classification /\ c.next >= 1 /\ c.next \in Nat
      /\ c.next <= Len(c.item.decision.actions)
  BY InLoop DEF CallOK, Call, Acting
<1>2. d.actions \in Seq(Action)
  BY <1>1, RouteTyped DEF Decision
<1>3. c.next \in DOMAIN d.actions
  BY <1>1, <1>2
<1>4. d.actions[c.next] \in Range(d.actions)
  BY <1>3, Zenon DEF Range
<1>5. KeyOf(c.item, c.next) = [rule |-> d.rule, type |-> d.actions[c.next].type,
                               target |-> d.actions[c.next].target]
  BY <1>1 DEF KeyOf
<1>. QED BY <1>4, <1>5, Zenon DEF Orders

(* A turn of the loop keeps the label and does what the decision asks for. *)
LEMMA AdvanceForeseen ==
  ASSUME IInv, AllForeseen, NEW t \in Threads, Acting(t), NEW item, NEW failed,
         item.class = call[t].item.class, item.status = call[t].item.status,
         \/ item.executed = call[t].item.executed
         \/ item.executed = call[t].item.executed \cup {KeyOf(call[t].item, call[t].next)},
         Advance(t, item, failed), UNCHANGED store
  PROVE  AllForeseen'
<1>. DEFINE c == Advanced(call[t], item, failed)
<1>1. call[t] \in Call /\ call[t].pc = "acting" /\ FromLabel(call[t].item, store[call[t].id])
  BY InLoop DEF CallOK, AllForeseen, Foreseen
<1>2. c.pc = "acting" /\ c.id = call[t].id /\ c.item = item
  BY <1>1 DEF Advanced, Call
<1>3. call' = [call EXCEPT ![t] = c]
  BY DEF Advance
<1>. HIDE DEF c
<1>4. item.executed \subseteq call[t].item.executed \cup Orders(item.class)
      /\ call[t].item.executed \subseteq item.executed
  BY KeyIsOrdered
<1>5. FromLabel(item, store[call[t].id])
  BY <1>1, <1>4 DEF FromLabel
<1>6. Foreseen(c, store[c.id])
  BY <1>2, <1>5 DEF Foreseen
<1>7. \A u \in Threads : call'[u] = IF u = t THEN c ELSE call[u]
  BY <1>3 DEF IInv, TypeOK
<1>8. \A u \in Threads : Foreseen(call'[u], store[call'[u].id])
  BY <1>6, <1>7 DEF AllForeseen
<1>. QED BY <1>8 DEF AllForeseen

(* Every later step of a call keeps its copy one step ahead of the store.  *)
LEMMA StepForeseen ==
  ASSUME LockInv, AllForeseen, NEW t \in Threads, Step(t)
  PROVE  AllForeseen'
<1>0. IInv
  BY DEF LockInv
<1>1. ASSUME NEW c, call' = [call EXCEPT ![t] = c], Busy(t),
             Foreseen(c, store'[c.id])
      PROVE  AllForeseen'
  <2>1. \A u \in Threads : call'[u] = IF u = t THEN c ELSE call[u]
    BY <1>0, <1>1 DEF IInv, TypeOK
  <2>2. \A u \in Threads : u # t => call'[u].pc = "idle"
    BY <1>1, <2>1 DEF LockInv, OneAtATime, Busy
  <2>3. \A u \in Threads : Foreseen(call'[u], store'[call'[u].id])
    BY <1>1, <2>1, <2>2 DEF Foreseen
  <2>. QED BY <2>3 DEF AllForeseen
<1>2. ASSUME NEW r \in {"none", "ok", "duplicate", "error"}, Busy(t), Return(t, r),
             UNCHANGED store \/ Written(t)
      PROVE  AllForeseen'
  <2>1. Foreseen(Idle(r), store'[Idle(r).id])
    BY IdleOK DEF Foreseen
  <2>. QED BY <1>1, <1>2, <2>1, Zenon DEF Return
<1>3. CASE PutFails(t)
  BY <1>2, <1>3 DEF PutFails, LoopDone, Busy
<1>4. CASE PutAccepted(t)
  BY <1>2, <1>4 DEF PutAccepted, Busy
<1>5. CASE PutRouted(t)
  BY <1>2, <1>5 DEF PutRouted, LoopDone, Busy
<1>6. CASE PutClassified(t)
  <2>. DEFINE item == call[t].item
              id == call[t].id
              c == [call[t] EXCEPT !.pc = "acting", !.item = Routed(item)]
  <2>1. Busy(t) /\ Written(t) /\ call' = [call EXCEPT ![t] = c]
    BY <1>6 DEF PutClassified, Busy
  <2>2. call[t] \in Call /\ item \in Item /\ item.class \in Classification /\ id \in Ids /\ item # Nil
    BY <1>0, <1>6, <2>1, CopyTyped DEF PutClassified, IInv, CallOK
  <2>3. c.pc = "acting" /\ c.id = id /\ c.item = Routed(item)
    BY <2>2 DEF Call
  <2>4. store'[id] = item
    BY <1>0, <2>1, <2>2 DEF Written, IInv, TypeOK
  <2>. HIDE DEF c, item, id
  <2>5. item.class # Nil
    BY <2>2, NilDistinct
  <2>6. Routed(item).class = item.class /\ Routed(item).executed = item.executed
        /\ Routed(item).status \in Settled
    BY <2>2, RoutedFromLabel
  <2>7. FromLabel(Routed(item), item)
    BY <2>2, <2>5, <2>6 DEF FromLabel, Done
  <2>8. Foreseen(c, store'[c.id])
    BY <2>4, <2>3, <2>7 DEF Foreseen
  <2>. QED BY <1>1, <2>1, <2>8, Zenon
<1>7. ASSUME Acting(t), NEW type \in EventTypes, NEW failed, UNCHANGED store,
             Advance(t, Logged(call[t].item, Entry(type, Nil, KeyOf(call[t].item, call[t].next))), failed)
      PROVE  AllForeseen'
  <2>. DEFINE e == Entry(type, Nil, KeyOf(call[t].item, call[t].next))
  <2>1. e \in Event /\ call[t].item \in Item
    BY <1>0, <1>7, InLoop, EntryTyped
  <2>. HIDE DEF e
  <2>2. LET item == Logged(call[t].item, e)
        IN item.class = call[t].item.class /\ item.status = call[t].item.status
           /\ item.executed = call[t].item.executed
    BY <2>1, LoggedTyped
  <2>. QED BY <1>0, <1>7, <2>2, AdvanceForeseen DEF e
<1>8. CASE Skip(t)
  BY <1>7, <1>8, Zenon DEF Skip, EventTypes
<1>9. CASE ExecuteFails(t)
  BY <1>7, <1>9, Zenon DEF ExecuteFails, EventTypes
<1>10. CASE Execute(t)
  <2>. DEFINE key == KeyOf(call[t].item, call[t].next)
              item == Executed(call[t].item, key)
  <2>1. Acting(t) /\ Advance(t, item, call[t].failed) /\ UNCHANGED store
    BY <1>10, Zenon DEF Execute
  <2>2. /\ call[t].item \in Item /\ key \in Key /\ call[t].item.class \in Classification
        /\ call[t].id \in Ids /\ Backed(call[t].item, outbox[call[t].id])
        /\ outbox[call[t].id] \in Seq(Line)
    BY <1>0, <2>1, InLoop DEF IInv, TypeOK
  <2>3. item.class = call[t].item.class /\ item.status = call[t].item.status
    BY <2>2, ExecutedOK, Zenon
  <2>4. item.executed = call[t].item.executed \cup {key}
    <3>1. Logged(call[t].item, Entry("action", call[t].item.class, key)) \in Item
          /\ Logged(call[t].item, Entry("action", call[t].item.class, key)).executed
               = call[t].item.executed
      BY <2>2, EntryTyped, LoggedTyped DEF EventTypes
    <3>. HIDE DEF key
    <3>. QED BY <3>1 DEF Executed, Item
  <2>. HIDE DEF item
  <2>. QED BY <1>0, <2>1, <2>3, <2>4, AdvanceForeseen
<1>. QED BY <1>3, <1>4, <1>5, <1>6, <1>8, <1>9, <1>10, Zenon DEF Step

(* In every reachable state a call's copy is one step ahead of the store.  *)
LEMMA ForeseenNext == OneService /\ LockInv /\ AllForeseen /\ [Next]_vars => AllForeseen'
<1>. SUFFICES ASSUME OneService, LockInv, AllForeseen, [Next]_vars PROVE AllForeseen'
  OBVIOUS
<1>0. IInv
  BY DEF LockInv
<1>1. ASSUME NEW t \in Threads, Start(t) \/ Step(t)
      PROVE  AllForeseen'
  BY <1>0, <1>1, StartForeseen, StepForeseen
<1>2. ASSUME NEW p, Crash(p)
      PROVE  AllForeseen'
  <2>1. \A t \in Threads : call'[t].pc = "idle" \/ call'[t] = call[t]
    BY <1>2, IdleOK DEF Crash
  <2>2. UNCHANGED store
    BY <1>2 DEF Crash
  <2>. QED BY <2>1, <2>2 DEF AllForeseen, Foreseen
<1>3. ASSUME UNCHANGED vars
      PROVE  AllForeseen'
  BY <1>3 DEF vars, AllForeseen
<1>. QED BY <1>1, <1>2, <1>3, Zenon DEF Next

LEMMA ForeseenInductive == OneService => (Spec => [](LockInv /\ AllForeseen))
<1>. SUFFICES ASSUME OneService PROVE Spec => [](LockInv /\ AllForeseen)
  OBVIOUS
<1>1. Init => AllForeseen
  <2>. SUFFICES ASSUME Init PROVE AllForeseen
    OBVIOUS
  <2>1. \A t \in Threads : call[t].pc = "idle"
    BY IdleOK DEF Init
  <2>. QED BY <2>1 DEF AllForeseen, Foreseen
<1>2. LockInv /\ AllForeseen /\ [Next]_vars => AllForeseen'
  BY ForeseenNext
<1>. QED BY <1>1, <1>2, LockInductive, PTL DEF Spec

(* What a call's write adds to the ledger.                                 *)
LEMMA WriteIsLedger ==
  ASSUME LockInv, AllForeseen, NEW t \in Threads, Busy(t), Written(t)
  PROVE  Contract!Next \/ UNCHANGED Book
<1>. DEFINE id == call[t].id
            item == call[t].item
            label == item.class
            decision == IF item.status \in Settled THEN item.decision ELSE Nil
            entry == [entered |-> TRUE, label |-> label, decision |-> decision,
                      taken |-> item.executed]
<1>1. id \in Ids /\ item # Nil /\ item \in Item
  BY CopyTyped DEF LockInv
<1>2. Book' = [Book EXCEPT ![id] = entry]
  <2>1. store \in [Ids -> Item \cup {Nil}]
    BY DEF LockInv, IInv, TypeOK
  <2>2. \A i \in Ids : store'[i] = IF i = id THEN item ELSE store[i]
    BY <2>1 DEF Written
  <2>3. Page(item) = entry
    BY <1>1, Zenon DEF Page
  <2>. HIDE DEF id, item, entry
  <2>4. \A i \in Ids : Page(store'[i]) = IF i = id THEN entry ELSE Page(store[i])
    BY <2>2, <2>3
  <2>5. Book' = [i \in Ids |-> Page(store'[i])] /\ Book = [i \in Ids |-> Page(store[i])]
    BY DEF Book, Page
  <2>. QED BY <2>4, <2>5
<1>3. Book[id] = Page(store[id])
  BY <1>1 DEF Book
<1>4. /\ store[id] = Nil => ~Book[id].entered
      /\ Book[id].taken = Done(store[id])
      /\ store[id] # Nil => Book[id].label = store[id].class
  <2>1. CASE store[id] = Nil
    <3>1. ~Page(store[id]).entered /\ Page(store[id]).taken = {}
      BY <2>1 DEF Page
    <3>. QED BY <1>3, <2>1, <3>1 DEF Done
  <2>2. CASE store[id] # Nil
    <3>1. Page(store[id]).taken = store[id].executed
          /\ Page(store[id]).label = store[id].class
      BY <2>2 DEF Page
    <3>. QED BY <1>3, <2>2, <3>1 DEF Done
  <2>. QED BY <2>1, <2>2
<1>5. Foreseen(call[t], store[id]) /\ call[t].pc \in {"accepting", "classified", "acting"}
      /\ (call[t].pc = "acting" => item.decision = Route(label))
  BY CopyTyped DEF AllForeseen, Busy, LockInv, IInv, CallOK, Call
<1>. HIDE DEF id, item, entry
<1>6. CASE Book'[id] = Book[id]
  <2>1. Book'[id] = entry
    BY <1>1, <1>2 DEF Book
  <2>2. Book' = [Book EXCEPT ![id] = Book[id]]
    BY <1>2, <1>6, <2>1
  <2>. QED BY <2>2 DEF Book
<1>. SUFFICES ASSUME Book'[id] # Book[id] PROVE Contract!Next
  BY <1>6
<1>7. CASE call[t].pc = "accepting"
  <2>1. store[id] = Nil /\ label = Nil /\ decision = Nil /\ item.executed = {}
    BY <1>5, <1>7 DEF Foreseen, Fresh, id, item, Settled
  <2>2. Contract!Enter(id)
    BY <1>2, <1>4, <2>1 DEF Contract!Enter, Contract!Writes, entry
  <2>. QED BY <1>1, <2>2 DEF Contract!Next
<1>8. CASE call[t].pc = "classified"
  <2>1. label \in Verdicts /\ decision = Nil /\ item.executed = Done(store[id])
    BY <1>5, <1>8 DEF Foreseen, FromModel, id, item, Settled
  <2>2. Contract!Writes(id, label, Nil, Book[id].taken)
    BY <1>2, <1>4, <2>1 DEF Contract!Writes, entry
  <2>3. Contract!Judge(id)
    BY <2>1, <2>2 DEF Contract!Judge
  <2>. QED BY <1>1, <2>3 DEF Contract!Next
<1>9. CASE call[t].pc = "acting"
  <2>1. /\ FromLabel(item, store[id]) /\ decision = Route(label)
    BY <1>5, <1>9 DEF Foreseen, FromLabel, id, item
  <2>2. /\ Book[id].label = store[id].class /\ Book[id].label # Nil
        /\ label = Book[id].label \/ label \in Corrections(Book[id].label)
    BY <1>4, <2>1 DEF FromLabel
  <2>3. PICK done \in SUBSET Orders(label) : item.executed = Book[id].taken \cup done
    <3>1. Done(store[id]) \subseteq item.executed /\ item.executed \subseteq Done(store[id]) \cup Orders(label)
      BY <2>1 DEF FromLabel
    <3>2. item.executed = Done(store[id]) \cup (item.executed \cap Orders(label))
      BY <3>1
    <3>. QED BY <1>4, <3>2
  <2>4. Contract!Writes(id, label, Route(label), Book[id].taken \cup done)
    BY <1>2, <2>1, <2>3 DEF Contract!Writes, entry
  <2>5. Contract!Settles(id, label)
    BY <2>4 DEF Contract!Settles
  <2>6. Contract!Route(id) \/ Contract!Review(id)
    BY <2>2, <2>5 DEF Contract!Route, Contract!Review
  <2>. QED BY <1>1, <2>6 DEF Contract!Next
<1>. QED BY <1>5, <1>7, <1>8, <1>9

(* "serializes read-modify-write of items within one process"              *)
(* (pipeline.go:35): with one process, any number of callers and tickets,  *)
(* and any faults, the service is the ledger, and so by                    *)
(* SinkImplementsService is the one with the local outbox.  An action that *)
(* was taken and whose item was then not written is in the outbox and not  *)
(* in the ledger.                                                          *)
THEOREM CallsAreOneAfterAnother == OneService => (Spec => CallsAreAtomic)
<1>. SUFFICES ASSUME OneService PROVE Spec => CallsAreAtomic
  OBVIOUS
<1>1. Init => Contract!Init
  <2>. SUFFICES ASSUME Init PROVE Contract!Init
    OBVIOUS
  <2>1. \A id \in Ids : Page(store[id]) = Contract!Blank
    BY DEF Init, Page, Contract!Blank
  <2>. QED BY <2>1, Zenon DEF Contract!Init, Book
<1>2. LockInv /\ AllForeseen /\ [Next]_vars => [Contract!Next]_Book
  <2>. SUFFICES ASSUME LockInv, AllForeseen, [Next]_vars PROVE [Contract!Next]_Book
    OBVIOUS
  <2>1. UNCHANGED store => UNCHANGED Book
    BY DEF Book, Page
  <2>. QED BY <2>1, WhatIsWritten, WriteIsLedger, Zenon
<1>. QED BY <1>1, <1>2, ForeseenInductive, PTL DEF Spec, CallsAreAtomic, Contract!Spec
=============================================================================

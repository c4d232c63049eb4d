--------------------------- MODULE ServiceProofs ---------------------------
(***************************************************************************)
(* The safety of the pipeline service for any number of callers,           *)
(* processes, tickets and calls, under any faults and any valid            *)
(* configuration.                                                          *)
(*                                                                         *)
(* The four invariants are proved together as IInv, which adds what holds  *)
(* of the copy of the item each call has in hand: a store write publishes  *)
(* that copy, so what is true of the store must be true of every copy      *)
(* first.  The lemmas follow the code: what each operation does to a copy, *)
(* what a change of one call or one store write needs, one lemma per kind  *)
(* of step, then the theorems.                                             *)
(***************************************************************************)
EXTENDS Service, RoutingProofs

(* Nil is none of the values a field may hold beside it.                   *)
LEMMA NilDistinct ==
  /\ Nil \notin Item /\ Nil \notin Classification /\ Nil \notin Decision
  /\ Nil \notin Review /\ Nil \notin Key /\ Nil \notin Ids /\ Nil \notin Ops
  BY NilAssumption, Zenon

(* A well-formed audit entry is an event.                                  *)
LEMMA EntryTyped ==
  ASSUME NEW type \in EventTypes, NEW class \in Classification \cup {Nil},
         NEW key \in Key \cup {Nil}
  PROVE  Entry(type, class, key) \in Event
  BY DEF Entry, Event

(* An entry claims an executed action only if it is of type "action" and   *)
(* carries a classification.                                               *)
LEMMA NotDone ==
  ASSUME NEW type, NEW class, NEW key, type # "action" \/ class = Nil
  PROVE  ~IsDone(Entry(type, class, key))
  BY DEF IsDone, Entry

(* Appending an event to a trail adds the line it claims, if it claims     *)
(* one.                                                                    *)
LEMMA DoneAppend ==
  ASSUME NEW s \in Seq(Event), NEW e \in Event
  PROVE  DoneLines(Append(s, e)) =
           DoneLines(s) \cup (IF IsDone(e) THEN {LineOf(e)} ELSE {})
<1>. DEFINE a == Append(s, e)
<1>1. /\ Len(s) \in Nat /\ DOMAIN s = 1..Len(s) /\ DOMAIN a = 1..(Len(s) + 1)
      /\ a[Len(s) + 1] = e /\ \A n \in 1..Len(s) : a[n] = s[n]
  OBVIOUS
<1>. HIDE DEF a
<1>2. \A n \in DOMAIN a : n \in DOMAIN s \/ n = Len(s) + 1
  BY <1>1
<1>3. \A n \in DOMAIN s : n \in DOMAIN a
  BY <1>1
<1>4. Len(s) + 1 \in DOMAIN a
  BY <1>1
<1>5. DoneLines(a) \subseteq DoneLines(s) \cup (IF IsDone(e) THEN {LineOf(e)} ELSE {})
  BY <1>1, <1>2, Zenon DEF DoneLines
<1>6. DoneLines(s) \subseteq DoneLines(a)
  BY <1>1, <1>3, Zenon DEF DoneLines
<1>7. IsDone(e) => LineOf(e) \in DoneLines(a)
  BY <1>1, <1>4, Zenon DEF DoneLines
<1>. QED BY <1>5, <1>6, <1>7 DEF a

(* What the loop of ActionsFromItems has collected after k events.         *)
FeedUpTo(f, s, k) ==
  f = [n \in 0..k |-> IF n = 0 THEN <<>>
                      ELSE IF IsDone(s[n]) THEN Append(f[n - 1], LineOf(s[n]))
                      ELSE f[n - 1]]

(* What one more event adds.                                               *)
FeedStep(feed, e) == IF IsDone(e) THEN Append(feed, LineOf(e)) ELSE feed

(* FeedUpTo, place by place.                                               *)
LEMMA FeedPlaces ==
  ASSUME NEW s, NEW k \in Nat, NEW f, FeedUpTo(f, s, k)
  PROVE  f[0] = <<>> /\ \A n \in 1..k : f[n] = FeedStep(f[n - 1], s[n])
<1>1. 0 \in 0..k /\ \A n \in 1..k : n \in 0..k /\ n # 0
  OBVIOUS
<1>. QED BY <1>1 DEF FeedUpTo, FeedStep

(* The loop's next turn.                                                   *)
LEMMA FeedExtends ==
  ASSUME NEW s, NEW u, NEW k \in Nat, \A n \in 1..k : u[n] = s[n], NEW f, FeedUpTo(f, s, k)
  PROVE  \E g : FeedUpTo(g, u, k + 1) /\ g[k + 1] = FeedStep(f[k], u[k + 1])
<1>. DEFINE g == [n \in 0..(k + 1) |-> IF n = k + 1 THEN FeedStep(f[k], u[k + 1]) ELSE f[n]]
<1>1. f[0] = <<>> /\ \A n \in 1..k : f[n] = FeedStep(f[n - 1], s[n])
  BY FeedPlaces
<1>2. /\ g[k + 1] = FeedStep(f[k], u[k + 1]) /\ g[0] = <<>>
      /\ \A n \in 0..k : g[n] = f[n]
      /\ \A n \in 1..k : g[n] = FeedStep(f[n - 1], u[n])
  BY <1>1
<1>3. \A n \in 0..(k + 1) : g[n] = IF n = 0 THEN <<>> ELSE FeedStep(g[n - 1], u[n])
  <2>. HIDE DEF g
  <2>. SUFFICES ASSUME NEW n \in 0..(k + 1), n # 0
                PROVE  g[n] = FeedStep(g[n - 1], u[n])
    BY <1>2
  <2>1. n - 1 \in 0..k /\ (n \in 1..k \/ n = k + 1)
    OBVIOUS
  <2>. QED BY <1>2, <2>1
<1>4. g = [n \in 0..(k + 1) |-> IF n = 0 THEN <<>> ELSE FeedStep(g[n - 1], u[n])]
  <2>1. g = [n \in 0..(k + 1) |-> g[n]]
    OBVIOUS
  <2>. HIDE DEF g
  <2>. QED BY <1>3, <2>1, Zenon
<1>. HIDE DEF g
<1>5. FeedUpTo(g, u, k + 1)
  BY <1>4, Zenon DEF FeedUpTo, FeedStep
<1>. QED BY <1>2, <1>5

(* So the recursion defines a function for trails of every length.         *)
LEMMA FeedExists ==
  ASSUME NEW s, NEW k \in Nat
  PROVE  \E f : FeedUpTo(f, s, k)
<1>. DEFINE Bad == {m \in Nat : ~\E f : FeedUpTo(f, s, m)}
<1>1. SUFFICES ASSUME Bad # {} PROVE FALSE
  OBVIOUS
<1>2. PICK m \in Bad : \A i \in Bad : m <= i
  <2>1. Bad \subseteq Nat
    OBVIOUS
  <2>. HIDE DEF Bad
  <2>. QED BY <1>1, <2>1, LeastNat
<1>3. CASE m = 0
  <2>. DEFINE f == [n \in 0..0 |-> <<>>]
  <2>1. f = [n \in 0..0 |-> IF n = 0 THEN <<>>
                            ELSE IF IsDone(s[n]) THEN Append(f[n - 1], LineOf(s[n]))
                            ELSE f[n - 1]]
    <3>1. \A n \in 0..0 : n = 0
      OBVIOUS
    <3>. QED BY <3>1
  <2>. HIDE DEF f
  <2>2. FeedUpTo(f, s, m)
    BY <1>3, <2>1, Zenon DEF FeedUpTo
  <2>. QED BY <2>2
<1>4. CASE m # 0
  <2>1. m - 1 \in Nat /\ m - 1 \notin Bad /\ (m - 1) + 1 = m
    BY <1>2, <1>4
  <2>2. PICK f : FeedUpTo(f, s, m - 1)
    BY <2>1
  <2>3. \E g : FeedUpTo(g, s, m)
    BY <2>1, <2>2, FeedExtends
  <2>. QED BY <2>3
<1>. QED BY <1>3, <1>4

(* Trails that agree on their first k events have the same feed so far.    *)
LEMMA FeedUnique ==
  ASSUME NEW s, NEW u, NEW k \in Nat, \A n \in 1..k : u[n] = s[n],
         NEW f, FeedUpTo(f, s, k), NEW g, FeedUpTo(g, u, k)
  PROVE  f[k] = g[k]
<1>. DEFINE Bad == {m \in 0..k : f[m] # g[m]}
<1>1. /\ f[0] = <<>> /\ \A n \in 1..k : f[n] = FeedStep(f[n - 1], s[n])
      /\ g[0] = <<>> /\ \A n \in 1..k : g[n] = FeedStep(g[n - 1], u[n])
  BY FeedPlaces
<1>2. SUFFICES ASSUME Bad # {} PROVE FALSE
  OBVIOUS
<1>3. PICK m \in Bad : \A i \in Bad : m <= i
  <2>1. Bad \subseteq Nat
    OBVIOUS
  <2>. HIDE DEF Bad
  <2>. QED BY <1>2, <2>1, LeastNat
<1>4. m \in 1..k /\ m - 1 \in 0..k /\ m - 1 \notin Bad
  BY <1>1, <1>3
<1>5. f[m - 1] = g[m - 1]
  BY <1>4
<1>6. f[m] = g[m]
  BY <1>1, <1>4, <1>5
<1>. QED BY <1>3, <1>6

(* ActionFeed is what the loop has collected at the end.                   *)
LEMMA FeedIs ==
  ASSUME NEW s, Len(s) \in Nat, NEW f, FeedUpTo(f, s, Len(s))
  PROVE  ActionFeed(s) = f[Len(s)]
<1>. DEFINE g == CHOOSE h : FeedUpTo(h, s, Len(s))
<1>1. FeedUpTo(g, s, Len(s))
  BY FeedExists
<1>2. ActionFeed(s) = g[Len(s)]
  BY Zenon DEF ActionFeed, FeedUpTo
<1>. HIDE DEF g
<1>3. g[Len(s)] = f[Len(s)]
  BY <1>1, FeedUnique
<1>. QED BY <1>2, <1>3

(* Appending an event appends its line to the feed, if it claims one.      *)
LEMMA FeedAppend ==
  ASSUME NEW s \in Seq(Event), NEW e \in Event
  PROVE  ActionFeed(Append(s, e)) = FeedStep(ActionFeed(s), e)
<1>. DEFINE a == Append(s, e)
            k == Len(s)
<1>1. /\ k \in Nat /\ Len(a) = k + 1 /\ a[k + 1] = e /\ \A n \in 1..k : a[n] = s[n]
  OBVIOUS
<1>2. PICK f : FeedUpTo(f, s, k)
  BY <1>1, FeedExists
<1>. HIDE DEF a, k
<1>3. PICK g : FeedUpTo(g, a, k + 1) /\ g[k + 1] = FeedStep(f[k], a[k + 1])
  BY <1>1, <1>2, FeedExtends
<1>4. ActionFeed(a) = g[k + 1]
  BY <1>1, <1>3, FeedIs
<1>5. ActionFeed(s) = f[k]
  BY <1>1, <1>2, FeedIs DEF k
<1>. QED BY <1>1, <1>3, <1>4, <1>5 DEF a

(* The feed of an empty trail is empty.                                    *)
LEMMA FeedEmpty == ActionFeed(<<>>) = <<>>
<1>1. Len(<<>>) = 0
  OBVIOUS
<1>2. PICK f : FeedUpTo(f, <<>>, 0)
  BY FeedExists
<1>3. f[0] = <<>>
  BY <1>2, FeedPlaces
<1>. QED BY <1>1, <1>2, <1>3, FeedIs

(* The feed has the lines the trail claims and no other.                   *)
LEMMA FeedIsDone ==
  ASSUME NEW s \in Seq(Event)
  PROVE  ActionFeed(s) \in Seq(DoneLines(s))
<1>. DEFINE k == Len(s)
            D == DoneLines(s)
<1>1. k \in Nat /\ DOMAIN s = 1..k
  OBVIOUS
<1>2. PICK f : FeedUpTo(f, s, k)
  BY <1>1, FeedExists
<1>3. f[0] = <<>> /\ \A n \in 1..k : f[n] = FeedStep(f[n - 1], s[n])
  BY <1>1, <1>2, FeedPlaces
<1>4. \A n \in 1..k : IsDone(s[n]) => LineOf(s[n]) \in D
  BY <1>1, Zenon DEF DoneLines
<1>. HIDE DEF D
<1>. DEFINE Bad == {m \in 0..k : f[m] \notin Seq(D)}
<1>5. Bad = {}
  <2>. SUFFICES ASSUME Bad # {} PROVE FALSE
    OBVIOUS
  <2>1. PICK m \in Bad : \A i \in Bad : m <= i
    <3>1. Bad \subseteq Nat
      OBVIOUS
    <3>. HIDE DEF Bad
    <3>. QED BY <3>1, LeastNat
  <2>2. <<>> \in Seq(D)
    OBVIOUS
  <2>3. m # 0
    BY <1>3, <2>1, <2>2
  <2>4. m \in 1..k /\ m - 1 \in 0..k /\ m - 1 \notin Bad
    BY <1>1, <2>1, <2>3
  <2>5. f[m - 1] \in Seq(D)
    BY <2>4
  <2>. DEFINE q == f[m - 1]
              l == LineOf(s[m])
  <2>6. f[m] = IF IsDone(s[m]) THEN Append(q, l) ELSE q
    BY <1>3, <2>4 DEF FeedStep
  <2>7. q \in Seq(D) /\ (IsDone(s[m]) => l \in D)
    BY <1>4, <2>4, <2>5
  <2>. HIDE DEF q, l
  <2>8. f[m] \in Seq(D)
    BY <2>6, <2>7
  <2>. QED BY <2>1, <2>8
<1>6. f[k] \in Seq(D)
  BY <1>1, <1>5
<1>7. ActionFeed(s) = f[k]
  BY <1>1, <1>2, FeedIs
<1>. QED BY <1>6, <1>7 DEF D

-----------------------------------------------------------------------------
(* Appending an event that claims nothing leaves the claims as they        *)
(* were, and their order.                                                  *)
LEMMA AppendNotDone ==
  ASSUME NEW s \in Seq(Event), NEW e \in Event, ~IsDone(e)
  PROVE  /\ Append(s, e) \in Seq(Event) /\ DoneLines(Append(s, e)) = DoneLines(s)
         /\ ActionFeed(Append(s, e)) = ActionFeed(s)
<1>1. Append(s, e) \in Seq(Event)
  OBVIOUS
<1>2. DoneLines(Append(s, e)) = DoneLines(s)
  BY DoneAppend
<1>3. ActionFeed(Append(s, e)) = ActionFeed(s)
  BY FeedAppend DEF FeedStep
<1>. QED BY <1>1, <1>2, <1>3

(* Appending keeps the elements of a sequence and adds one.                *)
LEMMA RangeAppend ==
  ASSUME NEW S, NEW s \in Seq(S), NEW e \in S
  PROVE  Range(s) \subseteq Range(Append(s, e)) /\ e \in Range(Append(s, e))
<1>. DEFINE a == Append(s, e)
<1>1. /\ Len(s) \in Nat /\ DOMAIN s = 1..Len(s) /\ DOMAIN a = 1..(Len(s) + 1)
      /\ a[Len(s) + 1] = e /\ \A n \in 1..Len(s) : a[n] = s[n]
  OBVIOUS
<1>. HIDE DEF a
<1>2. (\A n \in DOMAIN s : n \in DOMAIN a) /\ Len(s) + 1 \in DOMAIN a
  BY <1>1
<1>3. Range(s) \subseteq Range(a) /\ e \in Range(a)
  BY <1>1, <1>2, Zenon DEF Range
<1>. QED BY <1>3 DEF a

(* The two copies claim the same actions in the same order.                *)
SameDone(it, item) ==
  /\ DoneLines(it.events) = DoneLines(item.events) /\ it.executed = item.executed
  /\ ActionFeed(it.events) = ActionFeed(item.events)

(* AddEvent changes an item's events and nothing else (store.go:96-99).    *)
LEMMA LoggedTyped ==
  ASSUME NEW item \in Item, NEW e \in Event
  PROVE  /\ Logged(item, e) \in Item
         /\ Logged(item, e).class = item.class /\ Logged(item, e).decision = item.decision
         /\ Logged(item, e).status = item.status /\ Logged(item, e).executed = item.executed
         /\ Logged(item, e).events = Append(item.events, e)
<1>1. item.events \in Seq(Event)
  BY DEF Item
<1>2. Append(item.events, e) \in Seq(Event)
  BY <1>1
<1>. QED BY <1>2 DEF Logged, Item

(* Logging an event that claims no action keeps the claims backed.         *)
LEMMA LoggedBacked ==
  ASSUME NEW item \in Item, NEW e \in Event, ~IsDone(e), NEW lines, Backed(item, lines)
  PROVE  Backed(Logged(item, e), lines) /\ SameDone(Logged(item, e), item)
<1>1. item.events \in Seq(Event)
  BY DEF Item
<1>2. /\ DoneLines(Append(item.events, e)) = DoneLines(item.events)
      /\ ActionFeed(Append(item.events, e)) = ActionFeed(item.events)
  BY <1>1, AppendNotDone, Zenon
<1>. QED BY <1>2, LoggedTyped, Zenon DEF Backed, SameDone

(* The item Accept and Process create is well formed                       *)
(* (pipeline.go:122-135).                                                  *)
LEMMA NewItemTyped == NewItem \in Item /\ Consistent(NewItem)
<1>1. <<Entry("received", Nil, Nil)>> \in Seq(Event)
  BY EntryTyped DEF EventTypes
<1>2. NewItem \in Item
  BY <1>1 DEF NewItem, Item, Status
<1>. QED BY <1>2 DEF NewItem, Consistent, Settled

(* The new item claims nothing, so any outbox backs it.                    *)
LEMMA NewItemBacked ==
  ASSUME NEW lines
  PROVE  Backed(NewItem, lines)
<1>1. NewItem.events = <<Entry("received", Nil, Nil)>> /\ NewItem.executed = {}
  BY DEF NewItem
<1>2. \A n \in DOMAIN NewItem.events : ~IsDone(NewItem.events[n])
  BY <1>1, NotDone
<1>3. DoneLines(NewItem.events) = {}
  BY <1>2, Zenon DEF DoneLines
<1>. QED BY <1>1, <1>3 DEF Backed

-----------------------------------------------------------------------------
(* Whatever the classifier answers, what is recorded is a                  *)
(* classification: an unusable answer is replaced by the fallback          *)
(* (pipeline.go:184-198).                                                  *)
LEMMA ClassifiedTyped ==
  ASSUME NEW answer \in ModelOutput, NEW failed \in BOOLEAN
  PROVE  Classified(answer, failed) \in Classification
<1>1. "other" \in Categories
  BY Zenon, ConfigAssumption DEF ConfigOK
<1>2. 0 \in Confidence
  BY DEF Confidence
<1>3. Fallback \in Classification
  BY <1>1, <1>2 DEF Fallback, Classification
<1>4. Valid(answer) => answer \in Classification
  BY DEF Valid, ModelOutput, Classification
<1>. QED BY <1>3, <1>4 DEF Classified

(* Routing gives an item one of the settled statuses                       *)
(* (pipeline.go:272-279).                                                  *)
LEMMA StatusForTyped ==
  ASSUME NEW c \in Classification
  PROVE  StatusFor(c) \in Settled
  BY DEF StatusFor, Settled

(* classifyInto leaves a consistent, classified item that claims the       *)
(* same actions as before (pipeline.go:184-198).                           *)
LEMMA ClassifyIntoOK ==
  ASSUME NEW item \in Item, NEW answer \in ModelOutput, NEW failed \in BOOLEAN
  PROVE  LET it == ClassifyInto(item, answer, failed)
         IN /\ it \in Item /\ it.class \in Classification /\ Consistent(it)
            /\ SameDone(it, item)
            /\ \A lines : Backed(item, lines) => Backed(it, lines)
<1>. DEFINE c == Classified(answer, failed)
            error == Entry("error", Nil, Nil)
            judged == Entry("classified", c, Nil)
            before == IF ~failed /\ Valid(answer) THEN item.events ELSE Append(item.events, error)
            it == ClassifyInto(item, answer, failed)
<1>1. c \in Classification
  BY ClassifiedTyped
<1>2. error \in Event /\ judged \in Event
  BY <1>1, EntryTyped DEF EventTypes
<1>3. item.events \in Seq(Event)
  BY DEF Item
<1>. HIDE DEF c, error, judged
<1>4. /\ before \in Seq(Event) /\ DoneLines(before) = DoneLines(item.events)
      /\ ActionFeed(before) = ActionFeed(item.events)
  <2>1. ~IsDone(error)
    BY NotDone DEF error
  <2>2. /\ Append(item.events, error) \in Seq(Event)
        /\ DoneLines(Append(item.events, error)) = DoneLines(item.events)
        /\ ActionFeed(Append(item.events, error)) = ActionFeed(item.events)
    BY <1>2, <1>3, <2>1, AppendNotDone, Zenon
  <2>. QED BY <1>3, <2>2, Zenon
<1>5. it = [item EXCEPT !.class = c, !.status = "classified", !.events = Append(before, judged)]
  BY Zenon DEF ClassifyInto, c, error, judged
<1>. HIDE DEF before, it
<1>6. /\ Append(before, judged) \in Seq(Event)
      /\ DoneLines(Append(before, judged)) = DoneLines(item.events)
      /\ ActionFeed(Append(before, judged)) = ActionFeed(item.events)
  <2>1. ~IsDone(judged)
    BY NotDone DEF judged
  <2>. QED BY <1>2, <1>4, <2>1, AppendNotDone, Zenon
<1>8. /\ it \in Item /\ it.class = c /\ it.status = "classified" /\ it.executed = item.executed
      /\ it.events = Append(before, judged)
  BY <1>1, <1>5, <1>6 DEF Item, Status
<1>9. c # Nil
  BY <1>1, NilDistinct
<1>10. Consistent(it)
  BY <1>8, <1>9 DEF Consistent, Settled
<1>11. \A lines : Backed(item, lines) => Backed(it, lines)
  BY <1>6, <1>8, Zenon DEF Backed
<1>12. SameDone(it, item)
  BY <1>6, <1>8, Zenon DEF SameDone
<1>. QED BY <1>1, <1>8, <1>10, <1>11, <1>12 DEF it

(* routeLocked, up to its loop, leaves an item with the decision of its    *)
(* own classification and the same claims (pipeline.go:264-284).           *)
LEMMA RoutedOK ==
  ASSUME NEW item \in Item, item.class \in Classification
  PROVE  /\ Routed(item) \in Item /\ Routed(item).class = item.class
         /\ Routed(item).decision = Route(item.class) /\ Consistent(Routed(item))
         /\ SameDone(Routed(item), item)
         /\ \A lines : Backed(item, lines) => Backed(Routed(item), lines)
<1>. DEFINE e == Entry("routed", item.class, Nil)
<1>1. e \in Event /\ ~IsDone(e)
  BY EntryTyped, NotDone DEF EventTypes
<1>2. item.events \in Seq(Event)
  BY DEF Item
<1>. HIDE DEF e
<1>3. /\ Append(item.events, e) \in Seq(Event)
      /\ DoneLines(Append(item.events, e)) = DoneLines(item.events)
      /\ ActionFeed(Append(item.events, e)) = ActionFeed(item.events)
  BY <1>1, <1>2, AppendNotDone, Zenon
<1>4. Route(item.class) \in Decision /\ StatusFor(item.class) \in Settled /\ item.class # Nil
  BY RouteTyped, StatusForTyped, NilDistinct
<1>5. Routed(item) = [item EXCEPT !.decision = Route(item.class), !.status = StatusFor(item.class),
                                  !.events = Append(item.events, e)]
  BY Zenon DEF Routed, e
<1>6. /\ Routed(item) \in Item /\ Routed(item).class = item.class
      /\ Routed(item).decision = Route(item.class) /\ Routed(item).status = StatusFor(item.class)
      /\ Routed(item).executed = item.executed /\ Routed(item).events = Append(item.events, e)
  BY <1>3, <1>4, <1>5 DEF Item, Status, Settled
<1>7. Consistent(Routed(item))
  BY <1>4, <1>6 DEF Consistent, Settled
<1>8. \A lines : Backed(item, lines) => Backed(Routed(item), lines)
  BY <1>3, <1>6, Zenon DEF Backed
<1>9. SameDone(Routed(item), item)
  BY <1>3, <1>6, Zenon DEF SameDone
<1>. QED BY <1>6, <1>7, <1>8, <1>9

(* A review changes the classification and claims no new action            *)
(* (pipeline.go:331-372).                                                  *)
LEMMA ReviewedOK ==
  ASSUME NEW item \in Item, item.class \in Classification, NEW category, NEW priority,
         (category # "" \/ priority # "") => Valid(Corrected(item.class, category, priority))
  PROVE  LET it == Reviewed(item, category, priority)
         IN /\ it \in Item /\ it.class \in Classification
            /\ SameDone(it, item)
            /\ \A lines : Backed(item, lines) => Backed(it, lines)
<1>. DEFINE it == Reviewed(item, category, priority)
            c == Corrected(item.class, category, priority)
            e == Entry("review", c, Nil)
            overridden == category # "" \/ priority # ""
            rv == [outcome |-> IF overridden THEN "overridden" ELSE "approved",
                   original |-> IF overridden THEN item.class ELSE Nil]
<1>1. c \in Classification
  BY CorrectedTyped
<1>. HIDE DEF c
<1>2. e \in Event /\ ~IsDone(e)
  BY <1>1, EntryTyped, NotDone DEF EventTypes
<1>3. item.events \in Seq(Event)
  BY DEF Item
<1>4. rv \in Review
  BY DEF Review
<1>5. it = [item EXCEPT !.class = c, !.review = rv, !.events = Append(item.events, e)]
  BY Zenon DEF Reviewed, c
<1>. HIDE DEF e, rv, it
<1>6. /\ Append(item.events, e) \in Seq(Event)
      /\ DoneLines(Append(item.events, e)) = DoneLines(item.events)
      /\ ActionFeed(Append(item.events, e)) = ActionFeed(item.events)
  BY <1>2, <1>3, AppendNotDone, Zenon
<1>7. /\ it \in Item /\ it.class = c /\ it.executed = item.executed
      /\ it.events = Append(item.events, e)
  BY <1>1, <1>4, <1>5, <1>6 DEF Item
<1>8. \A lines : Backed(item, lines) => Backed(it, lines)
  BY <1>6, <1>7, Zenon DEF Backed
<1>9. SameDone(it, item)
  BY <1>6, <1>7, Zenon DEF SameDone
<1>. QED BY <1>1, <1>7, <1>8, <1>9 DEF it

(* A key taken from a routed item, and the line sent under it.             *)
LEMMA KeyTyped ==
  ASSUME NEW item, item.class \in Classification, item.decision = Route(item.class),
         NEW i \in 1..Len(item.decision.actions)
  PROVE  /\ KeyOf(item, i) \in Key
         /\ [key |-> KeyOf(item, i), class |-> item.class] \in Line
         /\ Justified([key |-> KeyOf(item, i), class |-> item.class])
<1>. DEFINE d == item.decision
<1>1. d \in Decision /\ d = Route(item.class)
  BY RouteTyped
<1>2. d.actions \in Seq(Action) /\ d.rule \in STRING
  BY <1>1 DEF Decision
<1>3. d.actions[i] \in Action /\ d.actions # <<>>
  BY <1>2
<1>4. KeyOf(item, i) = [rule |-> d.rule, type |-> d.actions[i].type, target |-> d.actions[i].target]
  BY DEF KeyOf
<1>5. KeyOf(item, i) \in Key /\ KeyOf(item, i).rule = d.rule
  BY <1>2, <1>3, <1>4 DEF Key, Action
<1>. HIDE DEF d
<1>6. \E j \in DOMAIN Rules :
        /\ Rules[j].name = d.rule
        /\ \/ item.class.human_verified \/ Rules[j].bypass_confidence_floor
           \/ /\ item.class.confidence >= Rules[j].min_confidence
              /\ item.class.confidence >= ConfidenceFloor
  BY <1>1, <1>3, ActionsPassTheGate, Zenon
<1>. DEFINE l == [key |-> KeyOf(item, i), class |-> item.class]
<1>7. l \in Line /\ l.key = KeyOf(item, i) /\ l.class = item.class
  BY <1>5 DEF Line
<1>. HIDE DEF l
<1>8. Justified(l)
  BY <1>5, <1>6, <1>7, Zenon DEF Justified
<1>. QED BY <1>5, <1>7, <1>8 DEF l

(* Logging an executed action adds exactly one claim to the item, and      *)
(* the line just written to the outbox backs it (pipeline.go:298-308).     *)
LEMMA ExecutedOK ==
  ASSUME NEW item \in Item, item.class \in Classification, NEW key \in Key,
         NEW lines \in Seq(Line), Backed(item, lines)
  PROVE  /\ Executed(item, key) \in Item
         /\ Executed(item, key).class = item.class
         /\ Executed(item, key).decision = item.decision
         /\ Executed(item, key).status = item.status
         /\ Backed(Executed(item, key), Append(lines, [key |-> key, class |-> item.class]))
         /\ DoneLines(Executed(item, key).events) =
              DoneLines(item.events) \cup {[key |-> key, class |-> item.class]}
         /\ ActionFeed(Executed(item, key).events) =
              Append(ActionFeed(item.events), [key |-> key, class |-> item.class])
<1>. DEFINE e == Entry("action", item.class, key)
            l == [key |-> key, class |-> item.class]
            log == Logged(item, e)
<1>1. e \in Event /\ e.key = key /\ e.class = item.class /\ IsDone(e)
  <2>1. item.class # Nil
    BY NilDistinct
  <2>. QED BY <2>1, EntryTyped DEF EventTypes, Entry, IsDone
<1>2. l \in Line /\ l.key = key
  BY DEF Line
<1>3. item.events \in Seq(Event) /\ item.executed \in SUBSET Key
  BY DEF Item
<1>4. Executed(item, key) = [log EXCEPT !.executed = @ \cup {key}]
  BY DEF Executed
<1>. HIDE DEF e
<1>5. /\ log \in Item /\ log.class = item.class /\ log.decision = item.decision
      /\ log.status = item.status /\ log.executed = item.executed
      /\ log.events = Append(item.events, e)
  BY <1>1, LoggedTyped, Zenon
<1>. HIDE DEF log
<1>. DEFINE keys == item.executed \cup {key}
<1>6. keys \in SUBSET Key
  BY <1>3
<1>7. Executed(item, key) = [log EXCEPT !.executed = keys]
  BY <1>4, <1>5
<1>. HIDE DEF keys
<1>8. /\ Executed(item, key) \in Item /\ Executed(item, key).class = item.class
      /\ Executed(item, key).decision = item.decision
      /\ Executed(item, key).status = item.status
      /\ Executed(item, key).executed = keys
      /\ Executed(item, key).events = Append(item.events, e)
  BY <1>5, <1>6, <1>7 DEF Item
<1>9. /\ DoneLines(Append(item.events, e)) = DoneLines(item.events) \cup {l}
      /\ ActionFeed(Append(item.events, e)) = Append(ActionFeed(item.events), l)
  <2>1. LineOf(e) = l
    BY <1>1 DEF LineOf
  <2>. HIDE DEF l
  <2>. QED BY <1>1, <1>3, <2>1, DoneAppend, FeedAppend DEF FeedStep
<1>. HIDE DEF l
<1>10. Range(lines) \subseteq Range(Append(lines, l)) /\ l \in Range(Append(lines, l))
  BY <1>2, RangeAppend
<1>11. Backed(Executed(item, key), Append(lines, l))
  BY <1>2, <1>8, <1>9, <1>10 DEF Backed, keys
<1>. QED BY <1>8, <1>9, <1>11 DEF l

-----------------------------------------------------------------------------
(* A call under way holds a consistent copy, classified from the first     *)
(* write on and routed while it acts.                                      *)
CallOK(c) ==
  /\ c \in Call
  /\ c.pc # "idle" => /\ c.op \in Ops /\ c.id \in Ids /\ c.item \in Item
                      /\ Consistent(c.item) /\ c.next >= 1
  /\ c.pc \in {"classified", "acting"} => c.item.class \in Classification
  /\ c.pc = "acting" => c.item.decision = Route(c.item.class)

(* The copy's idempotency keys are backed by the outbox, like the store's. *)
CallBacked(c) == c.pc # "idle" => Backed(c.item, outbox[c.id])

(* The inductive invariant.                                                *)
IInv == /\ TypeOK /\ DecisionCurrent /\ GateHolds /\ NothingClaimedUndone
        /\ \A t \in Threads : CallOK(call[t]) /\ CallBacked(call[t])

(* A caller between two calls satisfies what is asked of a call.           *)
LEMMA IdleOK ==
  ASSUME NEW r \in {"none", "ok", "duplicate", "error"}
  PROVE  CallOK(Idle(r)) /\ Idle(r).pc = "idle"
  BY DEF CallOK, Idle, Call

(* A call that has just taken its copy satisfies what is asked of a        *)
(* call.                                                                   *)
LEMMA BeganOK ==
  ASSUME NEW op \in Ops, NEW id \in Ids, NEW pc \in {"accepting", "classified", "acting"},
         NEW item \in Item, Consistent(item),
         pc \in {"classified", "acting"} => item.class \in Classification,
         pc = "acting" => item.decision = Route(item.class)
  PROVE  CallOK([pc |-> pc, op |-> op, id |-> id, item |-> item,
                 next |-> 1, failed |-> FALSE, result |-> "none"])
  BY DEF CallOK, Call

(* A step that changes only one call.                                      *)
LEMMA CallStep ==
  ASSUME IInv, NEW t \in Threads, NEW c, CallOK(c), CallBacked(c),
         call' = [call EXCEPT ![t] = c], calls' \in 0..MaxCalls,
         UNCHANGED <<store, outbox>>
  PROVE  IInv'
<1>1. call \in [Threads -> Call] /\ c \in Call
  BY DEF IInv, TypeOK, CallOK
<1>2. \A u \in Threads : call'[u] = IF u = t THEN c ELSE call[u]
  BY <1>1
<1>3. TypeOK'
  BY <1>1 DEF IInv, TypeOK
<1>4. (DecisionCurrent /\ GateHolds /\ NothingClaimedUndone)'
  BY DEF IInv, DecisionCurrent, GateHolds, NothingClaimedUndone, Stored
<1>5. \A u \in Threads : CallOK(call'[u]) /\ CallBacked(call'[u])
  BY <1>2 DEF IInv
<1>6. (\A u \in Threads : CallOK(call[u]) /\ CallBacked(call[u]))'
  BY <1>5 DEF CallBacked
<1>. QED BY <1>3, <1>4, <1>6 DEF IInv

(* A step that writes the call's copy to the store and changes the call.   *)
LEMMA WriteStep ==
  ASSUME IInv, NEW t \in Threads, call[t].pc # "idle", Written(t),
         NEW c, CallOK(c), CallBacked(c), call' = [call EXCEPT ![t] = c],
         UNCHANGED <<outbox, calls>>
  PROVE  IInv'
<1>1. call \in [Threads -> Call] /\ c \in Call /\ store \in [Ids -> Item \cup {Nil}]
  BY DEF IInv, TypeOK, CallOK
<1>2. \A u \in Threads : call'[u] = IF u = t THEN c ELSE call[u]
  BY <1>1
<1>3. /\ call[t].id \in Ids /\ call[t].item \in Item /\ Consistent(call[t].item)
      /\ Backed(call[t].item, outbox[call[t].id])
  BY DEF IInv, CallOK, CallBacked
<1>4. store' \in [Ids -> Item \cup {Nil}]
  BY <1>1, <1>3 DEF Written
<1>5. \A id \in Ids : store'[id] = IF id = call[t].id THEN call[t].item ELSE store[id]
  BY <1>1 DEF Written
<1>6. TypeOK'
  BY <1>1, <1>4 DEF IInv, TypeOK
<1>7. DecisionCurrent'
  BY <1>3, <1>5 DEF IInv, DecisionCurrent, Stored
<1>8. GateHolds'
  BY DEF IInv, GateHolds
<1>9. NothingClaimedUndone'
  BY <1>3, <1>5 DEF IInv, NothingClaimedUndone, Stored
<1>10. \A u \in Threads : CallOK(call'[u]) /\ CallBacked(call'[u])
  BY <1>2 DEF IInv
<1>11. (\A u \in Threads : CallOK(call[u]) /\ CallBacked(call[u]))'
  BY <1>10 DEF CallBacked
<1>. QED BY <1>6, <1>7, <1>8, <1>9, <1>11 DEF IInv

(* Every step of a call preserves the invariant, whatever the other calls  *)
(* are doing.                                                              *)
LEMMA StartStep ==
  ASSUME IInv, NEW t \in Threads, Start(t)
  PROVE  IInv'
<1>1. ASSUME NEW r \in {"none", "ok", "duplicate", "error"}, Free(t), Refuse(t, r)
      PROVE  IInv'
  <2>1. CallOK(Idle(r)) /\ CallBacked(Idle(r))
    BY IdleOK DEF CallBacked
  <2>2. calls' \in 0..MaxCalls
    BY <1>1, ServiceAssumption DEF IInv, TypeOK, Free, Refuse
  <2>. QED BY <1>1, <2>1, <2>2, CallStep, Zenon DEF Refuse
<1>2. ASSUME NEW op \in Ops, NEW id \in Ids, NEW pc \in {"accepting", "classified", "acting"},
             NEW item \in Item, Consistent(item), Backed(item, outbox[id]),
             pc \in {"classified", "acting"} => item.class \in Classification,
             pc = "acting" => item.decision = Route(item.class),
             CanCall(t), Begin(t, op, id, pc, item)
      PROVE  IInv'
  <2>. DEFINE c == [pc |-> pc, op |-> op, id |-> id, item |-> item,
                    next |-> 1, failed |-> FALSE, result |-> "none"]
  <2>1. CallOK(c)
    BY <1>2, BeganOK, Zenon
  <2>2. c.item = item /\ c.id = id
    OBVIOUS
  <2>3. call' = [call EXCEPT ![t] = c] /\ UNCHANGED <<store, outbox>>
    BY <1>2 DEF Begin
  <2>4. calls' \in 0..MaxCalls
    BY <1>2, ServiceAssumption DEF IInv, TypeOK, CanCall, Free, Begin
  <2>. HIDE DEF c
  <2>5. CallBacked(c)
    BY <1>2, <2>2 DEF CallBacked
  <2>. QED BY <2>1, <2>3, <2>4, <2>5, CallStep, Zenon
<1>3. ASSUME NEW id \in Ids, store[id] # Nil
      PROVE  store[id] \in Item /\ Consistent(store[id]) /\ Backed(store[id], outbox[id])
  BY <1>3 DEF IInv, TypeOK, DecisionCurrent, NothingClaimedUndone, Stored
<1>4. ASSUME NEW id \in Ids, HasClass(id)
      PROVE  store[id].class \in Classification
  BY <1>3, <1>4 DEF HasClass, Item
<1>5. CASE GetFails(t)
  BY <1>1, <1>5, Zenon DEF GetFails, CanCall
<1>6. ASSUME NEW id \in Ids, Accept(t, id)
      PROVE  IInv'
  <2>1. CASE Refuse(t, "duplicate")
    BY <1>1, <1>6, <2>1 DEF Accept, CanCall
  <2>2. CASE Begin(t, "accept", id, "accepting", NewItem)
    BY <1>2, <1>6, <2>2, NewItemTyped, NewItemBacked DEF Accept, Ops
  <2>. QED BY <1>6, <2>1, <2>2, Zenon DEF Accept
<1>7. ASSUME NEW id \in Ids, ProcessIgnored(t, id)
      PROVE  IInv'
  BY <1>1, <1>7 DEF ProcessIgnored, CanCall
<1>8. ASSUME NEW id \in Ids, NEW item \in Item, Backed(item, outbox[id]), NEW op \in Ops,
             NEW a \in Answers, NEW failed \in BOOLEAN, CanCall(t),
             Begin(t, op, id, "classified", ClassifyInto(item, a, failed))
      PROVE  IInv'
  <2>1. a \in ModelOutput
    BY ServiceAssumption
  <2>2. /\ ClassifyInto(item, a, failed) \in Item
        /\ ClassifyInto(item, a, failed).class \in Classification
        /\ Consistent(ClassifyInto(item, a, failed))
        /\ Backed(ClassifyInto(item, a, failed), outbox[id])
    BY <1>8, <2>1, ClassifyIntoOK
  <2>. QED BY <1>2, <1>8, <2>2
<1>9. ASSUME NEW id \in Ids, NEW a \in Answers, NEW failed \in BOOLEAN,
             Process(t, id, a, failed)
      PROVE  IInv'
  <2>. DEFINE item == IF store[id] = Nil THEN NewItem ELSE store[id]
  <2>1. item \in Item /\ Backed(item, outbox[id])
    BY <1>3, NewItemTyped, NewItemBacked
  <2>. HIDE DEF item
  <2>2. CanCall(t) /\ Begin(t, "process", id, "classified", ClassifyInto(item, a, failed))
    BY <1>9, Zenon DEF Process, item
  <2>. QED BY <1>8, <2>1, <2>2 DEF Ops
<1>10. ASSUME NEW id \in Ids, NEW a \in Answers, NEW failed \in BOOLEAN,
              Reclassify(t, id, a, failed)
       PROVE  IInv'
  <2>1. CASE Refuse(t, "error")
    BY <1>1, <1>10, <2>1 DEF Reclassify, CanCall
  <2>2. CASE store[id] # Nil /\ Begin(t, "reclassify", id, "classified",
                                      ClassifyInto(store[id], a, failed))
    BY <1>3, <1>8, <1>10, <2>2 DEF Reclassify, Ops
  <2>. QED BY <1>10, <2>1, <2>2, Zenon DEF Reclassify
<1>11. ASSUME NEW id \in Ids, RouteItem(t, id)
       PROVE  IInv'
  <2>1. CASE Refuse(t, "error")
    BY <1>1, <1>11, <2>1 DEF RouteItem, CanCall
  <2>2. CASE HasClass(id) /\ Begin(t, "route", id, "acting", Routed(store[id]))
    <3>1. /\ Routed(store[id]) \in Item /\ Routed(store[id]).class \in Classification
          /\ Routed(store[id]).decision = Route(Routed(store[id]).class)
          /\ Consistent(Routed(store[id])) /\ Backed(Routed(store[id]), outbox[id])
      BY <1>3, <1>4, <2>2, RoutedOK DEF HasClass
    <3>. QED BY <1>2, <1>11, <2>2, <3>1 DEF RouteItem, Ops
  <2>. QED BY <1>11, <2>1, <2>2, Zenon DEF RouteItem
<1>12. ASSUME NEW id \in Ids, NEW category, NEW priority, ReviewItem(t, id, category, priority)
       PROVE  IInv'
  <2>. DEFINE it == Reviewed(store[id], category, priority)
  <2>1. CASE Refuse(t, "error")
    BY <1>1, <1>12, <2>1 DEF ReviewItem, CanCall
  <2>2. CASE CanReview(id, category, priority) /\ Begin(t, "review", id, "acting", Routed(it))
    <3>1. HasClass(id) /\ store[id] # Nil
      BY <2>2, Zenon DEF CanReview, HasClass
    <3>2. it \in Item /\ it.class \in Classification /\ Backed(it, outbox[id])
      BY <1>3, <1>4, <2>2, <3>1, ReviewedOK, Zenon DEF CanReview
    <3>. HIDE DEF it
    <3>3. /\ Routed(it) \in Item /\ Routed(it).class \in Classification
          /\ Routed(it).decision = Route(Routed(it).class)
          /\ Consistent(Routed(it)) /\ Backed(Routed(it), outbox[id])
      BY <3>2, RoutedOK
    <3>. QED BY <1>2, <1>12, <2>2, <3>3 DEF ReviewItem, Ops
  <2>. QED BY <1>12, <2>1, <2>2, Zenon DEF ReviewItem
<1>13. ASSUME NEW id \in Ids, NEW category, NEW priority, Override(t, id, category, priority)
       PROVE  IInv'
  BY <1>1, <1>12, <1>13 DEF Override
<1>. QED BY <1>5, <1>6, <1>7, <1>9, <1>10, <1>11, <1>12, <1>13, Zenon DEF Start, Approve

(* A call that returns, having written its copy or not, preserves the      *)
(* invariant.                                                              *)
LEMMA ReturnStep ==
  ASSUME IInv, NEW t \in Threads, call[t].pc # "idle", NEW r \in {"none", "ok", "duplicate", "error"},
         Return(t, r), Written(t) \/ UNCHANGED store, UNCHANGED <<outbox, calls>>
  PROVE  IInv'
<1>1. CallOK(Idle(r)) /\ CallBacked(Idle(r))
  BY IdleOK DEF CallBacked
<1>2. CASE Written(t)
  BY <1>1, <1>2, WriteStep, Zenon DEF Return
<1>3. CASE UNCHANGED store
  <2>1. calls' \in 0..MaxCalls
    BY DEF IInv, TypeOK
  <2>. QED BY <1>1, <1>3, <2>1, CallStep DEF Return
<1>. QED BY <1>2, <1>3

(* One turn of the loop: the copy moves on to the next action.             *)
LEMMA AdvancedOK ==
  ASSUME NEW c, CallOK(c), c.pc = "acting", NEW item \in Item, NEW failed \in BOOLEAN,
         item.class = c.item.class, item.decision = c.item.decision,
         item.status = c.item.status
  PROVE  LET d == Advanced(c, item, failed)
         IN CallOK(d) /\ d.item = item /\ d.id = c.id /\ d.pc = "acting"
<1>. DEFINE d == Advanced(c, item, failed)
            n == c.next + 1
<1>1. /\ c \in Call /\ c.op \in Ops /\ c.id \in Ids /\ Consistent(c.item)
      /\ c.item.class \in Classification /\ c.item.decision = Route(c.item.class)
      /\ c.next \in Nat /\ c.next >= 1
  BY DEF CallOK, Call
<1>2. /\ d \in Call /\ d.pc = "acting" /\ d.op = c.op /\ d.id = c.id /\ d.item = item
      /\ d.next = n /\ n >= 1
  <2>1. n \in Nat /\ n >= 1
    BY <1>1
  <2>2. d = [c EXCEPT !.next = n, !.item = item, !.failed = failed]
    BY DEF Advanced
  <2>. HIDE DEF n, d
  <2>. QED BY <1>1, <2>1, <2>2 DEF Call
<1>3. Consistent(item)
  <2>1. item.class # Nil
    BY <1>1, NilDistinct
  <2>. QED BY <1>1, <2>1 DEF Consistent
<1>. HIDE DEF d
<1>4. CallOK(d)
  BY <1>1, <1>2, <1>3 DEF CallOK
<1>. QED BY <1>2, <1>4 DEF d

(* What a call in its loop holds.                                          *)
LEMMA InLoop ==
  ASSUME IInv, NEW t \in Threads, Acting(t)
  PROVE  LET c == call[t]  key == KeyOf(c.item, c.next)
         IN /\ c.pc = "acting" /\ CallOK(c) /\ c.id \in Ids /\ c.item \in Item
            /\ c.failed \in BOOLEAN /\ c.item.class \in Classification
            /\ Backed(c.item, outbox[c.id]) /\ key \in Key
            /\ [key |-> key, class |-> c.item.class] \in Line
            /\ Justified([key |-> key, class |-> c.item.class])
<1>. DEFINE c == call[t]
<1>1. /\ c.pc = "acting" /\ CallOK(c) /\ CallBacked(c)
      /\ c.next <= Len(c.item.decision.actions)
  BY DEF IInv, Acting
<1>. HIDE DEF c
<1>2. /\ c.id \in Ids /\ c.item \in Item /\ c.item.class \in Classification
      /\ c.item.decision = Route(c.item.class) /\ c.next >= 1
      /\ c.next \in Nat /\ c.failed \in BOOLEAN
  BY <1>1 DEF CallOK, Call
<1>3. Len(c.item.decision.actions) \in Nat
  BY <1>2, RouteTyped DEF Decision
<1>4. c.next \in 1..Len(c.item.decision.actions)
  BY <1>1, <1>2, <1>3
<1>5. Backed(c.item, outbox[c.id])
  BY <1>1 DEF CallBacked
<1>. QED BY <1>1, <1>2, <1>4, <1>5, KeyTyped, Zenon DEF c

(* Skipping or failing an action changes the copy's trail and nothing else. *)
LEMMA LoggedStep ==
  ASSUME IInv, NEW t \in Threads, Acting(t), NEW e \in Event, ~IsDone(e),
         NEW failed \in BOOLEAN, Advance(t, Logged(call[t].item, e), failed),
         UNCHANGED <<store, outbox, calls>>
  PROVE  IInv'
<1>. DEFINE item == Logged(call[t].item, e)
            d == Advanced(call[t], item, failed)
<1>1. /\ call[t].pc = "acting" /\ CallOK(call[t]) /\ call[t].item \in Item
      /\ Backed(call[t].item, outbox[call[t].id])
  BY InLoop
<1>2. /\ item \in Item /\ item.class = call[t].item.class
      /\ item.decision = call[t].item.decision /\ item.status = call[t].item.status
      /\ Backed(item, outbox[call[t].id])
  BY <1>1, LoggedTyped, LoggedBacked, Zenon
<1>3. call' = [call EXCEPT ![t] = d]
  BY Zenon DEF Advance
<1>. HIDE DEF item
<1>4. CallOK(d) /\ d.item = item /\ d.id = call[t].id
  BY <1>1, <1>2, AdvancedOK, Zenon
<1>5. calls' \in 0..MaxCalls
  BY DEF IInv, TypeOK
<1>. HIDE DEF d
<1>6. CallBacked(d)
  BY <1>2, <1>4, Zenon DEF CallBacked
<1>. QED BY <1>3, <1>4, <1>5, <1>6, CallStep

(* Executing an action adds the same line to the outbox and to the copy.   *)
LEMMA ExecuteStep ==
  ASSUME IInv, NEW t \in Threads, Execute(t)
  PROVE  IInv'
<1>. DEFINE key == KeyOf(call[t].item, call[t].next)
            line == [key |-> key, class |-> call[t].item.class]
            item == Executed(call[t].item, key)
            d == Advanced(call[t], item, call[t].failed)
            i == call[t].id
            lines == Append(outbox[i], line)
<1>1. /\ call[t].pc = "acting" /\ CallOK(call[t]) /\ call[t].item \in Item
      /\ call[t].failed \in BOOLEAN /\ call[t].item.class \in Classification
      /\ Backed(call[t].item, outbox[i]) /\ key \in Key /\ i \in Ids
      /\ line \in Line /\ Justified(line)
  BY InLoop DEF Execute
<1>2. /\ outbox' = [outbox EXCEPT ![i] = lines] /\ call' = [call EXCEPT ![t] = d]
      /\ UNCHANGED <<store, calls>>
  BY Zenon DEF Execute, Send, Advance
<1>3. /\ outbox \in [Ids -> Seq(Line)] /\ call \in [Threads -> Call]
      /\ outbox[i] \in Seq(Line)
  BY <1>1 DEF IInv, TypeOK
<1>4. /\ item \in Item /\ item.class = call[t].item.class
      /\ item.decision = call[t].item.decision /\ item.status = call[t].item.status
      /\ Backed(item, lines)
  BY <1>1, <1>3, ExecutedOK, Zenon
<1>. HIDE DEF item
<1>5. CallOK(d) /\ d.item = item /\ d.id = i
  BY <1>1, <1>4, AdvancedOK, Zenon
<1>. HIDE DEF line, d
<1>6. /\ lines \in Seq(Line) /\ Range(outbox[i]) \subseteq Range(lines)
      /\ \A n \in DOMAIN lines : (n \in DOMAIN outbox[i] /\ lines[n] = outbox[i][n]) \/ lines[n] = line
  <2>1. Range(outbox[i]) \subseteq Range(lines)
    BY <1>1, <1>3, RangeAppend, Zenon
  <2>. HIDE DEF i
  <2>2. lines \in Seq(Line)
    BY <1>1, <1>3
  <2>3. \A n \in DOMAIN lines : (n \in DOMAIN outbox[i] /\ lines[n] = outbox[i][n]) \/ lines[n] = line
    BY <1>1, <1>3
  <2>. QED BY <2>1, <2>2, <2>3
<1>. HIDE DEF lines
<1>7. \A id \in Ids : outbox'[id] = IF id = i THEN lines ELSE outbox[id]
  BY <1>2, <1>3
<1>8. \A u \in Threads : call'[u] = IF u = t THEN d ELSE call[u]
  BY <1>2, <1>3
<1>9. TypeOK'
  <2>1. call' \in [Threads -> Call]
    BY <1>2, <1>3, <1>5 DEF CallOK
  <2>2. outbox' \in [Ids -> Seq(Line)]
    BY <1>2, <1>3, <1>6
  <2>. QED BY <1>2, <2>1, <2>2 DEF IInv, TypeOK
<1>10. DecisionCurrent'
  BY <1>2 DEF IInv, DecisionCurrent, Stored
<1>11. GateHolds'
  <2>1. \A id \in Ids : \A n \in DOMAIN outbox'[id] : Justified(outbox'[id][n])
    BY <1>1, <1>6, <1>7, Zenon DEF IInv, GateHolds
  <2>. QED BY <2>1 DEF GateHolds
<1>12. ASSUME NEW it, NEW id \in Ids, Backed(it, outbox[id])
       PROVE  Backed(it, outbox'[id])
  BY <1>6, <1>7, <1>12 DEF Backed
<1>13. NothingClaimedUndone'
  BY <1>2, <1>12 DEF IInv, NothingClaimedUndone, Stored
<1>14. \A u \in Threads : CallOK(call'[u]) /\ (call'[u].pc # "idle" => Backed(call'[u].item, outbox'[call'[u].id]))
  <2>1. SUFFICES ASSUME NEW u \in Threads
                PROVE  CallOK(call'[u]) /\ (call'[u].pc # "idle" => Backed(call'[u].item, outbox'[call'[u].id]))
    OBVIOUS
  <2>2. CASE u = t
    BY <1>1, <1>4, <1>5, <1>7, <1>8, <2>2
  <2>3. CASE u # t
    <3>1. call'[u] = call[u] /\ CallOK(call[u]) /\ CallBacked(call[u])
      BY <1>8, <2>3 DEF IInv
    <3>2. call[u].pc # "idle" => call[u].id \in Ids /\ Backed(call[u].item, outbox[call[u].id])
      BY <3>1 DEF CallOK, CallBacked
    <3>. QED BY <1>12, <3>1, <3>2
  <2>. QED BY <2>2, <2>3
<1>15. (\A u \in Threads : CallOK(call[u]) /\ CallBacked(call[u]))'
  BY <1>14 DEF CallBacked
<1>. QED BY <1>9, <1>10, <1>11, <1>13, <1>15 DEF IInv

(* Every later step of a call preserves the invariant: one case per        *)
(* action.                                                                 *)
LEMMA StepStep ==
  ASSUME IInv, NEW t \in Threads, Step(t)
  PROVE  IInv'
<1>1. CASE PutFails(t)
  BY <1>1, ReturnStep DEF PutFails, LoopDone
<1>2. CASE PutAccepted(t)
  BY <1>2, ReturnStep DEF PutAccepted
<1>3. CASE PutClassified(t)
  <2>. DEFINE c == call[t]
              item == Routed(c.item)
              d == [c EXCEPT !.pc = "acting", !.item = item]
  <2>1. /\ c.pc = "classified" /\ Written(t) /\ call' = [call EXCEPT ![t] = d]
        /\ UNCHANGED <<outbox, calls>>
    BY <1>3, Zenon DEF PutClassified
  <2>2. CallOK(c) /\ CallBacked(c)
    BY DEF IInv
  <2>. HIDE DEF c
  <2>3. /\ c \in Call /\ c.op \in Ops /\ c.id \in Ids /\ c.item \in Item
        /\ c.item.class \in Classification /\ Backed(c.item, outbox[c.id])
    BY <2>1, <2>2 DEF CallOK, CallBacked
  <2>4. /\ item \in Item /\ item.class \in Classification /\ item.decision = Route(item.class)
        /\ Consistent(item) /\ Backed(item, outbox[c.id])
    BY <2>3, RoutedOK
  <2>. HIDE DEF item
  <2>5. /\ d \in Call /\ d.pc = "acting" /\ d.op = c.op /\ d.id = c.id /\ d.item = item
        /\ d.next = c.next
    BY <2>3, <2>4 DEF Call
  <2>6. c.next >= 1
    BY <2>1, <2>2 DEF CallOK
  <2>. HIDE DEF d
  <2>7. CallOK(d) /\ CallBacked(d)
    BY <2>3, <2>4, <2>5, <2>6 DEF CallOK, CallBacked
  <2>. QED BY <2>1, <2>7, WriteStep DEF c
<1>4. CASE Skip(t)
  <2>. DEFINE key == KeyOf(call[t].item, call[t].next)
              e == Entry("action", Nil, key)
  <2>1. key \in Key /\ call[t].failed \in BOOLEAN
    BY <1>4, InLoop DEF Skip
  <2>2. e \in Event /\ ~IsDone(e)
    BY <2>1, EntryTyped, NotDone DEF EventTypes
  <2>3. /\ Acting(t) /\ Advance(t, Logged(call[t].item, e), call[t].failed)
        /\ UNCHANGED <<store, outbox, calls>>
    BY <1>4, Zenon DEF Skip
  <2>. HIDE DEF e
  <2>. QED BY <2>1, <2>2, <2>3, LoggedStep
<1>5. CASE Execute(t)
  BY <1>5, ExecuteStep
<1>6. CASE ExecuteFails(t)
  <2>. DEFINE key == KeyOf(call[t].item, call[t].next)
              e == Entry("error", Nil, key)
  <2>1. key \in Key
    BY <1>6, InLoop DEF ExecuteFails
  <2>2. e \in Event /\ ~IsDone(e)
    BY <2>1, EntryTyped, NotDone DEF EventTypes
  <2>3. /\ Acting(t) /\ Advance(t, Logged(call[t].item, e), TRUE)
        /\ UNCHANGED <<store, outbox, calls>>
    BY <1>6, Zenon DEF ExecuteFails
  <2>. HIDE DEF e
  <2>. QED BY <2>2, <2>3, LoggedStep
<1>7. CASE PutRouted(t)
  BY <1>7, ReturnStep DEF PutRouted, LoopDone
<1>. QED BY <1>1, <1>2, <1>3, <1>4, <1>5, <1>6, <1>7 DEF Step

(* A crash only ends calls.                                                *)
LEMMA CrashStep ==
  ASSUME IInv, NEW p, Crash(p)
  PROVE  IInv'
<1>1. \A t \in Threads : call'[t] = Idle("none") \/ call'[t] = call[t]
  BY DEF Crash
<1>2. CallOK(Idle("none")) /\ CallBacked(Idle("none"))
  BY IdleOK DEF CallBacked
<1>3. \A t \in Threads : CallOK(call'[t]) /\ CallBacked(call'[t])
  BY <1>1, <1>2, Zenon DEF IInv
<1>4. (\A t \in Threads : CallOK(call[t]) /\ CallBacked(call[t]))'
  BY <1>3 DEF CallBacked, Crash
<1>5. call' \in [Threads -> Call]
  BY <1>3 DEF Crash, CallOK
<1>6. (TypeOK /\ DecisionCurrent /\ GateHolds /\ NothingClaimedUndone)'
  BY <1>5 DEF Crash, IInv, TypeOK, DecisionCurrent, GateHolds, NothingClaimedUndone, Stored
<1>. QED BY <1>4, <1>6 DEF IInv

(* The initial states satisfy the invariant.                               *)
LEMMA InitOK == Init => IInv
<1>. SUFFICES ASSUME Init PROVE IInv
  OBVIOUS
<1>1. CallOK(Idle("none")) /\ CallBacked(Idle("none"))
  BY IdleOK DEF CallBacked
<1>2. \A t \in Threads : CallOK(call[t]) /\ CallBacked(call[t])
  BY <1>1 DEF Init
<1>3. call \in [Threads -> Call]
  BY <1>1 DEF Init, CallOK
<1>4. TypeOK
  BY <1>3, ServiceAssumption DEF Init, TypeOK
<1>5. DecisionCurrent /\ GateHolds /\ NothingClaimedUndone
  BY DEF Init, DecisionCurrent, GateHolds, NothingClaimedUndone, Stored
<1>. QED BY <1>2, <1>4, <1>5 DEF IInv

(* Every step preserves the invariant.                                     *)
LEMMA NextOK == IInv /\ [Next]_vars => IInv'
<1>. SUFFICES ASSUME IInv, [Next]_vars PROVE IInv'
  OBVIOUS
<1>1. ASSUME NEW t \in Threads, Start(t) \/ Step(t) PROVE IInv'
  BY <1>1, StartStep, StepStep
<1>2. ASSUME NEW t \in Threads, Crash(ProcOf[t]) PROVE IInv'
  BY <1>2, CrashStep
<1>3. CASE UNCHANGED vars
  BY <1>3 DEF vars, IInv, TypeOK, DecisionCurrent, GateHolds, NothingClaimedUndone, Stored, CallBacked
<1>. QED BY <1>1, <1>2, <1>3, Zenon DEF Next

(* The invariant holds in every reachable state.                           *)
LEMMA Inductive == Spec => []IInv
  BY InitOK, NextOK, PTL DEF Spec

(* Everything stored, sent or held by a call is of the shape the structs   *)
(* of store.go, router.go and classify.go declare.                         *)
THEOREM TypeCorrect == Spec => []TypeOK
<1>1. IInv => TypeOK
  BY DEF IInv
<1>. QED BY <1>1, Inductive, PTL

(* However many processes write, fail and die, a settled item's decision   *)
(* is the one its classification is routed to (pipeline.go:264-280).       *)
THEOREM DecisionsAreCurrent == Spec => []DecisionCurrent
<1>1. IInv => DecisionCurrent
  BY DEF IInv
<1>. QED BY <1>1, Inductive, PTL

(* No action goes out below the thresholds of the rule it came from unless *)
(* the rule bypasses the floor or a person decided (router.go:52-58).      *)
THEOREM GateAlwaysHolds == Spec => []GateHolds
<1>1. IInv => GateHolds
  BY DEF IInv
<1>. QED BY <1>1, Inductive, PTL

(* The stored trail and keys never claim an action that was not taken      *)
(* (pipeline.go:298-308).                                                  *)
THEOREM NothingIsClaimedUndone == Spec => []NothingClaimedUndone
<1>1. IInv => NothingClaimedUndone
  BY DEF IInv
<1>. QED BY <1>1, Inductive, PTL

-----------------------------------------------------------------------------
(* The trail explains the item.  What is stored was some call's copy, so   *)
(* every copy has to be explained by its own trail first.                  *)

IsJudgement(e) == e.type \in {"classified", "review"}

(* Appending an event adds its place to the judgements if it is one.       *)
LEMMA JudgementsAppend ==
  ASSUME NEW s \in Seq(Event), NEW e \in Event
  PROVE  Judgements(Append(s, e)) =
           Judgements(s) \cup (IF IsJudgement(e) THEN {Len(s) + 1} ELSE {})
<1>. DEFINE a == Append(s, e)
<1>1. /\ Len(s) \in Nat /\ DOMAIN s = 1..Len(s) /\ DOMAIN a = 1..(Len(s) + 1)
      /\ a[Len(s) + 1] = e /\ \A n \in 1..Len(s) : a[n] = s[n]
  OBVIOUS
<1>. HIDE DEF a
<1>2. \A n : n \in DOMAIN a <=> n \in DOMAIN s \/ n = Len(s) + 1
  BY <1>1
<1>3. \A n : n \in Judgements(a) <=> n \in Judgements(s) \/ (n = Len(s) + 1 /\ IsJudgement(e))
  <2>1. Len(s) + 1 \notin DOMAIN s
    BY <1>1
  <2>. QED BY <1>1, <1>2, <2>1, Zenon DEF Judgements, IsJudgement
<1>. QED BY <1>3 DEF a

(* An event that judges nothing changes neither the label nor what         *)
(* explains it.                                                            *)
LEMMA ExplainedAppend ==
  ASSUME NEW item, item.events \in Seq(Event), Explained(item), NEW e \in Event, ~IsJudgement(e),
         NEW it, it.events = Append(item.events, e), it.class = item.class
  PROVE  Explained(it)
<1>. DEFINE s == item.events
<1>1. Judgements(it.events) = Judgements(s)
  BY JudgementsAppend
<1>2. \A n \in Judgements(s) : it.events[n] = s[n]
  BY DEF Judgements
<1>. QED BY <1>1, <1>2, Zenon DEF Explained

(* A judgement that sets the label explains it, whatever came before.      *)
LEMMA ExplainedJudged ==
  ASSUME NEW s \in Seq(Event), NEW e \in Event, IsJudgement(e), e.class # Nil,
         NEW it, it.events = Append(s, e), it.class = e.class,
         e.class.human_verified <=> e.type = "review"
  PROVE  Explained(it)
<1>. DEFINE a == it.events
<1>1. Len(s) \in Nat /\ a[Len(s) + 1] = e
  OBVIOUS
<1>2. Judgements(a) = Judgements(s) \cup {Len(s) + 1}
  BY JudgementsAppend
<1>3. \A n \in Judgements(s) : n \in Nat /\ n <= Len(s)
  BY DEF Judgements
<1>4. \A n \in Judgements(a) : (\A m \in Judgements(a) : m <= n) => n = Len(s) + 1
  <2>. SUFFICES ASSUME NEW n \in Judgements(a), \A m \in Judgements(a) : m <= n
                PROVE  n = Len(s) + 1
    OBVIOUS
  <2>1. Len(s) + 1 <= n /\ (n \in Judgements(s) \/ n = Len(s) + 1)
    BY <1>2
  <2>. QED BY <1>1, <1>3, <2>1
<1>5. Judgements(a) # {} /\ it.class # Nil
  BY <1>2
<1>. QED BY <1>1, <1>4, <1>5, Zenon DEF Explained

(* A new item has no label and no judgement.                               *)
LEMMA NewItemExplained == Explained(NewItem)
<1>1. NewItem.events = <<Entry("received", Nil, Nil)>> /\ NewItem.class = Nil
  BY DEF NewItem
<1>2. \A n \in DOMAIN NewItem.events : NewItem.events[n].type = "received"
  BY <1>1 DEF Entry
<1>3. Judgements(NewItem.events) = {}
  BY <1>2 DEF Judgements
<1>. QED BY <1>1, <1>3 DEF Explained

(* No answer of the model, the fallback included, passes for a person's.   *)
LEMMA ModelNeverVerifies ==
  ASSUME NEW answer \in ModelOutput, NEW failed \in BOOLEAN
  PROVE  ~Classified(answer, failed).human_verified
<1>1. ~Fallback.human_verified
  BY DEF Fallback
<1>2. ~answer.human_verified
  BY DEF ModelOutput
<1>. QED BY <1>1, <1>2 DEF Classified

(* classifyInto records the label it sets, whether the model's or the      *)
(* fallback (pipeline.go:184-198).                                         *)
LEMMA ClassifyIntoExplained ==
  ASSUME NEW item \in Item, NEW answer \in ModelOutput, NEW failed \in BOOLEAN
  PROVE  Explained(ClassifyInto(item, answer, failed))
<1>. DEFINE c == Classified(answer, failed)
            error == Entry("error", Nil, Nil)
            judged == Entry("classified", c, Nil)
            before == IF ~failed /\ Valid(answer) THEN item.events ELSE Append(item.events, error)
            it == ClassifyInto(item, answer, failed)
<1>1. error \in Event /\ judged \in Event /\ c # Nil /\ ~c.human_verified
  BY ClassifiedTyped, EntryTyped, NilDistinct, ModelNeverVerifies DEF EventTypes
<1>2. item.events \in Seq(Event)
  BY DEF Item
<1>3. it = [item EXCEPT !.class = c, !.status = "classified", !.events = Append(before, judged)]
  BY Zenon DEF ClassifyInto
<1>4. judged.class = c /\ judged.type = "classified"
  BY DEF Entry
<1>. HIDE DEF c, error, judged, it
<1>5. before \in Seq(Event)
  BY <1>1, <1>2
<1>. HIDE DEF before
<1>6. it.events = Append(before, judged) /\ it.class = c
  BY <1>3 DEF Item
<1>7. Explained(it)
  BY <1>1, <1>4, <1>5, <1>6, ExplainedJudged DEF IsJudgement
<1>. QED BY <1>7 DEF it

(* Routing changes neither the label nor what explains it                  *)
(* (pipeline.go:264-284).                                                  *)
LEMMA RoutedExplained ==
  ASSUME NEW item \in Item, item.class \in Classification, Explained(item)
  PROVE  Explained(Routed(item))
<1>. DEFINE e == Entry("routed", item.class, Nil)
            it == Routed(item)
<1>1. e \in Event /\ ~IsJudgement(e)
  BY EntryTyped DEF EventTypes, IsJudgement, Entry
<1>2. item.events \in Seq(Event)
  BY DEF Item
<1>3. it.events = Append(item.events, e) /\ it.class = item.class
  BY DEF Routed, Item
<1>. HIDE DEF e, it
<1>4. Explained(it)
  BY <1>1, <1>2, <1>3, ExplainedAppend
<1>. QED BY <1>4 DEF it

(* A review records the label it leaves, and that a person set it          *)
(* (pipeline.go:331-372).                                                  *)
LEMMA ReviewedExplained ==
  ASSUME NEW item \in Item, item.class \in Classification, NEW category, NEW priority,
         (category # "" \/ priority # "") => Valid(Corrected(item.class, category, priority))
  PROVE  Explained(Reviewed(item, category, priority))
<1>. DEFINE it == Reviewed(item, category, priority)
            c == Corrected(item.class, category, priority)
            e == Entry("review", c, Nil)
<1>1. c \in Classification /\ c # Nil
  BY CorrectedTyped, NilDistinct
<1>2. c.human_verified
  BY DEF Corrected, Classification
<1>3. e \in Event /\ e.class = c /\ e.type = "review"
  BY <1>1, EntryTyped DEF EventTypes, Entry
<1>4. item.events \in Seq(Event)
  BY DEF Item
<1>. HIDE DEF c
<1>5. it.class = c /\ it.events = Append(item.events, e)
  BY DEF Reviewed, Item, c
<1>. HIDE DEF it, e
<1>6. Explained(it)
  BY <1>1, <1>2, <1>3, <1>4, <1>5, ExplainedJudged DEF IsJudgement
<1>. QED BY <1>6 DEF it

(* A turn of the loop logs what it did and judges nothing                  *)
(* (pipeline.go:284-311).                                                  *)
LEMMA LoggedExplained ==
  ASSUME NEW item \in Item, Explained(item), NEW e \in Event, ~IsJudgement(e)
  PROVE  Explained(Logged(item, e))
<1>1. item.events \in Seq(Event)
  BY DEF Item
<1>. QED BY <1>1, LoggedTyped, ExplainedAppend

LEMMA ExecutedExplained ==
  ASSUME NEW item \in Item, item.class \in Classification, Explained(item), NEW key \in Key
  PROVE  Explained(Executed(item, key))
<1>. DEFINE e == Entry("action", item.class, key)
            log == Logged(item, e)
            it == Executed(item, key)
<1>1. e \in Event /\ ~IsJudgement(e)
  BY EntryTyped DEF EventTypes, IsJudgement, Entry
<1>2. it = [log EXCEPT !.executed = @ \cup {key}]
  BY DEF Executed
<1>. HIDE DEF e, it
<1>3. log \in Item /\ Explained(log)
  BY <1>1, LoggedTyped, LoggedExplained
<1>. HIDE DEF log
<1>4. it.class = log.class /\ it.events = log.events
  BY <1>2, <1>3 DEF Item
<1>5. Explained(it)
  BY <1>3, <1>4 DEF Explained
<1>. QED BY <1>5 DEF it

(* A call's copy is explained by its own trail.                            *)
CallExplained(c) == c.pc # "idle" => Explained(c.item)

AllExplained == TrailExplains /\ \A t \in Threads : CallExplained(call[t])

(* A step that changes one call and publishes its copy, or no item.        *)
LEMMA ExplainStep ==
  ASSUME IInv, AllExplained, NEW t \in Threads, NEW c, CallExplained(c),
         call' = [call EXCEPT ![t] = c],
         (call[t].pc # "idle" /\ Written(t)) \/ UNCHANGED store
  PROVE  AllExplained'
<1>1. \A u \in Threads : call'[u] = IF u = t THEN c ELSE call[u]
  BY DEF IInv, TypeOK
<1>2. \A u \in Threads : CallExplained(call'[u])
  BY <1>1 DEF AllExplained
<1>3. (\A u \in Threads : CallExplained(call[u]))'
  BY <1>2 DEF CallExplained
<1>4. TrailExplains'
  <2>1. CASE UNCHANGED store
    BY <2>1 DEF AllExplained, TrailExplains, Stored
  <2>2. CASE call[t].pc # "idle" /\ Written(t)
    <3>1. Explained(call[t].item)
      BY <2>2 DEF AllExplained, CallExplained
    <3>2. \A id \in Ids : store'[id] = IF id = call[t].id THEN call[t].item ELSE store[id]
      BY <2>2 DEF Written, IInv, TypeOK
    <3>3. \A id \in Ids : store'[id] # Nil => Explained(store'[id])
      BY <3>1, <3>2 DEF AllExplained, TrailExplains, Stored
    <3>. QED BY <3>3 DEF TrailExplains, Stored
  <2>. QED BY <2>1, <2>2
<1>. QED BY <1>3, <1>4 DEF AllExplained

(* Nothing is asked of a caller between two calls.                         *)
LEMMA IdleExplained ==
  ASSUME NEW r
  PROVE  CallExplained(Idle(r))
  BY DEF CallExplained, Idle

(* A call begins with a copy its trail explains.                           *)
LEMMA StartExplained ==
  ASSUME IInv, AllExplained, NEW t \in Threads, Start(t)
  PROVE  AllExplained'
<1>1. ASSUME NEW r, Refuse(t, r)
      PROVE  AllExplained'
  BY <1>1, IdleExplained, ExplainStep, Zenon DEF Refuse
<1>2. ASSUME NEW op, NEW id, NEW pc, NEW item, Explained(item), Begin(t, op, id, pc, item)
      PROVE  AllExplained'
  <2>. DEFINE c == [pc |-> pc, op |-> op, id |-> id, item |-> item,
                    next |-> 1, failed |-> FALSE, result |-> "none"]
  <2>1. call' = [call EXCEPT ![t] = c] /\ UNCHANGED store
    BY <1>2 DEF Begin
  <2>2. c.item = item
    OBVIOUS
  <2>. HIDE DEF c
  <2>3. CallExplained(c)
    BY <1>2, <2>2 DEF CallExplained
  <2>. QED BY <2>1, <2>3, ExplainStep, Zenon
<1>3. ASSUME NEW id \in Ids, store[id] # Nil
      PROVE  store[id] \in Item /\ Explained(store[id])
  BY <1>3 DEF IInv, TypeOK, AllExplained, TrailExplains, Stored
<1>4. ASSUME NEW id \in Ids, HasClass(id)
      PROVE  store[id] # Nil /\ store[id].class \in Classification
  BY <1>3, <1>4 DEF HasClass, Item
<1>5. CASE GetFails(t)
  BY <1>1, <1>5, Zenon DEF GetFails
<1>6. ASSUME NEW id \in Ids, Accept(t, id)
      PROVE  AllExplained'
  BY <1>1, <1>2, <1>6, NewItemExplained, Zenon DEF Accept
<1>7. ASSUME NEW id \in Ids, ProcessIgnored(t, id)
      PROVE  AllExplained'
  BY <1>1, <1>7, Zenon DEF ProcessIgnored
<1>8. ASSUME NEW item \in Item, NEW a \in Answers, NEW failed \in BOOLEAN
      PROVE  Explained(ClassifyInto(item, a, failed))
  <2>1. a \in ModelOutput
    BY ServiceAssumption
  <2>. QED BY <2>1, ClassifyIntoExplained
<1>9. ASSUME NEW id \in Ids, NEW a \in Answers, NEW failed \in BOOLEAN, Process(t, id, a, failed)
      PROVE  AllExplained'
  <2>. DEFINE item == IF store[id] = Nil THEN NewItem ELSE store[id]
  <2>1. item \in Item
    BY <1>3, NewItemTyped
  <2>2. Begin(t, "process", id, "classified", ClassifyInto(item, a, failed))
    BY <1>9, Zenon DEF Process
  <2>. HIDE DEF item
  <2>. QED BY <1>2, <1>8, <2>1, <2>2, Zenon
<1>10. ASSUME NEW id \in Ids, NEW a \in Answers, NEW failed \in BOOLEAN, Reclassify(t, id, a, failed)
       PROVE  AllExplained'
  BY <1>1, <1>2, <1>3, <1>8, <1>10, Zenon DEF Reclassify
<1>11. ASSUME NEW id \in Ids, RouteItem(t, id)
       PROVE  AllExplained'
  BY <1>1, <1>2, <1>3, <1>4, <1>11, RoutedExplained, Zenon DEF RouteItem
<1>12. ASSUME NEW id \in Ids, NEW category, NEW priority, ReviewItem(t, id, category, priority)
       PROVE  AllExplained'
  <2>. DEFINE it == Reviewed(store[id], category, priority)
  <2>1. ASSUME CanReview(id, category, priority)
        PROVE  Explained(Routed(it))
    <3>1. store[id] \in Item /\ store[id].class \in Classification
      BY <1>3, <1>4, <2>1, Zenon DEF CanReview
    <3>2. it \in Item /\ it.class \in Classification
      BY <2>1, <3>1, ReviewedOK, Zenon DEF CanReview
    <3>3. Explained(it)
      BY <2>1, <3>1, ReviewedExplained, Zenon DEF CanReview
    <3>. HIDE DEF it
    <3>. QED BY <3>2, <3>3, RoutedExplained
  <2>. QED BY <1>1, <1>2, <1>12, <2>1, Zenon DEF ReviewItem
<1>13. ASSUME NEW id \in Ids, NEW category, NEW priority, Override(t, id, category, priority)
       PROVE  AllExplained'
  BY <1>1, <1>12, <1>13, Zenon DEF Override
<1>. QED BY <1>5, <1>6, <1>7, <1>9, <1>10, <1>11, <1>12, <1>13, Zenon DEF Start, Approve

(* A turn of the loop.                                                     *)
LEMMA AdvanceExplained ==
  ASSUME IInv, AllExplained, NEW t \in Threads, NEW item, Explained(item), NEW failed,
         Advance(t, item, failed), UNCHANGED store
  PROVE  AllExplained'
<1>. DEFINE c == Advanced(call[t], item, failed)
<1>1. c.item = item
  BY DEF Advanced, IInv, TypeOK, Call
<1>2. call' = [call EXCEPT ![t] = c]
  BY DEF Advance
<1>. HIDE DEF c
<1>3. CallExplained(c)
  BY <1>1 DEF CallExplained
<1>. QED BY <1>2, <1>3, ExplainStep

(* Every later step of a call, one case per action.                        *)
LEMMA StepExplained ==
  ASSUME IInv, AllExplained, NEW t \in Threads, Step(t)
  PROVE  AllExplained'
<1>1. ASSUME NEW r, call[t].pc # "idle", Return(t, r), Written(t) \/ UNCHANGED store
      PROVE  AllExplained'
  BY <1>1, IdleExplained, ExplainStep, Zenon DEF Return
<1>2. CASE PutFails(t)
  BY <1>1, <1>2 DEF PutFails, LoopDone
<1>3. CASE PutAccepted(t)
  BY <1>1, <1>3 DEF PutAccepted
<1>4. CASE PutRouted(t)
  BY <1>1, <1>4 DEF PutRouted, LoopDone
<1>5. CASE PutClassified(t)
  <2>. DEFINE item == call[t].item
              c == [call[t] EXCEPT !.pc = "acting", !.item = Routed(item)]
  <2>1. call[t].pc = "classified" /\ Written(t) /\ call' = [call EXCEPT ![t] = c]
    BY <1>5 DEF PutClassified
  <2>2. call[t] \in Call /\ item \in Item /\ item.class \in Classification /\ Explained(item)
    BY <2>1 DEF IInv, CallOK, AllExplained, CallExplained
  <2>3. c.item = Routed(item)
    BY <2>2 DEF Call
  <2>. HIDE DEF c, item
  <2>4. CallExplained(c)
    BY <2>2, <2>3, RoutedExplained DEF CallExplained
  <2>. QED BY <2>1, <2>4, ExplainStep
<1>6. ASSUME Acting(t)
      PROVE  /\ call[t].item \in Item /\ call[t].item.class \in Classification
             /\ Explained(call[t].item) /\ KeyOf(call[t].item, call[t].next) \in Key
  BY <1>6, InLoop DEF AllExplained, CallExplained
<1>7. ASSUME Acting(t), NEW type \in {"action", "error"}
      PROVE  Explained(Logged(call[t].item, Entry(type, Nil, KeyOf(call[t].item, call[t].next))))
  <2>. DEFINE e == Entry(type, Nil, KeyOf(call[t].item, call[t].next))
  <2>1. e \in Event /\ ~IsJudgement(e)
    <3>1. type \in EventTypes
      BY DEF EventTypes
    <3>2. e \in Event
      BY <1>6, <1>7, <3>1, EntryTyped
    <3>. QED BY <3>2 DEF IsJudgement, Entry
  <2>. HIDE DEF e
  <2>2. Explained(Logged(call[t].item, e))
    BY <1>6, <1>7, <2>1, LoggedExplained
  <2>. QED BY <2>2 DEF e
<1>8. CASE Skip(t)
  BY <1>7, <1>8, AdvanceExplained, Zenon DEF Skip
<1>9. CASE ExecuteFails(t)
  BY <1>7, <1>9, AdvanceExplained, Zenon DEF ExecuteFails
<1>10. CASE Execute(t)
  <2>1. Acting(t) /\ UNCHANGED store
        /\ Advance(t, Executed(call[t].item, KeyOf(call[t].item, call[t].next)), call[t].failed)
    BY <1>10, Zenon DEF Execute
  <2>. QED BY <1>6, <2>1, ExecutedExplained, AdvanceExplained, Zenon
<1>. QED BY <1>2, <1>3, <1>4, <1>5, <1>8, <1>9, <1>10, Zenon DEF Step

(* Every step keeps every trail explaining its item.                       *)
LEMMA ExplainedNext == IInv /\ AllExplained /\ [Next]_vars => AllExplained'
<1>. SUFFICES ASSUME IInv, AllExplained, [Next]_vars PROVE AllExplained'
  OBVIOUS
<1>1. ASSUME NEW t \in Threads, Start(t) \/ Step(t) PROVE AllExplained'
  BY <1>1, StartExplained, StepExplained
<1>2. ASSUME NEW p, Crash(p) PROVE AllExplained'
  <2>1. \A t \in Threads : call'[t] = Idle("none") \/ call'[t] = call[t]
    BY <1>2 DEF Crash
  <2>2. \A t \in Threads : CallExplained(call'[t])
    BY <2>1, IdleExplained, Zenon DEF AllExplained
  <2>3. (\A t \in Threads : CallExplained(call[t]))'
    BY <2>2 DEF CallExplained
  <2>. QED BY <1>2, <2>3 DEF Crash, AllExplained, TrailExplains, Stored
<1>3. CASE UNCHANGED vars
  BY <1>3 DEF vars, AllExplained, TrailExplains, Stored, CallExplained
<1>. QED BY <1>1, <1>2, <1>3, Zenon DEF Next

(* However many processes judge, review and re-judge one item, and         *)
(* whatever fails between, the label that is stored is the last one its    *)
(* own trail records, and the trail says whether a person set it           *)
(* (pipeline.go:184-198, :331-372).                                        *)
THEOREM TrailsExplain == Spec => []TrailExplains
<1>1. Init => AllExplained
  BY IdleExplained DEF Init, AllExplained, TrailExplains, Stored
<1>2. IInv /\ AllExplained /\ [Next]_vars => AllExplained'
  BY ExplainedNext
<1>3. AllExplained => TrailExplains
  BY DEF AllExplained
<1>. QED BY <1>1, <1>2, <1>3, Inductive, PTL DEF Spec
=============================================================================

------------------------------- MODULE Outbox -------------------------------
(***************************************************************************)
(* Service with the local action sink (internal/router/actions.go) step by *)
(* step: an action appends its line to the file of its type, and a ticket  *)
(* action first counts the lines of tickets.jsonl to choose its number.  A *)
(* write that fails, or dies, may leave a piece of its line behind without *)
(* its newline: the next line of that file continues it, and ReadOutbox    *)
(* can read neither.  Service's outbox is every line written whole; what   *)
(* ReadOutbox gives of an item is kept beside it.                          *)
(*                                                                         *)
(* Left out: a write that stops exactly before its newline, whose line can *)
(* be read until another continues it; times, and with them how ReadOutbox *)
(* orders the lines of different items.                                    *)
(***************************************************************************)
EXTENDS Service

CONSTANT MaxLosses  \* bound: Puts that fail, processes that die, lines torn

ASSUME OutboxAssumption == MaxLosses \in Nat

VARIABLES
  tickets,  \* the lines of tickets.jsonl that end in a newline
  torn,     \* the types of action in whose file a piece of a line is the last thing
  records,  \* of each item: the lines ReadOutbox can read
  number,   \* of each caller: the ticket number it has chosen, 0 before
  spoiled,  \* history: the items of calls that ended without knowing of their Put
  glued,    \* history: the items one of whose lines continues a piece of another
  losses

sink == <<tickets, torn, records, number>>
past == <<spoiled, glued, losses>>

SinkInit ==
  /\ Init
  /\ tickets = <<>> /\ torn = {}
  /\ records = [id \in Ids |-> <<>>]
  /\ number = [t \in Threads |-> 0]
  /\ spoiled = {} /\ glued = {} /\ losses = 0

(* The action whose turn it is, one type to a file                         *)
Kind(t) == KeyOf(call[t].item, call[t].next).type

ToExecute(t) == Acting(t) /\ KeyOf(call[t].item, call[t].next) \notin call[t].item.executed

CreatesTicket(t) == Acting(t) /\ Kind(t) = "create_ticket"

CountReadable == Len(SelectSeq(tickets, LAMBDA line : line.readable))

(* count: the newlines, whatever is between them *)
Count == Len(tickets)

Counts(t) ==
  /\ ToExecute(t) /\ CreatesTicket(t) /\ number[t] = 0
  /\ number' = [number EXCEPT ![t] = 1001 + Count]
  /\ UNCHANGED <<vars, tickets, torn, records, past>>

Chosen(t) == CreatesTicket(t) => number[t] # 0

Writing(t) == ToExecute(t) /\ Chosen(t)

Forget(t) == number' = [number EXCEPT ![t] = 0]

(* append and the newline behind it: whatever stood there is ended as well *)
Ended(t, id, line) ==
  /\ tickets' = IF CreatesTicket(t)
                THEN Append(tickets, [number |-> number[t], readable |-> Kind(t) \notin torn])
                ELSE tickets
  /\ torn' = torn \ {Kind(t)}
  /\ IF Kind(t) \in torn
     THEN glued' = glued \cup {id} /\ UNCHANGED records
     ELSE records' = [records EXCEPT ![id] = Append(@, line)] /\ UNCHANGED glued

(* Execute that succeeds *)
Appends(t) ==
  /\ Execute(t) /\ Writing(t)
  /\ Ended(t, call[t].id, [key |-> KeyOf(call[t].item, call[t].next), class |-> call[t].item.class])
  /\ Forget(t)
  /\ UNCHANGED <<spoiled, losses>>

Loses(ids) ==
  /\ losses < MaxLosses
  /\ losses' = losses + 1
  /\ spoiled' = spoiled \cup ids
  /\ UNCHANGED glued

(* Execute that fails: at the count, or at the write, half way or before *)
AppendFails(t) ==
  /\ ExecuteFails(t)
  /\ \/ Writing(t) /\ torn' = torn \cup {Kind(t)} /\ Loses({})
     \/ UNCHANGED <<torn, past>>
  /\ Forget(t)
  /\ UNCHANGED <<tickets, records>>

LosesPut(t) == PutFails(t) /\ Loses({call[t].id}) /\ UNCHANGED sink

(* A process that dies may do so half way through its line *)
DiesWriting(p) ==
  /\ Crash(p)
  /\ LET busy == {t \in Threads : ProcOf[t] = p /\ call[t].pc # "idle"}
     IN /\ Loses({call[t].id : t \in busy})
        /\ \/ \E t \in busy : Writing(t) /\ torn' = torn \cup {Kind(t)}
           \/ UNCHANGED torn
        /\ number' = [t \in Threads |-> IF t \in busy THEN 0 ELSE number[t]]
  /\ UNCHANGED <<tickets, records>>

Others(t) == PutAccepted(t) \/ PutClassified(t) \/ Skip(t) \/ PutRouted(t)

SinkNext ==
  \/ \E t \in Threads : Counts(t) \/ Appends(t) \/ AppendFails(t) \/ LosesPut(t)
  \/ \E t \in Threads : (Start(t) \/ Others(t)) /\ UNCHANGED <<sink, past>>
  \/ \E t \in Threads : DiesWriting(ProcOf[t])

SinkSpec == SinkInit /\ [][SinkNext]_<<vars, sink, past>>

-----------------------------------------------------------------------------
(* No two tickets are given one number (actions.go:80-87), although writes  *)
(* fail half way and their lines cannot be read, as long as one process     *)
(* writes at a time.                                                        *)
NumbersAreUnique ==
  \A m, n \in DOMAIN tickets : m # n => tickets[m].number # tickets[n].number

(* "Re-routing, reclassifying or approving never pages twice"              *)
(* (README.md:168-169): so it is for every item whose calls all came to    *)
(* the end of their last Put, whichever of its actions failed.             *)
PagesOnceUnlessLost == \A id \in Ids \ spoiled : PagedOnce(outbox[id])

(* "Every automatic action is logged [...] both in the item's audit trail  *)
(* and in the outbox record" (README.md:166-167), and the two displays of  *)
(* it are one (TestActionsFromItemsMatchesOutbox): between calls, the feed *)
(* rebuilt from the trail of such an item is what ReadOutbox reads, line   *)
(* for line.  After a lost Put or a death the outbox may hold more, and    *)
(* after a line was glued to a torn piece it may be read as less.          *)
FeedIsOutbox ==
  (\A t \in Threads : call[t].pc = "idle") =>
    \A id \in Ids :
      /\ id \notin spoiled => Range(records[id]) \subseteq Range(FeedOf(id))
      /\ id \notin glued => Range(FeedOf(id)) \subseteq Range(records[id])
      /\ id \notin spoiled \cup glued => FeedOf(id) = records[id]

(* Decided, and each action ordered was taken or is in the trail as failed *)
Tried(item) ==
  /\ item.decision # Nil
  /\ \A i \in DOMAIN item.decision.actions :
       LET key == KeyOf(item, i)
       IN key \in item.executed \/ Entry("error", Nil, key) \in Range(item.events)

(* "Low confidence always defers to a human" (README.md:163), and high     *)
(* confidence is acted on: a delivery of such an item is ignored only once *)
(* the item is decided, with a person if its label needs one, and with     *)
(* every action its decision orders taken, or its failure in the trail     *)
(* (pipeline.go:172-174, :299-308).                                        *)
DefersUnlessLost ==
  [][\A t \in Threads, id \in Ids \ spoiled :
       ProcessIgnored(t, id) => Deferred(id) /\ Tried(store[id])]_<<vars, past>>
=============================================================================

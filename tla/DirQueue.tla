------------------------------ MODULE DirQueue ------------------------------
(***************************************************************************)
(* The local queue (internal/ingest/queue.go): files in three directories  *)
(* that several processes share, and the processes that drain it through   *)
(* Service.RunOnce: the worker with its Recover at the start, the worker   *)
(* under -once, icr ingest -process, and the dashboard's inline drain.     *)
(*                                                                         *)
(* A step is one file operation (a ReadDir, a Rename, a ReadFile, a        *)
(* Remove, a write renamed into place) or the processing of one message.   *)
(* The service is what RunOnce sees of it: Process answers or fails.       *)
(*                                                                         *)
(* A file is named by the time it was queued and its ticket, and Nack      *)
(* writes it back under the same name, so a message is its name and names  *)
(* sort by age.  Of its content the attempts count is kept.  Left out: the *)
(* drop zone and the webhook, which only send; two tickets of one ID sent  *)
(* in the same nanosecond.                                                 *)
(***************************************************************************)
EXTENDS Naturals, FiniteSetsExt

CONSTANTS
  Names,        \* file names, the older the smaller
  Damaged,      \* the names whose content does not decode
  Receivers,    \* processes that drain the queue
  KindOf,       \* "worker", "once", "cli" or "inline": how each of them does
  Batch,        \* the max of a Receive
  MaxAttempts,  \* the constant of that name
  Faults,       \* of "process", "crash", "midnack", "io": what can go wrong
  MaxCrashes,   \* bound: processes that die
  MaxRuns,      \* bound: runs of -once, icr and the dashboard that begin
  Absent        \* no file

Kinds == {"worker", "once", "cli", "inline"}

ASSUME QueueAssumption ==
  /\ Names \subseteq Nat /\ Damaged \subseteq Names
  /\ KindOf \in [Receivers -> Kinds]
  /\ Batch \in Nat \ {0} /\ MaxAttempts \in Nat \ {0}
  /\ MaxCrashes \in Nat /\ MaxRuns \in Nat
  /\ Absent \notin Nat \cup Receivers

(* A directory: the attempts recorded in each file, Absent if there is none *)
Folder == [Names -> 0 .. MaxAttempts \cup {Absent}]

PCs == {"down", "recovering", "idle", "claiming", "reading", "discarding", "next",
        "processing", "acking", "nacking", "returning"}

VARIABLES
  pending, inflight, dead,       \* the three directories
  pc, todo, hand, count, failed, \* each receiver: where it is, the names it has listed,
                                 \* the messages it holds with the attempts it read, and
                                 \* RunOnce's processed and whether it has an error
  sent,                          \* the names that were queued
  tried,                         \* how often the processing of each was begun
  handled,                       \* those whose processing succeeded
  crashes, runs

queue == <<pending, inflight, dead>>
batch == <<todo, hand, count, failed>>
history == <<sent, tried, handled>>
bounds == <<crashes, runs>>
vars == <<queue, pc, batch, history, bounds>>

Empty == [n \in Names |-> Absent]
In(folder) == {n \in Names : folder[n] # Absent}

Init == /\ pending = Empty /\ inflight = Empty /\ dead = Empty
        /\ pc = [r \in Receivers |-> "down"]
        /\ todo = [r \in Receivers |-> {}]
        /\ hand = [r \in Receivers |-> Empty]
        /\ count = [r \in Receivers |-> 0]
        /\ failed = [r \in Receivers |-> FALSE]
        /\ sent = {} /\ handled = {}
        /\ tried = [n \in Names |-> 0]
        /\ crashes = 0 /\ runs = 0

Goto(r, to) == pc' = [pc EXCEPT ![r] = to]

(* Send: a message without attempts, renamed into pending *)
Send(n) ==
  /\ n \notin sent
  /\ sent' = sent \cup {n}
  /\ pending' = [pending EXCEPT ![n] = 0]
  /\ UNCHANGED <<inflight, dead, pc, batch, tried, handled, bounds>>

-----------------------------------------------------------------------------
(* A receiver starts.  Only the worker recovers, under -once too.          *)

NeverRecovers(r) == FALSE
EveryoneRecovers(r) == TRUE

Recovers(r) == KindOf[r] \in {"worker", "once"}

(* At to, with nothing listed, nothing in hand and RunOnce not begun *)
Fresh(r, to, listed) ==
  /\ Goto(r, to)
  /\ todo' = [todo EXCEPT ![r] = listed]
  /\ hand' = [hand EXCEPT ![r] = Empty]
  /\ count' = [count EXCEPT ![r] = 0]
  /\ failed' = [failed EXCEPT ![r] = FALSE]

Begin(r) ==
  /\ pc[r] = "down"
  /\ IF KindOf[r] = "worker" THEN UNCHANGED runs ELSE runs < MaxRuns /\ runs' = runs + 1
  /\ \/ Recovers(r) /\ Fresh(r, "recovering", In(inflight))
     \/ ~Recovers(r) /\ Fresh(r, "idle", {})
  /\ UNCHANGED <<queue, history, crashes>>

(* One turn of Recover's loop: a file that is gone by now, or that cannot  *)
(* be renamed, is skipped.                                                 *)
Recover(r) ==
  /\ pc[r] = "recovering" /\ todo[r] # {}
  /\ LET n == Min(todo[r])
     IN /\ todo' = [todo EXCEPT ![r] = @ \ {n}]
        /\ \/ /\ inflight[n] = Absent \/ "io" \in Faults
              /\ UNCHANGED <<pending, inflight>>
           \/ /\ inflight[n] # Absent
              /\ pending' = [pending EXCEPT ![n] = inflight[n]]
              /\ inflight' = [inflight EXCEPT ![n] = Absent]
  /\ UNCHANGED <<dead, pc, hand, count, failed, history, bounds>>

Recovered(r) ==
  /\ pc[r] = "recovering" /\ todo[r] = {}
  /\ Goto(r, "idle")
  /\ UNCHANGED <<queue, batch, history, bounds>>

-----------------------------------------------------------------------------
(* RunOnce returns.  The worker comes back whatever happened; -once stops  *)
(* when nothing was processed, icr at an error too, the dashboard always.  *)
GoesOn(r, processed, err) ==
  \/ KindOf[r] = "worker"
  \/ KindOf[r] = "once" /\ processed > 0
  \/ KindOf[r] = "cli" /\ processed > 0 /\ ~err

RunEnds(r, processed, err) ==
  Fresh(r, IF GoesOn(r, processed, err) THEN "idle" ELSE "down", {})

(* Receive: the listing, then one rename and one read per message *)
List(r) ==
  /\ pc[r] = "idle"
  /\ Goto(r, "claiming")
  /\ todo' = [todo EXCEPT ![r] = In(pending)]
  /\ UNCHANGED <<queue, hand, count, failed, history, bounds>>

Full(r) == todo[r] = {} \/ Cardinality(In(hand[r])) >= Batch

(* Another receiver was faster: the next name *)
Missed(r) ==
  /\ pc[r] = "claiming" /\ ~Full(r)
  /\ pending[Min(todo[r])] = Absent
  /\ todo' = [todo EXCEPT ![r] = @ \ {Min(todo[r])}]
  /\ UNCHANGED <<queue, pc, hand, count, failed, history, bounds>>

ClaimCopies(r) ==
  /\ pc[r] = "claiming" /\ ~Full(r)
  /\ LET n == Min(todo[r])
     IN /\ pending[n] # Absent
        /\ inflight' = [inflight EXCEPT ![n] = pending[n]]
  /\ Goto(r, "reading")
  /\ UNCHANGED <<pending, dead, batch, history, bounds>>

Claim(r) ==
  /\ pc[r] = "claiming" /\ ~Full(r)
  /\ LET n == Min(todo[r])
     IN /\ pending[n] # Absent
        /\ pending' = [pending EXCEPT ![n] = Absent]
        /\ inflight' = [inflight EXCEPT ![n] = pending[n]]
  /\ Goto(r, "reading")
  /\ UNCHANGED <<dead, batch, history, bounds>>

Read(r) ==
  /\ pc[r] = "reading"
  /\ LET n == Min(todo[r])
     IN /\ inflight[n] # Absent
        /\ \/ /\ n \in Damaged
              /\ Goto(r, "discarding")
              /\ UNCHANGED <<todo, hand>>
           \/ /\ n \notin Damaged
              /\ todo' = [todo EXCEPT ![r] = @ \ {n}]
              /\ hand' = [hand EXCEPT ![r][n] = inflight[n]]
              /\ Goto(r, "claiming")
  /\ UNCHANGED <<queue, count, failed, history, bounds>>

DiscardDeletes(r) ==
  /\ pc[r] = "discarding"
  /\ LET n == Min(todo[r])
     IN /\ todo' = [todo EXCEPT ![r] = @ \ {n}]
        /\ inflight' = [inflight EXCEPT ![n] = Absent]
  /\ Goto(r, "claiming")
  /\ UNCHANGED <<pending, dead, hand, count, failed, history, bounds>>

(* A message that does not decode is renamed into dead, whether that       *)
(* succeeds or not.                                                        *)
Discard(r) ==
  /\ pc[r] = "discarding"
  /\ LET n == Min(todo[r])
     IN /\ todo' = [todo EXCEPT ![r] = @ \ {n}]
        /\ \/ /\ inflight[n] = Absent \/ "io" \in Faults
              /\ UNCHANGED <<inflight, dead>>
           \/ /\ inflight[n] # Absent
              /\ dead' = [dead EXCEPT ![n] = inflight[n]]
              /\ inflight' = [inflight EXCEPT ![n] = Absent]
  /\ Goto(r, "claiming")
  /\ UNCHANGED <<pending, hand, count, failed, history, bounds>>

(* Receive fails with messages claimed; RunOnce drops them and returns 0.  *)
(* The file claimed a moment ago may be gone, or "io" fails an operation.  *)
ReceiveFails(r) ==
  /\ \/ pc[r] = "reading" /\ inflight[Min(todo[r])] = Absent
     \/ "io" \in Faults /\ (pc[r] \in {"idle", "reading"} \/ (pc[r] = "claiming" /\ ~Full(r)))
  /\ RunEnds(r, 0, TRUE)
  /\ UNCHANGED <<queue, history, bounds>>

Received(r) ==
  /\ pc[r] = "claiming" /\ Full(r)
  /\ Goto(r, "next")
  /\ UNCHANGED <<queue, batch, history, bounds>>

-----------------------------------------------------------------------------
(* RunOnce's loop over the batch, one message at a time, the oldest first  *)

Current(r) == Min(In(hand[r]))

Process(r) ==
  /\ pc[r] = "next" /\ In(hand[r]) # {}
  /\ tried' = [tried EXCEPT ![Current(r)] = @ + 1]
  /\ Goto(r, "processing")
  /\ UNCHANGED <<queue, batch, sent, handled, bounds>>

Processed(r) ==
  /\ pc[r] = "processing"
  /\ handled' = handled \cup {Current(r)}
  /\ Goto(r, "acking")
  /\ UNCHANGED <<queue, batch, sent, tried, bounds>>

ProcessFails(r) ==
  /\ "process" \in Faults
  /\ pc[r] = "processing"
  /\ Goto(r, "nacking")
  /\ UNCHANGED <<queue, batch, history, bounds>>

(* The receiver lets go of its message and takes the next one *)
Dropped(r, processed, err) ==
  /\ Goto(r, "next")
  /\ hand' = [hand EXCEPT ![r][Current(r)] = Absent]
  /\ count' = [count EXCEPT ![r] = @ + processed]
  /\ failed' = [failed EXCEPT ![r] = @ \/ err]

(* Ack: the file may be gone already, the message counts as processed *)
Ack(r) ==
  /\ pc[r] = "acking"
  /\ inflight' = [inflight EXCEPT ![Current(r)] = Absent]
  /\ Dropped(r, 1, inflight[Current(r)] = Absent)
  /\ UNCHANGED <<pending, dead, todo, history, bounds>>

AckFails(r) ==
  /\ "io" \in Faults
  /\ pc[r] = "acking"
  /\ Dropped(r, 1, TRUE)
  /\ UNCHANGED <<queue, todo, history, bounds>>

(* Nack removes the file, whether that succeeds or not, and writes another *)
NackRemoves(r) ==
  /\ pc[r] = "nacking"
  /\ \/ inflight' = [inflight EXCEPT ![Current(r)] = Absent]
     \/ "io" \in Faults /\ UNCHANGED inflight
  /\ Goto(r, "returning")
  /\ UNCHANGED <<pending, dead, batch, history, bounds>>

ExhaustedTooLate(attempts) == attempts > MaxAttempts
ExhaustedTooEarly(attempts) == attempts + 1 >= MaxAttempts

Exhausted(attempts) == attempts >= MaxAttempts

NackWritesUncounted(r) ==
  /\ pc[r] = "returning"
  /\ LET n == Current(r)
     IN pending' = [pending EXCEPT ![n] = hand[r][n]]
  /\ Dropped(r, 0, TRUE)
  /\ UNCHANGED <<inflight, dead, todo, history, bounds>>

NackWrites(r) ==
  /\ pc[r] = "returning"
  /\ LET n == Current(r)
         attempts == hand[r][n] + 1
     IN \/ /\ Exhausted(attempts)
           /\ dead' = [dead EXCEPT ![n] = attempts]
           /\ UNCHANGED pending
        \/ /\ ~Exhausted(attempts)
           /\ pending' = [pending EXCEPT ![n] = attempts]
           /\ UNCHANGED dead
  /\ Dropped(r, 0, TRUE)
  /\ UNCHANGED <<inflight, todo, history, bounds>>

NackFails(r) ==
  /\ "io" \in Faults
  /\ pc[r] = "returning"
  /\ Dropped(r, 0, TRUE)
  /\ UNCHANGED <<queue, todo, history, bounds>>

BatchEnds(r) ==
  /\ pc[r] = "next" /\ In(hand[r]) = {}
  /\ RunEnds(r, count[r], failed[r])
  /\ UNCHANGED <<queue, history, bounds>>

(* A process dies: between the two halves of a Nack only under "midnack" *)
Crash(r) ==
  /\ pc[r] # "down" /\ crashes < MaxCrashes
  /\ (IF pc[r] = "returning" THEN "midnack" ELSE "crash") \in Faults
  /\ Fresh(r, "down", {})
  /\ crashes' = crashes + 1
  /\ UNCHANGED <<queue, history, runs>>

Step(r) ==
  \/ Recover(r) \/ Recovered(r)
  \/ List(r) \/ Missed(r) \/ Claim(r) \/ Read(r) \/ Discard(r)
  \/ ReceiveFails(r) \/ Received(r)
  \/ Process(r) \/ Processed(r) \/ ProcessFails(r)
  \/ Ack(r) \/ AckFails(r) \/ NackRemoves(r) \/ NackWrites(r) \/ NackFails(r) \/ BatchEnds(r)

Next == \/ \E n \in Names : Send(n)
        \/ \E r \in Receivers : Begin(r) \/ Step(r) \/ Crash(r)

Spec == Init /\ [][Next]_vars

(* A running process goes on, and the worker is started again *)
FairSpec == /\ Spec
            /\ \A r \in Receivers : WF_vars(Step(r))
            /\ \A r \in Receivers : KindOf[r] = "worker" => WF_vars(Begin(r))

-----------------------------------------------------------------------------
(* Types, the count of attempts never beyond MaxAttempts included. *)
TypeOK ==
  /\ pending \in Folder /\ inflight \in Folder /\ dead \in Folder
  /\ pc \in [Receivers -> PCs]
  /\ todo \in [Receivers -> SUBSET Names]
  /\ hand \in [Receivers -> Folder]
  /\ count \in [Receivers -> Nat]
  /\ failed \in [Receivers -> BOOLEAN]
  /\ sent \subseteq Names /\ handled \subseteq sent
  /\ tried \in [Names -> Nat]
  /\ crashes \in 0 .. MaxCrashes /\ runs \in 0 .. MaxRuns

(* What a receiver has claimed: in hand, or being read *)
Holds(r) == In(hand[r]) \cup (IF pc[r] \in {"reading", "discarding"}
                            THEN {Min(todo[r])} ELSE {})

(* "Claimed messages are invisible to other receivers until Ack'd or       *)
(* Nack'd" (queue.go:19-20): no two hold the same message.                 *)
ClaimedIsInvisible == \A r, s \in Receivers : r # s => Holds(r) \cap Holds(s) = {}

OnDisk(n) == pending[n] # Absent \/ inflight[n] # Absent \/ dead[n] # Absent

(* Until a message was processed it is in a directory or in a receiver's   *)
(* hands: "Nack returns a message for retry, or dead-letters it"           *)
(* (queue.go:23).                                                          *)
NothingLost == \A n \in sent \ handled : OnDisk(n) \/ \E r \in Receivers : n \in Holds(r)

(* Nothing that was processed is dead-lettered, and what is, was tried     *)
(* MaxAttempts times or could not be read.                                 *)
DeadWasHopeless ==
  \A n \in In(dead) : n \in Damaged \/ (n \notin handled /\ tried[n] >= MaxAttempts)

(* A try beyond MaxAttempts ("before a message moves to the dead-letter     *)
(* directory", queue.go:36) is the repetition of one a crash cut short.    *)
ExtraTriesAreCrashes == \A n \in Names : tried[n] <= MaxAttempts + crashes

(* Every message is processed or dead-lettered in the end. *)
EveryMessageEnds ==
  \A n \in Names : n \in sent ~> n \in handled \/ n \in In(dead)

-----------------------------------------------------------------------------
(* The interface's promise, with Absent for Nobody                         *)

Holder(n) == IF \E r \in Receivers : n \in Holds(r)
             THEN CHOOSE r \in Receivers : n \in Holds(r)
             ELSE Absent

State(n) == CASE n \notin sent -> "unsent"
              [] pending[n] # Absent -> "ready"
              [] dead[n] # Absent -> "dead"
              [] inflight[n] # Absent \/ Holder(n) # Absent -> "claimed"
              [] OTHER -> "acked"

Attempts(n) == CASE pending[n] # Absent -> pending[n]
                 [] dead[n] # Absent -> dead[n]
                 [] inflight[n] # Absent -> inflight[n]
                 [] inflight[n] = Absent /\ Holder(n) # Absent -> hand[Holder(n)][n]
                 [] OTHER -> 0

Contract == INSTANCE Queue WITH
  Messages <- Names, Nobody <- Absent,
  state <- [n \in Names |-> State(n)],
  holder <- [n \in Names |-> Holder(n)],
  attempts <- [n \in Names |-> Attempts(n)]

(* With one receiver, or several that never recover, the directories are a *)
(* queue as the interface describes it (queue.go:15-25).                   *)
ImplementsContract == Contract!Spec
=============================================================================

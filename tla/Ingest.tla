------------------------------- MODULE Ingest -------------------------------
(***************************************************************************)
(* How a ticket enters the pipeline and reaches a worker:                  *)
(* Service.IngestIn (internal/pipeline/pipeline.go), which stores it and   *)
(* then queues it, behind the drop zone and the webhook                    *)
(* (internal/ingest/entrypoints.go, internal/awsapp/handlers.go), icr      *)
(* ingest (cmd/cli/main.go) and the dashboard's form                       *)
(* (internal/dashboard/submit.go); and the loop of cmd/worker/main.go that *)
(* scans the drop zone and drains the queue, which icr -process and the    *)
(* dashboard do as well.                                                   *)
(*                                                                         *)
(* The queue is the local one's directories (internal/ingest/queue.go),    *)
(* one file at a time: a Receive lists, then claims and reads each message *)
(* by itself; a Nack removes before it writes; and the Recover of a worker *)
(* that starts puts back every file in flight, also what a process that    *)
(* is alive holds.  The lock of a process is Service's: it covers the      *)
(* store's read and write, and neither the Send that follows nor anything  *)
(* of the queue.  Left out: whether a Nack has used up the attempts, which *)
(* DirQueue counts, here it may go either way; damaged files, which        *)
(* DirQueue has as well; a Recover that cannot list, after which the       *)
(* worker has not started; and requests the webhook turns away for their   *)
(* token or size, which change nothing.                                    *)
(***************************************************************************)
EXTENDS Service, Ticket

CONSTANTS
  RolesOf,      \* of "worker", "webhook", "cli", "submit", what each caller may be
  Payloads,     \* what clients post and icr reads
  Forms,        \* what visitors of the dashboard submit, <<workspace, form>>
  Files,        \* drop-zone files by name, sorted as numbers
  FilePayloads, \* what they may hold
  Batch,        \* the max of a RunOnce
  MaxMessages,  \* bound: messages, checked not to be reached
  MaxVisits,    \* bound: payloads and forms taken
  MaxFailures   \* bound: calls, Sends and file operations that fail, and crashes

Roles == {"worker", "webhook", "cli", "submit"}

(* Beside Service's faults: "send", the queue refuses a message, and "io",  *)
(* a file operation of Scan or the queue fails.                             *)
ASSUME IngestAssumption ==
  /\ RolesOf \in [Threads -> SUBSET Roles]
  /\ Files \subseteq Nat
  /\ {Batch, MaxMessages, MaxVisits, MaxFailures} \subseteq Nat
  /\ Nil \notin Threads

Messages == 1 .. MaxMessages

(* What comes in, normalized                                               *)
Tickets ==
  ({Normalize(p, "") : p \in Payloads \cup FilePayloads}
   \cup {Normalize(SubmissionPayload(f[2]), f[1]) : f \in Forms}) \ {Invalid}

(* What a visitor types is text, whatever the form says beside it           *)
ASSUME FormsAssumption == \A f \in Forms : f[2].message \in Seq(STRING)

ASSUME IdsAssumption == Nil \notin Tickets \cup {Invalid} /\ \A k \in Tickets : TicketID(k) \in Ids

VARIABLES
  role,                     \* of each caller
  stage,                    \* where it is
  todo,                     \* Scan: the files it has listed and not begun
  ticket,                   \* the ticket it ingests, Nil or Invalid
  listed,                   \* Receive or Recover: the files it has listed and not tried
  batch,                    \* RunOnce: the messages it has received and not settled
  processed, erred,         \* RunOnce: whether a message was, and whether one failed
  holds,                    \* the payload of each file
  place,                    \* the drop zone's directory it is in
  sent,                     \* the ticket and the sender of each message, in order
  pending, inflight, dead,  \* the queue's directories, the messages by their numbers
  content,                  \* history: the ticket stored under each ID
  told,                     \* history: tickets whose ID a client or visitor was given
  dropped,                  \* history: IDs stored by a call that ended before its Send
  refused,                  \* history: files whose own Ingest the store or queue failed
  cut,                      \* history: IDs of calls of Process that failed or died
  lost,                     \* history: messages a Nack removed and did not write
  left,                     \* history: messages in inflight/ that a failing Receive or
                            \* Recover, or icr or the dashboard as it died, left there
  visits, failures

queue == <<sent, pending, inflight, dead>>
loop == <<todo, listed, batch, processed, erred>>
ends == <<lost, left>>
history == <<content, told, dropped, refused, cut, ends>>
bounds == <<visits, failures>>
fixed == <<holds, role>>
ingest == <<fixed, stage, ticket, loop, place, queue, history, bounds>>
every == <<vars, ingest>>

IDOf(m) == TicketID(sent[m].ticket)

RestStage(t) == IF role[t] = "worker" THEN "down" ELSE "idle"

IngestInit ==
  /\ Init
  /\ role \in {r \in [Threads -> Roles] : \A t \in Threads : r[t] \in RolesOf[t]}
  /\ stage = [t \in Threads |-> RestStage(t)]
  /\ todo = [t \in Threads |-> {}]
  /\ listed = [t \in Threads |-> {}]
  /\ ticket = [t \in Threads |-> Nil]
  /\ batch = [t \in Threads |-> {}]
  /\ processed = [t \in Threads |-> FALSE]
  /\ erred = [t \in Threads |-> FALSE]
  /\ holds \in [Files -> FilePayloads]
  /\ place = [f \in Files |-> "outside"]
  /\ sent = <<>>
  /\ pending = {} /\ inflight = {} /\ dead = {}
  /\ content = [id \in Ids |-> Nil]
  /\ told = {} /\ dropped = {} /\ refused = {} /\ cut = {} /\ lost = {} /\ left = {}
  /\ visits = 0 /\ failures = 0

Goto(t, to) == stage' = [stage EXCEPT ![t] = to]

Fails == failures < MaxFailures /\ failures' = failures + 1

Failing(fault) == fault \in Faults /\ Fails /\ UNCHANGED visits

(* A failure in the answer to a failure, which is counted already *)
FailingAgain(fault) == fault \in Faults /\ UNCHANGED bounds

(* A call of the service that fails counts as well *)
Bounded(t) == IF call'[t].result = "error" THEN Fails ELSE UNCHANGED failures

-----------------------------------------------------------------------------
(* IngestIn.  An answer is "queued", "duplicate", "invalid" or "error".    *)

(* Of the worker, the file at hand *)
FileOf(t) == IF role[t] = "worker" THEN {Min(todo[t])} ELSE {}

(* Normalize, and accept's Get *)
Ingests(t, payload, workspace) ==
  LET new == Normalize(payload, workspace)
  IN /\ ticket' = [ticket EXCEPT ![t] = new]
     /\ Goto(t, "ingesting")
     /\ \/ new = Invalid /\ UNCHANGED <<vars, refused, failures>>
        \/ new # Invalid /\ Accept(t, TicketID(new)) /\ UNCHANGED <<refused, failures>>
        \/ new # Invalid /\ GetFails(t) /\ refused' = refused \cup FileOf(t) /\ Fails
     /\ UNCHANGED <<fixed, loop, place, queue, content, told, dropped, cut, ends>>

Returned(t) == stage[t] = "ingesting" /\ call[t].pc = "idle"

Accepted(t) == Returned(t) /\ ticket[t] # Invalid /\ call[t].result = "ok"

AfterIngestWhatever(t, answer) ==
  CASE role[t] = "worker"  -> "processed"
    [] role[t] = "submit"  -> IF answer = "queued" THEN "receiving" ELSE "idle"
    [] role[t] = "cli"     -> "between"
    [] role[t] = "webhook" -> "idle"

(* What each entry point does with the answer: the webhook replies, Scan    *)
(* moves the file, icr reads the next file, and the dashboard redirects,    *)
(* after draining the queue for a new ticket if it has a local one.         *)
AfterIngest(t, answer) ==
  CASE role[t] = "worker"  -> IF answer \in {"queued", "duplicate"} THEN "processed" ELSE "rejected"
    [] role[t] = "submit"  -> IF answer = "queued" THEN "receiving" ELSE "idle"
    [] role[t] = "cli"     -> "between"
    [] role[t] = "webhook" -> "idle"

Answer(t, answer) ==
  /\ Goto(t, AfterIngest(t, answer))
  /\ told' = IF role[t] # "worker" /\ answer \in {"queued", "duplicate"}
             THEN told \cup {ticket[t]} ELSE told
  /\ ticket' = [ticket EXCEPT ![t] = Nil]
  /\ UNCHANGED <<vars, fixed, loop, place, content, cut, ends>>

(* Queue.Send *)
Queues(t) ==
  /\ Len(sent) < MaxMessages
  /\ sent' = Append(sent, [ticket |-> ticket[t], by |-> ProcOf[t]])
  /\ pending' = pending \cup {Len(sent) + 1}
  /\ UNCHANGED <<inflight, dead>>

IngestEndsAnyway(t) ==
  /\ Returned(t) /\ ~Accepted(t)
  /\ Answer(t, IF ticket[t] = Invalid THEN "invalid" ELSE call[t].result)
  /\ IF ticket[t] # Invalid /\ call[t].result = "duplicate" THEN Queues(t) ELSE UNCHANGED queue
  /\ UNCHANGED <<dropped, refused, bounds>>

(* Invalid, not stored, or known already: nothing is sent *)
IngestEnds(t) ==
  /\ Returned(t) /\ ~Accepted(t)
  /\ Answer(t, IF ticket[t] = Invalid THEN "invalid" ELSE call[t].result)
  /\ UNCHANGED <<queue, dropped, refused, bounds>>

(* After the lock is released *)
Sends(t) ==
  /\ Accepted(t)
  /\ Queues(t)
  /\ Answer(t, "queued")
  /\ UNCHANGED <<dropped, refused, bounds>>

SendFails(t) ==
  /\ Accepted(t)
  /\ Failing("send")
  /\ dropped' = dropped \cup {TicketID(ticket[t])}
  /\ refused' = refused \cup FileOf(t)
  /\ Answer(t, "error")
  /\ UNCHANGED queue

-----------------------------------------------------------------------------
(* The entry points                                                        *)

Visited == visits < MaxVisits /\ visits' = visits + 1

(* The worker listens once Recover is through *)
Listening(t) ==
  \A u \in Threads : ProcOf[u] = ProcOf[t] => stage[u] \notin {"down", "recovering"}

(* POST /tickets, and icr ingest with one file after the other *)
Posted(t) ==
  /\ \/ role[t] = "webhook" /\ stage[t] = "idle" /\ Listening(t)
     \/ role[t] = "cli" /\ stage[t] \in {"idle", "between"}
  /\ Visited
  /\ \E p \in Payloads : Ingests(t, p, "")

Submitted(t, workspace, form) ==
  /\ role[t] = "submit" /\ stage[t] = "idle"
  /\ Visited
  /\ Ingests(t, SubmissionPayload(form), workspace)

(* icr after its last file: -process or not *)
FilesDone(t) ==
  /\ role[t] = "cli" /\ stage[t] = "between"
  /\ Goto(t, "receiving") \/ Goto(t, "idle")
  /\ UNCHANGED <<vars, fixed, ticket, loop, place, queue, history, bounds>>

(* A file is put into incoming/ *)
Dropped(f) ==
  /\ place[f] = "outside"
  /\ place' = [place EXCEPT ![f] = "incoming"]
  /\ UNCHANGED <<vars, fixed, stage, ticket, loop, queue, history, bounds>>

-----------------------------------------------------------------------------
(* The worker                                                              *)

StartsOnly(t) ==
  /\ role[t] = "worker" /\ stage[t] = "down"
  /\ Goto(t, "polling")
  /\ UNCHANGED <<vars, fixed, ticket, loop, place, queue, history, bounds>>

(* run: Recover lists inflight/ *)
Starts(t) ==
  /\ role[t] = "worker" /\ stage[t] = "down"
  /\ Goto(t, IF inflight = {} THEN "polling" ELSE "recovering")
  /\ listed' = [listed EXCEPT ![t] = inflight]
  /\ UNCHANGED <<vars, fixed, ticket, todo, batch, processed, erred, place, queue, history, bounds>>

(* and renames one file after the other; what fails stays *)
Recovers(t) ==
  /\ stage[t] = "recovering"
  /\ LET m == Min(listed[t])
         rest == listed[t] \ {m}
     IN /\ Goto(t, IF rest = {} THEN "polling" ELSE "recovering")
        /\ listed' = [listed EXCEPT ![t] = rest]
        /\ \/ /\ m \in inflight
              /\ inflight' = inflight \ {m} /\ pending' = pending \cup {m}
              /\ left' = left \ {m}
              /\ UNCHANGED bounds
           \/ m \notin inflight /\ UNCHANGED <<inflight, pending, left, bounds>>
           \/ /\ m \in inflight /\ Failing("io")
              /\ left' = left \cup {m}
              /\ UNCHANGED <<inflight, pending>>
  /\ UNCHANGED <<vars, fixed, ticket, todo, batch, processed, erred, place, sent, dead, content,
                 told, dropped, refused, cut, lost>>

(* Scan lists incoming/ *)
Scans(t) ==
  /\ role[t] = "worker" /\ stage[t] = "polling"
  /\ LET incoming == {f \in Files : place[f] = "incoming"}
     IN /\ Goto(t, IF incoming = {} THEN "receiving" ELSE "scanning")
        /\ todo' = [todo EXCEPT ![t] = incoming]
  /\ UNCHANGED <<vars, fixed, ticket, listed, batch, processed, erred, place, queue, history, bounds>>

ScansFile(t) ==
  /\ stage[t] = "scanning"
  /\ Ingests(t, holds[Min(todo[t])], "")
  /\ UNCHANGED visits

(* The file is renamed into processed/ or rejected/ *)
FilesAway(t) ==
  /\ stage[t] \in {"processed", "rejected"}
  /\ LET f == Min(todo[t])
     IN /\ Goto(t, IF todo[t] = {f} THEN "receiving" ELSE "scanning")
        /\ place' = [place EXCEPT ![f] = stage[t]]
        /\ todo' = [todo EXCEPT ![t] = @ \ {f}]
  /\ UNCHANGED <<vars, fixed, ticket, listed, batch, processed, erred, queue, history, bounds>>

(* A ReadFile or a Rename fails, and with it the Scan *)
ScanFails(t) ==
  /\ stage[t] \in {"scanning", "processed", "rejected"}
  /\ Failing("io")
  /\ Goto(t, "receiving")
  /\ todo' = [todo EXCEPT ![t] = {}]
  /\ UNCHANGED <<vars, fixed, ticket, listed, batch, processed, erred, place, queue, history>>

-----------------------------------------------------------------------------
(* RunOnce                                                                 *)

(* The worker drains until a RunOnce has processed nothing, icr until that  *)
(* or an error, the dashboard once.                                         *)
AfterRunOnce(t, some, err) ==
  CASE role[t] = "worker" -> IF some THEN "receiving" ELSE "polling"
    [] role[t] = "cli" -> IF some /\ ~err THEN "receiving" ELSE "idle"
    [] role[t] = "submit" -> "idle"

(* Receive goes on to the next file, until the batch is full; RunOnce ends  *)
(* where nothing was received.                                              *)
GoesOn(t, names, received) ==
  LET more == names # {} /\ Cardinality(received) < Batch
  IN /\ listed' = [listed EXCEPT ![t] = IF more THEN names ELSE {}]
     /\ batch' = [batch EXCEPT ![t] = received]
     /\ Goto(t, IF more THEN "claiming"
               ELSE IF received = {} THEN AfterRunOnce(t, FALSE, FALSE)
               ELSE "working")

(* The oldest first *)
Foremost(t) == Min(listed[t])

Lists(t) ==
  /\ stage[t] = "receiving"
  /\ GoesOn(t, pending, {})
  /\ UNCHANGED <<vars, fixed, ticket, todo, processed, erred, place, queue, history, bounds>>

(* Another receiver has claimed it *)
Misses(t) ==
  /\ stage[t] = "claiming" /\ Foremost(t) \notin pending
  /\ GoesOn(t, listed[t] \ {Foremost(t)}, batch[t])
  /\ UNCHANGED <<vars, fixed, ticket, todo, processed, erred, place, queue, history, bounds>>

Claims(t) ==
  /\ stage[t] = "claiming" /\ Foremost(t) \in pending
  /\ pending' = pending \ {Foremost(t)} /\ inflight' = inflight \cup {Foremost(t)}
  /\ Goto(t, "reading")
  /\ UNCHANGED <<vars, fixed, ticket, loop, place, sent, dead, history, bounds>>

Reads(t) ==
  /\ stage[t] = "reading" /\ Foremost(t) \in inflight
  /\ GoesOn(t, listed[t] \ {Foremost(t)}, batch[t] \cup {Foremost(t)})
  /\ UNCHANGED <<vars, fixed, ticket, todo, processed, erred, place, queue, history, bounds>>

(* What a receiver has claimed, read or not *)
Claimed(t) == batch[t] \cup IF stage[t] = "reading" THEN {Foremost(t)} ELSE {}

GivesUp(t) ==
  /\ Goto(t, AfterRunOnce(t, FALSE, TRUE))
  /\ listed' = [listed EXCEPT ![t] = {}]
  /\ left' = left \cup (Claimed(t) \cap inflight)
  /\ UNCHANGED <<vars, fixed, ticket, todo, processed, erred, place, queue, content, told, dropped,
                 refused, cut, lost>>

CannotReceive(t) ==
  \/ stage[t] = "receiving" /\ Failing("io")
  \/ stage[t] = "claiming" /\ Foremost(t) \in pending /\ Failing("io")
  \/ stage[t] = "reading" /\ Foremost(t) \in inflight /\ Failing("io")
  \/ stage[t] = "reading" /\ Foremost(t) \notin inflight /\ UNCHANGED bounds

ReceiveFailsHolding(t) == CannotReceive(t) /\ GivesUp(t) /\ UNCHANGED batch

(* RunOnce does nothing with the messages of a Receive that fails, be it    *)
(* because a Recover has taken back what it was about to read.              *)
ReceiveFails(t) ==
  /\ CannotReceive(t)
  /\ GivesUp(t)
  /\ batch' = [batch EXCEPT ![t] = {}]

(* RunOnce goes through its batch in the order it was queued *)
Current(t) == Min(batch[t])

Works(t) ==
  /\ stage[t] = "working" /\ batch[t] # {}
  /\ Goto(t, "processing")
  /\ LET id == IDOf(Current(t))
     IN \/ GetFails(t)
        \/ ProcessIgnored(t, id)
        \/ \E answer \in Answers, failed \in BOOLEAN : Process(t, id, answer, failed)
  /\ Bounded(t)
  /\ UNCHANGED <<fixed, ticket, loop, place, queue, history, visits>>

Finished(t) == stage[t] = "processing" /\ call[t].pc = "idle"

MessageEnds(t) ==
  /\ Goto(t, "working")
  /\ batch' = [batch EXCEPT ![t] = @ \ {Current(t)}]
  /\ UNCHANGED <<vars, fixed, ticket, todo, listed, place, sent, content, told, dropped, refused, cut>>

(* The file is removed, or is gone already *)
Removes(t) ==
  /\ inflight' = inflight \ {Current(t)}
  /\ left' = left \ {Current(t)}

Acking(t) ==
  /\ MessageEnds(t)
  /\ \/ /\ Removes(t)
        /\ erred' = [erred EXCEPT ![t] = @ \/ Current(t) \notin inflight]
        /\ UNCHANGED bounds
     \/ /\ Failing("io")
        /\ erred' = [erred EXCEPT ![t] = TRUE]
        /\ UNCHANGED <<inflight, left>>
  /\ processed' = [processed EXCEPT ![t] = TRUE]
  /\ UNCHANGED <<pending, dead, lost>>

AcksWhatever(t) == Finished(t) /\ Acking(t)

Acks(t) == Finished(t) /\ call[t].result # "error" /\ Acking(t)

(* Nack does not mind whether its Remove fails *)
NackRemoves(t) ==
  /\ Finished(t) /\ call[t].result = "error"
  /\ Goto(t, "returning")
  /\ \/ Removes(t) /\ UNCHANGED bounds
     \/ FailingAgain("io") /\ UNCHANGED <<inflight, left>>
  /\ UNCHANGED <<vars, fixed, ticket, loop, place, sent, pending, dead, content, told, dropped,
                 refused, cut, lost>>

(* and writes it anew: for another attempt, or all attempts are used up *)
NackWrites(t) ==
  /\ stage[t] = "returning"
  /\ MessageEnds(t)
  /\ \/ pending' = pending \cup {Current(t)} /\ UNCHANGED dead
     \/ dead' = dead \cup {Current(t)} /\ UNCHANGED pending
  /\ erred' = [erred EXCEPT ![t] = TRUE]
  /\ UNCHANGED <<processed, inflight, ends, bounds>>

NackFails(t) ==
  /\ stage[t] = "returning"
  /\ FailingAgain("io")
  /\ MessageEnds(t)
  /\ lost' = lost \cup {Current(t)}
  /\ erred' = [erred EXCEPT ![t] = TRUE]
  /\ UNCHANGED <<processed, pending, inflight, dead, left>>

RunOnceEnds(t) ==
  /\ stage[t] = "working" /\ batch[t] = {}
  /\ Goto(t, AfterRunOnce(t, processed[t], erred[t]))
  /\ processed' = [processed EXCEPT ![t] = FALSE]
  /\ erred' = [erred EXCEPT ![t] = FALSE]
  /\ UNCHANGED <<vars, fixed, ticket, todo, listed, batch, place, queue, history, bounds>>

-----------------------------------------------------------------------------
(* A step of a call of the service.  A failed Put of accept may have        *)
(* stored the item.                                                         *)
Serves(t) ==
  LET ingesting == stage[t] = "ingesting"
      stored == ingesting /\ store' # store
      failed == call'[t].result = "error"
  IN /\ Step(t)
     /\ content' = IF stored THEN [content EXCEPT ![call[t].id] = ticket[t]] ELSE content
     /\ dropped' = IF stored /\ failed THEN dropped \cup {call[t].id} ELSE dropped
     /\ refused' = IF ingesting /\ failed THEN refused \cup FileOf(t) ELSE refused
     /\ cut' = IF ~ingesting /\ failed THEN cut \cup {call[t].id} ELSE cut
     /\ Bounded(t)
     /\ UNCHANGED <<fixed, stage, ticket, loop, place, queue, told, ends, visits>>

(* A process ends, or is killed, at any point.  What a worker has in flight *)
(* comes back when it is started again.                                     *)
Dies(p) ==
  LET gone == {t \in Threads : ProcOf[t] = p}
      Without(f, zero) == [t \in Threads |-> IF t \in gone THEN zero ELSE f[t]]
  IN /\ \E t \in gone : stage[t] # RestStage(t)
     /\ \/ (\A t \in gone : stage[t] # "returning") /\ Failing("crash")
        \/ (\E t \in gone : stage[t] = "returning") /\ FailingAgain("crash")
     /\ Crash(p) \/ ((\A t \in gone : call[t].pc = "idle") /\ UNCHANGED vars)
     /\ stage' = [t \in Threads |-> IF t \in gone THEN RestStage(t) ELSE stage[t]]
     /\ ticket' = Without(ticket, Nil)
     /\ todo' = Without(todo, {}) /\ listed' = Without(listed, {}) /\ batch' = Without(batch, {})
     /\ processed' = Without(processed, FALSE) /\ erred' = Without(erred, FALSE)
     /\ dropped' = dropped \cup {TicketID(ticket[t]) : t \in {u \in gone : Accepted(u)}}
     /\ cut' = cut \cup {call[t].id : t \in {u \in gone : call[u].op = "process"}}
     /\ lost' = lost \cup {Current(t) : t \in {u \in gone : stage[u] = "returning"}}
     /\ left' = IF \E t \in gone : role[t] = "worker" THEN left
                ELSE left \cup (inflight \cap UNION {Claimed(t) : t \in gone})
     /\ UNCHANGED <<fixed, place, queue, content, told, refused>>

Runs(t) ==
  \/ IngestEnds(t) \/ Sends(t) \/ SendFails(t) \/ FilesDone(t)
  \/ Starts(t) \/ Recovers(t) \/ Scans(t) \/ ScansFile(t) \/ FilesAway(t) \/ ScanFails(t)
  \/ Lists(t) \/ Misses(t) \/ Claims(t) \/ Reads(t) \/ ReceiveFails(t)
  \/ Works(t) \/ Acks(t) \/ NackRemoves(t) \/ NackWrites(t) \/ NackFails(t) \/ RunOnceEnds(t)
  \/ Serves(t)

IngestNext ==
  \/ \E t \in Threads : Posted(t) \/ Runs(t) \/ Dies(ProcOf[t])
  \/ \E t \in Threads, f \in Forms : Submitted(t, f[1], f[2])
  \/ \E f \in Files : Dropped(f)

IngestSpec == IngestInit /\ [][IngestNext]_every

(* The worker is started again and goes on, as every process does *)
IngestFairSpec == IngestSpec /\ \A t \in Threads : WF_every(Runs(t))
-----------------------------------------------------------------------------
Stages == {"idle", "between", "down", "recovering", "polling", "scanning", "processed", "rejected",
           "ingesting", "receiving", "claiming", "reading", "working", "processing", "returning"}

(* Types; that no thread is in a call of the service its stage does not     *)
(* make, or holds messages outside of RunOnce; and that no batch exceeds    *)
(* its maximum.                                                             *)
IngestOK ==
  /\ stage \in [Threads -> Stages]
  /\ place \in [Files -> {"outside", "incoming", "processed", "rejected"}]
  /\ pending \cup inflight \cup dead \cup lost \subseteq DOMAIN sent
  /\ left \subseteq inflight
  /\ \A t \in Threads :
       /\ todo[t] \subseteq Files
       /\ listed[t] \subseteq DOMAIN sent /\ batch[t] \subseteq DOMAIN sent
       /\ listed[t] # {} <=> stage[t] \in {"recovering", "claiming", "reading"}
       /\ batch[t] # {} => stage[t] \in {"claiming", "reading", "working", "processing", "returning"}
       /\ Cardinality(batch[t]) <= Batch
       /\ call[t].pc # "idle" => stage[t] \in {"ingesting", "processing"}
       /\ ticket[t] # Nil <=> stage[t] = "ingesting"

MessagesFor(id) == {m \in DOMAIN sent : IDOf(m) = id}

BeingIngested(id) ==
  \E t \in Threads : Accepted(t) /\ TicketID(ticket[t]) = id

(* A Nack has removed the message and not yet written it *)
BeingReturned(m) == \E t \in Threads : stage[t] = "returning" /\ Current(t) = m

(* A stored ticket that nobody has classified has a file in the queue or    *)
(* the dead-letter directory, or is about to get one, whichever processes   *)
(* claim, recover, fail and return one another's messages; unless the call  *)
(* that stored it ended before its Send (pipeline.go:76-81), or a Nack      *)
(* failed or died between its Remove and its write (queue.go:119-128).      *)
ReceivedIsDriven ==
  \A id \in Stored : store[id].status = "received" =>
    \/ \E m \in MessagesFor(id) : m \in pending \cup inflight \cup dead \cup lost \/ BeingReturned(m)
    \/ BeingIngested(id)
    \/ id \in dropped

(* Two tickets a person would call the same *)
Same(t, u) ==
  /\ t.channel = u.channel /\ t.email.value = u.email.value
  /\ t.subject = u.subject /\ t.body = u.body /\ t.workspace = u.workspace

(* "Re-ingesting an identical ticket is a no-op" (pipeline.go:60): however  *)
(* often, through whichever entry points of a process and in whatever       *)
(* spelling a ticket comes in, it is queued once.                           *)
NoSecondMessage ==
  \A m, n \in DOMAIN sent :
    m # n /\ sent[m].by = sent[n].by => ~Same(sent[m].ticket, sent[n].ticket)

(* The ID a client is given is its own ticket's: nobody is told "duplicate" *)
(* of somebody else's, nor of the same words in another workspace           *)
(* (ticket.go:127-137).                                                     *)
AnsweredForItsOwn ==
  \A t \in told : content[TicketID(t)] # Nil /\ Same(content[TicketID(t)], t)

(* What Scan has moved is accounted for (entrypoints.go:49-63): a file in   *)
(* processed/ has its ticket stored, whatever failed, and one in rejected/  *)
(* holds no ticket, or it is a ticket that the store or the queue refused   *)
(* while this very file was ingested: any error rejects it (:55-57), where  *)
(* the comment says "if they don't parse" (:20-21).                         *)
FilesAccountedFor ==
  \A f \in Files :
    LET ticketIn == Normalize(holds[f], "")
    IN /\ place[f] = "processed" => ticketIn # Invalid /\ store[TicketID(ticketIn)] # Nil
       /\ place[f] = "rejected" => ticketIn = Invalid \/ f \in refused

(* Every form the page accepts is a ticket: it comes out of normalization   *)
(* with the words the visitor typed (submit.go:154-181).                    *)
FormsAreTickets ==
  [][\A t \in Threads, f \in Forms :
       Submitted(t, f[1], f[2]) /\ f[2].mode = "fields" /\ TrimSpace(f[2].message) # <<>> =>
         /\ ticket'[t] # Invalid
         /\ Range(ticket'[t].body) \ {""} = Range(f[2].message) \ {""}]_every

(* The webhook's 202 says "status": "queued" of the ticket, new or known    *)
(* (entrypoints.go:91, handlers.go:187): a message has been sent for it, or *)
(* is about to be.                                                          *)
QueuedMeansSent ==
  \A t \in told : MessagesFor(TicketID(t)) # {} \/ BeingIngested(TicketID(t))

HasSettled(id) == store[id] # Nil /\ store[id].status \in Settled

(* Where what was stored ends if not settled: its message is dead, lost, or *)
(* in inflight/ until a worker is started again; the call that stored it    *)
(* ended before its Send; or Process ended between its two writes.          *)
GivenUp(id) ==
  \/ id \in dropped
  \/ \E m \in MessagesFor(id) : m \in dead \cup lost \cup left
  \/ store[id].status = "classified" /\ id \in cut

(* Whatever comes in, by whichever door, it always comes to this again:     *)
(* incoming/ is empty and every ticket is settled or given up.              *)
EverythingLands ==
  []<>(/\ \A f \in Files : place[f] # "incoming"
       /\ \A id \in Stored : HasSettled(id) \/ GivenUp(id))
=============================================================================

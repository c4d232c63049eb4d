---------------------------- MODULE IngestProofs ----------------------------
(***************************************************************************)
(* What enters the pipeline, for any number of callers, processes,         *)
(* payloads, files and faults: the entry points and the worker's loop are  *)
(* callers of the service and nothing else; a process queues a ticket once *)
(* however often it comes in; a client is given its own ticket's ID; what  *)
(* was stored and not classified has a message that will drive it.         *)
(***************************************************************************)
EXTENDS Ingest, ServiceProofs, FiniteSetTheorems, SequenceTheorems, WellFoundedInduction

(* The library's relation on the naturals, as a set of pairs.              *)
LEMMA LessThan == OpToRel(<, Nat) = {p \in Nat \X Nat : p[1] < p[2]}
  BY Zenon DEF OpToRel

(* The least element, which RunOnce and Scan take first, is an element.    *)
LEMMA MinIsMember ==
  ASSUME NEW S \in SUBSET Nat, S # {}
  PROVE  Min(S) \in S
<1>. DEFINE R == {p \in Nat \X Nat : p[1] < p[2]}
<1>1. IsWellFoundedOn(R, Nat)
  BY NatLessThanWellFounded, LessThan
<1>2. PICK x \in S : \A y \in S : <<y, x>> \notin R
  BY <1>1, WFMin
<1>3. ASSUME NEW y \in S PROVE x <= y
  <2>1. <<y, x>> \in Nat \X Nat /\ <<y, x>>[1] = y /\ <<y, x>>[2] = x
    OBVIOUS
  <2>. QED BY <1>2, <2>1
<1>. QED BY <1>3 DEF Min

-----------------------------------------------------------------------------
(* Where each caller is                                                    *)

Calling(t) == call[t].pc # "idle"

Posting == [ticket : Tickets, by : {ProcOf[t] : t \in Threads}]

TypesOK ==
  /\ role \in [Threads -> Roles]
  /\ stage \in [Threads -> Stages]
  /\ ticket \in [Threads -> Tickets \cup {Nil, Invalid}]
  /\ todo \in [Threads -> SUBSET Files]
  /\ holds \in [Files -> FilePayloads]
  /\ sent \in Seq(Posting)
  /\ listed \in [Threads -> SUBSET DOMAIN sent]
  /\ batch \in [Threads -> SUBSET DOMAIN sent]

QueueOK ==
  /\ pending \cup inflight \cup dead \cup lost \subseteq DOMAIN sent
  /\ left \subseteq inflight

(* A call of the service is the one its caller's stage makes.              *)
AtWork(t) ==
  \/ /\ stage[t] = "ingesting" /\ ticket[t] \in Tickets
     /\ call[t].pc = "accepting" /\ call[t].id = TicketID(ticket[t])
  \/ /\ stage[t] = "processing"
     /\ call[t].pc \in {"classified", "acting"} /\ call[t].id = IDOf(Current(t))

(* In RunOnce                                                              *)
Draining == {"receiving", "claiming", "reading", "working", "processing", "returning"}

StageOK(t) ==
  /\ stage[t] = "ingesting" => ticket[t] \in Tickets \cup {Invalid}
  /\ stage[t] \in {"scanning", "processed", "rejected"} => role[t] = "worker" /\ todo[t] # {}
  /\ stage[t] = "ingesting" /\ role[t] = "worker" => todo[t] # {}
  /\ stage[t] \in Draining => role[t] # "webhook"
  /\ stage[t] \in {"processing", "returning"} => batch[t] # {}
  /\ Calling(t) => AtWork(t)

(* Service.mu: of the callers of a process one is in a call.               *)
LockOK ==
  \A t, u \in Threads : ProcOf[t] = ProcOf[u] /\ Calling(t) /\ Calling(u) => t = u

ShapeInv == TypesOK /\ QueueOK /\ LockOK /\ \A t \in Threads : StageOK(t)

(* The message a worker is at was sent, and its ID is a ticket's.          *)
LEMMA CurrentSent ==
  ASSUME TypesOK, NEW t \in Threads, batch[t] # {}
  PROVE  LET m == Current(t)
         IN /\ m \in batch[t] /\ m \in DOMAIN sent
            /\ sent[m] \in Posting /\ IDOf(m) \in Ids
<1>1. batch[t] \subseteq DOMAIN sent /\ DOMAIN sent \subseteq Nat
  BY DEF TypesOK
<1>2. Current(t) \in batch[t]
  BY <1>1, MinIsMember DEF Current
<1>3. Current(t) \in DOMAIN sent
  BY <1>1, <1>2
<1>4. sent[Current(t)] \in Posting
  BY <1>3 DEF TypesOK
<1>. QED BY <1>2, <1>3, <1>4, IdsAssumption DEF IDOf, Posting

(* What a scan normalizes is among the tickets, if it is one.              *)
LEMMA ListedFile ==
  ASSUME TypesOK, NEW t \in Threads, todo[t] # {}
  PROVE  Min(todo[t]) \in todo[t] /\ Min(todo[t]) \in Files /\ holds[Min(todo[t])] \in FilePayloads
<1>1. todo[t] \subseteq Files /\ Files \subseteq Nat
  BY IngestAssumption DEF TypesOK
<1>2. Min(todo[t]) \in todo[t]
  BY <1>1, MinIsMember
<1>. QED BY <1>1, <1>2 DEF TypesOK

-----------------------------------------------------------------------------
(* Callers of the service                                                  *)

(* A step of a caller, by what it does.                                    *)
Ingesting(t) == Posted(t) \/ ScansFile(t) \/ \E f \in Forms : Submitted(t, f[1], f[2])

Filing(t) == FilesDone(t) \/ Scans(t) \/ FilesAway(t) \/ ScanFails(t) \/ RunOnceEnds(t)

Fetching(t) ==
  Starts(t) \/ Recovers(t) \/ Lists(t) \/ Misses(t) \/ Claims(t) \/ Reads(t) \/ ReceiveFails(t)

Settling(t) == Acks(t) \/ NackRemoves(t) \/ NackWrites(t) \/ NackFails(t)

(* A step that is neither the service's nor IngestIn's                      *)
Quiet(t) == Filing(t) \/ Fetching(t) \/ Settling(t)

Acts(t) ==
  Ingesting(t) \/ IngestEnds(t) \/ SendFails(t) \/ Sends(t) \/ Quiet(t) \/ Works(t) \/ Serves(t)

LEMMA NextCases ==
  ASSUME [IngestNext]_every
  PROVE  \/ \E t \in Threads : Acts(t) \/ Dies(ProcOf[t])
         \/ \E f \in Files : Dropped(f)
         \/ UNCHANGED every
<1>1. ASSUME NEW t \in Threads, Runs(t) PROVE Acts(t)
  BY <1>1, Zenon DEF Runs, Acts, Ingesting, Quiet, Filing, Fetching, Settling
<1>. QED BY <1>1, Zenon DEF IngestNext, Acts, Ingesting

LEMMA QuietLeaves ==
  ASSUME NEW t \in Threads, Quiet(t)
  PROVE  UNCHANGED <<vars, holds, role, ticket, sent, content, told, dropped, refused, cut>>
<1>1. CASE Filing(t)
  BY <1>1 DEF Filing, FilesDone, Scans, FilesAway, ScanFails, RunOnceEnds, fixed, queue, history
<1>2. CASE Fetching(t)
  BY <1>2 DEF Fetching, Starts, Recovers, Lists, Misses, Claims, Reads, ReceiveFails, GivesUp, fixed,
              queue, history
<1>3. CASE Settling(t)
  BY <1>3 DEF Settling, Acks, Acking, NackRemoves, NackWrites, NackFails, MessageEnds, fixed
<1>. QED BY <1>1, <1>2, <1>3 DEF Quiet

(* t takes in one of the tickets, or what is none.                         *)
Takes(t, new) ==
  /\ new \in Tickets \cup {Invalid}
  /\ ticket' = [ticket EXCEPT ![t] = new]
  /\ Goto(t, "ingesting")
  /\ \/ new = Invalid /\ UNCHANGED vars
     \/ new \in Tickets /\ (GetFails(t) \/ Accept(t, TicketID(new)))
  /\ UNCHANGED <<fixed, loop, place, queue, content, told, dropped, cut, ends>>

Unengaged(t) ==
  \/ stage[t] \in {"idle", "between"} /\ role[t] # "worker"
  \/ stage[t] = "scanning" /\ todo[t] # {}

LEMMA IngestsTakes ==
  ASSUME ShapeInv, NEW t \in Threads,
         Posted(t) \/ ScansFile(t) \/ \E f \in Forms : Submitted(t, f[1], f[2])
  PROVE  Unengaged(t) /\ \E new : Takes(t, new)
<1>1. ASSUME NEW p \in Payloads \cup FilePayloads, Ingests(t, p, "")
      PROVE  Takes(t, Normalize(p, ""))
  BY <1>1 DEF Ingests, Takes, Tickets
<1>2. ASSUME NEW f \in Forms, Ingests(t, SubmissionPayload(f[2]), f[1])
      PROVE  Takes(t, Normalize(SubmissionPayload(f[2]), f[1]))
  BY <1>2 DEF Ingests, Takes, Tickets
<1>3. CASE Posted(t)
  BY <1>1, <1>3 DEF Posted, Unengaged
<1>4. CASE ScansFile(t)
  <2>1. stage[t] = "scanning" /\ todo[t] # {}
    BY <1>4 DEF ScansFile, ShapeInv, StageOK
  <2>. QED BY <1>1, <1>4, <2>1, ListedFile DEF ScansFile, Unengaged, ShapeInv
<1>5. ASSUME NEW f \in Forms, Submitted(t, f[1], f[2])
      PROVE  Unengaged(t) /\ \E new : Takes(t, new)
  BY <1>2, <1>5 DEF Submitted, Unengaged
<1>. QED BY <1>3, <1>4, <1>5

LEMMA TakesStart ==
  ASSUME NEW t \in Threads, NEW new, Takes(t, new)
  PROVE  Start(t) \/ UNCHANGED vars
<1>1. new \in Tickets => TicketID(new) \in Ids
  BY IdsAssumption
<1>. QED BY <1>1 DEF Takes, Start

LEMMA WorksStart ==
  ASSUME ShapeInv, NEW t \in Threads, Works(t)
  PROVE  Start(t)
<1>1. IDOf(Current(t)) \in Ids
  BY CurrentSent DEF Works, ShapeInv
<1>. QED BY <1>1, Zenon DEF Works, Start

(* A step of the pipeline's entrances is a step of the service or none.    *)
LEMMA EntranceSteps == ShapeInv /\ [IngestNext]_every => [Next]_vars
<1>. SUFFICES ASSUME ShapeInv, [IngestNext]_every PROVE [Next]_vars
  OBVIOUS
<1>1. ASSUME NEW t \in Threads,
             Posted(t) \/ ScansFile(t) \/ \E f \in Forms : Submitted(t, f[1], f[2])
      PROVE  [Next]_vars
  BY <1>1, IngestsTakes, TakesStart DEF Next
<1>2. ASSUME NEW t \in Threads, Works(t) PROVE [Next]_vars
  BY <1>2, WorksStart DEF Next
<1>3. ASSUME NEW t \in Threads, Serves(t) PROVE [Next]_vars
  BY <1>3 DEF Serves, Next
<1>4. ASSUME NEW t \in Threads, Dies(ProcOf[t]) PROVE [Next]_vars
  BY <1>4 DEF Dies, Next
<1>5. ASSUME NEW f, Dropped(f) PROVE [Next]_vars
  BY <1>5 DEF Dropped
<1>6. ASSUME NEW t \in Threads, IngestEnds(t) \/ Sends(t) \/ SendFails(t) \/ Quiet(t)
      PROVE  [Next]_vars
  BY <1>6, QuietLeaves DEF IngestEnds, Sends, SendFails, Answer
<1>7. CASE UNCHANGED every
  BY <1>7 DEF every
<1>. QED BY <1>1, <1>2, <1>3, <1>4, <1>5, <1>6, <1>7, NextCases, Zenon DEF Acts, Ingesting

(* One caller's step leaves the others where they were.                    *)
OthersStay(t) ==
  /\ \A u \in Threads \ {t} :
       /\ stage'[u] = stage[u] /\ ticket'[u] = ticket[u] /\ todo'[u] = todo[u]
       /\ listed'[u] = listed[u] /\ batch'[u] = batch[u] /\ call'[u] = call[u]
  /\ role' = role
  /\ sent' = sent \/ \E x \in Posting : sent' = Append(sent, x)

(* A message that was sent stays.                                          *)
LEMMA SentStays ==
  ASSUME TypesOK, NEW m \in DOMAIN sent,
         sent' = sent \/ \E x \in Posting : sent' = Append(sent, x)
  PROVE  m \in DOMAIN sent' /\ sent'[m] = sent[m]
<1>1. sent \in Seq(Posting) /\ DOMAIN sent = 1..Len(sent) /\ Len(sent) \in Nat
  BY DEF TypesOK
<1>2. ASSUME NEW x \in Posting
      PROVE  m \in DOMAIN Append(sent, x) /\ Append(sent, x)[m] = sent[m]
  BY <1>1
<1>. QED BY <1>2

(* What is left to show of a step that only one caller makes.              *)
LEMMA ShapeKept ==
  ASSUME ShapeInv, NEW t \in Threads, OthersStay(t), TypesOK', QueueOK', StageOK(t)',
         Calling(t)' => Calling(t) \/ \A u \in Threads : ProcOf[u] = ProcOf[t] => ~Calling(u)
  PROVE  ShapeInv'
<1>1. ASSUME NEW u \in Threads, u # t PROVE StageOK(u)' /\ (Calling(u)' <=> Calling(u))
  <2>1. /\ stage'[u] = stage[u] /\ ticket'[u] = ticket[u] /\ todo'[u] = todo[u]
        /\ batch'[u] = batch[u] /\ call'[u] = call[u] /\ role' = role
    BY <1>1 DEF OthersStay
  <2>2. StageOK(u)
    BY DEF ShapeInv
  <2>3. Calling(u)' <=> Calling(u)
    BY <2>1 DEF Calling
  <2>4. ASSUME AtWork(u) PROVE AtWork(u)'
    <3>1. CASE stage[u] = "ingesting"
      BY <2>1, <2>4, <3>1 DEF AtWork
    <3>2. CASE stage[u] = "processing"
      <4>1. Current(u)' = Current(u)
        BY <2>1 DEF Current
      <4>2. Current(u) \in DOMAIN sent
        BY <2>2, <3>2, CurrentSent DEF StageOK, ShapeInv
      <4>3. sent'[Current(u)] = sent[Current(u)]
        BY <4>2, SentStays DEF OthersStay, ShapeInv
      <4>4. IDOf(Current(u))' = IDOf(Current(u))
        BY <4>1, <4>3 DEF IDOf
      <4>. QED BY <2>1, <2>4, <3>2, <4>4 DEF AtWork
    <3>. QED BY <2>4, <3>1, <3>2 DEF AtWork
  <2>. QED BY <2>1, <2>2, <2>3, <2>4 DEF StageOK
<1>2. LockOK'
  <2>. SUFFICES ASSUME NEW u \in Threads, NEW v \in Threads, ProcOf[u] = ProcOf[v],
                       Calling(u)', Calling(v)'
                PROVE  u = v
    BY DEF LockOK
  <2>. QED BY <1>1 DEF LockOK, ShapeInv
<1>. QED BY <1>1, <1>2 DEF ShapeInv

(* Ingesting begins.                                                       *)
LEMMA TakesShape ==
  ASSUME ShapeInv, IInv, NEW t \in Threads, NEW new, Takes(t, new), Unengaged(t)
  PROVE  ShapeInv' /\ OthersStay(t) /\ stage'[t] = "ingesting" /\ ticket'[t] = new
<1>1. stage \in [Threads -> Stages] /\ ticket \in [Threads -> Tickets \cup {Nil, Invalid}]
  BY DEF ShapeInv, TypesOK
<1>2. call \in [Threads -> Call]
  BY DEF IInv, TypeOK
<1>3. stage' = [stage EXCEPT ![t] = "ingesting"] /\ ticket' = [ticket EXCEPT ![t] = new]
  BY DEF Takes, Goto
<1>4. UNCHANGED <<role, holds, todo, listed, batch, sent, pending, inflight, dead, lost, left>>
  BY DEF Takes, fixed, loop, queue, ends
<1>5. ~Calling(t)
  BY DEF Unengaged, ShapeInv, StageOK, AtWork
<1>6. \/ call' = call
      \/ /\ CanCall(t) /\ new \in Tickets
         /\ \E c : /\ call' = [call EXCEPT ![t] = c]
                   /\ c.pc = "idle" \/ (c.pc = "accepting" /\ c.id = TicketID(new))
  <2>1. CASE GetFails(t) /\ new \in Tickets
    <3>1. Idle("error").pc = "idle"
      BY DEF Idle
    <3>. QED BY <2>1, <3>1 DEF GetFails, Refuse
  <2>2. CASE Accept(t, TicketID(new)) /\ new \in Tickets
    <3>1. Idle("duplicate").pc = "idle"
      BY DEF Idle
    <3>2. CASE Refuse(t, "duplicate")
      BY <2>2, <3>1, <3>2 DEF Accept, Refuse
    <3>3. CASE Begin(t, "accept", TicketID(new), "accepting", NewItem)
      <4>. DEFINE c == [pc |-> "accepting", op |-> "accept", id |-> TicketID(new), item |-> NewItem,
                        next |-> 1, failed |-> FALSE, result |-> "none"]
      <4>1. call' = [call EXCEPT ![t] = c] /\ c.pc = "accepting" /\ c.id = TicketID(new)
        BY <3>3 DEF Begin
      <4>. HIDE DEF c
      <4>. QED BY <2>2, <4>1 DEF Accept
    <3>. QED BY <2>2, <3>2, <3>3 DEF Accept
  <2>. QED BY <2>1, <2>2 DEF Takes, vars
<1>7. OthersStay(t)
  BY <1>1, <1>2, <1>3, <1>4, <1>6 DEF OthersStay
<1>8. TypesOK'
  BY <1>1, <1>3, <1>4 DEF TypesOK, ShapeInv, Stages, Takes
<1>9. QueueOK'
  BY <1>4 DEF QueueOK, ShapeInv
<1>10. StageOK(t)'
  <2>1. stage'[t] = "ingesting" /\ ticket'[t] = new /\ new \in Tickets \cup {Invalid}
    BY <1>1, <1>3 DEF Takes
  <2>2. Calling(t)' => new \in Tickets /\ call'[t].pc = "accepting" /\ call'[t].id = TicketID(new)
    BY <1>2, <1>5, <1>6 DEF Calling
  <2>3. role' = role /\ todo' = todo /\ (role[t] = "worker" => todo[t] # {})
    BY <1>4 DEF Unengaged
  <2>. QED BY <2>1, <2>2, <2>3 DEF StageOK, AtWork, Draining
<1>11. Calling(t)' => \A u \in Threads : ProcOf[u] = ProcOf[t] => ~Calling(u)
  BY <1>5, <1>6 DEF Calling, CanCall
<1>. QED BY <1>1, <1>3, <1>7, <1>8, <1>9, <1>10, <1>11, ShapeKept

(* Where a caller goes after its ticket, and after its batch.              *)
LEMMA AfterTyped ==
  ASSUME NEW t \in Threads, role[t] \in Roles, NEW answer
  PROVE  LET to == AfterIngest(t, answer)
         IN /\ to \in {"processed", "rejected", "receiving", "idle", "between"}
            /\ to \in {"processed", "rejected"} => role[t] = "worker"
            /\ to = "receiving" => role[t] # "webhook"
<1>1. CASE role[t] = "worker"
  BY <1>1 DEF AfterIngest
<1>2. CASE role[t] = "submit"
  BY <1>2 DEF AfterIngest
<1>3. CASE role[t] = "cli"
  BY <1>3 DEF AfterIngest
<1>4. CASE role[t] = "webhook"
  BY <1>4 DEF AfterIngest
<1>. QED BY <1>1, <1>2, <1>3, <1>4 DEF Roles

LEMMA AfterBatchTyped ==
  ASSUME NEW t \in Threads, role[t] \in Roles, role[t] # "webhook", NEW some, NEW err
  PROVE  AfterRunOnce(t, some, err) \in {"receiving", "polling", "idle"}
<1>1. CASE role[t] = "worker"
  BY <1>1 DEF AfterRunOnce
<1>2. CASE role[t] = "submit"
  BY <1>2 DEF AfterRunOnce
<1>3. CASE role[t] = "cli"
  BY <1>3 DEF AfterRunOnce
<1>. QED BY <1>1, <1>2, <1>3 DEF Roles

(* A caller whose stage makes no call is in none.                          *)
LEMMA NotCalling ==
  ASSUME ShapeInv, NEW t \in Threads, stage[t] \notin {"ingesting", "processing"}
  PROVE  ~Calling(t)
  BY DEF ShapeInv, StageOK, AtWork

(* The call of IngestIn ends.                                              *)
LEMMA AnswerShape ==
  ASSUME ShapeInv, NEW t \in Threads, Returned(t), NEW answer, Answer(t, answer), QueueOK',
         sent' = sent \/ \E x \in Posting : sent' = Append(sent, x)
  PROVE  ShapeInv' /\ OthersStay(t) /\ stage'[t] \notin {"ingesting", "processing"}
<1>1. TypesOK /\ ~Calling(t) /\ StageOK(t)
  BY DEF Returned, Calling, ShapeInv
<1>2. /\ stage' = [stage EXCEPT ![t] = AfterIngest(t, answer)]
      /\ ticket' = [ticket EXCEPT ![t] = Nil]
      /\ UNCHANGED <<role, holds, todo, listed, batch, call>>
  BY DEF Answer, Goto, vars, fixed, loop
<1>3. role[t] \in Roles
  BY <1>1 DEF TypesOK
<1>4. stage'[t] = AfterIngest(t, answer)
  BY <1>1, <1>2 DEF TypesOK
<1>5. OthersStay(t)
  BY <1>1, <1>2 DEF OthersStay, TypesOK
<1>6. sent' \in Seq(Posting) /\ DOMAIN sent \subseteq DOMAIN sent'
  <2>1. sent \in Seq(Posting)
    BY <1>1 DEF TypesOK
  <2>2. ASSUME NEW x \in Posting
        PROVE  Append(sent, x) \in Seq(Posting) /\ DOMAIN sent \subseteq DOMAIN Append(sent, x)
    BY <2>1
  <2>. QED BY <2>1, <2>2
<1>7. TypesOK'
  <2>1. stage' \in [Threads -> Stages]
    BY <1>1, <1>2, <1>3, AfterTyped DEF TypesOK, Stages
  <2>2. ticket' \in [Threads -> Tickets \cup {Nil, Invalid}]
    BY <1>1, <1>2 DEF TypesOK
  <2>3. listed' \in [Threads -> SUBSET DOMAIN sent'] /\ batch' \in [Threads -> SUBSET DOMAIN sent']
    BY <1>1, <1>2, <1>6 DEF TypesOK
  <2>. QED BY <1>1, <1>2, <1>6, <2>1, <2>2, <2>3 DEF TypesOK
<1>8. StageOK(t)' /\ ~Calling(t)'
  BY <1>1, <1>2, <1>3, <1>4, AfterTyped DEF StageOK, Returned, Calling, Draining
<1>. QED BY <1>3, <1>4, <1>5, <1>7, <1>8, AfterTyped, ShapeKept

LEMMA IngestEndsShape ==
  ASSUME ShapeInv, NEW t \in Threads, IngestEnds(t) \/ SendFails(t)
  PROVE  ShapeInv' /\ OthersStay(t) /\ stage'[t] \notin {"ingesting", "processing"}
<1>1. Returned(t) /\ (\E answer : Answer(t, answer)) /\ UNCHANGED <<queue, ends>>
  BY DEF IngestEnds, SendFails, Accepted, Answer
<1>2. QueueOK'
  BY <1>1 DEF QueueOK, ShapeInv, queue, ends
<1>. QED BY <1>1, <1>2, AnswerShape DEF queue

(* What is sent is the next message.                                       *)
LEMMA SendsOne ==
  ASSUME ShapeInv, NEW t \in Threads, Sends(t)
  PROVE  LET m == Len(sent) + 1
         IN /\ ticket[t] \in Tickets
            /\ [ticket |-> ticket[t], by |-> ProcOf[t]] \in Posting
            /\ sent' = Append(sent, [ticket |-> ticket[t], by |-> ProcOf[t]])
            /\ DOMAIN sent' = DOMAIN sent \cup {m} /\ m \notin DOMAIN sent
            /\ pending' = pending \cup {m} /\ UNCHANGED <<inflight, dead, lost, left>>
<1>1. ticket[t] \in Tickets
  BY DEF Sends, Accepted, Returned, ShapeInv, StageOK
<1>2. [ticket |-> ticket[t], by |-> ProcOf[t]] \in Posting
  BY <1>1 DEF Posting
<1>3. /\ sent' = Append(sent, [ticket |-> ticket[t], by |-> ProcOf[t]])
      /\ pending' = pending \cup {Len(sent) + 1} /\ UNCHANGED <<inflight, dead, lost, left>>
  BY DEF Sends, Queues, Answer, ends
<1>. HIDE DEF Posting
<1>4. ASSUME NEW x \in Posting
      PROVE  /\ DOMAIN Append(sent, x) = DOMAIN sent \cup {Len(sent) + 1}
             /\ Len(sent) + 1 \notin DOMAIN sent
  BY DEF ShapeInv, TypesOK
<1>. QED BY <1>1, <1>2, <1>3, <1>4

LEMMA SendsShape ==
  ASSUME ShapeInv, NEW t \in Threads, Sends(t)
  PROVE  ShapeInv' /\ OthersStay(t) /\ stage'[t] \notin {"ingesting", "processing"}
<1>1. QueueOK'
  BY SendsOne DEF ShapeInv, QueueOK
<1>2. \E x \in Posting : sent' = Append(sent, x)
  BY SendsOne
<1>. QED BY <1>1, <1>2, AnswerShape DEF Sends, Accepted

(* What is left to show of a step that is neither the service's nor        *)
(* IngestIn's.                                                             *)
LEMMA QuietShape ==
  ASSUME ShapeInv, NEW t \in Threads, ~Calling(t), QueueOK', TypesOK', OthersStay(t),
         call' = call,
         stage'[t] \notin {"ingesting", "processing", "processed", "rejected"},
         stage'[t] = "scanning" => role[t] = "worker" /\ todo'[t] # {},
         stage'[t] \in Draining => role[t] # "webhook",
         stage'[t] = "returning" => batch'[t] # {}
  PROVE  ShapeInv'
<1>1. ~Calling(t)' /\ role' = role
  BY DEF Calling, OthersStay
<1>2. StageOK(t)'
  BY <1>1 DEF StageOK
<1>. QED BY <1>1, <1>2, ShapeKept

(* Filing leaves the queue and the batches as they are.                     *)
LEMMA FilingShape ==
  ASSUME ShapeInv, NEW t \in Threads, Filing(t)
  PROVE  /\ ShapeInv' /\ OthersStay(t) /\ UNCHANGED <<queue, ends, listed, batch>>
         /\ stage[t] \notin Draining \ {"working"} /\ (stage[t] = "working" => batch[t] = {})
         /\ stage[t] \notin {"ingesting", "processing", "recovering"}
         /\ stage'[t] \in {"idle", "polling", "scanning", "receiving"}
<1>1. TypesOK /\ StageOK(t) /\ role[t] \in Roles
  BY DEF ShapeInv, TypesOK
<1>2. /\ UNCHANGED <<call, role, holds, sent, ticket, queue, ends, listed, batch>>
      /\ stage[t] \in {"between", "polling", "scanning", "processed", "rejected", "working"}
      /\ stage[t] = "working" => batch[t] = {}
  BY QuietLeaves DEF Quiet, Filing, FilesDone, Scans, FilesAway, ScanFails, RunOnceEnds, loop, history,
                     ends, vars
<1>3. ~Calling(t)
  BY <1>2, NotCalling
<1>4. QueueOK'
  BY <1>2 DEF QueueOK, ShapeInv, queue, ends
<1>5. /\ stage'[t] \in {"idle", "polling", "scanning", "receiving"}
      /\ stage'[t] = "scanning" => role[t] = "worker" /\ todo'[t] # {}
      /\ stage'[t] = "receiving" => role[t] # "webhook"
      /\ stage' \in [Threads -> Stages] /\ todo' \in [Threads -> SUBSET Files]
      /\ \A u \in Threads \ {t} : stage'[u] = stage[u] /\ todo'[u] = todo[u]
  <2>1. /\ stage \in [Threads -> Stages] /\ todo \in [Threads -> SUBSET Files]
        /\ {"idle", "polling", "scanning", "receiving"} \subseteq Stages
    BY <1>1 DEF TypesOK, Stages
  <2>2. CASE FilesDone(t)
    <3>1. todo' = todo /\ role[t] # "webhook"
      BY <2>2 DEF FilesDone, loop
    <3>2. stage' = [stage EXCEPT ![t] = "receiving"] \/ stage' = [stage EXCEPT ![t] = "idle"]
      BY <2>2 DEF FilesDone, Goto
    <3>. QED BY <2>1, <3>1, <3>2
  <2>3. CASE Scans(t)
    <3>. DEFINE incoming == {f \in Files : place[f] = "incoming"}
                to == IF incoming = {} THEN "receiving" ELSE "scanning"
    <3>1. /\ stage' = [stage EXCEPT ![t] = to] /\ todo' = [todo EXCEPT ![t] = incoming]
          /\ incoming \in SUBSET Files /\ role[t] = "worker"
      BY <2>3 DEF Scans, Goto
    <3>2. to \in {"receiving", "scanning"} /\ (to = "scanning" => incoming # {})
      OBVIOUS
    <3>. HIDE DEF incoming, to
    <3>. QED BY <2>1, <3>1, <3>2
  <2>4. CASE FilesAway(t)
    <3>. DEFINE f == Min(todo[t])
                to == IF todo[t] = {f} THEN "receiving" ELSE "scanning"
                files == todo[t] \ {f}
    <3>1. stage' = [stage EXCEPT ![t] = to] /\ todo' = [todo EXCEPT ![t] = files]
      BY <2>1, <2>4 DEF FilesAway, Goto
    <3>2. role[t] = "worker" /\ todo[t] # {} /\ files \in SUBSET Files
      BY <1>1, <2>1, <2>4 DEF FilesAway, StageOK
    <3>3. to \in {"receiving", "scanning"} /\ (to = "scanning" => files # {})
      BY <3>2
    <3>. HIDE DEF f, to, files
    <3>. QED BY <2>1, <3>1, <3>2, <3>3
  <2>5. CASE ScanFails(t)
    <3>1. /\ stage' = [stage EXCEPT ![t] = "receiving"] /\ todo' = [todo EXCEPT ![t] = {}]
          /\ role[t] = "worker"
      BY <1>1, <2>5 DEF ScanFails, Goto, StageOK
    <3>. QED BY <2>1, <3>1
  <2>6. CASE RunOnceEnds(t)
    <3>1. role[t] # "webhook"
      BY <1>1, <2>6 DEF RunOnceEnds, StageOK, Draining
    <3>2. AfterRunOnce(t, processed[t], erred[t]) \in {"receiving", "polling", "idle"}
      BY <1>1, <3>1, AfterBatchTyped
    <3>3. stage' = [stage EXCEPT ![t] = AfterRunOnce(t, processed[t], erred[t])] /\ todo' = todo
      BY <2>6 DEF RunOnceEnds, Goto, loop
    <3>. QED BY <2>1, <3>1, <3>2, <3>3
  <2>. QED BY <2>2, <2>3, <2>4, <2>5, <2>6 DEF Filing
<1>6. TypesOK' /\ OthersStay(t)
  BY <1>1, <1>2, <1>5 DEF TypesOK, OthersStay
<1>7. /\ stage'[t] \notin {"ingesting", "processing", "processed", "rejected", "returning"}
      /\ stage'[t] \in Draining => role[t] # "webhook"
  BY <1>5 DEF Draining
<1>8. ShapeInv'
  BY <1>2, <1>3, <1>4, <1>5, <1>6, <1>7, QuietShape
<1>. QED BY <1>2, <1>5, <1>6, <1>8 DEF Draining

(* Receive takes the next file, or ends.                                    *)
LEMMA GoesOnShape ==
  ASSUME ShapeInv, NEW t \in Threads, stage[t] \in {"receiving", "claiming", "reading"},
         UNCHANGED <<vars, role, holds, sent, ticket, todo>>, QueueOK',
         NEW names \in SUBSET DOMAIN sent, NEW received \in SUBSET DOMAIN sent,
         GoesOn(t, names, received)
  PROVE  /\ ShapeInv' /\ OthersStay(t)
         /\ stage'[t] \in {"claiming", "working", "receiving", "polling", "idle"}
<1>1. TypesOK /\ StageOK(t) /\ ~Calling(t) /\ role[t] \in Roles /\ role[t] # "webhook"
  BY NotCalling DEF ShapeInv, TypesOK, StageOK, Draining
<1>. DEFINE more == names # {} /\ Cardinality(received) < Batch
            left_over == IF more THEN names ELSE {}
            to == IF more THEN "claiming"
                  ELSE IF received = {} THEN AfterRunOnce(t, FALSE, FALSE) ELSE "working"
<1>2. /\ listed' = [listed EXCEPT ![t] = left_over] /\ left_over \in SUBSET DOMAIN sent
      /\ batch' = [batch EXCEPT ![t] = received] /\ stage' = [stage EXCEPT ![t] = to]
  BY DEF GoesOn, Goto
<1>3. to \in {"claiming", "working", "receiving", "polling", "idle"}
  BY <1>1, AfterBatchTyped
<1>. HIDE DEF left_over, to
<1>4. stage'[t] = to /\ call' = call
  BY <1>1, <1>2 DEF TypesOK, vars
<1>5. TypesOK' /\ OthersStay(t)
  <2>1. to \in Stages
    BY <1>3 DEF Stages
  <2>. QED BY <1>1, <1>2, <1>4, <2>1 DEF TypesOK, OthersStay
<1>. QED BY <1>1, <1>3, <1>4, <1>5, QuietShape

LEMMA FetchingShape ==
  ASSUME ShapeInv, NEW t \in Threads, Fetching(t)
  PROVE  /\ ShapeInv' /\ OthersStay(t) /\ UNCHANGED <<dead, lost, place>>
         /\ pending' \cup inflight' = pending \cup inflight
         /\ stage[t] \in {"down", "recovering", "receiving", "claiming", "reading"}
         /\ stage'[t] \in {"recovering", "claiming", "reading", "working", "receiving", "polling", "idle"}
<1>1. TypesOK /\ StageOK(t) /\ QueueOK
  BY DEF ShapeInv
<1>2. /\ UNCHANGED <<vars, role, holds, sent, ticket, todo, dead, lost, place>>
      /\ stage[t] \in {"down", "recovering", "receiving", "claiming", "reading"}
  BY QuietLeaves DEF Quiet, Fetching, Starts, Recovers, Lists, Misses, Claims, Reads, ReceiveFails,
                     CannotReceive, GivesUp, GoesOn, loop, queue, history, ends
<1>3. ~Calling(t) /\ UNCHANGED call
  BY <1>2, NotCalling DEF vars
<1>4. pending' \cup inflight' = pending \cup inflight /\ QueueOK'
  <2>1. CASE Starts(t) \/ Lists(t) \/ Misses(t) \/ Reads(t)
    BY <1>1, <2>1 DEF Starts, Lists, Misses, Reads, queue, history, ends, QueueOK
  <2>2. CASE Recovers(t)
    BY <1>1, <1>2, <2>2 DEF Recovers, QueueOK
  <2>3. CASE Claims(t)
    BY <1>1, <1>2, <2>3 DEF Claims, history, ends, QueueOK
  <2>4. CASE ReceiveFails(t)
    BY <1>1, <1>2, <2>4 DEF ReceiveFails, GivesUp, queue, QueueOK
  <2>. QED BY <2>1, <2>2, <2>3, <2>4 DEF Fetching
<1>5. /\ listed[t] \in SUBSET DOMAIN sent /\ batch[t] \in SUBSET DOMAIN sent
      /\ listed \in [Threads -> SUBSET DOMAIN sent] /\ batch \in [Threads -> SUBSET DOMAIN sent]
      /\ stage \in [Threads -> Stages]
      /\ {"recovering", "polling", "receiving", "reading", "idle"} \subseteq Stages
  BY <1>1 DEF TypesOK, Stages
<1>6. ASSUME NEW to \in {"recovering", "polling", "receiving", "reading", "idle"}, stage'[t] = to,
             stage' \in [Threads -> Stages], \A u \in Threads \ {t} : stage'[u] = stage[u],
             listed' \in [Threads -> SUBSET DOMAIN sent], batch' \in [Threads -> SUBSET DOMAIN sent],
             \A u \in Threads \ {t} : listed'[u] = listed[u] /\ batch'[u] = batch[u],
             to \in Draining => role[t] # "webhook"
      PROVE  /\ ShapeInv' /\ OthersStay(t)
             /\ stage'[t] \in {"recovering", "claiming", "reading", "working", "receiving", "polling", "idle"}
  <2>1. TypesOK' /\ OthersStay(t)
    BY <1>1, <1>2, <1>3, <1>6 DEF TypesOK, OthersStay
  <2>. QED BY <1>2, <1>3, <1>4, <1>6, <2>1, QuietShape
<1>7. CASE Starts(t)
  <2>. DEFINE to == IF inflight = {} THEN "polling" ELSE "recovering"
  <2>1. stage' = [stage EXCEPT ![t] = to] /\ listed' = [listed EXCEPT ![t] = inflight] /\ batch' = batch
    BY <1>7 DEF Starts, Goto
  <2>2. to \in {"recovering", "polling"} /\ to \notin Draining
    BY DEF Draining
  <2>3. inflight \in SUBSET DOMAIN sent
    BY <1>1 DEF QueueOK
  <2>. HIDE DEF to
  <2>4. /\ listed' \in [Threads -> SUBSET DOMAIN sent] /\ batch' \in [Threads -> SUBSET DOMAIN sent]
        /\ stage' \in [Threads -> Stages]
        /\ \A u \in Threads \ {t} :
             stage'[u] = stage[u] /\ listed'[u] = listed[u] /\ batch'[u] = batch[u]
    BY <1>5, <2>1, <2>2, <2>3
  <2>5. stage'[t] = to
    BY <1>5, <2>1
  <2>. QED BY <1>2, <1>4, <1>6, <2>2, <2>4, <2>5
<1>8. CASE Recovers(t)
  <2>. DEFINE rest == listed[t] \ {Min(listed[t])}
              to == IF rest = {} THEN "polling" ELSE "recovering"
  <2>1. stage' = [stage EXCEPT ![t] = to] /\ listed' = [listed EXCEPT ![t] = rest] /\ batch' = batch
    BY <1>8 DEF Recovers, Goto
  <2>2. to \in {"recovering", "polling"} /\ to \notin Draining
    BY DEF Draining
  <2>3. rest \in SUBSET DOMAIN sent
    BY <1>5
  <2>. HIDE DEF to, rest
  <2>4. /\ listed' \in [Threads -> SUBSET DOMAIN sent] /\ batch' \in [Threads -> SUBSET DOMAIN sent]
        /\ stage' \in [Threads -> Stages]
        /\ \A u \in Threads \ {t} :
             stage'[u] = stage[u] /\ listed'[u] = listed[u] /\ batch'[u] = batch[u]
    BY <1>5, <2>1, <2>2, <2>3
  <2>5. stage'[t] = to
    BY <1>5, <2>1
  <2>. QED BY <1>2, <1>4, <1>6, <2>2, <2>4, <2>5
<1>9. CASE Lists(t)
  <2>1. pending \in SUBSET DOMAIN sent /\ {} \in SUBSET DOMAIN sent
    BY <1>1 DEF QueueOK
  <2>2. GoesOn(t, pending, {}) /\ stage[t] = "receiving"
    BY <1>9 DEF Lists
  <2>. QED BY <1>2, <1>4, <2>1, <2>2, GoesOnShape
<1>10. CASE Misses(t)
  <2>1. listed[t] \ {Foremost(t)} \in SUBSET DOMAIN sent
    BY <1>5
  <2>2. GoesOn(t, listed[t] \ {Foremost(t)}, batch[t]) /\ stage[t] = "claiming"
    BY <1>10 DEF Misses
  <2>. QED BY <1>2, <1>4, <1>5, <2>1, <2>2, GoesOnShape
<1>11. CASE Claims(t)
  <2>1. stage' = [stage EXCEPT ![t] = "reading"] /\ UNCHANGED <<listed, batch>> /\ role[t] # "webhook"
    BY <1>1, <1>11 DEF Claims, Goto, loop, StageOK, Draining
  <2>2. /\ listed' \in [Threads -> SUBSET DOMAIN sent] /\ batch' \in [Threads -> SUBSET DOMAIN sent]
        /\ stage' \in [Threads -> Stages]
        /\ \A u \in Threads \ {t} :
             stage'[u] = stage[u] /\ listed'[u] = listed[u] /\ batch'[u] = batch[u]
    BY <1>5, <2>1
  <2>3. stage'[t] = "reading"
    BY <1>5, <2>1
  <2>. QED BY <1>2, <1>4, <1>6, <2>1, <2>2, <2>3
<1>12. CASE Reads(t)
  <2>1. /\ listed[t] \ {Foremost(t)} \in SUBSET DOMAIN sent
        /\ batch[t] \cup {Foremost(t)} \in SUBSET DOMAIN sent
    BY <1>1, <1>5, <1>12 DEF Reads, QueueOK
  <2>2. GoesOn(t, listed[t] \ {Foremost(t)}, batch[t] \cup {Foremost(t)}) /\ stage[t] = "reading"
    BY <1>12 DEF Reads
  <2>. QED BY <1>2, <1>4, <2>1, <2>2, GoesOnShape
<1>13. CASE ReceiveFails(t)
  <2>1. role[t] \in Roles /\ role[t] # "webhook"
    BY <1>1, <1>13 DEF ReceiveFails, CannotReceive, StageOK, Draining, TypesOK
  <2>2. /\ stage' = [stage EXCEPT ![t] = AfterRunOnce(t, FALSE, TRUE)]
        /\ listed' = [listed EXCEPT ![t] = {}] /\ batch' = [batch EXCEPT ![t] = {}]
    BY <1>13 DEF ReceiveFails, GivesUp, Goto
  <2>3. AfterRunOnce(t, FALSE, TRUE) \in {"receiving", "polling", "idle"}
    BY <2>1, AfterBatchTyped
  <2>4. /\ listed' \in [Threads -> SUBSET DOMAIN sent] /\ batch' \in [Threads -> SUBSET DOMAIN sent]
        /\ stage' \in [Threads -> Stages]
        /\ \A u \in Threads \ {t} :
             stage'[u] = stage[u] /\ listed'[u] = listed[u] /\ batch'[u] = batch[u]
    BY <1>5, <2>2, <2>3
  <2>5. stage'[t] = AfterRunOnce(t, FALSE, TRUE)
    BY <1>5, <2>2
  <2>. QED BY <1>2, <1>4, <1>6, <2>1, <2>3, <2>4, <2>5
<1>. QED BY <1>2, <1>4, <1>7, <1>8, <1>9, <1>10, <1>11, <1>12, <1>13 DEF Fetching

(* Process begins, or returns at once.                                     *)
LEMMA WorksShape ==
  ASSUME ShapeInv, IInv, NEW t \in Threads, Works(t)
  PROVE  ShapeInv' /\ OthersStay(t)
<1>1. /\ TypesOK /\ StageOK(t) /\ ~Calling(t) /\ stage[t] = "working" /\ batch[t] # {}
      /\ call \in [Threads -> Call]
  BY NotCalling DEF ShapeInv, Works, IInv, TypeOK
<1>2. /\ UNCHANGED <<role, holds, ticket, todo, listed, batch, sent, pending, inflight, dead, lost, left>>
      /\ stage' = [stage EXCEPT ![t] = "processing"]
  BY DEF Works, Goto, fixed, loop, queue, history, ends
<1>3. /\ CanCall(t)
      /\ \E c : /\ call' = [call EXCEPT ![t] = c]
                /\ c.pc = "idle" \/ (c.pc = "classified" /\ c.id = IDOf(Current(t)))
  <2>. DEFINE id == IDOf(Current(t))
  <2>1. ASSUME NEW result, Refuse(t, result)
        PROVE  \E c : call' = [call EXCEPT ![t] = c] /\ c.pc = "idle"
    <3>1. Idle(result).pc = "idle"
      BY DEF Idle
    <3>. QED BY <2>1, <3>1 DEF Refuse
  <2>2. ASSUME NEW item, Begin(t, "process", id, "classified", item)
        PROVE  \E c : call' = [call EXCEPT ![t] = c] /\ c.pc = "classified" /\ c.id = id
    <3>. DEFINE c == [pc |-> "classified", op |-> "process", id |-> id, item |-> item,
                      next |-> 1, failed |-> FALSE, result |-> "none"]
    <3>1. call' = [call EXCEPT ![t] = c] /\ c.pc = "classified" /\ c.id = id
      BY <2>2 DEF Begin
    <3>. HIDE DEF c
    <3>. QED BY <3>1
  <2>. HIDE DEF id
  <2>3. GetFails(t) \/ ProcessIgnored(t, id) \/ \E a \in Answers, f \in BOOLEAN : Process(t, id, a, f)
    BY DEF Works, id
  <2>4. CASE GetFails(t)
    BY <2>1, <2>4 DEF GetFails
  <2>5. CASE ProcessIgnored(t, id)
    BY <2>1, <2>5 DEF ProcessIgnored
  <2>6. ASSUME NEW a \in Answers, NEW f \in BOOLEAN, Process(t, id, a, f)
        PROVE  CanCall(t) /\ \E c : call' = [call EXCEPT ![t] = c] /\ c.pc = "classified" /\ c.id = id
    BY <2>2, <2>6 DEF Process
  <2>. QED BY <2>3, <2>4, <2>5, <2>6 DEF id
<1>4. TypesOK' /\ OthersStay(t)
  BY <1>1, <1>2, <1>3 DEF TypesOK, OthersStay, Stages
<1>5. QueueOK'
  BY <1>2 DEF QueueOK, ShapeInv
<1>6. StageOK(t)'
  <2>1. IDOf(Current(t))' = IDOf(Current(t))
    BY <1>2 DEF IDOf, Current
  <2>2. stage'[t] = "processing" /\ (Calling(t)' => call'[t].pc = "classified" /\ call'[t].id = IDOf(Current(t)))
    BY <1>1, <1>2, <1>3 DEF Calling, TypesOK
  <2>. QED BY <1>1, <1>2, <2>1, <2>2 DEF StageOK, AtWork, Draining
<1>7. \A u \in Threads : ProcOf[u] = ProcOf[t] => ~Calling(u)
  BY <1>3 DEF CanCall, Calling
<1>. QED BY <1>4, <1>5, <1>6, <1>7, ShapeKept

(* RunOnce settles the message it is at: it is removed, or returned, or     *)
(* neither.                                                                *)
LEMMA SettlesOne ==
  ASSUME ShapeInv, NEW t \in Threads, Settling(t)
  PROVE  LET m == Current(t)
         IN /\ ~Calling(t) /\ stage[t] \in {"processing", "returning"}
            /\ m \in batch[t] /\ m \in DOMAIN sent
            /\ UNCHANGED <<vars, role, holds, ticket, todo, listed, sent, dropped, place>>
            /\ \/ /\ stage' = [stage EXCEPT ![t] = "working"]
                  /\ batch' = [batch EXCEPT ![t] = @ \ {m}]
               \/ stage' = [stage EXCEPT ![t] = "returning"] /\ batch' = batch
            /\ pending' \in {pending, pending \cup {m}} /\ dead' \in {dead, dead \cup {m}}
            /\ \/ UNCHANGED <<inflight, left>>
               \/ inflight' = inflight \ {m} /\ left' = left \ {m}
            /\ lost' \in {lost, lost \cup {m}}
<1>1. stage[t] \in {"processing", "returning"} /\ ~Calling(t)
  BY NotCalling DEF Settling, Acks, NackRemoves, NackWrites, NackFails, Finished, Calling
<1>2. Current(t) \in batch[t] /\ Current(t) \in DOMAIN sent
  BY <1>1, CurrentSent DEF ShapeInv, StageOK
<1>3. UNCHANGED <<vars, role, holds, ticket, sent, dropped>>
  BY QuietLeaves DEF Quiet
<1>4. CASE Acks(t)
  BY <1>1, <1>2, <1>3, <1>4 DEF Acks, Acking, MessageEnds, Removes, Goto
<1>5. CASE NackRemoves(t)
  BY <1>1, <1>2, <1>3, <1>5 DEF NackRemoves, Removes, Goto, loop
<1>6. CASE NackWrites(t)
  BY <1>1, <1>2, <1>3, <1>6 DEF NackWrites, MessageEnds, Goto, ends
<1>7. CASE NackFails(t)
  BY <1>1, <1>2, <1>3, <1>7 DEF NackFails, MessageEnds, Goto
<1>. QED BY <1>4, <1>5, <1>6, <1>7 DEF Settling

LEMMA SettlingShape ==
  ASSUME ShapeInv, NEW t \in Threads, Settling(t)
  PROVE  ShapeInv' /\ OthersStay(t) /\ stage'[t] \in {"working", "returning"}
<1>. DEFINE m == Current(t)
<1>1. TypesOK /\ StageOK(t) /\ QueueOK
  BY DEF ShapeInv
<1>2. /\ ~Calling(t) /\ stage[t] \in {"processing", "returning"} /\ m \in batch[t] /\ m \in DOMAIN sent
      /\ UNCHANGED <<call, role, holds, ticket, todo, listed, sent>>
  BY SettlesOne DEF vars
<1>3. QueueOK'
  BY <1>1, SettlesOne DEF QueueOK
<1>4. batch[t] \ {m} \in SUBSET DOMAIN sent /\ batch[t] # {} /\ role[t] # "webhook"
  BY <1>1, <1>2 DEF TypesOK, StageOK, Draining
<1>5. \/ stage' = [stage EXCEPT ![t] = "working"] /\ batch' = [batch EXCEPT ![t] = batch[t] \ {m}]
      \/ stage' = [stage EXCEPT ![t] = "returning"] /\ batch' = batch
  BY SettlesOne
<1>. HIDE DEF m
<1>6. /\ stage'[t] \in {"working", "returning"}
      /\ stage'[t] = "returning" => batch'[t] # {}
      /\ {"working", "returning"} \subseteq Stages
  BY <1>1, <1>4, <1>5 DEF TypesOK, Stages
<1>7. TypesOK' /\ OthersStay(t)
  BY <1>1, <1>2, <1>4, <1>5, <1>6 DEF TypesOK, OthersStay
<1>. QED BY <1>2, <1>3, <1>4, <1>6, <1>7, QuietShape

-----------------------------------------------------------------------------
(* What a step does to the call it belongs to, c after it, and to the      *)
(* store: an error, the end of accept, or the progress of Process.         *)
StepFails(t, c) == /\ c.pc = "idle" /\ c.result = "error"
                   /\ Written(t) \/ UNCHANGED store

StepAccepts(t, c) == /\ call[t].pc = "accepting"
                     /\ c.pc = "idle" /\ c.result = "ok" /\ Written(t)

StepProceeds(t, c) ==
  /\ call[t].pc \in {"classified", "acting"} /\ c.pc \in {"acting", "idle"}
  /\ c.pc = "acting" => c.id = call[t].id
  /\ Written(t) \/ (call[t].pc = "acting" /\ c.pc = "acting" /\ UNCHANGED store)

LEMMA StepCases ==
  ASSUME IInv, NEW t \in Threads, Step(t)
  PROVE  /\ Calling(t)
         /\ \E c : /\ call' = [call EXCEPT ![t] = c]
                   /\ StepFails(t, c) \/ StepAccepts(t, c) \/ StepProceeds(t, c)
<1>1. call[t] \in Call
  BY DEF IInv, TypeOK
<1>2. \A result : Idle(result).pc = "idle" /\ Idle(result).result = result
  BY DEF Idle
<1>3. CASE PutFails(t)
  <2>1. Calling(t)
    BY <1>3 DEF PutFails, LoopDone, Calling
  <2>2. StepFails(t, Idle("error"))
    BY <1>2, <1>3 DEF PutFails, StepFails
  <2>. QED BY <1>3, <2>1, <2>2 DEF PutFails, Return
<1>4. CASE PutAccepted(t)
  <2>1. Calling(t)
    BY <1>4 DEF PutAccepted, Calling
  <2>2. StepAccepts(t, Idle("ok"))
    BY <1>2, <1>4 DEF PutAccepted, StepAccepts
  <2>. QED BY <1>4, <2>1, <2>2 DEF PutAccepted, Return
<1>5. CASE PutClassified(t)
  <2>. DEFINE c == [call[t] EXCEPT !.pc = "acting", !.item = Routed(call[t].item)]
  <2>1. c.pc = "acting" /\ c.id = call[t].id
    BY <1>1 DEF Call
  <2>2. call' = [call EXCEPT ![t] = c]
    BY <1>5 DEF PutClassified
  <2>3. Calling(t)
    BY <1>5 DEF PutClassified, Calling
  <2>. HIDE DEF c
  <2>4. StepProceeds(t, c)
    BY <1>5, <2>1 DEF PutClassified, StepProceeds
  <2>. QED BY <2>2, <2>3, <2>4
<1>6. ASSUME NEW item, NEW failed, Acting(t), Advance(t, item, failed), UNCHANGED store
      PROVE  /\ Calling(t)
             /\ \E c : call' = [call EXCEPT ![t] = c] /\ StepProceeds(t, c)
  <2>. DEFINE c == Advanced(call[t], item, failed)
  <2>1. c.pc = call[t].pc /\ c.id = call[t].id
    BY <1>1 DEF Call, Advanced
  <2>2. call' = [call EXCEPT ![t] = c]
    BY <1>6 DEF Advance
  <2>. HIDE DEF c
  <2>3. Calling(t) /\ StepProceeds(t, c)
    BY <1>6, <2>1 DEF Acting, Calling, StepProceeds
  <2>. QED BY <2>2, <2>3
<1>7. CASE Skip(t) \/ Execute(t) \/ ExecuteFails(t)
  BY <1>6, <1>7 DEF Skip, Execute, ExecuteFails
<1>8. CASE PutRouted(t)
  <2>1. Calling(t)
    BY <1>8 DEF PutRouted, LoopDone, Calling
  <2>2. \A result : StepProceeds(t, Idle(result))
    BY <1>2, <1>8 DEF PutRouted, LoopDone, StepProceeds
  <2>. QED BY <1>8, <2>1, <2>2 DEF PutRouted, Return
<1>. QED BY <1>3, <1>4, <1>5, <1>7, <1>8 DEF Step

LEMMA ServesShape ==
  ASSUME ShapeInv, IInv, NEW t \in Threads, Serves(t)
  PROVE  ShapeInv' /\ OthersStay(t)
<1>1. TypesOK /\ StageOK(t) /\ call \in [Threads -> Call]
  BY DEF ShapeInv, IInv, TypeOK
<1>2. UNCHANGED <<role, holds, stage, ticket, todo, listed, batch, sent, pending, inflight, dead, lost, left>>
  BY DEF Serves, fixed, loop, queue, ends
<1>3. Calling(t) /\ AtWork(t)
  BY <1>1, StepCases DEF Serves, StageOK
<1>4. PICK c : /\ call' = [call EXCEPT ![t] = c]
               /\ StepFails(t, c) \/ StepAccepts(t, c) \/ StepProceeds(t, c)
  BY StepCases DEF Serves
<1>5. TypesOK' /\ OthersStay(t)
  BY <1>1, <1>2, <1>4 DEF TypesOK, OthersStay
<1>6. QueueOK'
  BY <1>2 DEF QueueOK, ShapeInv
<1>7. StageOK(t)'
  <2>1. call'[t] = c
    BY <1>1, <1>4
  <2>2. Calling(t)' => /\ c.pc = "acting" /\ c.id = call[t].id
                       /\ call[t].pc \in {"classified", "acting"}
    BY <1>4, <2>1 DEF Calling, StepFails, StepAccepts, StepProceeds
  <2>3. IDOf(Current(t))' = IDOf(Current(t))
    BY <1>2 DEF IDOf, Current
  <2>4. Calling(t)' => AtWork(t)'
    BY <1>2, <1>3, <2>1, <2>2, <2>3 DEF AtWork
  <2>. QED BY <1>1, <1>2, <2>4 DEF StageOK
<1>. QED BY <1>3, <1>5, <1>6, <1>7, ShapeKept

(* A process dies, its callers with it.                                    *)
LEMMA DiesShape ==
  ASSUME ShapeInv, IInv, NEW p, Dies(p)
  PROVE  /\ ShapeInv'
         /\ \A t \in Threads : ProcOf[t] = p =>
              /\ stage'[t] \in {"idle", "down"} /\ ~Calling(t)'
         /\ \A t \in Threads : ProcOf[t] # p =>
              /\ stage'[t] = stage[t] /\ ticket'[t] = ticket[t] /\ todo'[t] = todo[t]
              /\ listed'[t] = listed[t] /\ batch'[t] = batch[t] /\ call'[t] = call[t]
         /\ UNCHANGED <<store, role, holds, queue, content, told, refused, place>>
<1>1. TypesOK /\ QueueOK /\ LockOK /\ (\A t \in Threads : StageOK(t)) /\ call \in [Threads -> Call]
  BY DEF ShapeInv, IInv, TypeOK
<1>. DEFINE gone == {t \in Threads : ProcOf[t] = p}
<1>2. UNCHANGED <<store, role, holds, sent, pending, inflight, dead, content, told, refused, place>>
  BY DEF Dies, Crash, vars, fixed, queue
<1>3. /\ stage' = [t \in Threads |-> IF t \in gone THEN RestStage(t) ELSE stage[t]]
      /\ ticket' = [t \in Threads |-> IF t \in gone THEN Nil ELSE ticket[t]]
      /\ todo' = [t \in Threads |-> IF t \in gone THEN {} ELSE todo[t]]
      /\ batch' = [t \in Threads |-> IF t \in gone THEN {} ELSE batch[t]]
      /\ listed' = [t \in Threads |-> IF t \in gone THEN {} ELSE listed[t]]
  BY DEF Dies
<1>4. \A t \in Threads : RestStage(t) \in {"idle", "down"}
  BY DEF RestStage
<1>5. \A t \in Threads : /\ t \in gone => call'[t].pc = "idle"
                         /\ t \notin gone => call'[t] = call[t]
  <2>1. CASE Crash(p)
    <3>1. Idle("none").pc = "idle"
      BY DEF Idle
    <3>. QED BY <2>1, <3>1 DEF Crash
  <2>2. CASE (\A t \in gone : call[t].pc = "idle") /\ UNCHANGED vars
    BY <2>2 DEF vars
  <2>. QED BY <2>1, <2>2 DEF Dies
<1>. HIDE DEF gone
<1>6. TypesOK'
  BY <1>1, <1>2, <1>3, <1>4 DEF TypesOK, Stages
<1>7. QueueOK'
  <2>1. \A t \in Threads : stage[t] = "returning" => Current(t) \in DOMAIN sent
    BY <1>1, CurrentSent DEF StageOK, ShapeInv
  <2>2. /\ lost' = lost \cup {Current(t) : t \in {u \in gone : stage[u] = "returning"}}
        /\ \/ left' = left
           \/ left' = left \cup (inflight \cap UNION {Claimed(t) : t \in gone})
    BY DEF Dies, gone
  <2>3. lost \subseteq DOMAIN sent /\ left \subseteq inflight
    BY <1>1 DEF QueueOK
  <2>4. {Current(t) : t \in {u \in gone : stage[u] = "returning"}} \subseteq DOMAIN sent
    BY <2>1 DEF gone
  <2>5. lost' \subseteq DOMAIN sent
    BY <2>2, <2>3, <2>4
  <2>6. left' \subseteq inflight
    <3>. DEFINE held == UNION {Claimed(t) : t \in gone}
    <3>1. left' = left \/ left' = left \cup (inflight \cap held)
      BY <2>2
    <3>. HIDE DEF held
    <3>. QED BY <2>3, <3>1
  <2>. QED BY <1>1, <1>2, <2>5, <2>6 DEF QueueOK
<1>8. ASSUME NEW t \in Threads
      PROVE  /\ t \in gone => stage'[t] \in {"idle", "down"} /\ ~Calling(t)'
             /\ t \notin gone => /\ stage'[t] = stage[t] /\ ticket'[t] = ticket[t] /\ todo'[t] = todo[t]
                                 /\ listed'[t] = listed[t] /\ batch'[t] = batch[t]
                                 /\ call'[t] = call[t]
  BY <1>3, <1>4, <1>5 DEF Calling
<1>9. ASSUME NEW t \in Threads PROVE StageOK(t)' /\ (Calling(t)' => Calling(t))
  <2>1. CASE t \in gone
    BY <1>8, <2>1 DEF StageOK, Draining
  <2>2. CASE t \notin gone
    <3>1. IDOf(Current(t))' = IDOf(Current(t))
      BY <1>2, <1>8, <2>2 DEF IDOf, Current
    <3>. QED BY <1>1, <1>2, <1>8, <2>2, <3>1 DEF StageOK, Calling, AtWork
  <2>. QED BY <2>1, <2>2
<1>10. LockOK'
  BY <1>1, <1>9 DEF LockOK
<1>. QED BY <1>2, <1>6, <1>7, <1>8, <1>9, <1>10 DEF ShapeInv, gone, queue

LEMMA EntranceInit == IngestInit => IInv /\ ShapeInv
<1>. SUFFICES ASSUME IngestInit PROVE IInv /\ ShapeInv
  OBVIOUS
<1>1. IInv
  BY InitOK DEF IngestInit
<1>2. \A t \in Threads : RestStage(t) \in {"idle", "down"}
  BY DEF RestStage
<1>3. \A t \in Threads : ~Calling(t) /\ stage[t] \in {"idle", "down"}
  BY <1>2 DEF IngestInit, Init, Idle, Calling
<1>4. sent = <<>> /\ Len(sent) = 0 /\ sent \in Seq(Posting)
  BY DEF IngestInit
<1>5. TypesOK
  BY <1>2, <1>4 DEF IngestInit, TypesOK, Stages
<1>6. QueueOK
  BY DEF IngestInit, QueueOK
<1>7. LockOK /\ \A t \in Threads : StageOK(t)
  BY <1>3 DEF LockOK, StageOK, Draining
<1>. QED BY <1>1, <1>5, <1>6, <1>7 DEF ShapeInv

LEMMA ActsShape ==
  ASSUME ShapeInv, IInv, NEW t \in Threads, Acts(t)
  PROVE  ShapeInv' /\ OthersStay(t)
<1>1. CASE Ingesting(t)
  <2>1. Unengaged(t) /\ \E new : Takes(t, new)
    BY <1>1, IngestsTakes DEF Ingesting
  <2>. QED BY <2>1, TakesShape
<1>. QED BY <1>1, IngestEndsShape, SendsShape, FilingShape, FetchingShape, SettlingShape, WorksShape,
           ServesShape DEF Acts, Quiet

LEMMA EntranceStep == IInv /\ ShapeInv /\ [IngestNext]_every => IInv' /\ ShapeInv'
<1>. SUFFICES ASSUME IInv, ShapeInv, [IngestNext]_every PROVE IInv' /\ ShapeInv'
  OBVIOUS
<1>1. IInv'
  BY EntranceSteps, NextOK
<1>2. ASSUME NEW f, Dropped(f) \/ UNCHANGED every PROVE ShapeInv'
  <2>1. UNCHANGED <<vars, fixed, stage, ticket, loop, queue, ends>>
    BY <1>2 DEF Dropped, every, ingest, history
  <2>. QED BY <2>1 DEF vars, fixed, loop, queue, ends, ShapeInv, TypesOK, QueueOK, LockOK, StageOK, Calling,
                       AtWork, IDOf, Current
<1>. QED BY <1>1, <1>2, NextCases, ActsShape, DiesShape

LEMMA EntranceInv == IngestSpec => [](IInv /\ ShapeInv)
  BY EntranceInit, EntranceStep, PTL DEF IngestSpec

-----------------------------------------------------------------------------
(* What a caller holds fits its stage: a ticket while it ingests, messages *)
(* from where RunOnce receives them to where it has settled them, and no   *)
(* more of them than it asked for.                                         *)

Places == {"outside", "incoming", "processed", "rejected"}

HandsOK(t) ==
  /\ ticket[t] # Nil <=> stage[t] = "ingesting"
  /\ batch[t] # {} => stage[t] \in {"claiming", "reading", "working", "processing", "returning"}
  /\ listed[t] # {} <=> stage[t] \in {"recovering", "claiming", "reading"}
  /\ Cardinality(batch[t]) <= Batch
  /\ stage[t] \in {"claiming", "reading"} => Cardinality(batch[t]) < Batch

TidyInv == place \in [Files -> Places] /\ \A t \in Threads : HandsOK(t)

(* Of one caller's step only its own part need be looked at.                *)
LEMMA TidyKept ==
  ASSUME TidyInv, NEW t \in Threads, OthersStay(t), HandsOK(t)', place' \in [Files -> Places]
  PROVE  TidyInv'
<1>1. ASSUME NEW u \in Threads \ {t} PROVE HandsOK(u)'
  BY DEF HandsOK, TidyInv, OthersStay
<1>. QED BY <1>1 DEF TidyInv

(* Batches are finite.                                                      *)
LEMMA BatchSizes ==
  ASSUME TypesOK, NEW ms \in SUBSET DOMAIN sent, NEW m
  PROVE  /\ Cardinality(ms) \in Nat
         /\ Cardinality(ms \cup {m}) \in Nat /\ Cardinality(ms \cup {m}) <= Cardinality(ms) + 1
         /\ Cardinality(ms \ {m}) \in Nat /\ Cardinality(ms \ {m}) <= Cardinality(ms)
         /\ Cardinality({}) = 0 /\ Batch \in Nat
<1>1. DOMAIN sent = 1..Len(sent) /\ Len(sent) \in Nat
  BY DEF TypesOK
<1>2. IsFiniteSet(1..Len(sent))
  BY <1>1, FS_Interval
<1>3. IsFiniteSet(ms)
  BY <1>1, <1>2, FS_Subset
<1>4. IsFiniteSet(ms \cup {m}) /\ IsFiniteSet(ms \ {m})
  BY <1>3, FS_AddElement, FS_RemoveElement
<1>5. /\ Cardinality(ms) \in Nat /\ Cardinality(ms \cup {m}) \in Nat
      /\ Cardinality(ms \ {m}) \in Nat
  BY <1>3, <1>4, FS_CardinalityType
<1>6. /\ Cardinality(ms \cup {m}) = IF m \in ms THEN Cardinality(ms) ELSE Cardinality(ms) + 1
      /\ Cardinality(ms \ {m}) = IF m \in ms THEN Cardinality(ms) - 1 ELSE Cardinality(ms)
  BY <1>3, FS_AddElement, FS_RemoveElement
<1>. QED BY <1>5, <1>6, FS_EmptySet, IngestAssumption

LEMMA TidyInit == IngestInit => TidyInv
<1>. SUFFICES ASSUME IngestInit PROVE TidyInv
  OBVIOUS
<1>1. \A t \in Threads : RestStage(t) \in {"idle", "down"}
  BY DEF RestStage
<1>2. place \in [Files -> Places]
  BY DEF IngestInit, Places
<1>3. ASSUME NEW t \in Threads PROVE HandsOK(t)
  BY <1>1, FS_EmptySet, IngestAssumption DEF IngestInit, HandsOK
<1>. QED BY <1>2, <1>3 DEF TidyInv

(* Steps that leave the batches and what is listed as they are              *)
LEMMA TidyApart ==
  ASSUME TidyInv, NEW t \in Threads, OthersStay(t), UNCHANGED <<listed, batch>>,
         place' \in [Files -> Places],
         ticket'[t] # Nil <=> stage'[t] = "ingesting",
         batch[t] = {} \/ stage'[t] \in {"working", "processing", "returning"},
         stage[t] \notin {"recovering", "claiming", "reading"},
         stage'[t] \notin {"recovering", "claiming", "reading"}
  PROVE  TidyInv'
<1>1. HandsOK(t)'
  BY DEF HandsOK, TidyInv
<1>. QED BY <1>1, TidyKept

LEMMA FilingTidy ==
  ASSUME ShapeInv, TidyInv, NEW t \in Threads, Filing(t)
  PROVE  TidyInv'
<1>1. /\ OthersStay(t) /\ UNCHANGED <<listed, batch, ticket>> /\ HandsOK(t)
      /\ stage[t] \notin {"ingesting", "recovering", "claiming", "reading"}
      /\ stage[t] \notin Draining \ {"working"} /\ (stage[t] = "working" => batch[t] = {})
      /\ stage'[t] \in {"idle", "polling", "scanning", "receiving"}
  BY FilingShape, QuietLeaves DEF Quiet, TidyInv, Draining
<1>2. batch[t] = {}
  BY <1>1 DEF HandsOK, Draining
<1>3. place' \in [Files -> Places]
  <2>1. CASE FilesAway(t)
    BY <2>1 DEF FilesAway, Places, TidyInv
  <2>. QED BY <2>1 DEF Filing, FilesDone, Scans, ScanFails, RunOnceEnds, TidyInv
<1>. QED BY <1>1, <1>2, <1>3, TidyApart DEF HandsOK

LEMMA FetchingTidy ==
  ASSUME ShapeInv, TidyInv, NEW t \in Threads, Fetching(t)
  PROVE  TidyInv'
<1>1. /\ OthersStay(t) /\ HandsOK(t) /\ TypesOK /\ ticket' = ticket /\ place' = place
      /\ stage[t] # "ingesting" /\ stage'[t] # "ingesting"
  BY FetchingShape, QuietLeaves DEF Quiet, TidyInv, ShapeInv
<1>2. /\ stage \in [Threads -> Stages] /\ listed \in [Threads -> SUBSET DOMAIN sent]
      /\ batch \in [Threads -> SUBSET DOMAIN sent] /\ role[t] \in Roles
  BY <1>1 DEF TypesOK
<1>3. ASSUME NEW names, NEW received \in SUBSET DOMAIN sent, GoesOn(t, names, received),
             Cardinality(received) <= Batch, role[t] # "webhook"
      PROVE  HandsOK(t)'
  <2>. DEFINE more == names # {} /\ Cardinality(received) < Batch
              left_over == IF more THEN names ELSE {}
              to == IF more THEN "claiming"
                    ELSE IF received = {} THEN AfterRunOnce(t, FALSE, FALSE) ELSE "working"
  <2>1. listed'[t] = left_over /\ batch'[t] = received /\ stage'[t] = to
    BY <1>2, <1>3 DEF GoesOn, Goto
  <2>2. AfterRunOnce(t, FALSE, FALSE) \in {"receiving", "polling", "idle"}
    BY <1>2, <1>3, AfterBatchTyped
  <2>3. CASE more
    BY <1>1, <1>3, <2>1, <2>3 DEF HandsOK
  <2>4. CASE ~more
    <3>1. left_over = {} /\ to \notin {"recovering", "claiming", "reading"}
          /\ (received # {} => to = "working")
      BY <2>2, <2>4
    <3>. HIDE DEF left_over, to, more
    <3>. QED BY <1>1, <1>3, <2>1, <3>1 DEF HandsOK
  <2>. QED BY <2>3, <2>4
<1>4. Batch \in Nat /\ Cardinality({}) = 0 /\ Cardinality({}) <= Batch
  BY FS_EmptySet, IngestAssumption
<1>5. stage[t] \in Draining => role[t] # "webhook"
  BY DEF ShapeInv, StageOK
<1>6. CASE Starts(t)
  <2>. DEFINE to == IF inflight = {} THEN "polling" ELSE "recovering"
  <2>1. stage'[t] = to /\ listed'[t] = inflight /\ batch' = batch /\ stage[t] = "down"
    BY <1>2, <1>6 DEF Starts, Goto
  <2>2. HandsOK(t)'
    BY <1>1, <2>1 DEF HandsOK
  <2>. QED BY <1>1, <2>2, TidyKept DEF TidyInv
<1>7. CASE Recovers(t)
  <2>. DEFINE rest == listed[t] \ {Min(listed[t])}
              to == IF rest = {} THEN "polling" ELSE "recovering"
  <2>1. stage'[t] = to /\ listed'[t] = rest /\ batch' = batch /\ stage[t] = "recovering"
    BY <1>2, <1>7 DEF Recovers, Goto
  <2>2. HandsOK(t)'
    <3>. HIDE DEF rest
    <3>. QED BY <1>1, <2>1 DEF HandsOK
  <2>. QED BY <1>1, <2>2, TidyKept DEF TidyInv
<1>8. CASE Lists(t)
  <2>1. GoesOn(t, pending, {}) /\ role[t] # "webhook"
    BY <1>5, <1>8 DEF Lists, Draining
  <2>2. Cardinality({}) <= Batch /\ {} \in SUBSET DOMAIN sent
    BY <1>4
  <2>3. HandsOK(t)'
    BY <1>3, <2>1, <2>2
  <2>. QED BY <1>1, <2>3, TidyKept DEF TidyInv
<1>9. CASE Misses(t)
  <2>1. GoesOn(t, listed[t] \ {Foremost(t)}, batch[t]) /\ role[t] # "webhook"
    BY <1>5, <1>9 DEF Misses, Draining
  <2>2. Cardinality(batch[t]) <= Batch /\ batch[t] \in SUBSET DOMAIN sent
    BY <1>1, <1>2 DEF HandsOK
  <2>3. HandsOK(t)'
    BY <1>3, <2>1, <2>2
  <2>. QED BY <1>1, <2>3, TidyKept DEF TidyInv
<1>10. CASE Claims(t)
  <2>1. stage[t] = "claiming" /\ stage'[t] = "reading" /\ UNCHANGED <<listed, batch>>
    BY <1>2, <1>10 DEF Claims, Goto, loop
  <2>2. HandsOK(t)'
    BY <1>1, <2>1 DEF HandsOK
  <2>. QED BY <1>1, <2>2, TidyKept DEF TidyInv
<1>11. CASE Reads(t)
  <2>. DEFINE received == batch[t] \cup {Foremost(t)}
  <2>1. GoesOn(t, listed[t] \ {Foremost(t)}, received) /\ role[t] # "webhook" /\ stage[t] = "reading"
    BY <1>5, <1>11 DEF Reads, Draining
  <2>2. received \in SUBSET DOMAIN sent
    BY <1>2, <1>11 DEF Reads, ShapeInv, QueueOK
  <2>3. Cardinality(received) <= Batch
    <3>1. /\ Cardinality(batch[t]) \in Nat /\ Cardinality(received) \in Nat
          /\ Cardinality(received) <= Cardinality(batch[t]) + 1
      BY <1>1, <1>2, BatchSizes
    <3>2. Cardinality(batch[t]) < Batch
      BY <1>1, <2>1 DEF HandsOK
    <3>. HIDE DEF received
    <3>. QED BY <1>4, <3>1, <3>2
  <2>. HIDE DEF received
  <2>4. HandsOK(t)'
    BY <1>3, <2>1, <2>2, <2>3
  <2>. QED BY <1>1, <2>4, TidyKept DEF TidyInv
<1>12. CASE ReceiveFails(t)
  <2>1. role[t] # "webhook"
    BY <1>5, <1>12 DEF ReceiveFails, CannotReceive, Draining
  <2>2. stage'[t] = AfterRunOnce(t, FALSE, TRUE) /\ listed'[t] = {} /\ batch'[t] = {}
    BY <1>2, <1>12 DEF ReceiveFails, GivesUp, Goto
  <2>3. AfterRunOnce(t, FALSE, TRUE) \in {"receiving", "polling", "idle"}
    BY <1>2, <2>1, AfterBatchTyped
  <2>4. HandsOK(t)'
    BY <1>1, <1>4, <2>2, <2>3 DEF HandsOK
  <2>. QED BY <1>1, <2>4, TidyKept DEF TidyInv
<1>. QED BY <1>6, <1>7, <1>8, <1>9, <1>10, <1>11, <1>12 DEF Fetching

LEMMA SettlingTidy ==
  ASSUME ShapeInv, TidyInv, NEW t \in Threads, Settling(t)
  PROVE  TidyInv'
<1>. DEFINE m == Current(t)
<1>1. /\ OthersStay(t) /\ HandsOK(t) /\ TypesOK
      /\ stage[t] \in {"processing", "returning"} /\ stage'[t] \in {"working", "returning"}
      /\ UNCHANGED <<ticket, listed, place>>
      /\ \/ batch' = [batch EXCEPT ![t] = @ \ {m}]
         \/ batch' = batch
  BY SettlesOne, SettlingShape DEF TidyInv, ShapeInv
<1>2. batch \in [Threads -> SUBSET DOMAIN sent]
  BY <1>1 DEF TypesOK
<1>3. Cardinality(batch[t]) <= Batch /\ Cardinality(batch[t] \ {m}) <= Batch
  <2>. HIDE DEF m
  <2>1. /\ Cardinality(batch[t]) \in Nat /\ Cardinality(batch[t] \ {m}) \in Nat /\ Batch \in Nat
        /\ Cardinality(batch[t] \ {m}) <= Cardinality(batch[t])
    BY <1>1, <1>2, BatchSizes
  <2>2. Cardinality(batch[t]) <= Batch
    BY <1>1 DEF HandsOK
  <2>. QED BY <2>1, <2>2
<1>4. batch'[t] \in {batch[t], batch[t] \ {m}}
  <2>. HIDE DEF m
  <2>. QED BY <1>1, <1>2
<1>5. HandsOK(t)'
  <2>. HIDE DEF m
  <2>. QED BY <1>1, <1>3, <1>4 DEF HandsOK
<1>. QED BY <1>1, <1>5, TidyKept DEF TidyInv

LEMMA ActsTidy ==
  ASSUME ShapeInv, IInv, TidyInv, NEW t \in Threads, Acts(t)
  PROVE  TidyInv'
<1>1. OthersStay(t) /\ TypesOK /\ HandsOK(t) /\ place \in [Files -> Places]
  BY ActsShape DEF ShapeInv, TidyInv
<1>2. CASE Ingesting(t)
  <2>1. PICK new : Takes(t, new) /\ Unengaged(t)
    BY <1>2, IngestsTakes DEF Ingesting
  <2>2. ticket'[t] # Nil /\ stage'[t] = "ingesting" /\ UNCHANGED <<listed, batch, place>>
    BY <1>1, <2>1, IdsAssumption DEF Takes, Goto, TypesOK, loop
  <2>3. batch[t] = {} /\ stage[t] \notin {"recovering", "claiming", "reading"}
    BY <1>1, <2>1 DEF HandsOK, Unengaged
  <2>. QED BY <1>1, <2>2, <2>3, TidyApart
<1>3. CASE IngestEnds(t) \/ Sends(t) \/ SendFails(t)
  <2>1. PICK a : Answer(t, a) /\ stage[t] = "ingesting"
    BY <1>3 DEF IngestEnds, Sends, SendFails, Accepted, Returned
  <2>2. ticket'[t] = Nil /\ UNCHANGED <<listed, batch, place>> /\ stage'[t] = AfterIngest(t, a)
    BY <1>1, <2>1 DEF Answer, Goto, TypesOK, loop
  <2>3. AfterIngest(t, a) \notin {"ingesting", "recovering", "claiming", "reading"} /\ batch[t] = {}
    BY <1>1, <2>1 DEF AfterIngest, HandsOK, TypesOK, Roles
  <2>. QED BY <1>1, <2>1, <2>2, <2>3, TidyApart
<1>4. CASE Works(t)
  <2>1. /\ stage[t] = "working" /\ stage'[t] = "processing"
        /\ UNCHANGED <<listed, batch, ticket, place>>
    BY <1>1, <1>4 DEF Works, Goto, TypesOK, loop
  <2>. QED BY <1>1, <2>1, TidyApart DEF HandsOK
<1>5. CASE Serves(t)
  <2>1. UNCHANGED <<listed, batch, ticket, place, stage>>
    BY <1>5 DEF Serves, loop
  <2>2. stage[t] \in {"ingesting", "processing"}
    BY <1>5, StepCases DEF Serves, ShapeInv, StageOK, AtWork
  <2>. QED BY <1>1, <2>1, <2>2, TidyApart DEF HandsOK
<1>. QED BY <1>2, <1>3, <1>4, <1>5, FilingTidy, FetchingTidy, SettlingTidy DEF Acts, Quiet

LEMMA DiesTidy ==
  ASSUME ShapeInv, TidyInv, NEW p, Dies(p)
  PROVE  TidyInv'
<1>. DEFINE gone == {t \in Threads : ProcOf[t] = p}
<1>1. /\ stage' = [t \in Threads |-> IF t \in gone THEN RestStage(t) ELSE stage[t]]
      /\ ticket' = [t \in Threads |-> IF t \in gone THEN Nil ELSE ticket[t]]
      /\ listed' = [t \in Threads |-> IF t \in gone THEN {} ELSE listed[t]]
      /\ batch' = [t \in Threads |-> IF t \in gone THEN {} ELSE batch[t]]
      /\ UNCHANGED place
  BY DEF Dies
<1>2. gone \subseteq Threads
  OBVIOUS
<1>. HIDE DEF gone
<1>3. ASSUME NEW t \in Threads PROVE HandsOK(t)'
  <2>1. HandsOK(t) /\ RestStage(t) \in {"idle", "down"} /\ Cardinality({}) <= Batch
    BY FS_EmptySet, IngestAssumption DEF TidyInv, RestStage
  <2>2. CASE t \in gone
    BY <1>1, <2>1, <2>2 DEF HandsOK
  <2>3. CASE t \notin gone
    BY <1>1, <2>1, <2>3 DEF HandsOK
  <2>. QED BY <2>2, <2>3
<1>. QED BY <1>1, <1>3 DEF TidyInv

LEMMA TidyStep ==
  ASSUME ShapeInv, IInv, TidyInv, [IngestNext]_every
  PROVE  TidyInv'
<1>1. ASSUME NEW f \in Files, Dropped(f) PROVE TidyInv'
  <2>1. place' \in [Files -> Places] /\ UNCHANGED <<ticket, stage, listed, batch>>
    BY <1>1 DEF Dropped, TidyInv, Places, loop
  <2>. QED BY <2>1 DEF TidyInv, HandsOK
<1>2. CASE UNCHANGED every
  BY <1>2 DEF every, ingest, loop, TidyInv, HandsOK
<1>. QED BY <1>1, <1>2, NextCases, ActsTidy, DiesTidy

(* Types, no caller in a call of the service its stage does not make, and   *)
(* no batch above its maximum.                                              *)
THEOREM EntranceTypesCorrect == IngestSpec => []IngestOK
<1>1. ASSUME ShapeInv, TidyInv PROVE IngestOK
  <2>1. ASSUME NEW t \in Threads
        PROVE  /\ todo[t] \subseteq Files
               /\ listed[t] \subseteq DOMAIN sent /\ batch[t] \subseteq DOMAIN sent
               /\ call[t].pc # "idle" => stage[t] \in {"ingesting", "processing"}
               /\ HandsOK(t)
    BY <1>1 DEF ShapeInv, TypesOK, StageOK, Calling, AtWork, TidyInv
  <2>. QED BY <1>1, <2>1 DEF IngestOK, HandsOK, ShapeInv, TypesOK, QueueOK, TidyInv, Places
<1>. QED BY <1>1, TidyInit, TidyStep, EntranceInv, PTL DEF IngestSpec

-----------------------------------------------------------------------------
(* The entry points, the worker's loop, icr and the dashboard implement    *)
(* the service: whatever comes in, is sent twice, fails or dies, they only *)
(* make calls Service allows (pipeline.go:62-85, main.go:94-114).          *)
THEOREM EntrancesImplementService == IngestSpec => Spec
<1>1. IngestInit => Init
  BY DEF IngestInit
<1>. QED BY <1>1, EntranceInv, EntranceSteps, PTL DEF IngestSpec, Spec

-----------------------------------------------------------------------------
(* A ticket is queued once by each process.  Between accept's read and the *)
(* Send a caller claims the ticket: within its process no message carries  *)
(* it and no other caller claims it, as accept found it absent under the   *)
(* lock and what was ever sent or accepted is in the store.                *)

IDFor(t) == TicketID(ticket[t])

Claiming(t) ==
  /\ stage[t] = "ingesting" /\ ticket[t] \in Tickets
  /\ call[t].pc = "accepting" \/ (call[t].pc = "idle" /\ call[t].result = "ok")

(* accept has returned and the ticket is in the store, new or not.         *)
Known(t) ==
  /\ Returned(t) /\ ticket[t] \in Tickets
  /\ call[t].result \in {"ok", "duplicate"}

OnceInv ==
  /\ \A m \in DOMAIN sent : store[IDOf(m)] # Nil
  /\ \A t \in Threads : Known(t) => store[IDFor(t)] # Nil
  /\ \A t \in Threads, m \in DOMAIN sent :
       Claiming(t) /\ sent[m].by = ProcOf[t] => IDOf(m) # IDFor(t)
  /\ \A t, u \in Threads :
       t # u /\ ProcOf[t] = ProcOf[u] /\ Claiming(t) /\ Claiming(u) => IDFor(t) # IDFor(u)
  /\ \A m, n \in DOMAIN sent : m # n /\ sent[m].by = sent[n].by => IDOf(m) # IDOf(n)

(* The store after a write; nothing is ever deleted.                       *)
LEMMA WrittenAt ==
  ASSUME IInv, NEW t \in Threads, Calling(t), Written(t)
  PROVE  /\ call[t].id \in Ids /\ call[t].item \in Item /\ call[t].item # Nil
         /\ \A id \in Ids : store'[id] = IF id = call[t].id THEN call[t].item ELSE store[id]
<1>1. call[t].id \in Ids /\ call[t].item \in Item
  BY DEF IInv, CallOK, Calling
<1>2. store \in [Ids -> Item \cup {Nil}]
  BY DEF IInv, TypeOK
<1>. QED BY <1>1, <1>2, NilDistinct DEF Written

LEMMA StoreWritten ==
  ASSUME IInv, NEW t \in Threads, Acts(t)
  PROVE  \/ store' = store
         \/ Serves(t) /\ Calling(t) /\ Written(t)
<1>1. CASE Serves(t)
  BY <1>1, StepCases DEF Serves, StepFails, StepAccepts, StepProceeds
<1>2. CASE Ingesting(t)
  BY <1>2 DEF Ingesting, Posted, ScansFile, Submitted, Ingests, vars, GetFails, Accept, Refuse, Begin
<1>3. CASE Works(t)
  BY <1>3 DEF Works, GetFails, ProcessIgnored, Process, Refuse, Begin
<1>4. CASE IngestEnds(t) \/ SendFails(t) \/ Sends(t)
  BY <1>4 DEF IngestEnds, SendFails, Sends, Answer, vars
<1>5. CASE Quiet(t)
  BY <1>5, QuietLeaves DEF vars
<1>. QED BY <1>1, <1>2, <1>3, <1>4, <1>5 DEF Acts

(* A caller that does something else is in no call of IngestIn.             *)
LEMMA QuietApart ==
  ASSUME ShapeInv, NEW t \in Threads, Quiet(t)
  PROVE  /\ stage[t] # "ingesting"
         /\ stage'[t] \notin {"ingesting", "processing", "processed", "rejected"}
<1>1. CASE Filing(t)
  BY <1>1, FilingShape
<1>2. CASE Fetching(t)
  BY <1>2, FetchingShape
<1>3. CASE Settling(t)
  <2>1. stage[t] \in {"processing", "returning"}
    BY <1>3, SettlesOne
  <2>. QED BY <1>3, <2>1, SettlingShape
<1>. QED BY <1>1, <1>2, <1>3 DEF Quiet

LEMMA NothingDeleted ==
  ASSUME IInv, NEW t \in Threads, Acts(t), NEW id \in Ids, store[id] # Nil
  PROVE  store'[id] # Nil
  BY StoreWritten, WrittenAt

(* What accept leaves a caller with.                                       *)
LEMMA TakesCall ==
  ASSUME ShapeInv, IInv, NEW t \in Threads, NEW new, Takes(t, new), Unengaged(t)
  PROVE  /\ store' = store
         /\ new \in Tickets /\ Calling(t)' =>
              store[TicketID(new)] = Nil /\ \A u \in Threads : ProcOf[u] = ProcOf[t] => ~Calling(u)
         /\ new \in Tickets /\ ~Calling(t)' =>
              /\ call'[t].result \in {"duplicate", "error"}
              /\ call'[t].result = "duplicate" => store[TicketID(new)] # Nil
<1>1. call \in [Threads -> Call]
  BY DEF IInv, TypeOK
<1>2. \A result : Idle(result).pc = "idle" /\ Idle(result).result = result
  BY DEF Idle
<1>3. new \notin Tickets \/ new # Invalid
  BY DEF Tickets
<1>4. CASE new = Invalid
  BY <1>3, <1>4 DEF Takes, vars, GetFails, Accept, Refuse, Begin
<1>5. CASE GetFails(t)
  BY <1>1, <1>2, <1>5 DEF GetFails, Refuse, Calling
<1>6. CASE Accept(t, TicketID(new)) /\ store[TicketID(new)] # Nil
  BY <1>1, <1>2, <1>6 DEF Accept, Refuse, Calling
<1>7. CASE Accept(t, TicketID(new)) /\ store[TicketID(new)] = Nil
  <2>1. call'[t].pc = "accepting" /\ store' = store /\ CanCall(t)
    BY <1>1, <1>7 DEF Accept, Begin
  <2>. QED BY <1>7, <2>1 DEF Calling, CanCall
<1>. QED BY <1>4, <1>5, <1>6, <1>7 DEF Takes

(* A message keeps its ticket.                                             *)
LEMMA MessagesStay ==
  ASSUME TypesOK, NEW m \in DOMAIN sent,
         sent' = sent \/ \E x \in Posting : sent' = Append(sent, x)
  PROVE  /\ m \in DOMAIN sent' /\ sent'[m] = sent[m] /\ IDOf(m)' = IDOf(m)
         /\ IDOf(m) \in Ids /\ sent[m] \in Posting
<1>1. sent[m] \in Posting
  BY DEF TypesOK
<1>. QED BY <1>1, SentStays, IdsAssumption DEF IDOf, Posting

(* A caller's step that sends nothing: what is left to show.               *)
LEMMA OnceKept ==
  ASSUME ShapeInv, OnceInv, NEW t \in Threads, OthersStay(t), sent' = sent,
         \A id \in Ids : store[id] # Nil => store'[id] # Nil,
         Claiming(t)' => Claiming(t) /\ ticket'[t] = ticket[t],
         Known(t)' => store'[IDFor(t)'] # Nil
  PROVE  OnceInv'
<1>1. \A m \in DOMAIN sent : IDOf(m)' = IDOf(m) /\ IDOf(m) \in Ids
  BY MessagesStay DEF ShapeInv
<1>2. \A u \in Threads \ {t} :
        /\ Claiming(u)' <=> Claiming(u)
        /\ Known(u)' <=> Known(u)
        /\ IDFor(u)' = IDFor(u)
  BY DEF OthersStay, Claiming, Known, Returned, IDFor
<1>3. \A u \in Threads : Claiming(u)' => Claiming(u) /\ IDFor(u)' = IDFor(u)
  BY <1>2 DEF IDFor
<1>4. \A u \in Threads : Known(u) => IDFor(u) \in Ids
  BY IdsAssumption DEF Known, IDFor
<1>5. \A u \in Threads : Known(u)' => store'[IDFor(u)'] # Nil
  BY <1>2, <1>4 DEF OnceInv
<1>6. \A m \in DOMAIN sent' : store'[IDOf(m)'] # Nil
  BY <1>1 DEF OnceInv
<1>7. \A u \in Threads, m \in DOMAIN sent' :
        Claiming(u)' /\ sent'[m].by = ProcOf[u] => IDOf(m)' # IDFor(u)'
  BY <1>1, <1>3 DEF OnceInv
<1>8. \A u, v \in Threads :
        u # v /\ ProcOf[u] = ProcOf[v] /\ Claiming(u)' /\ Claiming(v)' => IDFor(u)' # IDFor(v)'
  BY <1>3 DEF OnceInv
<1>9. \A m, n \in DOMAIN sent' : m # n /\ sent'[m].by = sent'[n].by => IDOf(m)' # IDOf(n)'
  BY <1>1 DEF OnceInv
<1>. QED BY <1>5, <1>6, <1>7, <1>8, <1>9 DEF OnceInv

(* accept found the ticket absent, so no message carries it and nobody     *)
(* claims it who is not in the same lock's hands.                          *)
LEMMA OnceTakes ==
  ASSUME ShapeInv, IInv, OnceInv, NEW t \in Threads, NEW new, Takes(t, new), Unengaged(t)
  PROVE  OnceInv'
<1>1. /\ OthersStay(t) /\ stage'[t] = "ingesting" /\ ticket'[t] = new
      /\ store' = store /\ sent' = sent
  BY TakesShape, TakesCall DEF Takes, queue
<1>2. CASE Claiming(t)'
  <2>1. new \in Tickets
    BY <1>1, <1>2 DEF Claiming
  <2>2. call'[t].pc = "accepting" /\ Calling(t)'
    BY <1>2, <2>1, TakesCall DEF Claiming, Calling
  <2>3. store[TicketID(new)] = Nil /\ \A u \in Threads : ProcOf[u] = ProcOf[t] => ~Calling(u)
    BY <2>1, <2>2, TakesCall
  <2>4. IDFor(t)' = TicketID(new) /\ TicketID(new) \in Ids
    BY <1>1, <2>1, IdsAssumption DEF IDFor
  <2>5. \A m \in DOMAIN sent : IDOf(m)' = IDOf(m) /\ IDOf(m) # TicketID(new)
    BY <1>1, <2>3 DEF OnceInv, IDOf
  <2>6. ASSUME NEW u \in Threads \ {t}
        PROVE  /\ Claiming(u)' <=> Claiming(u)
               /\ Known(u)' <=> Known(u)
               /\ IDFor(u)' = IDFor(u)
               /\ ProcOf[u] = ProcOf[t] /\ Claiming(u) => IDFor(u) # TicketID(new)
    <3>1. /\ Claiming(u)' <=> Claiming(u)
          /\ Known(u)' <=> Known(u)
          /\ IDFor(u)' = IDFor(u)
      BY <1>1 DEF OthersStay, Claiming, Known, Returned, IDFor
    <3>2. ASSUME ProcOf[u] = ProcOf[t], Claiming(u) PROVE IDFor(u) # TicketID(new)
      <4>1. Known(u)
        BY <2>3, <3>2 DEF Claiming, Calling, Known, Returned
      <4>. QED BY <2>3, <4>1 DEF OnceInv
    <3>. QED BY <3>1, <3>2
  <2>7. ~Known(t)'
    BY <2>2 DEF Known, Returned
  <2>8. \A u \in Threads : Known(u)' => store'[IDFor(u)'] # Nil
    BY <1>1, <2>6, <2>7 DEF OnceInv
  <2>9. \A m \in DOMAIN sent' : store'[IDOf(m)'] # Nil
    BY <1>1, <2>5 DEF OnceInv
  <2>10. \A u \in Threads, m \in DOMAIN sent' :
           Claiming(u)' /\ sent'[m].by = ProcOf[u] => IDOf(m)' # IDFor(u)'
    BY <1>1, <2>4, <2>5, <2>6 DEF OnceInv
  <2>11. \A u, v \in Threads :
           u # v /\ ProcOf[u] = ProcOf[v] /\ Claiming(u)' /\ Claiming(v)' => IDFor(u)' # IDFor(v)'
    BY <2>4, <2>6 DEF OnceInv
  <2>12. \A m, n \in DOMAIN sent' : m # n /\ sent'[m].by = sent'[n].by => IDOf(m)' # IDOf(n)'
    BY <1>1, <2>5 DEF OnceInv
  <2>. QED BY <2>8, <2>9, <2>10, <2>11, <2>12 DEF OnceInv
<1>3. CASE ~Claiming(t)'
  <2>1. Known(t)' => store'[IDFor(t)'] # Nil
    BY <1>1, TakesCall DEF Known, Returned, IDFor, Calling
  <2>. QED BY <1>1, <1>3, <2>1, OnceKept
<1>. QED BY <1>2, <1>3

(* What is sent was claimed.                                               *)
LEMMA OnceSends ==
  ASSUME ShapeInv, IInv, OnceInv, NEW t \in Threads, Sends(t)
  PROVE  OnceInv'
<1>. PICK x, next : x = [ticket |-> ticket[t], by |-> ProcOf[t]] /\ next = Len(sent) + 1
  OBVIOUS
<1>1. x \in Posting /\ sent' = Append(sent, x) /\ ticket[t] \in Tickets
  BY SendsOne
<1>2. Claiming(t) /\ Known(t)
  BY <1>1 DEF Sends, Accepted, Returned, Claiming, Known
<1>3. store' = store /\ OthersStay(t) /\ stage'[t] # "ingesting"
  BY SendsShape DEF Sends, Answer, vars
<1>4. \A m \in DOMAIN sent : sent'[m] = sent[m] /\ IDOf(m)' = IDOf(m)
  BY <1>1, MessagesStay DEF ShapeInv
<1>5. sent'[next] = x /\ DOMAIN sent' = DOMAIN sent \cup {next} /\ next \notin DOMAIN sent
  BY <1>1 DEF ShapeInv, TypesOK
<1>6. x.by = ProcOf[t] /\ IDOf(next)' = IDFor(t)
  BY <1>5 DEF IDOf, IDFor
<1>7. \A u \in Threads \ {t} :
        /\ Claiming(u)' <=> Claiming(u)
        /\ Known(u)' <=> Known(u)
        /\ IDFor(u)' = IDFor(u)
  BY <1>3 DEF OthersStay, Claiming, Known, Returned, IDFor
<1>8. ~Claiming(t)' /\ ~Known(t)'
  BY <1>3 DEF Claiming, Known, Returned
<1>9. \A u \in Threads : Known(u)' => store'[IDFor(u)'] # Nil
  BY <1>3, <1>7, <1>8 DEF OnceInv
<1>10. \A m \in DOMAIN sent' : store'[IDOf(m)'] # Nil
  BY <1>2, <1>3, <1>4, <1>5, <1>6 DEF OnceInv
<1>11. \A u \in Threads, m \in DOMAIN sent' :
         Claiming(u)' /\ sent'[m].by = ProcOf[u] => IDOf(m)' # IDFor(u)'
  BY <1>2, <1>4, <1>5, <1>6, <1>7, <1>8 DEF OnceInv
<1>12. \A u, v \in Threads :
         u # v /\ ProcOf[u] = ProcOf[v] /\ Claiming(u)' /\ Claiming(v)' => IDFor(u)' # IDFor(v)'
  BY <1>7, <1>8 DEF OnceInv
<1>13. \A m, n \in DOMAIN sent' : m # n /\ sent'[m].by = sent'[n].by => IDOf(m)' # IDOf(n)'
  BY <1>2, <1>4, <1>5, <1>6 DEF OnceInv
<1>. QED BY <1>9, <1>10, <1>11, <1>12, <1>13 DEF OnceInv

(* The Put of accept puts the claimed ticket into the store.               *)
LEMMA OnceServes ==
  ASSUME ShapeInv, IInv, OnceInv, NEW t \in Threads, Serves(t)
  PROVE  OnceInv'
<1>1. OthersStay(t) /\ UNCHANGED <<sent, stage, ticket>>
  BY ServesShape DEF Serves, queue
<1>2. PICK c : /\ call' = [call EXCEPT ![t] = c]
               /\ StepFails(t, c) \/ StepAccepts(t, c) \/ StepProceeds(t, c)
  BY StepCases DEF Serves
<1>3. call'[t] = c
  BY <1>2 DEF IInv, TypeOK
<1>4. Calling(t) /\ AtWork(t)
  BY StepCases DEF Serves, ShapeInv, StageOK
<1>5. ASSUME stage[t] = "ingesting", c.pc = "accepting" \/ c.result \in {"ok", "duplicate"}, c.pc # "acting"
      PROVE  StepAccepts(t, c)
  BY <1>2, <1>4, <1>5 DEF AtWork, StepFails, StepProceeds, StepAccepts
<1>6. Claiming(t)' => Claiming(t) /\ ticket'[t] = ticket[t]
  BY <1>1, <1>2, <1>3, <1>4 DEF Claiming, AtWork, StepFails, StepProceeds, StepAccepts
<1>7. ASSUME Known(t)' PROVE store'[IDFor(t)'] # Nil
  <2>1. stage[t] = "ingesting" /\ ticket[t] \in Tickets /\ c.pc = "idle" /\ c.result \in {"ok", "duplicate"}
    BY <1>1, <1>3, <1>7 DEF Known, Returned
  <2>2. StepAccepts(t, c) /\ call[t].id = IDFor(t)
    BY <1>4, <1>5, <2>1 DEF AtWork, IDFor
  <2>3. store'[call[t].id] # Nil
    BY <1>4, <2>2, WrittenAt DEF StepAccepts
  <2>. QED BY <1>1, <2>2, <2>3 DEF IDFor
<1>8. \A id \in Ids : store[id] # Nil => store'[id] # Nil
  BY NothingDeleted DEF Acts
<1>. QED BY <1>1, <1>6, <1>7, <1>8, OnceKept

LEMMA OnceStep ==
  ASSUME ShapeInv, IInv, OnceInv, [IngestNext]_every
  PROVE  OnceInv'
<1>1. ASSUME NEW t \in Threads, Acts(t) PROVE OnceInv'
  <2>1. CASE Ingesting(t)
    BY <2>1, IngestsTakes, OnceTakes DEF Ingesting
  <2>2. CASE Sends(t)
    BY <2>2, OnceSends
  <2>3. CASE Serves(t)
    BY <2>3, OnceServes
  <2>4. CASE IngestEnds(t) \/ SendFails(t) \/ Quiet(t) \/ Works(t)
    <3>1. stage'[t] # "ingesting"
      <4>1. CASE IngestEnds(t) \/ SendFails(t)
        BY <4>1, IngestEndsShape
      <4>2. CASE Quiet(t)
        BY <4>2, QuietApart
      <4>3. CASE Works(t)
        BY <4>3 DEF Works, Goto, ShapeInv, TypesOK
      <4>. QED BY <2>4, <4>1, <4>2, <4>3
    <3>2. sent' = sent
      BY <2>4, QuietLeaves DEF IngestEnds, SendFails, Works, queue
    <3>3. ~Claiming(t)' /\ ~Known(t)'
      BY <3>1 DEF Claiming, Known, Returned
    <3>. QED BY <1>1, <3>2, <3>3, ActsShape, NothingDeleted, OnceKept
  <2>. QED BY <1>1, <2>1, <2>2, <2>3, <2>4 DEF Acts
<1>2. ASSUME NEW p, Dies(p) PROVE OnceInv'
  <2>1. UNCHANGED <<store, sent>>
    BY <1>2, DiesShape DEF queue
  <2>2. \A t \in Threads : /\ Claiming(t)' => Claiming(t) /\ IDFor(t)' = IDFor(t)
                           /\ Known(t)' => Known(t) /\ IDFor(t)' = IDFor(t)
    BY <1>2, DiesShape DEF Claiming, Known, Returned, IDFor
  <2>3. \A m : IDOf(m)' = IDOf(m)
    BY <2>1 DEF IDOf
  <2>. QED BY <2>1, <2>2, <2>3 DEF OnceInv
<1>3. ASSUME NEW f, Dropped(f) \/ UNCHANGED every PROVE OnceInv'
  <2>1. UNCHANGED <<store, call, stage, ticket, sent>>
    BY <1>3 DEF Dropped, every, ingest, vars, fixed, queue
  <2>. QED BY <2>1 DEF OnceInv, Claiming, Known, Returned, IDFor, IDOf
<1>. QED BY <1>1, <1>2, <1>3, NextCases

LEMMA AlwaysOnce == IngestSpec => []OnceInv
<1>1. IngestInit => OnceInv
  <2>. SUFFICES ASSUME IngestInit PROVE OnceInv
    OBVIOUS
  <2>1. DOMAIN sent = {}
    BY DEF IngestInit
  <2>2. \A t \in Threads : stage[t] # "ingesting"
    BY DEF IngestInit, RestStage
  <2>. QED BY <2>1, <2>2 DEF OnceInv, Claiming, Known, Returned
<1>2. (IInv /\ ShapeInv) /\ OnceInv /\ [IngestNext]_every => OnceInv'
  BY OnceStep
<1>. QED BY <1>1, <1>2, EntranceInv, PTL DEF IngestSpec

(* "Re-ingesting an identical ticket is a no-op" (pipeline.go:60): the     *)
(* callers of one process, however many, and however they overlap, fail or *)
(* die, queue a ticket once, in whatever spelling and by whichever door it *)
(* comes in.                                                               *)
THEOREM QueuedOnce == IngestSpec => []NoSecondMessage
<1>1. OnceInv => NoSecondMessage
  <2>1. \A k, l : Same(k, l) => TicketID(k) = TicketID(l)
    BY DEF Same, TicketID
  <2>. QED BY <2>1 DEF OnceInv, NoSecondMessage, IDOf
<1>. QED BY <1>1, AlwaysOnce, PTL

-----------------------------------------------------------------------------
(* A ticket that is stored as received is driven: a message carries it,    *)
(* wherever it is, or one is about to be sent, or the call that stored it  *)
(* ended before its Send.  A message no longer counts once a Process of it *)
(* has written the item, or ignored it: by then the item is past received, *)
(* and only such a message is removed for good.                            *)

Consumed(t) ==
  /\ stage[t] = "processing"
  /\ call[t].pc = "acting" \/ (call[t].pc = "idle" /\ call[t].result # "error")

Present(m) == m \in pending \cup inflight \cup dead \cup lost \/ BeingReturned(m)

Open(m) ==
  /\ m \in DOMAIN sent /\ Present(m)
  /\ \A t \in Threads : Consumed(t) => m # Current(t)

Driven(id) ==
  \/ \E m \in DOMAIN sent : Open(m) /\ IDOf(m) = id
  \/ BeingIngested(id)
  \/ id \in dropped

Received(id) == store[id] # Nil /\ store[id].status = "received"

DriveInv == \A id \in Ids : Received(id) => Driven(id)

(* What t does not touch stays where it is.                                 *)
LEMMA StaysPresent ==
  ASSUME NEW t \in Threads, OthersStay(t), UNCHANGED <<pending, inflight, dead, lost>>,
         stage[t] # "returning", NEW m, Present(m)
  PROVE  Present(m)'
<1>1. CASE BeingReturned(m)
  BY <1>1 DEF OthersStay, BeingReturned, Present, Current
<1>. QED BY <1>1 DEF Present

(* A Receive and a Recover only move a message.                             *)
LEMMA FetchingPresent ==
  ASSUME ShapeInv, NEW t \in Threads, Fetching(t), NEW m, Present(m)
  PROVE  Present(m)'
<1>1. /\ OthersStay(t) /\ UNCHANGED <<dead, lost>> /\ stage[t] # "returning"
      /\ pending' \cup inflight' = pending \cup inflight
  BY FetchingShape
<1>2. CASE BeingReturned(m)
  BY <1>1, <1>2 DEF OthersStay, BeingReturned, Present, Current
<1>. QED BY <1>1, <1>2 DEF Present

(* A message that is settled is removed after its Process alone; a Nack     *)
(* puts it back, buries it or loses it.                                     *)
LEMMA SettlingPresent ==
  ASSUME ShapeInv, NEW t \in Threads, Settling(t), NEW m, Present(m),
         Consumed(t) => m # Current(t)
  PROVE  Present(m)'
<1>1. /\ OthersStay(t) /\ ~Calling(t)
      /\ pending \subseteq pending' /\ dead \subseteq dead' /\ lost \subseteq lost'
      /\ inflight' = inflight \/ inflight' = inflight \ {Current(t)}
  BY SettlesOne, SettlingShape
<1>2. stage \in [Threads -> Stages]
  BY DEF ShapeInv, TypesOK
<1>3. CASE m # Current(t)
  <2>1. CASE BeingReturned(m)
    BY <1>1, <1>3, <2>1 DEF OthersStay, BeingReturned, Present, Current
  <2>. QED BY <1>1, <1>3, <2>1 DEF Present
<1>4. CASE m = Current(t)
  <2>1. CASE Acks(t)
    BY <1>1, <1>4, <2>1 DEF Acks, Finished, Consumed
  <2>2. CASE NackRemoves(t)
    <3>1. stage'[t] = "returning" /\ Current(t)' = Current(t)
      BY <1>2, <2>2 DEF NackRemoves, Goto, Current, loop
    <3>. QED BY <1>4, <3>1 DEF Present, BeingReturned
  <2>3. CASE NackWrites(t)
    BY <1>4, <2>3 DEF NackWrites, Present
  <2>4. CASE NackFails(t)
    BY <1>4, <2>4 DEF NackFails, Present
  <2>. QED BY <2>1, <2>2, <2>3, <2>4 DEF Settling
<1>. QED BY <1>3, <1>4

(* A message stays open through a step of t if it is open as far as t is   *)
(* concerned.                                                              *)
LEMMA OpenKept ==
  ASSUME ShapeInv, NEW t \in Threads, OthersStay(t), NEW m, Open(m), Present(m)',
         Consumed(t)' => m # Current(t)'
  PROVE  m \in DOMAIN sent' /\ Open(m)' /\ IDOf(m)' = IDOf(m)
<1>1. m \in DOMAIN sent' /\ IDOf(m)' = IDOf(m)
  BY MessagesStay DEF Open, OthersStay, ShapeInv
<1>2. \A u \in Threads \ {t} : (Consumed(u)' <=> Consumed(u)) /\ Current(u)' = Current(u)
  BY DEF OthersStay, Consumed, Current
<1>. QED BY <1>1, <1>2 DEF Open

(* What is left to show of a step of t that makes nothing received.        *)
LEMMA DriveKept ==
  ASSUME ShapeInv, DriveInv, NEW t \in Threads, OthersStay(t), dropped \subseteq dropped',
         NEW id \in Ids, Received(id),
         \A m \in DOMAIN sent : Open(m) /\ IDOf(m) = id =>
           Present(m)' /\ (Consumed(t)' => m # Current(t)'),
         Accepted(t) /\ IDFor(t) = id => Driven(id)'
  PROVE  Driven(id)'
<1>1. CASE \E m \in DOMAIN sent : Open(m) /\ IDOf(m) = id
  BY <1>1, OpenKept DEF Driven
<1>2. CASE BeingIngested(id)
  <2>1. PICK u \in Threads : Accepted(u) /\ IDFor(u) = id
    BY <1>2 DEF BeingIngested, IDFor
  <2>2. CASE u = t
    BY <2>1, <2>2
  <2>3. CASE u # t
    BY <2>1, <2>3 DEF OthersStay, Accepted, Returned, IDFor, BeingIngested, Driven
  <2>. QED BY <2>2, <2>3
<1>3. CASE id \in dropped
  BY <1>3 DEF Driven
<1>. QED BY <1>1, <1>2, <1>3 DEF DriveInv, Driven

(* The item a delivery writes is past received.                            *)
LEMMA CopyIsPast ==
  ASSUME IInv, NEW t \in Threads, call[t].pc \in {"classified", "acting"}
  PROVE  call[t].item.status # "received"
<1>1. call[t].item.class \in Classification /\ Consistent(call[t].item)
  BY DEF IInv, CallOK
<1>. QED BY <1>1, NilDistinct DEF Consistent

(* Process is ignored only for an item that is past received.              *)
LEMMA WorksConsumes ==
  ASSUME ShapeInv, IInv, NEW t \in Threads, Works(t), Consumed(t)'
  PROVE  ~Received(IDOf(Current(t)))
<1>1. call \in [Threads -> Call]
  BY DEF IInv, TypeOK
<1>2. CASE GetFails(t)
  <2>1. Idle("error").pc = "idle" /\ Idle("error").result = "error"
    BY DEF Idle
  <2>. QED BY <1>1, <1>2, <2>1 DEF GetFails, Refuse, Consumed
<1>3. CASE ProcessIgnored(t, IDOf(Current(t)))
  BY <1>3 DEF ProcessIgnored, Received
<1>4. ASSUME NEW a \in Answers, NEW f \in BOOLEAN, Process(t, IDOf(Current(t)), a, f)
      PROVE  FALSE
  BY <1>1, <1>4 DEF Process, Begin, Consumed
<1>. QED BY <1>2, <1>3, <1>4 DEF Works

(* A step of the service by a caller that ingests.                         *)
LEMMA DriveAccepts ==
  ASSUME ShapeInv, IInv, DriveInv, NEW t \in Threads, Serves(t), stage[t] = "ingesting"
  PROVE  DriveInv'
<1>1. /\ OthersStay(t) /\ UNCHANGED <<sent, stage, ticket, batch>> /\ call \in [Threads -> Call]
      /\ UNCHANGED <<pending, inflight, dead, lost>>
  BY ServesShape DEF Serves, queue, loop, ends, IInv, TypeOK
<1>2. PICK c : /\ call' = [call EXCEPT ![t] = c]
               /\ StepFails(t, c) \/ StepAccepts(t, c) \/ StepProceeds(t, c)
  BY StepCases DEF Serves
<1>3. Calling(t) /\ call'[t] = c /\ ticket[t] \in Tickets /\ call[t].id = IDFor(t)
      /\ (StepFails(t, c) \/ StepAccepts(t, c))
  BY <1>1, <1>2, StepCases DEF Serves, ShapeInv, StageOK, AtWork, IDFor, StepProceeds
<1>4. dropped \subseteq dropped' /\ (store' # store /\ c.result = "error" => IDFor(t) \in dropped')
  BY <1>3 DEF Serves
<1>5. ~Consumed(t)' /\ ~Accepted(t)
  BY <1>1, <1>3 DEF Consumed, Accepted, Returned, Calling
<1>6. ASSUME StepAccepts(t, c), NEW id, id = IDFor(t) PROVE BeingIngested(id)'
  <2>1. ticket[t] # Invalid
    BY <1>3 DEF Tickets
  <2>. QED BY <1>1, <1>3, <1>6, <2>1 DEF StepAccepts, BeingIngested, Accepted, Returned, IDFor
<1>7. ASSUME NEW id \in Ids, Received(id)' PROVE Driven(id)'
  <2>1. CASE store'[id] = store[id]
    <3>1. Received(id)
      BY <1>7, <2>1 DEF Received
    <3>2. \A m \in DOMAIN sent : Open(m) => Present(m)'
      BY <1>1, StaysPresent DEF Open
    <3>3. dropped \subseteq dropped'
      BY <1>4
    <3>. QED BY <1>1, <1>5, <3>1, <3>2, <3>3, DriveKept
  <2>2. CASE store'[id] # store[id]
    <3>1. Written(t) /\ id = IDFor(t)
      BY <1>3, <2>2, WrittenAt DEF StepFails, StepAccepts
    <3>. QED BY <1>3, <1>4, <1>6, <2>2, <3>1 DEF StepFails, Driven
  <2>. QED BY <2>1, <2>2
<1>. QED BY <1>7 DEF DriveInv

(* A step of the service by a caller that processes a message.             *)
LEMMA DriveProceeds ==
  ASSUME ShapeInv, IInv, DriveInv, NEW t \in Threads, Serves(t), stage[t] = "processing"
  PROVE  DriveInv'
<1>1. /\ OthersStay(t) /\ UNCHANGED <<sent, stage, ticket, batch>> /\ call \in [Threads -> Call]
      /\ UNCHANGED <<pending, inflight, dead, lost>>
  BY ServesShape DEF Serves, queue, loop, ends, IInv, TypeOK
<1>2. PICK c : /\ call' = [call EXCEPT ![t] = c]
               /\ StepFails(t, c) \/ StepAccepts(t, c) \/ StepProceeds(t, c)
  BY StepCases DEF Serves
<1>3. /\ Calling(t) /\ call'[t] = c /\ call[t].id = IDOf(Current(t))
      /\ call[t].pc \in {"classified", "acting"}
      /\ StepFails(t, c) \/ StepProceeds(t, c)
  BY <1>1, <1>2, StepCases DEF Serves, ShapeInv, StageOK, AtWork, StepAccepts
<1>4. dropped' = dropped /\ ~Accepted(t) /\ Current(t)' = Current(t)
  BY <1>1 DEF Serves, Accepted, Returned, Current
<1>5. call[t].item.status # "received"
  BY <1>3, CopyIsPast
<1>6. ASSUME NEW id \in Ids, Received(id)' PROVE Driven(id)'
  <2>1. Received(id) /\ (Written(t) => id # IDOf(Current(t)))
    BY <1>3, <1>5, <1>6, WrittenAt DEF Received, StepFails, StepProceeds
  <2>2. ASSUME NEW m \in DOMAIN sent, Open(m), IDOf(m) = id, Consumed(t)'
        PROVE  m # Current(t)
    <3>1. CASE Written(t)
      BY <2>1, <2>2, <3>1
    <3>2. CASE ~Written(t)
      <4>1. StepProceeds(t, c)
        BY <1>3, <2>2 DEF StepFails, Consumed
      <4>2. Consumed(t)
        BY <3>2, <4>1 DEF StepProceeds, Consumed
      <4>. QED BY <2>2, <4>2 DEF Open
    <3>. QED BY <3>1, <3>2
  <2>3. \A m : Open(m) => Present(m)'
    BY <1>1, StaysPresent DEF Open
  <2>. QED BY <1>1, <1>4, <2>1, <2>2, <2>3, DriveKept
<1>. QED BY <1>6 DEF DriveInv

LEMMA DriveStep ==
  ASSUME ShapeInv, IInv, DriveInv, [IngestNext]_every
  PROVE  DriveInv'
<1>1. ASSUME NEW t \in Threads, Acts(t), ~Serves(t) PROVE DriveInv'
  <2>1. ShapeInv' /\ OthersStay(t) /\ store' = store
    BY <1>1, ActsShape, StoreWritten
  <2>. SUFFICES ASSUME NEW id \in Ids, Received(id) PROVE Driven(id)'
    BY <2>1 DEF DriveInv, Received
  <2>2. ASSUME UNCHANGED <<pending, inflight, dead, lost>>, stage[t] # "returning", NEW m, Open(m)
        PROVE  Present(m)'
    BY <2>1, <2>2, StaysPresent DEF Open
  <2>3. CASE Ingesting(t)
    <3>1. /\ UNCHANGED <<pending, inflight, dead, lost, dropped>>
          /\ stage'[t] = "ingesting" /\ stage[t] \notin {"ingesting", "returning"}
      <4>1. PICK new : Takes(t, new) /\ Unengaged(t)
        BY <2>3, IngestsTakes DEF Ingesting
      <4>. QED BY <4>1, TakesShape DEF Takes, queue, ends, Unengaged
    <3>2. ~Consumed(t)' /\ ~Accepted(t)
      BY <3>1 DEF Consumed, Accepted, Returned
    <3>. QED BY <2>1, <2>2, <3>1, <3>2, DriveKept
  <2>4. CASE IngestEnds(t)
    <3>1. UNCHANGED <<pending, inflight, dead, lost, dropped>> /\ ~Accepted(t) /\ stage[t] = "ingesting"
      BY <2>4 DEF IngestEnds, Answer, queue, ends, Returned
    <3>2. ~Consumed(t)'
      BY <2>4, IngestEndsShape DEF Consumed
    <3>. QED BY <2>1, <2>2, <3>1, <3>2, DriveKept
  <2>5. CASE SendFails(t)
    <3>1. /\ UNCHANGED <<pending, inflight, dead, lost>> /\ stage[t] = "ingesting"
          /\ dropped' = dropped \cup {IDFor(t)}
      BY <2>5 DEF SendFails, Answer, queue, ends, IDFor, Accepted, Returned
    <3>2. ~Consumed(t)'
      BY <2>5, IngestEndsShape DEF Consumed
    <3>3. IDFor(t) = id => Driven(id)'
      BY <3>1 DEF Driven
    <3>4. dropped \subseteq dropped'
      BY <3>1
    <3>. QED BY <2>1, <2>2, <3>1, <3>2, <3>3, <3>4, DriveKept
  <2>6. CASE Sends(t)
    <3>. PICK x, next : x = [ticket |-> ticket[t], by |-> ProcOf[t]] /\ next = Len(sent) + 1
      OBVIOUS
    <3>1. /\ next \notin DOMAIN sent /\ next \in DOMAIN sent' /\ pending' = pending \cup {next}
          /\ UNCHANGED <<inflight, dead, lost>>
          /\ x \in Posting /\ sent' = Append(sent, x) /\ dropped' = dropped
      BY <2>6, SendsOne DEF Sends
    <3>2. IDOf(next)' = IDFor(t) /\ Present(next)'
      <4>1. sent'[next] = x
        BY <3>1 DEF ShapeInv, TypesOK
      <4>. QED BY <3>1, <4>1 DEF IDOf, IDFor, Present
    <3>3. ~Consumed(t)'
      BY <2>6, SendsShape DEF Consumed
    <3>4. ASSUME NEW u \in Threads, Consumed(u)' PROVE Current(u)' # next
      <4>1. stage'[u] = "processing" /\ batch'[u] # {}
        BY <2>1, <3>4 DEF Consumed, ShapeInv, StageOK
      <4>2. u # t /\ batch'[u] = batch[u] /\ Current(u)' = Current(u)
        BY <2>1, <3>3, <3>4 DEF OthersStay, Current
      <4>. QED BY <3>1, <4>1, <4>2, CurrentSent DEF ShapeInv
    <3>5. Open(next)'
      BY <3>1, <3>2, <3>4 DEF Open
    <3>6. IDFor(t) = id => Driven(id)'
      BY <3>1, <3>2, <3>5 DEF Driven
    <3>7. ASSUME NEW m, Open(m) PROVE Present(m)'
      <4>1. stage[t] # "returning"
        BY <2>6 DEF Sends, Accepted, Returned
      <4>2. CASE BeingReturned(m)
        BY <2>1, <4>1, <4>2 DEF OthersStay, BeingReturned, Present, Current
      <4>. QED BY <3>1, <3>7, <4>2 DEF Open, Present
    <3>. QED BY <2>1, <3>1, <3>3, <3>6, <3>7, DriveKept
  <2>7. CASE Quiet(t)
    <3>1. dropped' = dropped /\ ~Consumed(t)' /\ ~Accepted(t)
      BY <2>7, QuietLeaves, QuietApart DEF Consumed, Accepted, Returned
    <3>2. ASSUME NEW m, Open(m) PROVE Present(m)'
      <4>1. CASE Filing(t)
        BY <2>2, <3>2, <4>1, FilingShape DEF queue, ends, Draining
      <4>2. CASE Fetching(t)
        BY <3>2, <4>2, FetchingPresent DEF Open
      <4>3. CASE Settling(t)
        BY <3>2, <4>3, SettlingPresent DEF Open
      <4>. QED BY <2>7, <4>1, <4>2, <4>3 DEF Quiet
    <3>. QED BY <2>1, <3>1, <3>2, DriveKept
  <2>8. CASE Works(t)
    <3>1. /\ UNCHANGED <<pending, inflight, dead, lost, batch, dropped>>
          /\ ~Accepted(t) /\ stage[t] = "working"
      BY <2>8 DEF Works, queue, loop, history, ends, Accepted, Returned
    <3>2. Current(t)' = Current(t)
      BY <3>1 DEF Current
    <3>3. ASSUME NEW m \in DOMAIN sent, Open(m), IDOf(m) = id, Consumed(t)'
          PROVE  m # Current(t)'
      BY <2>8, <3>2, <3>3, WorksConsumes
    <3>. QED BY <2>1, <2>2, <3>1, <3>3, DriveKept
  <2>. QED BY <1>1, <2>3, <2>4, <2>5, <2>6, <2>7, <2>8 DEF Acts
<1>2. ASSUME NEW t \in Threads, Serves(t) PROVE DriveInv'
  <2>1. stage[t] \in {"ingesting", "processing"}
    BY <1>2, StepCases DEF Serves, ShapeInv, StageOK, AtWork
  <2>. QED BY <1>2, <2>1, DriveAccepts, DriveProceeds
<1>3. ASSUME NEW p, Dies(p) PROVE DriveInv'
  <2>1. /\ UNCHANGED <<store, sent, pending, inflight, dead>>
        /\ \A t \in Threads : ProcOf[t] = p => stage'[t] \in {"idle", "down"}
        /\ \A t \in Threads : ProcOf[t] # p =>
             /\ stage'[t] = stage[t] /\ ticket'[t] = ticket[t]
             /\ batch'[t] = batch[t] /\ call'[t] = call[t]
    BY <1>3, DiesShape DEF queue
  <2>2. dropped \subseteq dropped' /\ \A t \in Threads : ProcOf[t] = p /\ Accepted(t) => IDFor(t) \in dropped'
    BY <1>3 DEF Dies, IDFor
  <2>3. ASSUME NEW m, Open(m) PROVE Open(m)' /\ IDOf(m)' = IDOf(m)
    <3>1. \A t \in Threads : Consumed(t)' => Consumed(t) /\ Current(t)' = Current(t)
      BY <2>1 DEF Consumed, Current
    <3>2. ASSUME NEW t \in Threads, stage[t] = "returning", Current(t) = m PROVE Present(m)'
      <4>1. CASE ProcOf[t] = p
        BY <1>3, <3>2, <4>1 DEF Dies, Present
      <4>2. CASE ProcOf[t] # p
        <5>1. stage'[t] = "returning" /\ Current(t)' = m
          BY <2>1, <3>2, <4>2 DEF Current
        <5>. QED BY <5>1 DEF Present, BeingReturned
      <4>. QED BY <4>1, <4>2
    <3>3. lost \subseteq lost'
      BY <1>3 DEF Dies
    <3>4. Present(m)'
      BY <2>1, <2>3, <3>2, <3>3 DEF Open, Present, BeingReturned
    <3>. QED BY <2>1, <2>3, <3>1, <3>4 DEF Open, IDOf
  <2>4. \A t \in Threads : ProcOf[t] # p /\ Accepted(t) => Accepted(t)' /\ IDFor(t)' = IDFor(t)
    BY <2>1 DEF Accepted, Returned, IDFor
  <2>5. ASSUME NEW id \in Ids, Received(id) PROVE Driven(id)'
    <3>1. CASE \E m \in DOMAIN sent : Open(m) /\ IDOf(m) = id
      BY <2>1, <2>3, <3>1 DEF Driven
    <3>2. CASE BeingIngested(id)
      BY <2>2, <2>4, <3>2 DEF Driven, BeingIngested, IDFor
    <3>3. CASE id \in dropped
      BY <2>2, <3>3 DEF Driven
    <3>. QED BY <2>5, <3>1, <3>2, <3>3 DEF DriveInv, Driven
  <2>. QED BY <2>1, <2>5 DEF DriveInv, Received
<1>4. ASSUME NEW f, Dropped(f) \/ UNCHANGED every PROVE DriveInv'
  <2>1. UNCHANGED <<store, call, stage, ticket, batch, sent, pending, inflight, dead, lost, dropped>>
    BY <1>4 DEF Dropped, every, ingest, vars, fixed, loop, queue, history, ends
  <2>. QED BY <2>1 DEF DriveInv, Received, Driven, BeingIngested, Accepted, Returned, Open, Consumed,
                       Present, BeingReturned, Current, IDOf
<1>. QED BY <1>1, <1>2, <1>3, <1>4, NextCases

(* A stored ticket that nobody has classified has a file in the queue or   *)
(* the dead-letter directory, or is about to get one, for any number of    *)
(* processes that claim, recover, fail and return one another's messages;  *)
(* unless the call that stored it ended before its Send (pipeline.go:76-   *)
(* 81), or a Nack of its message failed or died between its Remove and its *)
(* write (queue.go:119-128).                                               *)
THEOREM NobodyWaitsUnseen == IngestSpec => []ReceivedIsDriven
<1>1. IngestInit => DriveInv
  BY DEF IngestInit, Init, DriveInv, Received
<1>2. ShapeInv /\ DriveInv => ReceivedIsDriven
  <2>1. \A m : Open(m) => m \in MessagesFor(IDOf(m)) /\ Present(m)
    BY DEF Open, MessagesFor
  <2>. QED BY <2>1 DEF DriveInv, Received, Driven, Present, ReceivedIsDriven, Stored
<1>3. (IInv /\ ShapeInv) /\ DriveInv /\ [IngestNext]_every => DriveInv'
  BY DriveStep
<1>. QED BY <1>1, <1>2, <1>3, EntranceInv, PTL DEF IngestSpec

-----------------------------------------------------------------------------
(* What is stored has the ticket stored under its ID, and what a client    *)
(* was told of is stored.                                                  *)

AnswersInv ==
  /\ content \in [Ids -> Tickets \cup {Nil}]
  /\ \A id \in Ids : store[id] # Nil => content[id] \in Tickets /\ TicketID(content[id]) = id
  /\ told \subseteq Tickets
  /\ \A k \in told : store[TicketID(k)] # Nil

(* A call answers "queued" or "duplicate" for a ticket that is stored.     *)
LEMMA AnswersKnown ==
  ASSUME ShapeInv, OnceInv, NEW t \in Threads, Returned(t), ticket[t] # Invalid,
         call[t].result \in {"ok", "duplicate"}
  PROVE  ticket[t] \in Tickets /\ store[TicketID(ticket[t])] # Nil
<1>1. ticket[t] \in Tickets
  BY DEF ShapeInv, StageOK, Returned
<1>. QED BY <1>1 DEF OnceInv, Known, IDFor

(* The store changes by a step of a call only, which carries the ticket of *)
(* the caller or the item of a message.                                    *)
LEMMA AnswersServes ==
  ASSUME ShapeInv, IInv, OnceInv, AnswersInv, NEW t \in Threads, Serves(t)
  PROVE  AnswersInv'
<1>1. told' = told /\ Calling(t) /\ AtWork(t)
  BY StepCases DEF Serves, ShapeInv, StageOK
<1>2. CASE store' = store
  BY <1>1, <1>2 DEF Serves, AnswersInv
<1>3. CASE store' # store
  <2>1. /\ call[t].id \in Ids
        /\ \A id \in Ids : store'[id] = IF id = call[t].id THEN call[t].item ELSE store[id]
    BY <1>1, <1>3, StoreWritten, WrittenAt DEF Acts
  <2>2. \A id \in Ids : store[id] # Nil => store'[id] # Nil
    BY NothingDeleted DEF Acts
  <2>3. ASSUME NEW k \in told PROVE store'[TicketID(k)] # Nil
    BY <2>2, <2>3, IdsAssumption DEF AnswersInv
  <2>4. CASE stage[t] = "ingesting"
    <3>1. ticket[t] \in Tickets /\ TicketID(ticket[t]) = call[t].id
      BY <1>1, <2>4 DEF AtWork
    <3>2. content' = [content EXCEPT ![call[t].id] = ticket[t]]
      BY <1>3, <2>4 DEF Serves
    <3>. QED BY <1>1, <2>1, <2>3, <3>1, <3>2 DEF AnswersInv
  <2>5. CASE stage[t] # "ingesting"
    <3>1. content' = content
      BY <2>5 DEF Serves
    <3>2. stage[t] = "processing" /\ batch[t] # {} /\ call[t].id = IDOf(Current(t))
      BY <1>1, <2>5 DEF AtWork, ShapeInv, StageOK
    <3>3. store[call[t].id] # Nil
      BY <3>2, CurrentSent DEF OnceInv, ShapeInv
    <3>. QED BY <1>1, <2>1, <2>3, <3>1, <3>3 DEF AnswersInv
  <2>. QED BY <2>4, <2>5
<1>. QED BY <1>2, <1>3

LEMMA AnswersStep ==
  ASSUME ShapeInv, IInv, OnceInv, AnswersInv, [IngestNext]_every
  PROVE  AnswersInv'
<1>1. ASSUME store' = store, content' = content,
             \/ told' = told
             \/ \E k \in Tickets : store[TicketID(k)] # Nil /\ told' = told \cup {k}
      PROVE  AnswersInv'
  BY <1>1 DEF AnswersInv
<1>2. ASSUME NEW t \in Threads, Acts(t), ~Serves(t) PROVE AnswersInv'
  <2>1. store' = store
    BY <1>2, StoreWritten
  <2>2. CASE IngestEnds(t) \/ SendFails(t) \/ Sends(t)
    <3>1. content' = content
      BY <2>2 DEF IngestEnds, SendFails, Sends, Answer
    <3>2. CASE told' = told
      BY <1>1, <2>1, <3>1, <3>2
    <3>3. CASE told' # told
      <4>1. Returned(t) /\ told' = told \cup {ticket[t]} /\ ticket[t] # Invalid
            /\ call[t].result \in {"ok", "duplicate"}
        <5>1. call[t].result # "queued"
          BY DEF IInv, TypeOK, Call
        <5>. QED BY <2>2, <3>3, <5>1 DEF IngestEnds, SendFails, Sends, Answer, Accepted
      <4>. QED BY <1>1, <2>1, <3>1, <4>1, AnswersKnown
    <3>. QED BY <3>2, <3>3
  <2>3. CASE ~(IngestEnds(t) \/ SendFails(t) \/ Sends(t))
    <3>1. UNCHANGED <<content, told>>
      <4>1. CASE Ingesting(t)
        BY <4>1, IngestsTakes DEF Ingesting, Takes
      <4>2. CASE Quiet(t)
        BY <4>2, QuietLeaves
      <4>3. CASE Works(t)
        BY <4>3 DEF Works, history
      <4>. QED BY <1>2, <2>3, <4>1, <4>2, <4>3 DEF Acts
    <3>. QED BY <1>1, <2>1, <3>1
  <2>. QED BY <2>2, <2>3
<1>3. ASSUME NEW p, Dies(p) PROVE AnswersInv'
  BY <1>1, <1>3, DiesShape
<1>4. ASSUME NEW f, Dropped(f) \/ UNCHANGED every PROVE AnswersInv'
  <2>1. UNCHANGED <<store, content, told>>
    BY <1>4 DEF Dropped, every, ingest, vars, history
  <2>. QED BY <1>1, <2>1
<1>. QED BY <1>2, <1>3, <1>4, NextCases, AnswersServes

(* Nobody is told "duplicate" of somebody else's ticket, nor of the same   *)
(* words in another workspace (ticket.go:127-137), nor "queued" of one     *)
(* that is not stored.                                                     *)
THEOREM AnswersAreOwn == IngestSpec => []AnsweredForItsOwn
<1>1. IngestInit => AnswersInv
  BY DEF IngestInit, Init, AnswersInv
<1>2. AnswersInv => AnsweredForItsOwn
  <2>1. \A k, l : TicketID(k) = TicketID(l) => Same(k, l)
    BY DEF Same, TicketID
  <2>. QED BY <2>1, IdsAssumption DEF AnswersInv, AnsweredForItsOwn
<1>3. (IInv /\ ShapeInv) /\ OnceInv /\ AnswersInv /\ [IngestNext]_every => AnswersInv'
  BY AnswersStep
<1>. QED BY <1>1, <1>2, <1>3, EntranceInv, AlwaysOnce, PTL DEF IngestSpec

-----------------------------------------------------------------------------
(* A file that Scan has moved, or is about to, is accounted for.           *)

TicketIn(t) == Normalize(holds[Min(todo[t])], "")

ScanOK(t) ==
  role[t] = "worker" =>
    /\ stage[t] = "ingesting" => ticket[t] = TicketIn(t)
    /\ Returned(t) /\ ticket[t] # Invalid =>
         /\ call[t].result \in {"ok", "duplicate", "error"}
         /\ call[t].result = "error" => Min(todo[t]) \in refused
    /\ stage[t] = "processed" =>
         TicketIn(t) # Invalid /\ store[TicketID(TicketIn(t))] # Nil
    /\ stage[t] = "rejected" => TicketIn(t) = Invalid \/ Min(todo[t]) \in refused

FilesInv ==
  /\ place \in [Files -> {"outside", "incoming", "processed", "rejected"}]
  /\ FilesAccountedFor
  /\ \A t \in Threads : ScanOK(t)

(* The ticket of a file that holds one has an ID.                          *)
LEMMA FileIDs ==
  ASSUME TypesOK, NEW f \in Files, Normalize(holds[f], "") # Invalid
  PROVE  TicketID(Normalize(holds[f], "")) \in Ids
<1>1. Normalize(holds[f], "") \in Tickets
  BY DEF TypesOK, Tickets
<1>. QED BY <1>1, IdsAssumption

(* What was accounted for stays so: files keep what they hold, the store   *)
(* what it has, and what was refused was.                                  *)
LEMMA FilesKept ==
  ASSUME ShapeInv, FilesInv, holds' = holds, refused \subseteq refused',
         \A id \in Ids : store[id] # Nil => store'[id] # Nil
  PROVE  /\ place' = place => FilesAccountedFor'
         /\ \A t \in Threads :
              /\ stage'[t] = stage[t] /\ todo'[t] = todo[t] /\ ticket'[t] = ticket[t]
              /\ call'[t] = call[t] /\ role' = role
              => ScanOK(t)'
<1>1. ASSUME place' = place PROVE FilesAccountedFor'
  <2>. SUFFICES ASSUME NEW f \in Files
                PROVE  LET ticketIn == Normalize(holds[f], "")
                       IN /\ place[f] = "processed" => ticketIn # Invalid /\ store'[TicketID(ticketIn)] # Nil
                          /\ place[f] = "rejected" => ticketIn = Invalid \/ f \in refused'
    BY <1>1 DEF FilesAccountedFor
  <2>1. CASE place[f] = "processed"
    <3>1. Normalize(holds[f], "") # Invalid /\ store[TicketID(Normalize(holds[f], ""))] # Nil
      BY <2>1 DEF FilesAccountedFor, FilesInv
    <3>2. TicketID(Normalize(holds[f], "")) \in Ids
      BY <3>1, FileIDs DEF ShapeInv
    <3>. QED BY <2>1, <3>1, <3>2
  <2>2. CASE place[f] = "rejected"
    <3>1. Normalize(holds[f], "") = Invalid \/ f \in refused
      BY <2>2 DEF FilesAccountedFor, FilesInv
    <3>. QED BY <2>2, <3>1
  <2>. QED BY <2>1, <2>2
<1>2. ASSUME NEW t \in Threads, stage'[t] = stage[t], todo'[t] = todo[t], ticket'[t] = ticket[t],
             call'[t] = call[t], role' = role
      PROVE  ScanOK(t)'
  <2>1. TicketIn(t)' = TicketIn(t) /\ (Returned(t)' <=> Returned(t)) /\ ScanOK(t)
    BY <1>2 DEF TicketIn, Returned, FilesInv
  <2>2. CASE role[t] = "worker" /\ stage[t] = "processed"
    <3>1. Min(todo[t]) \in Files
      BY <2>2, ListedFile DEF ShapeInv, StageOK
    <3>2. TicketID(TicketIn(t)) \in Ids /\ store'[TicketID(TicketIn(t))] # Nil
      BY <2>1, <2>2, <3>1, FileIDs DEF ScanOK, TicketIn, ShapeInv
    <3>3. ~Returned(t)
      BY <2>2 DEF Returned
    <3>4. TicketIn(t) # Invalid
      BY <2>1, <2>2 DEF ScanOK
    <3>. QED BY <1>2, <2>1, <2>2, <3>2, <3>3, <3>4 DEF ScanOK
  <2>3. CASE ~(role[t] = "worker" /\ stage[t] = "processed")
    <3>. QED BY <1>2, <2>1, <2>3 DEF ScanOK
  <2>. QED BY <2>2, <2>3
<1>. QED BY <1>1, <1>2

(* What was refused was.                                                    *)
LEMMA RefusedStays ==
  ASSUME NEW t \in Threads, Acts(t)
  PROVE  refused \subseteq refused'
<1>1. CASE Ingesting(t)
  BY <1>1 DEF Ingesting, Posted, ScansFile, Submitted, Ingests
<1>2. CASE IngestEnds(t) \/ SendFails(t) \/ Sends(t)
  BY <1>2 DEF IngestEnds, SendFails, Sends
<1>3. CASE Quiet(t)
  BY <1>3, QuietLeaves
<1>4. CASE Works(t) \/ Serves(t)
  BY <1>4 DEF Works, Serves, history
<1>. QED BY <1>1, <1>2, <1>3, <1>4 DEF Acts

(* What a scan makes of the answer: the file is filed for what IngestIn    *)
(* returned.                                                               *)
LEMMA ScanAnswers ==
  ASSUME ShapeInv, IInv, OnceInv, FilesInv, NEW t \in Threads,
         IngestEnds(t) \/ SendFails(t) \/ Sends(t)
  PROVE  ScanOK(t)'
<1>. SUFFICES ASSUME role[t] = "worker", stage'[t] \in {"processed", "rejected"}
              PROVE  /\ stage'[t] = "processed" => TicketIn(t) # Invalid /\ store[TicketID(TicketIn(t))] # Nil
                     /\ stage'[t] = "rejected" => TicketIn(t) = Invalid \/ Min(todo[t]) \in refused'
  <2>1. UNCHANGED <<role, holds, todo, store>>
    BY DEF IngestEnds, SendFails, Sends, Answer, vars, fixed, loop
  <2>2. TicketIn(t)' = TicketIn(t)
    BY <2>1 DEF TicketIn
  <2>3. stage'[t] \in {"processed", "rejected"} => ~Returned(t)'
    BY DEF Returned
  <2>4. role[t] = "worker" => stage'[t] # "ingesting"
    BY IngestEndsShape, SendsShape
  <2>. QED BY <2>1, <2>2, <2>3, <2>4 DEF ScanOK, Returned
<1>1. Returned(t) /\ ticket[t] = TicketIn(t) /\ ScanOK(t)
  BY DEF IngestEnds, SendFails, Sends, Accepted, FilesInv, ScanOK, Returned
<1>2. stage \in [Threads -> Stages]
  BY DEF ShapeInv, TypesOK
<1>3. CASE IngestEnds(t) /\ ticket[t] = Invalid
  BY <1>1, <1>2, <1>3 DEF IngestEnds, Answer, Goto, AfterIngest
<1>4. CASE IngestEnds(t) /\ ticket[t] # Invalid
  <2>1. call[t].result \in {"duplicate", "error"} /\ (call[t].result = "error" => Min(todo[t]) \in refused)
    BY <1>1, <1>4 DEF IngestEnds, Accepted, ScanOK
  <2>2. stage'[t] = IF call[t].result = "duplicate" THEN "processed" ELSE "rejected"
    BY <1>2, <1>4, <2>1 DEF IngestEnds, Answer, Goto, AfterIngest
  <2>3. refused' = refused
    BY <1>4 DEF IngestEnds
  <2>. QED BY <1>1, <1>4, <2>1, <2>2, <2>3, AnswersKnown
<1>5. CASE SendFails(t)
  <2>1. stage'[t] = "rejected"
    BY <1>2, <1>5 DEF SendFails, Answer, Goto, AfterIngest
  <2>2. Min(todo[t]) \in refused'
    BY <1>5 DEF SendFails, FileOf
  <2>. QED BY <2>1, <2>2
<1>6. CASE Sends(t)
  <2>1. stage'[t] = "processed"
    BY <1>2, <1>6 DEF Sends, Answer, Goto, AfterIngest
  <2>2. ticket[t] # Invalid /\ call[t].result = "ok"
    BY <1>6 DEF Sends, Accepted
  <2>. QED BY <1>1, <2>1, <2>2, AnswersKnown
<1>. QED BY <1>3, <1>4, <1>5, <1>6

(* A scan takes the first file it has left.                                *)
LEMMA ScanTakes ==
  ASSUME ShapeInv, IInv, FilesInv, NEW t \in Threads, Ingesting(t)
  PROVE  ScanOK(t)'
<1>1. \E new : Takes(t, new) /\ Unengaged(t)
  BY IngestsTakes DEF Ingesting
<1>2. stage'[t] = "ingesting" /\ UNCHANGED <<role, holds, todo>>
  BY <1>1, TakesShape DEF Takes, fixed, loop
<1>3. CASE ~ScansFile(t)
  <2>1. role[t] # "worker"
    BY <1>3 DEF Ingesting, Posted, Submitted
  <2>. QED BY <1>2, <2>1 DEF ScanOK
<1>4. CASE ScansFile(t)
  <2>. DEFINE new == TicketIn(t)
  <2>1. /\ ticket' = [ticket EXCEPT ![t] = new]
        /\ new # Invalid => \/ Accept(t, TicketID(new))
                            \/ GetFails(t) /\ refused' = refused \cup FileOf(t)
        /\ role[t] = "worker" => FileOf(t) = {Min(todo[t])}
    BY <1>4 DEF ScansFile, Ingests, TicketIn, FileOf
  <2>2. ticket'[t] = new /\ TicketIn(t)' = new
    BY <1>2, <2>1 DEF TicketIn, ShapeInv, TypesOK
  <2>. HIDE DEF new
  <2>3. call \in [Threads -> Call]
    BY DEF IInv, TypeOK
  <2>4. \A result : Idle(result).pc = "idle" /\ Idle(result).result = result
    BY DEF Idle
  <2>5. ASSUME new # Invalid, Returned(t)'
        PROVE  /\ call'[t].result \in {"duplicate", "error"}
               /\ role[t] = "worker" /\ call'[t].result = "error" => Min(todo[t]) \in refused'
    <3>1. CASE GetFails(t) /\ refused' = refused \cup FileOf(t)
      BY <2>1, <2>3, <2>4, <3>1 DEF GetFails, Refuse
    <3>2. CASE Accept(t, TicketID(new)) /\ store[TicketID(new)] # Nil
      BY <2>3, <2>4, <3>2 DEF Accept, Refuse
    <3>3. CASE Accept(t, TicketID(new)) /\ store[TicketID(new)] = Nil
      BY <2>3, <2>5, <3>3 DEF Accept, Begin, Returned
    <3>. QED BY <2>1, <2>5, <3>1, <3>2, <3>3
  <2>. QED BY <1>2, <2>2, <2>5 DEF ScanOK
<1>. QED BY <1>3, <1>4

(* A step of accept answers what a scan can file.                          *)
LEMMA ScanServes ==
  ASSUME ShapeInv, IInv, FilesInv, NEW t \in Threads, Serves(t),
         \A id \in Ids : store[id] # Nil => store'[id] # Nil
  PROVE  ScanOK(t)'
<1>1. UNCHANGED <<role, holds, todo, stage, ticket>>
  BY DEF Serves, fixed, loop
<1>2. PICK c : /\ call' = [call EXCEPT ![t] = c]
               /\ StepFails(t, c) \/ StepAccepts(t, c) \/ StepProceeds(t, c)
  BY StepCases DEF Serves
<1>3. call'[t] = c /\ AtWork(t)
  BY <1>2, StepCases DEF IInv, TypeOK, Serves, ShapeInv, StageOK
<1>4. TicketIn(t)' = TicketIn(t)
  BY <1>1 DEF TicketIn
<1>5. ASSUME stage[t] = "ingesting"
      PROVE  /\ call'[t].result \in {"ok", "error"}
             /\ role[t] = "worker" /\ call'[t].result = "error" => Min(todo[t]) \in refused'
  <2>1. call[t].pc = "accepting"
    BY <1>3, <1>5 DEF AtWork
  <2>2. c.result \in {"ok", "error"}
    BY <1>2, <2>1 DEF StepFails, StepAccepts, StepProceeds
  <2>. QED BY <1>3, <1>5, <2>2 DEF Serves, FileOf
<1>6. stage[t] \in {"ingesting", "processing"} /\ ScanOK(t)
  BY <1>3 DEF AtWork, FilesInv
<1>. QED BY <1>1, <1>4, <1>5, <1>6 DEF ScanOK, Returned

(* The rename: the file is where the answer sends it.                      *)
LEMMA ScanFiles ==
  ASSUME ShapeInv, FilesInv, NEW t \in Threads, FilesAway(t)
  PROVE  /\ place' \in [Files -> {"outside", "incoming", "processed", "rejected"}]
         /\ FilesAccountedFor' /\ ScanOK(t)'
<1>1. /\ stage[t] \in {"processed", "rejected"} /\ UNCHANGED <<holds, store, refused>>
      /\ place' = [place EXCEPT ![Min(todo[t])] = stage[t]]
  BY DEF FilesAway, fixed, history, vars
<1>2. role[t] = "worker" /\ todo[t] # {} /\ Min(todo[t]) \in Files /\ ScanOK(t) /\ FilesAccountedFor
  BY <1>1, ListedFile DEF ShapeInv, StageOK, FilesInv
<1>3. place' \in [Files -> {"outside", "incoming", "processed", "rejected"}]
  BY <1>1 DEF FilesInv
<1>4. \A f \in Files : place'[f] = IF f = Min(todo[t]) THEN stage[t] ELSE place[f]
  BY <1>1 DEF FilesInv
<1>5. FilesAccountedFor'
  BY <1>1, <1>2, <1>4 DEF FilesAccountedFor, ScanOK, TicketIn
<1>6. stage'[t] \in {"scanning", "receiving"}
  BY DEF FilesAway, Goto, ShapeInv, TypesOK
<1>. QED BY <1>3, <1>5, <1>6 DEF ScanOK, Returned

LEMMA FilesStep ==
  ASSUME ShapeInv, IInv, OnceInv, FilesInv, [IngestNext]_every
  PROVE  FilesInv'
<1>1. ASSUME NEW t \in Threads, Acts(t) PROVE FilesInv'
  <2>1. /\ OthersStay(t)
        /\ refused \subseteq refused'
        /\ \A id \in Ids : store[id] # Nil => store'[id] # Nil
    BY <1>1, ActsShape, RefusedStays, NothingDeleted
  <2>2. holds' = holds /\ role' = role
    <3>1. CASE Ingesting(t)
      BY <3>1, IngestsTakes DEF Ingesting, Takes, fixed
    <3>2. CASE ~Ingesting(t)
      BY <1>1, <3>2, QuietLeaves DEF Acts, IngestEnds, SendFails, Sends, Answer, Works, Serves, fixed
    <3>. QED BY <3>1, <3>2
  <2>3. \A u \in Threads \ {t} : ScanOK(u)'
    BY <2>1, <2>2, FilesKept DEF OthersStay
  <2>4. CASE FilesAway(t)
    BY <2>1, <2>3, <2>4, ScanFiles DEF FilesInv
  <2>5. CASE ~FilesAway(t)
    <3>1. place' = place
      <4>1. CASE Ingesting(t)
        BY <4>1, IngestsTakes DEF Ingesting, Takes
      <4>2. CASE Fetching(t) \/ Settling(t)
        BY <4>2, FetchingShape, SettlesOne
      <4>3. CASE ~(Ingesting(t) \/ Fetching(t) \/ Settling(t))
        BY <1>1, <2>5, <4>3 DEF Acts, Quiet, Filing, IngestEnds, SendFails, Sends, Answer, FilesDone,
              Scans, ScanFails, RunOnceEnds, Works, Serves
      <4>. QED BY <4>1, <4>2, <4>3
    <3>2. ScanOK(t)'
      <4>1. CASE Ingesting(t) \/ IngestEnds(t) \/ SendFails(t) \/ Sends(t) \/ Serves(t)
        BY <2>1, <4>1, ScanTakes, ScanAnswers, ScanServes
      <4>2. CASE Quiet(t)
        BY <4>2, QuietApart DEF ScanOK, Returned
      <4>3. CASE Works(t)
        <5>1. stage'[t] = "processing"
          BY <4>3 DEF Works, Goto, ShapeInv, TypesOK
        <5>. QED BY <5>1 DEF ScanOK, Returned
      <4>. QED BY <1>1, <4>1, <4>2, <4>3 DEF Acts
    <3>3. FilesAccountedFor'
      BY <2>1, <2>2, <3>1, FilesKept
    <3>. QED BY <2>1, <2>3, <3>1, <3>2, <3>3 DEF FilesInv
  <2>. QED BY <2>4, <2>5
<1>2. ASSUME NEW p, Dies(p) PROVE FilesInv'
  <2>1. /\ UNCHANGED <<store, role, holds, place>>
        /\ \A t \in Threads : ProcOf[t] = p => stage'[t] \in {"idle", "down"}
        /\ \A t \in Threads : ProcOf[t] # p =>
             /\ stage'[t] = stage[t] /\ ticket'[t] = ticket[t]
             /\ todo'[t] = todo[t] /\ call'[t] = call[t]
    BY <1>2, DiesShape
  <2>2. refused' = refused
    BY <1>2, DiesShape
  <2>3. ASSUME NEW t \in Threads PROVE ScanOK(t)'
    <3>1. CASE ProcOf[t] = p
      BY <2>1, <3>1 DEF ScanOK, Returned
    <3>2. CASE ProcOf[t] # p
      BY <2>1, <2>2, <3>2, FilesKept
    <3>. QED BY <3>1, <3>2
  <2>4. FilesAccountedFor'
    BY <2>1, <2>2, FilesKept
  <2>. QED BY <2>1, <2>2, <2>3, <2>4 DEF FilesInv
<1>3. ASSUME NEW f \in Files, Dropped(f) PROVE FilesInv'
  <2>1. /\ UNCHANGED <<store, call, stage, ticket, todo, holds, role, refused>>
        /\ place[f] = "outside" /\ place' = [place EXCEPT ![f] = "incoming"]
    BY <1>3 DEF Dropped, vars, fixed, loop, history
  <2>2. \A t \in Threads : ScanOK(t)'
    BY <2>1 DEF FilesInv, ScanOK, Returned, TicketIn
  <2>3. FilesAccountedFor'
    BY <2>1 DEF FilesInv, FilesAccountedFor
  <2>. QED BY <2>1, <2>2, <2>3 DEF FilesInv
<1>4. ASSUME UNCHANGED every PROVE FilesInv'
  <2>1. UNCHANGED <<store, call, stage, ticket, todo, holds, role, place, refused>>
    BY <1>4 DEF every, ingest, vars, fixed, loop, history
  <2>. QED BY <2>1 DEF FilesInv, FilesAccountedFor, ScanOK, Returned, TicketIn
<1>. QED BY <1>1, <1>2, <1>3, <1>4, NextCases

(* What Scan has moved is accounted for (entrypoints.go:49-63), whatever    *)
(* fails or dies and with any number of workers on the drop zone: a file   *)
(* in processed/ has its ticket stored, one in rejected/ holds none, or    *)
(* the store or the queue failed its own Ingest.                           *)
THEOREM ScannedIsAccountedFor == IngestSpec => []FilesAccountedFor
<1>1. IngestInit => FilesInv
  <2>. SUFFICES ASSUME IngestInit PROVE FilesInv
    OBVIOUS
  <2>1. place = [f \in Files |-> "outside"]
    BY DEF IngestInit
  <2>2. \A t \in Threads : stage[t] \in {"idle", "down"}
    BY DEF IngestInit, RestStage
  <2>. QED BY <2>1, <2>2 DEF FilesInv, FilesAccountedFor, ScanOK, Returned
<1>2. FilesInv => FilesAccountedFor
  BY DEF FilesInv
<1>3. (IInv /\ ShapeInv) /\ OnceInv /\ FilesInv /\ [IngestNext]_every => FilesInv'
  BY FilesStep
<1>. QED BY <1>1, <1>2, <1>3, EntranceInv, AlwaysOnce, PTL DEF IngestSpec
-----------------------------------------------------------------------------
(* The lines of a text                                                     *)

(* Min bounds the set it is taken from.                                    *)
LEMMA MinIsLeast ==
  ASSUME NEW S \in SUBSET Nat, S # {}
  PROVE  \A y \in S : Min(S) <= y
<1>1. PICK x \in S : \A y \in S : x <= y
  BY LeastNat
<1>. QED BY <1>1 DEF Min

(* From the first to the last of some places, counted from the first.      *)
LEMMA Stretch ==
  ASSUME NEW k \in Nat, NEW W, W # {}, \A n \in W : n \in 1..k
  PROVE  LET lo == Min(W)
             hi == Max(W)
         IN /\ lo \in W /\ lo \in Int /\ hi \in Int /\ lo <= hi
            /\ \A i \in lo..hi : i \in 1..k
            /\ \A n \in 1..(hi - lo + 1) : lo + n - 1 \in lo..hi
            /\ \A n \in W : \E i \in 1..(hi - lo + 1) : lo + i - 1 = n
            /\ 1 \in 1..(hi - lo + 1)
<1>1. W \subseteq Nat /\ W \subseteq 1..k
  OBVIOUS
<1>. DEFINE lo == Min(W)
            hi == Max(W)
<1>2. lo \in W /\ \A n \in W : lo <= n
  BY <1>1, MinIsMember, MinIsLeast
<1>3. hi \in W /\ \A n \in W : hi >= n
  <2>1. W \subseteq 0..k
    OBVIOUS
  <2>. QED BY <2>1, MaxIsGreatest, Zenon
<1>. HIDE DEF lo, hi
<1>4. lo \in Int /\ hi \in Int /\ 1 <= lo /\ lo <= hi /\ hi <= k
  BY <1>1, <1>2, <1>3
<1>5. (\A i \in lo..hi : i \in 1..k) /\ \A n \in 1..(hi - lo + 1) : lo + n - 1 \in lo..hi
  BY <1>4
<1>6. ASSUME NEW n \in W PROVE \E i \in 1..(hi - lo + 1) : lo + i - 1 = n
  <2>1. n \in Int /\ lo <= n /\ n <= hi
    BY <1>1, <1>2, <1>3
  <2>2. n - lo + 1 \in 1..(hi - lo + 1) /\ lo + (n - lo + 1) - 1 = n
    BY <1>4, <2>1
  <2>. QED BY <2>2
<1>7. 1 \in 1..(hi - lo + 1)
  BY <1>4
<1>. QED BY <1>2, <1>4, <1>5, <1>6, <1>7 DEF lo, hi

(* TrimSpace takes away blank lines alone.                                 *)
LEMMA TrimKeepsWords ==
  ASSUME NEW T, NEW s \in Seq(T)
  PROVE  /\ Range(TrimSpace(s)) \ {""} = Range(s) \ {""}
         /\ TrimSpace(s) = <<>> <=> Range(s) \subseteq {""}
<1>. DEFINE words == {n \in DOMAIN s : s[n] # ""}
            lo == Min(words)
            hi == Max(words)
            t == SubSeq(s, lo, hi)
<1>1. CASE words = {}
  <2>1. TrimSpace(s) = <<>>
    BY <1>1 DEF TrimSpace
  <2>2. Range(s) \subseteq {""}
    BY <1>1 DEF Range
  <2>3. Range(<<>>) = {}
    BY DEF Range
  <2>. QED BY <2>1, <2>2, <2>3
<1>2. CASE words # {}
  <2>1. TrimSpace(s) = t
    BY <1>2 DEF TrimSpace
  <2>2. PICK k \in Nat : DOMAIN s = 1..k
    OBVIOUS
  <2>3. \A n \in words : n \in 1..k /\ n \in DOMAIN s /\ s[n] # ""
    BY <2>2
  <2>4. \A n \in DOMAIN s : s[n] \in Range(s) /\ s[n] \in T
    BY DEF Range
  <2>5. \A n \in DOMAIN s : s[n] # "" => n \in words
    OBVIOUS
  <2>. HIDE DEF words
  <2>6. /\ lo \in words /\ lo \in Int /\ hi \in Int /\ lo <= hi
        /\ \A i \in lo..hi : i \in 1..k
        /\ \A n \in 1..(hi - lo + 1) : lo + n - 1 \in lo..hi
        /\ \A n \in words : \E i \in 1..(hi - lo + 1) : lo + i - 1 = n
        /\ 1 \in 1..(hi - lo + 1)
    BY <1>2, <2>3, Stretch
  <2>. HIDE DEF lo, hi
  <2>7. \A i \in lo..hi : s[i] \in T /\ s[i] \in Range(s)
    BY <2>2, <2>4, <2>6
  <2>8. /\ t \in Seq(T) /\ Len(t) = hi - lo + 1
        /\ \A n \in 1..(hi - lo + 1) : t[n] = s[lo + n - 1]
    BY <2>6, <2>7, SubSeqProperties
  <2>. HIDE DEF t
  <2>9. DOMAIN t = 1..(hi - lo + 1)
    BY <2>8
  <2>10. \A n \in DOMAIN t : t[n] \in Range(s)
    BY <2>6, <2>7, <2>8, <2>9
  <2>11. Range(t) \subseteq Range(s)
    BY <2>10 DEF Range
  <2>12. ASSUME NEW n \in words PROVE s[n] \in Range(t)
    <3>1. PICK i \in DOMAIN t : lo + i - 1 = n
      BY <2>6, <2>9
    <3>2. t[i] = s[n]
      BY <2>8, <2>9, <3>1
    <3>. QED BY <3>2 DEF Range
  <2>13. ASSUME NEW x \in Range(s), x # "" PROVE x \in Range(t)
    <3>1. PICK n \in DOMAIN s : x = s[n]
      BY DEF Range
    <3>. QED BY <2>5, <2>12, <2>13, <3>1
  <2>14. s[lo] \in Range(s) /\ s[lo] # "" /\ s[lo] \in Range(t)
    BY <2>3, <2>4, <2>6, <2>12
  <2>15. t # <<>>
    <3>1. 1 \in DOMAIN t
      BY <2>6, <2>9
    <3>. QED BY <3>1
  <2>16. Range(t) \ {""} = Range(s) \ {""}
    BY <2>11, <2>13
  <2>. QED BY <2>1, <2>14, <2>15, <2>16
<1>. QED BY <1>1, <1>2

(* The loop of Kept: what it has kept of the first n elements.             *)
KeptUpTo(f, s, some, k) ==
  f = [n \in 0..k |-> IF n = 0 THEN <<>>
                      ELSE IF s[n] \in some THEN Append(f[n - 1], s[n])
                      ELSE f[n - 1]]

LEMMA KeptExtends ==
  ASSUME NEW s, NEW some, NEW k \in Nat, NEW f, KeptUpTo(f, s, some, k)
  PROVE  \E g : KeptUpTo(g, s, some, k + 1)
<1>0. 0 \in 0..k /\ \A n \in 1..k : n \in 0..k /\ n # 0
  OBVIOUS
<1>. DEFINE Upon(x) == IF s[k + 1] \in some THEN Append(x, s[k + 1]) ELSE x
            g == [n \in 0..(k + 1) |-> IF n = k + 1 THEN Upon(f[k]) ELSE f[n]]
<1>1. f[0] = <<>> /\ \A n \in 1..k : f[n] = IF s[n] \in some THEN Append(f[n - 1], s[n])
                                           ELSE f[n - 1]
  BY <1>0 DEF KeptUpTo
<1>2. /\ g[k + 1] = Upon(f[k]) /\ g[0] = <<>>
      /\ \A n \in 0..k : g[n] = f[n]
  BY <1>1
<1>3. g = [n \in 0..(k + 1) |-> g[n]]
  OBVIOUS
<1>. HIDE DEF g
<1>4. ASSUME NEW n \in 0..(k + 1)
      PROVE  g[n] = IF n = 0 THEN <<>>
                    ELSE IF s[n] \in some THEN Append(g[n - 1], s[n])
                    ELSE g[n - 1]
  <2>1. CASE n = 0
    BY <1>2, <2>1
  <2>2. CASE n = k + 1
    <3>1. n # 0 /\ n - 1 = k /\ k \in 0..k
      BY <2>2
    <3>. QED BY <1>2, <2>2, <3>1
  <2>3. CASE n \in 1..k
    <3>1. n # 0 /\ n \in 0..k /\ n - 1 \in 0..k
      BY <2>3
    <3>. QED BY <1>1, <1>2, <2>3, <3>1
  <2>. QED BY <2>1, <2>2, <2>3
<1>5. g = [n \in 0..(k + 1) |-> IF n = 0 THEN <<>>
                                ELSE IF s[n] \in some THEN Append(g[n - 1], s[n])
                                ELSE g[n - 1]]
  BY <1>3, <1>4, Zenon
<1>6. KeptUpTo(g, s, some, k + 1)
  BY <1>5, Zenon DEF KeptUpTo
<1>. QED BY <1>6

LEMMA KeptExists ==
  ASSUME NEW s, NEW some, NEW k \in Nat
  PROVE  \E f : KeptUpTo(f, s, some, k)
<1>. DEFINE Bad == {m \in Nat : ~\E f : KeptUpTo(f, s, some, m)}
<1>1. SUFFICES ASSUME Bad # {} PROVE FALSE
  OBVIOUS
<1>2. PICK m \in Bad : \A i \in Bad : m <= i
  <2>1. Bad \subseteq Nat
    OBVIOUS
  <2>. HIDE DEF Bad
  <2>. QED BY <1>1, <2>1, LeastNat
<1>3. CASE m = 0
  <2>. DEFINE f == [n \in 0..0 |-> <<>>]
  <2>1. f = [n \in 0..0 |-> IF n = 0 THEN <<>>
                            ELSE IF s[n] \in some THEN Append(f[n - 1], s[n])
                            ELSE f[n - 1]]
    <3>1. \A n \in 0..0 : n = 0
      OBVIOUS
    <3>. QED BY <3>1
  <2>. HIDE DEF f
  <2>2. KeptUpTo(f, s, some, m)
    BY <1>3, <2>1, Zenon DEF KeptUpTo
  <2>. QED BY <2>2
<1>4. CASE m # 0
  <2>1. m - 1 \in Nat /\ m - 1 \notin Bad /\ (m - 1) + 1 = m
    BY <1>2, <1>4
  <2>2. PICK f : KeptUpTo(f, s, some, m - 1)
    BY <2>1
  <2>3. \E g : KeptUpTo(g, s, some, m)
    BY <2>1, <2>2, KeptExtends
  <2>. QED BY <2>3
<1>. QED BY <1>3, <1>4

LEMMA RangeOfAppend ==
  ASSUME NEW T, NEW s \in Seq(T), NEW e \in T
  PROVE  Range(Append(s, e)) = Range(s) \cup {e}
<1>. DEFINE a == Append(s, e)
<1>1. /\ DOMAIN s = 1..Len(s) /\ Len(s) \in Nat
      /\ DOMAIN a = 1..(Len(s) + 1) /\ a[Len(s) + 1] = e
      /\ \A n \in 1..Len(s) : a[n] = s[n]
  OBVIOUS
<1>. HIDE DEF a
<1>2. Range(a) = {a[n] : n \in 1..(Len(s) + 1)} /\ Range(s) = {s[n] : n \in 1..Len(s)}
  BY <1>1 DEF Range
<1>3. \A n : n \in 1..(Len(s) + 1) <=> n \in 1..Len(s) \/ n = Len(s) + 1
  BY <1>1
<1>4. Range(a) = Range(s) \cup {e}
  BY <1>1, <1>2, <1>3
<1>. QED BY <1>4 DEF a

(* Kept keeps the elements it is asked for and no others.                  *)
LEMMA KeptOnly ==
  ASSUME NEW T, NEW s \in Seq(T), NEW some
  PROVE  Kept(s, some) \in Seq(T) /\ Range(Kept(s, some)) = Range(s) \cap some
<1>. DEFINE f == CHOOSE g : KeptUpTo(g, s, some, Len(s))
            First(n) == {s[i] : i \in 1..n}
            Good(n) == f[n] \in Seq(T) /\ Range(f[n]) = First(n) \cap some
            Bad == {n \in 0..Len(s) : ~Good(n)}
<1>1. Len(s) \in Nat /\ DOMAIN s = 1..Len(s) /\ \A n \in 1..Len(s) : s[n] \in T
  OBVIOUS
<1>2. KeptUpTo(f, s, some, Len(s))
  BY <1>1, KeptExists
<1>3. Kept(s, some) = f[Len(s)]
  BY Zenon DEF Kept, KeptUpTo
<1>. HIDE DEF f
<1>4. f[0] = <<>> /\ \A n \in 1..Len(s) : f[n] = IF s[n] \in some THEN Append(f[n - 1], s[n])
                                                ELSE f[n - 1]
  <2>1. 0 \in 0..Len(s) /\ \A n \in 1..Len(s) : n \in 0..Len(s) /\ n # 0
    BY <1>1
  <2>. QED BY <1>2, <2>1 DEF KeptUpTo
<1>5. Good(0)
  <2>1. Range(<<>>) = {} /\ First(0) = {}
    BY DEF Range
  <2>. QED BY <1>4, <2>1
<1>6. ASSUME NEW n \in 1..Len(s), Good(n - 1) PROVE Good(n)
  <2>1. First(n) = First(n - 1) \cup {s[n]}
    <3>1. \A i : i \in 1..n <=> i \in 1..(n - 1) \/ i = n
      BY <1>1
    <3>. QED BY <3>1
  <2>. HIDE DEF First
  <2>2. CASE s[n] \in some
    <3>1. f[n] = Append(f[n - 1], s[n]) /\ s[n] \in T
      BY <1>1, <1>4, <2>2
    <3>2. Range(f[n]) = Range(f[n - 1]) \cup {s[n]} /\ f[n] \in Seq(T)
      BY <1>6, <3>1, RangeOfAppend
    <3>. QED BY <1>6, <2>1, <2>2, <3>2
  <2>3. CASE s[n] \notin some
    <3>1. f[n] = f[n - 1]
      BY <1>4, <2>3
    <3>. QED BY <1>6, <2>1, <2>3, <3>1
  <2>. QED BY <2>2, <2>3
<1>. HIDE DEF Good
<1>7. Bad = {}
  <2>1. SUFFICES ASSUME Bad # {} PROVE FALSE
    OBVIOUS
  <2>2. PICK m \in Bad : \A i \in Bad : m <= i
    <3>1. Bad \subseteq Nat
      BY <1>1
    <3>. HIDE DEF Bad
    <3>. QED BY <2>1, <3>1, LeastNat
  <2>3. m # 0 /\ m \in 1..Len(s) /\ m - 1 \in 0..Len(s)
    BY <1>1, <1>5, <2>2
  <2>4. Good(m - 1)
    BY <1>1, <2>2, <2>3
  <2>. QED BY <1>6, <2>2, <2>3, <2>4
<1>8. Good(Len(s))
  BY <1>1, <1>7
<1>9. First(Len(s)) = Range(s)
  BY <1>1 DEF Range
<1>. HIDE DEF First
<1>. QED BY <1>3, <1>8, <1>9 DEF Good

-----------------------------------------------------------------------------
(* The dashboard's form                                                    *)

(* A payload with words in its body becomes a ticket with that body.       *)
LEMMA BodyNormalized ==
  ASSUME NEW p, NEW workspace, NEW body, TrimSpace(body) # <<>>,
         \/ p.channel.value = "email" /\ body = p.body
         \/ p.channel.value = "chat" /\ body = Said(p.transcript)
         \/ p.channel.value = "webform" /\ body = p.message
  PROVE  /\ Normalize(p, workspace) # Invalid
         /\ Normalize(p, workspace).body = TrimSpace(body)
<1>. DEFINE channel == p.channel.value
            made == CASE channel = "email" -> p.body
                      [] channel = "chat"  -> Said(p.transcript)
                      [] OTHER             -> p.message
<1>1. channel \in Channels /\ made = body
  BY DEF Channels
<1>2. \E c, e, s : Normalize(p, workspace) =
                     [channel |-> c, email |-> e, subject |-> s,
                      body |-> TrimSpace(body), workspace |-> workspace]
  BY <1>1 DEF Normalize
<1>3. \A c, e, s, b, w : [channel |-> c, email |-> e, subject |-> s, body |-> b,
                          workspace |-> w] # [id |-> "ErrInvalid"]
  OBVIOUS
<1>. QED BY <1>2, <1>3 DEF Invalid

(* A transcript made of lines the customer says is what was said.          *)
LEMMA SaidAll ==
  ASSUME NEW lines \in Seq(STRING)
  PROVE  LET transcript == [n \in DOMAIN lines |-> [from |-> "customer", text |-> lines[n]]]
         IN Said(transcript) \in Seq(STRING) /\ Range(Said(transcript)) = Range(lines)
<1>. DEFINE Spoken == [from : {"customer"}, text : STRING]
            transcript == [n \in DOMAIN lines |-> [from |-> "customer", text |-> lines[n]]]
            customers == {line \in Range(transcript) : line.from = "customer"}
            kept == Kept(transcript, customers)
<1>1. transcript \in Seq(Spoken)
  <2>1. PICK k \in Nat : DOMAIN lines = 1..k
    OBVIOUS
  <2>2. transcript \in [1..k -> Spoken]
    BY <2>1
  <2>. HIDE DEF transcript, Spoken
  <2>. QED BY <2>2, SeqDef
<1>2. \A n \in DOMAIN lines : transcript[n].text = lines[n] /\ transcript[n].from = "customer"
  OBVIOUS
<1>3. DOMAIN transcript = DOMAIN lines
  OBVIOUS
<1>. HIDE DEF transcript
<1>4. customers = Range(transcript)
  BY <1>2, <1>3 DEF Range
<1>5. kept \in Seq(Spoken) /\ Range(kept) = Range(transcript)
  <2>1. \A some : Kept(transcript, some) \in Seq(Spoken)
                 /\ Range(Kept(transcript, some)) = Range(transcript) \cap some
    <3>. HIDE DEF Spoken
    <3>. QED BY <1>1, KeptOnly
  <2>2. kept \in Seq(Spoken) /\ Range(kept) = Range(transcript) \cap customers
    BY <2>1
  <2>. QED BY <1>4, <2>2
<1>6. Said(transcript) = [n \in DOMAIN kept |-> kept[n].text]
  BY DEF Said
<1>. HIDE DEF kept
<1>7. Said(transcript) \in Seq(STRING)
  <2>1. PICK k \in Nat : kept \in [1..k -> Spoken]
    <3>. HIDE DEF Spoken
    <3>. QED BY <1>5, SeqDef
  <2>2. \A n \in DOMAIN kept : kept[n] \in Spoken
    BY <2>1
  <2>3. \A n \in DOMAIN kept : kept[n].text \in STRING
    BY <2>2
  <2>4. Said(transcript) \in [1..k -> STRING]
    BY <1>6, <2>1, <2>3
  <2>. QED BY <2>4, SeqDef
<1>8. Range(Said(transcript)) = {line.text : line \in Range(kept)}
  BY <1>6 DEF Range
<1>9. {line.text : line \in Range(transcript)} = Range(lines)
  BY <1>2, <1>3 DEF Range
<1>. QED BY <1>5, <1>7, <1>8, <1>9 DEF transcript

LEMMA FieldsNormalized ==
  ASSUME NEW form, form.message \in Seq(STRING), form.mode = "fields",
         TrimSpace(form.message) # <<>>, NEW workspace
  PROVE  LET new == Normalize(SubmissionPayload(form), workspace)
         IN new # Invalid /\ Range(new.body) \ {""} = Range(form.message) \ {""}
<1>. DEFINE p == FromFields(form)
            message == form.message
<1>0. Range(TrimSpace(message)) \ {""} = Range(message) \ {""} /\ ~(Range(message) \subseteq {""})
  BY TrimKeepsWords
<1>1. SubmissionPayload(form) = p
  BY DEF SubmissionPayload
<1>2. CASE form.channel = "email"
  <2>1. p.channel.value = "email" /\ p.body = message
    BY <1>2 DEF FromFields, EmptyPayload, Clean
  <2>. HIDE DEF p
  <2>2. Normalize(p, workspace) # Invalid /\ Normalize(p, workspace).body = TrimSpace(message)
    BY <2>1, BodyNormalized
  <2>. QED BY <1>0, <1>1, <2>2
<1>3. CASE form.channel = "chat"
  <2>. DEFINE lines == Kept(message, Range(message) \ {""})
              transcript == [n \in DOMAIN lines |-> [from |-> "customer", text |-> lines[n]]]
  <2>1. p.channel.value = "chat" /\ p.transcript = transcript
    BY <1>3 DEF FromFields, EmptyPayload, Clean, Speaker
  <2>2. lines \in Seq(STRING) /\ Range(lines) = Range(message) \cap (Range(message) \ {""})
    <3>1. \A some : Kept(message, some) \in Seq(STRING)
                   /\ Range(Kept(message, some)) = Range(message) \cap some
      BY KeptOnly
    <3>. QED BY <3>1
  <2>. HIDE DEF p, lines
  <2>. DEFINE said == Said(transcript)
  <2>3. said \in Seq(STRING) /\ Range(said) = Range(message) \ {""}
    <3>1. said \in Seq(STRING) /\ Range(said) = Range(lines)
      BY <2>2, SaidAll
    <3>. QED BY <2>2, <3>1
  <2>. HIDE DEF transcript, said
  <2>4. /\ Range(TrimSpace(said)) \ {""} = Range(message) \ {""}
        /\ TrimSpace(said) # <<>>
    <3>1. /\ Range(TrimSpace(said)) \ {""} = Range(said) \ {""}
          /\ TrimSpace(said) = <<>> <=> Range(said) \subseteq {""}
      BY <2>3, TrimKeepsWords
    <3>. QED BY <1>0, <2>3, <3>1
  <2>5. Normalize(p, workspace) # Invalid /\ Normalize(p, workspace).body = TrimSpace(said)
    BY <2>1, <2>4, BodyNormalized DEF said
  <2>. QED BY <1>1, <2>4, <2>5
<1>4. CASE form.channel \notin {"email", "chat"}
  <2>1. p.channel.value = "webform" /\ p.message = message
    BY <1>4 DEF FromFields, EmptyPayload, Clean
  <2>. HIDE DEF p
  <2>2. Normalize(p, workspace) # Invalid /\ Normalize(p, workspace).body = TrimSpace(message)
    BY <2>1, BodyNormalized
  <2>. QED BY <1>0, <1>1, <2>2
<1>. QED BY <1>2, <1>3, <1>4

(* Whatever channel a visitor picks, the form comes out of normalization   *)
(* as a ticket with the words that were typed (submit.go:154-181,          *)
(* ticket.go:58-125).                                                      *)
THEOREM FormsBecomeTickets == IngestSpec => FormsAreTickets
<1>. DEFINE Kind(t, f) ==
       Submitted(t, f[1], f[2]) /\ f[2].mode = "fields" /\ TrimSpace(f[2].message) # <<>> =>
         /\ ticket'[t] # Invalid
         /\ Range(ticket'[t].body) \ {""} = Range(f[2].message) \ {""}
<1>1. ASSUME ShapeInv, NEW t \in Threads, NEW f \in Forms, Submitted(t, f[1], f[2]),
             f[2].mode = "fields", TrimSpace(f[2].message) # <<>>
      PROVE  /\ ticket'[t] # Invalid
             /\ Range(ticket'[t].body) \ {""} = Range(f[2].message) \ {""}
  <2>1. ticket'[t] = Normalize(SubmissionPayload(f[2]), f[1])
    BY <1>1 DEF Submitted, Ingests, ShapeInv, TypesOK
  <2>. QED BY <1>1, <2>1, FormsAssumption, FieldsNormalized
<1>2. ShapeInv => [\A t \in Threads, f \in Forms : Kind(t, f)]_every
  BY <1>1
<1>. QED BY <1>2, EntranceInv, PTL DEF FormsAreTickets
=============================================================================

--------------------------- MODULE DirQueueProofs ---------------------------
(***************************************************************************)
(* Proofs about the local queue, for every number of messages, receivers,  *)
(* crashes and runs: types, that no message is lost, and that a message is *)
(* claimed once; then what it promises its users: how often a message is   *)
(* tried, what its dead-letter directory holds, and that DirQueue          *)
(* implements Queue, the interface ingest.Queue.                           *)
(***************************************************************************)
EXTENDS DirQueue, WellFoundedInduction, TLAPS

(* The library's relation on the naturals, as a set of pairs. *)
LEMMA LessThan == OpToRel(<, Nat) = {p \in Nat \X Nat : p[1] < p[2]}
  BY Zenon DEF OpToRel

(* The smallest name of a set is in it and no other is smaller: what       *)
(* Receive's sorted listing and RunOnce's batch take first (queue.go:88).  *)
LEMMA MinIsMember ==
  ASSUME NEW S \in SUBSET Nat, S # {}
  PROVE  Min(S) \in S /\ \A x \in S : Min(S) <= x
<1>. DEFINE R == {p \in Nat \X Nat : p[1] < p[2]}
<1>1. IsWellFoundedOn(R, Nat)
  BY NatLessThanWellFounded, LessThan
<1>2. PICK x \in S : \A y \in S : <<y, x>> \notin R
  BY <1>1, WFMin
<1>3. ASSUME NEW y \in S PROVE x <= y
  <2>1. <<y, x>> \in Nat \X Nat /\ <<y, x>>[1] = y /\ <<y, x>>[2] = x
    OBVIOUS
  <2>2. ~(y < x)
    BY <1>2, <2>1
  <2>3. QED
    BY <2>2
<1>4. QED
  BY <1>3 DEF Min

(* A receiver here is at a message of its batch. *)
Busy == {"processing", "acking", "nacking", "returning"}

(* A receiver that reads has a name to read, one that is at a message has  *)
(* one in hand, and what it holds was sent and had attempts left when it   *)
(* was read.                                                               *)
ShapeOK ==
  \A r \in Receivers :
    /\ pc[r] \in {"reading", "discarding"} => todo[r] # {}
    /\ pc[r] \in Busy => In(hand[r]) # {}
    /\ \A n \in In(hand[r]) : n \in sent /\ hand[r][n] < MaxAttempts

(* There is a file only for what was sent, and one that is not dead has    *)
(* attempts left.                                                          *)
FilesOK ==
  /\ \A n \in Names : OnDisk(n) => n \in sent
  /\ \A n \in In(pending) : pending[n] < MaxAttempts
  /\ \A n \in In(inflight) : inflight[n] < MaxAttempts

(* Inductive: the types alone are not, a Nack could count beyond           *)
(* MaxAttempts.                                                            *)
IInv == TypeOK /\ ShapeOK /\ FilesOK

(* The message RunOnce is at is one of those it holds. *)
LEMMA CurrentHeld ==
  ASSUME TypeOK, NEW r \in Receivers, In(hand[r]) # {}
  PROVE  Current(r) \in Names /\ Current(r) \in In(hand[r])
  BY QueueAssumption, MinIsMember DEF Current, In

(* The file a receiver is at is a file name. *)
LEMMA FirstListed ==
  ASSUME TypeOK, NEW r \in Receivers, todo[r] # {}
  PROVE  Min(todo[r]) \in Names
  BY QueueAssumption, MinIsMember DEF TypeOK

(* Every step of a receiver that was started keeps types and shape. *)
LEMMA StepOK ==
  ASSUME IInv, NEW r \in Receivers, Step(r)
  PROVE  IInv'
<1>. USE QueueAssumption
<1>1. CASE Recover(r)
  <2>1. Min(todo[r]) \in Names
    BY <1>1, FirstListed DEF IInv, ShapeOK, Recover
  <2>2. TypeOK'
    BY <1>1, <2>1 DEF IInv, TypeOK, ShapeOK, FilesOK, PCs, Folder, Empty, In, Recover, Goto,
       queue, batch, history, bounds
  <2>3. ShapeOK'
    BY <1>1, <2>1, <2>2 DEF IInv, TypeOK, ShapeOK, FilesOK, OnDisk, Busy, PCs, Folder, Empty,
       In, Recover, Goto, queue, batch, history, bounds
  <2>4. FilesOK'
    <3>. DEFINE m == Min(todo[r])
    <3>1. CASE UNCHANGED queue
      BY <1>1, <3>1 DEF IInv, FilesOK, OnDisk, In, Recover, queue, history
    <3>2. CASE pending' = [pending EXCEPT ![m] = inflight[m]]
               /\ inflight' = [inflight EXCEPT ![m] = Absent]
               /\ inflight[m] # Absent
      BY <1>1, <2>1, <2>2, <3>2 DEF IInv, TypeOK, FilesOK, OnDisk, Folder, In, Recover, history
    <3>3. QED
      BY <1>1, <3>1, <3>2 DEF Recover, queue
  <2>5. QED
    BY <2>2, <2>3, <2>4 DEF IInv
<1>2. CASE Recovered(r)
  <2>1. TypeOK'
    BY <1>2 DEF IInv, TypeOK, ShapeOK, FilesOK, PCs, Folder, Empty, In, Recovered, Goto, queue,
       batch, history, bounds
  <2>2. ShapeOK'
    BY <1>2, <2>1 DEF IInv, TypeOK, ShapeOK, FilesOK, OnDisk, Busy, PCs, Folder, Empty, In,
       Recovered, Goto, queue, batch, history, bounds
  <2>3. FilesOK'
    BY <1>2, <2>1 DEF IInv, TypeOK, ShapeOK, FilesOK, OnDisk, Folder, Empty, In, Recovered,
       Goto, queue, batch, history, bounds
  <2>4. QED
    BY <2>1, <2>2, <2>3 DEF IInv
<1>3. CASE List(r)
  <2>1. TypeOK'
    BY <1>3 DEF IInv, TypeOK, ShapeOK, FilesOK, PCs, Folder, Empty, In, List, Goto, queue,
       batch, history, bounds
  <2>2. ShapeOK'
    BY <1>3, <2>1 DEF IInv, TypeOK, ShapeOK, FilesOK, OnDisk, Busy, PCs, Folder, Empty, In,
       List, Goto, queue, batch, history, bounds
  <2>3. FilesOK'
    BY <1>3, <2>1 DEF IInv, TypeOK, ShapeOK, FilesOK, OnDisk, Folder, Empty, In, List, Goto,
       queue, batch, history, bounds
  <2>4. QED
    BY <2>1, <2>2, <2>3 DEF IInv
<1>4. CASE Missed(r)
  <2>1. Min(todo[r]) \in Names
    BY <1>4, FirstListed DEF IInv, ShapeOK, Missed, Full
  <2>2. TypeOK'
    BY <1>4, <2>1 DEF IInv, TypeOK, ShapeOK, FilesOK, PCs, Folder, Empty, In, Missed, Full,
       Goto, queue, batch, history, bounds
  <2>3. ShapeOK'
    BY <1>4, <2>1, <2>2 DEF IInv, TypeOK, ShapeOK, FilesOK, OnDisk, Busy, PCs, Folder, Empty,
       In, Missed, Full, Goto, queue, batch, history, bounds
  <2>4. FilesOK'
    BY <1>4, <2>1, <2>2 DEF IInv, TypeOK, ShapeOK, FilesOK, OnDisk, Folder, Empty, In, Missed,
       Full, Goto, queue, batch, history, bounds
  <2>5. QED
    BY <2>2, <2>3, <2>4 DEF IInv
<1>5. CASE Claim(r)
  <2>1. Min(todo[r]) \in Names
    BY <1>5, FirstListed DEF IInv, ShapeOK, Claim, Full
  <2>2. TypeOK'
    BY <1>5, <2>1 DEF IInv, TypeOK, ShapeOK, FilesOK, PCs, Folder, Empty, In, Claim, Full, Goto,
       queue, batch, history, bounds
  <2>3. ShapeOK'
    BY <1>5, <2>1, <2>2 DEF IInv, TypeOK, ShapeOK, FilesOK, OnDisk, Busy, PCs, Folder, Empty,
       In, Claim, Full, Goto, queue, batch, history, bounds
  <2>4. FilesOK'
    BY <1>5, <2>1, <2>2 DEF IInv, TypeOK, ShapeOK, FilesOK, OnDisk, Folder, Empty, In, Claim,
       Full, Goto, queue, batch, history, bounds
  <2>5. QED
    BY <2>2, <2>3, <2>4 DEF IInv
<1>6. CASE Read(r)
  <2>1. Min(todo[r]) \in Names
    BY <1>6, FirstListed DEF IInv, ShapeOK, Read
  <2>2. /\ hand' \in [Receivers -> Folder] /\ pc' \in [Receivers -> PCs]
        /\ todo' \in [Receivers -> SUBSET Names]
    <3>1. CASE Min(todo[r]) \in Damaged
      BY <1>6, <3>1 DEF IInv, TypeOK, PCs, Read, Goto
    <3>2. CASE Min(todo[r]) \notin Damaged
      <4>. DEFINE m == Min(todo[r])
      <4>1. /\ hand' = [hand EXCEPT ![r] = [hand[r] EXCEPT ![m] = inflight[m]]]
            /\ todo' = [todo EXCEPT ![r] = todo[r] \ {m}]
            /\ pc' = [pc EXCEPT ![r] = "claiming"]
        BY <1>6, <3>2 DEF Read, Goto
      <4>2. m \in Names /\ inflight[m] \in 0 .. MaxAttempts \cup {Absent}
        BY <2>1 DEF IInv, TypeOK, Folder
      <4>. HIDE DEF m
      <4>3. [hand[r] EXCEPT ![m] = inflight[m]] \in Folder
        BY <4>2 DEF IInv, TypeOK, Folder
      <4>4. QED
        BY <4>1, <4>3 DEF IInv, TypeOK, PCs
    <3>3. QED
      BY <3>1, <3>2
  <2>3. TypeOK'
    BY <1>6, <2>2 DEF IInv, TypeOK, Read, queue, history, bounds
  <2>4. ShapeOK'
    <3>. DEFINE m == Min(todo[r])
    <3>1. /\ pc \in [Receivers -> PCs] /\ todo \in [Receivers -> SUBSET Names]
          /\ hand \in [Receivers -> Folder] /\ sent' = sent
      BY <1>6 DEF IInv, TypeOK, Read, history
    <3>2. pc[r] = "reading" /\ inflight[m] # Absent
      BY <1>6 DEF Read
    <3>3. m \in Names /\ m \in sent /\ inflight[m] < MaxAttempts /\ todo[r] # {}
      BY <2>1, <3>2 DEF IInv, FilesOK, ShapeOK, OnDisk, In
    <3>4. CASE m \in Damaged
      <4>1. pc' = [pc EXCEPT ![r] = "discarding"] /\ UNCHANGED <<todo, hand>>
        BY <1>6, <3>4 DEF Read, Goto
      <4>. QED BY <3>1, <3>3, <4>1 DEF IInv, ShapeOK, Busy
    <3>5. CASE m \notin Damaged
      <4>1. /\ pc' = [pc EXCEPT ![r] = "claiming"] /\ todo' = [todo EXCEPT ![r] = todo[r] \ {m}]
            /\ hand' = [hand EXCEPT ![r] = [hand[r] EXCEPT ![m] = inflight[m]]]
        BY <1>6, <3>5 DEF Read, Goto
      <4>. HIDE DEF m
      <4>2. \A u \in Receivers \ {r} : pc'[u] = pc[u] /\ todo'[u] = todo[u] /\ hand'[u] = hand[u]
        BY <3>1, <4>1
      <4>3. pc'[r] = "claiming" /\ hand'[r] = [hand[r] EXCEPT ![m] = inflight[m]] /\ hand[r] \in Folder
        BY <3>1, <4>1
      <4>4. \A n \in In(hand'[r]) : n \in sent /\ hand'[r][n] < MaxAttempts
        BY <3>3, <4>3 DEF IInv, ShapeOK, In, Folder
      <4>5. ASSUME NEW u \in Receivers
            PROVE  /\ pc'[u] \in {"reading", "discarding"} => todo'[u] # {}
                   /\ pc'[u] \in Busy => In(hand'[u]) # {}
                   /\ \A n \in In(hand'[u]) : n \in sent' /\ hand'[u][n] < MaxAttempts
        BY <3>1, <4>2, <4>3, <4>4 DEF IInv, ShapeOK, Busy
      <4>. QED BY <4>5 DEF ShapeOK, In
    <3>. QED BY <3>4, <3>5
  <2>5. FilesOK'
    BY <1>6, <2>1, <2>2, <2>3 DEF IInv, TypeOK, ShapeOK, FilesOK, OnDisk, Folder, Empty, In,
       Read, Goto, queue, batch, history, bounds
  <2>6. QED
    BY <2>3, <2>4, <2>5 DEF IInv
<1>7. CASE Discard(r)
  <2>1. Min(todo[r]) \in Names
    BY <1>7, FirstListed DEF IInv, ShapeOK, Discard
  <2>2. TypeOK'
    BY <1>7, <2>1 DEF IInv, TypeOK, ShapeOK, FilesOK, PCs, Folder, Empty, In, Discard, Goto,
       queue, batch, history, bounds
  <2>3. ShapeOK'
    BY <1>7, <2>1, <2>2 DEF IInv, TypeOK, ShapeOK, FilesOK, OnDisk, Busy, PCs, Folder, Empty,
       In, Discard, Goto, queue, batch, history, bounds
  <2>4. FilesOK'
    <3>. DEFINE m == Min(todo[r])
    <3>1. CASE UNCHANGED queue
      BY <1>7, <3>1 DEF IInv, FilesOK, OnDisk, In, Discard, queue, history
    <3>2. CASE dead' = [dead EXCEPT ![m] = inflight[m]]
               /\ inflight' = [inflight EXCEPT ![m] = Absent]
               /\ inflight[m] # Absent
      BY <1>7, <2>1, <2>2, <3>2 DEF IInv, TypeOK, FilesOK, OnDisk, Folder, In, Discard, history
    <3>3. QED
      BY <1>7, <3>1, <3>2 DEF Discard, queue
  <2>5. QED
    BY <2>2, <2>3, <2>4 DEF IInv
<1>8. CASE ReceiveFails(r)
  <2>1. TypeOK'
    BY <1>8 DEF IInv, TypeOK, ShapeOK, FilesOK, PCs, Folder, Empty, In, ReceiveFails, RunEnds,
       Fresh, Goto, queue, batch, history, bounds
  <2>2. ShapeOK'
    BY <1>8, <2>1 DEF IInv, TypeOK, ShapeOK, FilesOK, OnDisk, Busy, PCs, Folder, Empty, In,
       ReceiveFails, RunEnds, Fresh, Goto, queue, batch, history, bounds
  <2>3. FilesOK'
    BY <1>8, <2>1 DEF IInv, TypeOK, ShapeOK, FilesOK, OnDisk, Folder, Empty, In, ReceiveFails,
       RunEnds, Fresh, Goto, queue, batch, history, bounds
  <2>4. QED
    BY <2>1, <2>2, <2>3 DEF IInv
<1>9. CASE Received(r)
  <2>1. TypeOK'
    BY <1>9 DEF IInv, TypeOK, ShapeOK, FilesOK, PCs, Folder, Empty, In, Received, Goto, queue,
       batch, history, bounds
  <2>2. ShapeOK'
    BY <1>9, <2>1 DEF IInv, TypeOK, ShapeOK, FilesOK, OnDisk, Busy, PCs, Folder, Empty, In,
       Received, Goto, queue, batch, history, bounds
  <2>3. FilesOK'
    BY <1>9, <2>1 DEF IInv, TypeOK, ShapeOK, FilesOK, OnDisk, Folder, Empty, In, Received, Goto,
       queue, batch, history, bounds
  <2>4. QED
    BY <2>1, <2>2, <2>3 DEF IInv
<1>10. CASE Process(r)
  <2>1. Current(r) \in Names /\ Current(r) \in In(hand[r])
    BY <1>10, CurrentHeld DEF IInv, ShapeOK, Busy, Process
  <2>2. tried' \in [Names -> Nat]
    <3>. DEFINE c == Current(r)
    <3>1. tried' = [tried EXCEPT ![c] = tried[c] + 1]
      BY <1>10 DEF Process
    <3>2. c \in Names /\ tried \in [Names -> Nat]
      BY <2>1 DEF IInv, TypeOK
    <3>. HIDE DEF c
    <3>3. QED
      BY <3>1, <3>2
  <2>3. TypeOK'
    BY <1>10, <2>1, <2>2 DEF IInv, TypeOK, ShapeOK, FilesOK, PCs, Folder, Empty, In, Process,
       Goto, queue, batch, history, bounds
  <2>4. ShapeOK'
    BY <1>10, <2>1, <2>2, <2>3 DEF IInv, TypeOK, ShapeOK, FilesOK, OnDisk, Busy, PCs, Folder,
       Empty, In, Process, Goto, queue, batch, history, bounds
  <2>5. FilesOK'
    BY <1>10, <2>1, <2>2, <2>3 DEF IInv, TypeOK, ShapeOK, FilesOK, OnDisk, Folder, Empty, In,
       Process, Goto, queue, batch, history, bounds
  <2>6. QED
    BY <2>3, <2>4, <2>5 DEF IInv
<1>11. CASE Processed(r)
  <2>1. Current(r) \in Names /\ Current(r) \in In(hand[r])
    BY <1>11, CurrentHeld DEF IInv, ShapeOK, Busy, Processed
  <2>2. TypeOK'
    BY <1>11, <2>1 DEF IInv, TypeOK, ShapeOK, FilesOK, PCs, Folder, Empty, In, Processed, Goto,
       queue, batch, history, bounds
  <2>3. ShapeOK'
    BY <1>11, <2>1, <2>2 DEF IInv, TypeOK, ShapeOK, FilesOK, OnDisk, Busy, PCs, Folder, Empty,
       In, Processed, Goto, queue, batch, history, bounds
  <2>4. FilesOK'
    BY <1>11, <2>1, <2>2 DEF IInv, TypeOK, ShapeOK, FilesOK, OnDisk, Folder, Empty, In,
       Processed, Goto, queue, batch, history, bounds
  <2>5. QED
    BY <2>2, <2>3, <2>4 DEF IInv
<1>12. CASE ProcessFails(r)
  <2>1. TypeOK'
    BY <1>12 DEF IInv, TypeOK, ShapeOK, FilesOK, PCs, Folder, Empty, In, ProcessFails, Goto,
       queue, batch, history, bounds
  <2>2. ShapeOK'
    BY <1>12, <2>1 DEF IInv, TypeOK, ShapeOK, FilesOK, OnDisk, Busy, PCs, Folder, Empty, In,
       ProcessFails, Goto, queue, batch, history, bounds
  <2>3. FilesOK'
    BY <1>12, <2>1 DEF IInv, TypeOK, ShapeOK, FilesOK, OnDisk, Folder, Empty, In, ProcessFails,
       Goto, queue, batch, history, bounds
  <2>4. QED
    BY <2>1, <2>2, <2>3 DEF IInv
<1>13. CASE Ack(r)
  <2>1. Current(r) \in Names /\ Current(r) \in In(hand[r])
    BY <1>13, CurrentHeld DEF IInv, ShapeOK, Busy, Ack
  <2>2. TypeOK'
    BY <1>13, <2>1 DEF IInv, TypeOK, ShapeOK, FilesOK, PCs, Folder, Empty, In, Ack, Dropped,
       Goto, queue, batch, history, bounds
  <2>3. ShapeOK'
    BY <1>13, <2>1, <2>2 DEF IInv, TypeOK, ShapeOK, FilesOK, OnDisk, Busy, PCs, Folder, Empty,
       In, Ack, Dropped, Goto, queue, batch, history, bounds
  <2>4. FilesOK'
    BY <1>13, <2>1, <2>2 DEF IInv, TypeOK, ShapeOK, FilesOK, OnDisk, Folder, Empty, In, Ack,
       Dropped, Goto, queue, batch, history, bounds
  <2>5. QED
    BY <2>2, <2>3, <2>4 DEF IInv
<1>14. CASE AckFails(r)
  <2>1. Current(r) \in Names /\ Current(r) \in In(hand[r])
    BY <1>14, CurrentHeld DEF IInv, ShapeOK, Busy, AckFails
  <2>2. TypeOK'
    BY <1>14, <2>1 DEF IInv, TypeOK, ShapeOK, FilesOK, PCs, Folder, Empty, In, AckFails,
       Dropped, Goto, queue, batch, history, bounds
  <2>3. ShapeOK'
    BY <1>14, <2>1, <2>2 DEF IInv, TypeOK, ShapeOK, FilesOK, OnDisk, Busy, PCs, Folder, Empty,
       In, AckFails, Dropped, Goto, queue, batch, history, bounds
  <2>4. FilesOK'
    BY <1>14, <2>1, <2>2 DEF IInv, TypeOK, ShapeOK, FilesOK, OnDisk, Folder, Empty, In,
       AckFails, Dropped, Goto, queue, batch, history, bounds
  <2>5. QED
    BY <2>2, <2>3, <2>4 DEF IInv
<1>15. CASE NackRemoves(r)
  <2>1. Current(r) \in Names /\ Current(r) \in In(hand[r])
    BY <1>15, CurrentHeld DEF IInv, ShapeOK, Busy, NackRemoves
  <2>2. TypeOK'
    BY <1>15, <2>1 DEF IInv, TypeOK, ShapeOK, FilesOK, PCs, Folder, Empty, In, NackRemoves,
       Goto, queue, batch, history, bounds
  <2>3. ShapeOK'
    BY <1>15, <2>1, <2>2 DEF IInv, TypeOK, ShapeOK, FilesOK, OnDisk, Busy, PCs, Folder, Empty,
       In, NackRemoves, Goto, queue, batch, history, bounds
  <2>4. FilesOK'
    BY <1>15, <2>1, <2>2 DEF IInv, TypeOK, ShapeOK, FilesOK, OnDisk, Folder, Empty, In,
       NackRemoves, Goto, queue, batch, history, bounds
  <2>5. QED
    BY <2>2, <2>3, <2>4 DEF IInv
<1>16. CASE NackWrites(r)
  <2>1. Current(r) \in Names /\ Current(r) \in In(hand[r])
    BY <1>16, CurrentHeld DEF IInv, ShapeOK, Busy, NackWrites
  <2>2. hand[r][Current(r)] + 1 \in 0 .. MaxAttempts
    <3>. DEFINE c == Current(r)
    <3>1. c \in Names /\ c \in In(hand[r])
      BY <2>1
    <3>. HIDE DEF c
    <3>2. hand[r][c] \in 0 .. MaxAttempts /\ hand[r][c] < MaxAttempts
      BY <3>1 DEF IInv, TypeOK, ShapeOK, Folder, In
    <3>3. hand[r][c] + 1 \in 0 .. MaxAttempts
      BY <3>2
    <3>4. QED
      BY <3>3 DEF c
  <2>3. pending' \in Folder /\ dead' \in Folder
    <3>. DEFINE c == Current(r)  a == hand[r][c] + 1
    <3>1. \/ dead' = [dead EXCEPT ![c] = a] /\ pending' = pending
          \/ pending' = [pending EXCEPT ![c] = a] /\ dead' = dead
      BY <1>16 DEF NackWrites
    <3>2. c \in Names /\ a \in 0 .. MaxAttempts /\ pending \in Folder /\ dead \in Folder
      BY <2>1, <2>2 DEF IInv, TypeOK
    <3>. HIDE DEF c, a
    <3>3. QED
      BY <3>1, <3>2 DEF Folder
  <2>4. TypeOK'
    BY <1>16, <2>1, <2>2, <2>3 DEF IInv, TypeOK, ShapeOK, FilesOK, PCs, Folder, Empty, In,
       NackWrites, Dropped, Exhausted, Goto, queue, batch, history, bounds
  <2>5. ShapeOK'
    BY <1>16, <2>1, <2>2, <2>3, <2>4 DEF IInv, TypeOK, ShapeOK, FilesOK, OnDisk, Busy, PCs,
       Folder, Empty, In, NackWrites, Dropped, Exhausted, Goto, queue, batch, history, bounds
  <2>6. FilesOK'
    BY <1>16, <2>1, <2>2, <2>3, <2>4 DEF IInv, TypeOK, ShapeOK, FilesOK, OnDisk, Folder, Empty,
       In, NackWrites, Dropped, Exhausted, Goto, queue, batch, history, bounds
  <2>7. QED
    BY <2>4, <2>5, <2>6 DEF IInv
<1>17. CASE NackFails(r)
  <2>1. Current(r) \in Names /\ Current(r) \in In(hand[r])
    BY <1>17, CurrentHeld DEF IInv, ShapeOK, Busy, NackFails
  <2>2. TypeOK'
    BY <1>17, <2>1 DEF IInv, TypeOK, ShapeOK, FilesOK, PCs, Folder, Empty, In, NackFails,
       Dropped, Goto, queue, batch, history, bounds
  <2>3. ShapeOK'
    BY <1>17, <2>1, <2>2 DEF IInv, TypeOK, ShapeOK, FilesOK, OnDisk, Busy, PCs, Folder, Empty,
       In, NackFails, Dropped, Goto, queue, batch, history, bounds
  <2>4. FilesOK'
    BY <1>17, <2>1, <2>2 DEF IInv, TypeOK, ShapeOK, FilesOK, OnDisk, Folder, Empty, In,
       NackFails, Dropped, Goto, queue, batch, history, bounds
  <2>5. QED
    BY <2>2, <2>3, <2>4 DEF IInv
<1>18. CASE BatchEnds(r)
  <2>1. TypeOK'
    BY <1>18 DEF IInv, TypeOK, ShapeOK, FilesOK, PCs, Folder, Empty, In, BatchEnds, RunEnds,
       Fresh, Goto, queue, batch, history, bounds
  <2>2. ShapeOK'
    BY <1>18, <2>1 DEF IInv, TypeOK, ShapeOK, FilesOK, OnDisk, Busy, PCs, Folder, Empty, In,
       BatchEnds, RunEnds, Fresh, Goto, queue, batch, history, bounds
  <2>3. FilesOK'
    BY <1>18, <2>1 DEF IInv, TypeOK, ShapeOK, FilesOK, OnDisk, Folder, Empty, In, BatchEnds,
       RunEnds, Fresh, Goto, queue, batch, history, bounds
  <2>4. QED
    BY <2>1, <2>2, <2>3 DEF IInv
<1>19. QED
  BY <1>1, <1>2, <1>3, <1>4, <1>5, <1>6, <1>7, <1>8, <1>9, <1>10, <1>11, <1>12, <1>13, <1>14,
     <1>15, <1>16, <1>17, <1>18 DEF Step

(* The empty queue has them. *)
LEMMA InitOK == Init => IInv
  BY QueueAssumption
  DEF Init, IInv, TypeOK, ShapeOK, FilesOK, OnDisk, Busy, PCs, Folder, Empty, In

(* So does every step: a Send, a start, a crash, or a receiver's step. *)
LEMMA NextOK == IInv /\ [Next]_vars => IInv'
<1> SUFFICES ASSUME IInv, [Next]_vars PROVE IInv'
  OBVIOUS
<1>. USE QueueAssumption
<1>1. CASE UNCHANGED vars
  BY <1>1 DEF IInv, TypeOK, ShapeOK, FilesOK, OnDisk, Busy, In, vars, queue, batch, history,
     bounds
<1>2. ASSUME NEW n \in Names, Send(n) PROVE IInv'
  <2>1. TypeOK'
    BY <1>2 DEF IInv, TypeOK, Folder, Send, batch, bounds
  <2>2. ShapeOK'
    BY <1>2 DEF IInv, TypeOK, ShapeOK, In, Send, batch, bounds
  <2>3. FilesOK'
    BY <1>2 DEF IInv, TypeOK, FilesOK, Folder, OnDisk, In, Send, batch, bounds
  <2>4. QED
    BY <2>1, <2>2, <2>3 DEF IInv
<1>3. ASSUME NEW r \in Receivers, Begin(r) PROVE IInv'
  <2>1. runs' \in 0 .. MaxRuns
    BY <1>3 DEF IInv, TypeOK, Begin
  <2>2. PICK to \in {"recovering", "idle"}, listed \in SUBSET Names : Fresh(r, to, listed)
    BY <1>3 DEF Begin, In
  <2>3. UNCHANGED <<queue, history, crashes>>
    BY <1>3 DEF Begin
  <2>4. TypeOK'
    BY <2>1, <2>2, <2>3 DEF IInv, TypeOK, PCs, Folder, Empty, Fresh, Goto, queue, history
  <2>5. ShapeOK'
    BY <2>2, <2>3 DEF IInv, TypeOK, ShapeOK, Busy, PCs, Folder, Empty, In, Fresh, Goto, queue,
       history
  <2>6. FilesOK'
    BY <1>3 DEF IInv, TypeOK, FilesOK, OnDisk, In, Begin, queue, history
  <2>7. QED
    BY <2>4, <2>5, <2>6 DEF IInv
<1>4. ASSUME NEW r \in Receivers, Crash(r) PROVE IInv'
  <2>1. TypeOK'
    BY <1>4 DEF IInv, TypeOK, PCs, Folder, Empty, Crash, Fresh, Goto, queue, history
  <2>2. ShapeOK'
    BY <1>4 DEF IInv, TypeOK, ShapeOK, Busy, PCs, Folder, Empty, In, Crash, Fresh, Goto, queue,
       history
  <2>3. FilesOK'
    BY <1>4 DEF IInv, TypeOK, FilesOK, OnDisk, In, Crash, queue, history
  <2>4. QED
    BY <2>1, <2>2, <2>3 DEF IInv
<1>5. QED
  BY <1>1, <1>2, <1>3, <1>4, StepOK DEF Next

(* Whatever the number of receivers, their kinds and the faults: the       *)
(* directories hold names with attempts up to MaxAttempts and nothing is   *)
(* written that was not sent (queue.go:119-129).                           *)
THEOREM TypeCorrect == Spec => []TypeOK
<1>1. IInv => TypeOK
  BY DEF IInv
<1>2. QED
  BY InitOK, NextOK, <1>1, PTL DEF Spec

-----------------------------------------------------------------------------
(* A message about to be acknowledged was processed: RunOnce acknowledges  *)
(* at no other place (pipeline.go:155).                                    *)
AckOK == \A r \in Receivers : pc[r] = "acking" => Current(r) \in handled

(* The message is between the two halves of a Nack, in no directory        *)
(* (queue.go:120-128).                                                     *)
Returning(n) == \E r \in Receivers : pc[r] = "returning" /\ n = Current(r)

(* The invariant behind NothingLost: what was not processed is in a        *)
(* directory or between the two halves of a Nack.                          *)
Accounted == \A n \in sent \ handled : OnDisk(n) \/ Returning(n)

(* Inductive when no fault loses a message. *)
LInv == IInv /\ AckOK /\ Accounted

(* A step of one receiver. *)
Acts(r) == Begin(r) \/ Step(r) \/ Crash(r)

(* A receiver's step leaves the place and the hands of the others alone. *)
LEMMA OthersKeep ==
  ASSUME TypeOK, NEW r \in Receivers, Acts(r), NEW s \in Receivers, s # r
  PROVE  pc'[s] = pc[s] /\ hand'[s] = hand[s]
  BY DEF Acts, Step, TypeOK, Begin, Recover, Recovered, List, Missed, Claim, Read, Discard,
     ReceiveFails,
         Received, Process, Processed, ProcessFails, Ack, AckFails, NackRemoves, NackWrites,
         NackFails, BatchEnds, Crash, RunEnds, Fresh, Dropped, Goto, batch

(* The message it is at depends on the hands alone. *)
LEMMA CurrentKept ==
  ASSUME NEW s, hand'[s] = hand[s]
  PROVE  Current(s)' = Current(s)
  BY DEF Current, In

(* Only a successful Process leads to an Ack. *)
LEMMA AckStep ==
  ASSUME LInv, NEW r \in Receivers, Acts(r)
  PROVE  AckOK'
<1> SUFFICES ASSUME NEW s \in Receivers, pc'[s] = "acking" PROVE Current(s)' \in handled'
  BY DEF AckOK
<1>1. handled \subseteq handled'
  BY DEF Acts, Step, Begin, Recover, Recovered, List, Missed, Claim, Read, Discard, ReceiveFails,
         Received, Process, Processed, ProcessFails, Ack, AckFails, NackRemoves, NackWrites,
         NackFails, BatchEnds, Crash, history
<1>2. CASE s # r
  BY <1>1, <1>2, OthersKeep, CurrentKept DEF LInv, IInv, AckOK
<1>3. CASE s = r
  <2>1. Processed(r)
    BY <1>3 DEF LInv, IInv, TypeOK, Acts, Step, Begin, Recover, Recovered, List, Missed, Claim,
         Read, Discard, ReceiveFails, Received, Process, ProcessFails, Ack, AckFails, NackRemoves,
         NackWrites, NackFails, BatchEnds, Crash, RunEnds, Fresh, Dropped, Goto, batch
  <2>2. hand' = hand /\ Current(r) \in handled'
    BY <2>1 DEF Processed, batch
  <2>3. QED
    BY <1>3, <2>2, CurrentKept
<1>4. QED
  BY <1>2, <1>3

(* What Nack writes is a file: attempts count, they are never Absent. *)
LEMMA WrittenIsPresent ==
  ASSUME IInv, NEW r \in Receivers, pc[r] = "returning"
  PROVE  hand[r][Current(r)] + 1 # Absent
<1>. DEFINE c == Current(r)
<1>1. c \in Names /\ c \in In(hand[r])
  BY CurrentHeld DEF IInv, ShapeOK, Busy
<1>. HIDE DEF c
<1>2. hand[r][c] \in Nat
  BY <1>1, QueueAssumption DEF IInv, TypeOK, Folder, In
<1>3. hand[r][c] + 1 # Absent
  BY <1>2, QueueAssumption
<1>4. QED
  BY <1>3 DEF c

(* No file operation fails and nothing dies between the halves of a Nack.  *)
(* Failing processing, crashes anywhere else and any number of receivers of*)
(* any kind remain, Recovers beside a running receiver included.           *)
NoLosingFaults == Faults \cap {"io", "midnack"} = {}

(* Without such faults no step of a receiver loses an unprocessed message. *)
LEMMA AccountedStep ==
  ASSUME LInv, NoLosingFaults, NEW r \in Receivers, Acts(r)
  PROVE  Accounted'
<1> SUFFICES ASSUME NEW n \in sent' \ handled' PROVE OnDisk(n)' \/ Returning(n)'
  BY DEF Accounted
<1>1. n \in sent \ handled /\ n \in Names
  BY DEF LInv, IInv, TypeOK, Acts, Step, Begin, Recover, Recovered, List, Missed, Claim, Read,
         Discard, ReceiveFails, Received, Process, Processed, ProcessFails, Ack, AckFails,
         NackRemoves,
         NackWrites, NackFails, BatchEnds, Crash, history
<1>2. ASSUME NEW s \in Receivers, s # r, pc[s] = "returning", n = Current(s)
      PROVE  Returning(n)'
  BY <1>2, OthersKeep, CurrentKept DEF LInv, IInv, Returning
<1>3. CASE pc[r] = "returning" /\ n = Current(r)
  <2>1. NackWrites(r)
    BY <1>3 DEF NoLosingFaults, Acts, Step, Begin, Recover, Recovered, List, Missed, Claim, Read,
         Discard, ReceiveFails, Received, Process, Processed, ProcessFails, Ack, AckFails,
         NackRemoves,
         NackFails, BatchEnds, Crash
  <2>2. hand[r][n] + 1 # Absent
    BY <1>3, WrittenIsPresent DEF LInv
  <2>3. OnDisk(n)'
    BY <1>1, <1>3, <2>1, <2>2 DEF LInv, IInv, TypeOK, Folder, OnDisk, NackWrites
  <2>4. QED
    BY <2>3
<1>4. CASE OnDisk(n) /\ pc[r] = "nacking" /\ n = Current(r)
  <2>1. NackRemoves(r) \/ Crash(r)
    BY <1>4 DEF Acts, Step, Begin, Recover, Recovered, List, Missed, Claim, Read,
         Discard, ReceiveFails, Received, Process, Processed, ProcessFails, Ack, AckFails,
         NackWrites, NackFails, BatchEnds
  <2>2. CASE NackRemoves(r)
    <3>1. pc'[r] = "returning" /\ hand' = hand
      BY <2>2 DEF LInv, IInv, TypeOK, NackRemoves, Goto, batch
    <3>2. QED
      BY <1>4, <3>1, CurrentKept DEF Returning
  <2>3. CASE Crash(r)
    BY <1>4, <2>3 DEF OnDisk, Crash, queue
  <2>4. QED
    BY <2>1, <2>2, <2>3
<1>5. CASE OnDisk(n) /\ ~(pc[r] = "nacking" /\ n = Current(r))
  <2>1. CASE Recover(r)
    BY <1>1, <1>5, <2>1 DEF LInv, IInv, TypeOK, Folder, OnDisk, Recover
  <2>2. CASE Claim(r)
    BY <1>1, <1>5, <2>2 DEF LInv, IInv, TypeOK, Folder, OnDisk, Claim
  <2>3. CASE Discard(r)
    BY <1>1, <1>5, <2>3 DEF LInv, IInv, TypeOK, Folder, OnDisk, Discard
  <2>4. CASE Ack(r)
    <3>1. n # Current(r)
      BY <1>1, <2>4 DEF LInv, AckOK, Ack
    <3>2. QED
      BY <1>5, <2>4, <3>1 DEF LInv, IInv, TypeOK, Folder, OnDisk, Ack
  <2>5. CASE NackRemoves(r)
    <3>1. n # Current(r)
      BY <1>5, <2>5 DEF NackRemoves
    <3>2. inflight'[n] = inflight[n]
      BY <1>1, <2>5, <3>1 DEF LInv, IInv, TypeOK, Folder, NackRemoves
    <3>3. QED
      BY <1>5, <2>5, <3>2 DEF OnDisk, NackRemoves
  <2>6. CASE NackWrites(r)
    <3>1. hand[r][Current(r)] + 1 # Absent
      BY <2>6, WrittenIsPresent DEF LInv, NackWrites
    <3>2. QED
      BY <1>1, <1>5, <2>6, <3>1 DEF LInv, IInv, TypeOK, Folder, OnDisk, NackWrites
  <2>7. CASE UNCHANGED queue
    BY <1>5, <2>7 DEF OnDisk, queue
  <2>8. QED
    BY <2>1, <2>2, <2>3, <2>4, <2>5, <2>6, <2>7
    DEF Acts, Step, Begin, Recovered, List, Missed, Read, ReceiveFails, Received, Process,
    Processed,
        ProcessFails, AckFails, NackFails, BatchEnds, Crash
<1>6. QED
  BY <1>1, <1>2, <1>3, <1>4, <1>5 DEF LInv, Accounted, Returning

(* For every number of messages, receivers, crashes and failures: a message*)
(* is in a directory or in a receiver's hands until it was processed       *)
(* (queue.go:23).                                                          *)
THEOREM NoMessageIsLost ==
  ASSUME NoLosingFaults
  PROVE  Spec => []NothingLost
<1>1. Init => LInv
  BY InitOK DEF Init, LInv, AckOK, Accounted
<1>2. LInv /\ [Next]_vars => LInv'
  <2> SUFFICES ASSUME LInv, [Next]_vars PROVE LInv'
    OBVIOUS
  <2>1. IInv'
    BY NextOK DEF LInv
  <2>2. CASE UNCHANGED vars
    <3>1. \A s : Current(s)' = Current(s)
      BY <2>2, CurrentKept DEF vars, batch
    <3>2. QED
      BY <2>1, <2>2, <3>1 DEF LInv, AckOK, Accounted, OnDisk, Returning, vars, queue, batch,
         history
  <2>3. ASSUME NEW n \in Names, Send(n) PROVE LInv'
    <3>1. \A s : Current(s)' = Current(s)
      BY <2>3, CurrentKept DEF Send, batch
    <3>2. AckOK'
      BY <2>3, <3>1 DEF LInv, AckOK, Send
    <3>3. Accounted'
      BY <2>3, <3>1, QueueAssumption
      DEF LInv, IInv, TypeOK, Folder, Accounted, OnDisk, Returning, Send
    <3>4. QED
      BY <2>1, <3>2, <3>3 DEF LInv
  <2>4. ASSUME NEW r \in Receivers, Acts(r) PROVE LInv'
    BY <2>1, <2>4, AckStep, AccountedStep DEF LInv
  <2>5. QED
    BY <2>2, <2>3, <2>4 DEF Next, Acts
<1>3. LInv => NothingLost
  <2> SUFFICES ASSUME LInv, NEW n \in sent \ handled, Returning(n)
               PROVE  \E r \in Receivers : n \in Holds(r)
    BY DEF LInv, Accounted, NothingLost
  <2>1. PICK r \in Receivers : pc[r] = "returning" /\ n = Current(r)
    BY DEF Returning
  <2>2. n \in Holds(r)
    BY <2>1, CurrentHeld DEF LInv, IInv, ShapeOK, Busy, Holds
  <2>3. QED
    BY <2>2
<1>4. QED
  BY <1>1, <1>2, <1>3, PTL DEF Spec

-----------------------------------------------------------------------------
(* r has renamed n into inflight and not yet taken it or set it aside. *)
Reading(r, n) == pc[r] \in {"reading", "discarding"} /\ n = Min(todo[r])

(* n is between the two halves of r's Nack. *)
Out(r, n) == pc[r] = "returning" /\ n = Current(r)

(* r has claimed n. *)
Held(r, n) == n \in In(hand[r]) \/ Reading(r, n)

(* A message is in one directory at most. *)
PlaceOK(n) ==
  /\ pending[n] # Absent => inflight[n] = Absent /\ dead[n] = Absent
  /\ inflight[n] # Absent => dead[n] = Absent

(* What r has in hand is in inflight with the attempts r has read, and     *)
(* nowhere while r is returning it.                                        *)
HandOK(r, n) ==
  n \in In(hand[r]) =>
    /\ pending[n] = Absent /\ dead[n] = Absent
    /\ inflight[n] = IF Out(r, n) THEN Absent ELSE hand[r][n]

(* What r reads is there, and it has not got it yet. *)
ReadingOK(r, n) == Reading(r, n) => inflight[n] # Absent /\ n \notin In(hand[r])

(* The directories and the receivers' hands agree. *)
Matches == \A n \in Names :
  /\ PlaceOK(n)
  /\ \A r \in Receivers : HandOK(r, n) /\ ReadingOK(r, n)

(* ClaimedIsInvisible, message by message. *)
Disjoint == \A r, s \in Receivers : \A n \in Names : Held(r, n) /\ Held(s, n) => r = s

(* A receiver outside RunOnce holds nothing, and recovers only if it is the*)
(* worker.                                                                 *)
Phases == \A r \in Receivers :
  /\ pc[r] \in {"down", "recovering", "idle"} => In(hand[r]) = {}
  /\ pc[r] = "recovering" => Recovers(r)

(* Inductive under Alone: exclusive claims need the hands to match the     *)
(* directories, or a rename into inflight could take what another still    *)
(* holds.                                                                  *)
EInv == IInv /\ Matches /\ Disjoint /\ Phases

(* What keeps claims exclusive: no receiver recovers, or there is only one.*)
(* With two of which one recovers the claim is shared (run queue_stranded).*)
Alone ==
  /\ NoLosingFaults
  /\ (\A r \in Receivers : ~Recovers(r)) \/ (\A r, s \in Receivers : r = s)

(* A step of r changes nothing of what the others read, hold or return. *)
LEMMA OthersSame ==
  ASSUME IInv, NEW r \in Receivers, Acts(r), NEW s \in Receivers, s # r, NEW n \in Names
  PROVE  /\ pc'[s] = pc[s] /\ hand'[s] = hand[s]
         /\ In(hand[s])' = In(hand[s])
         /\ Reading(s, n)' = Reading(s, n)
         /\ Out(s, n)' = Out(s, n)
         /\ Held(s, n)' = Held(s, n)
<1>1. pc'[s] = pc[s] /\ hand'[s] = hand[s]
  BY OthersKeep DEF IInv
<1>2. todo'[s] = todo[s]
  BY DEF IInv, TypeOK, Acts, Step, Begin, Recover, Recovered, List, Missed, Claim, Read,
     Discard, ReceiveFails, Received, Process, Processed, ProcessFails, Ack, AckFails,
     NackRemoves,
     NackWrites, NackFails, BatchEnds, Crash, RunEnds, Fresh, Dropped, batch
<1>3. Current(s)' = Current(s)
  BY <1>1, CurrentKept
<1>4. In(hand[s])' = In(hand[s])
  BY <1>1 DEF In
<1>5. QED
  BY <1>1, <1>2, <1>3, <1>4 DEF Reading, Out, Held

(* A step of r that moves no file and neither reads nor returns one. *)
Quiet(r) == /\ UNCHANGED queue /\ hand' = hand
            /\ pc[r] \notin {"reading", "discarding", "returning"}
            /\ pc'[r] \notin {"reading", "discarding", "returning"}

(* r lets go of all it has: its run ends, or it dies. *)
LetsGo(r) == /\ UNCHANGED queue /\ In(hand[r])' = {}
             /\ pc'[r] \notin {"reading", "discarding", "returning"}

(* Such steps keep hands and directories in agreement. *)
LEMMA QuietStep ==
  ASSUME EInv, NEW r \in Receivers, Acts(r), Quiet(r) \/ LetsGo(r)
  PROVE  Matches' /\ Disjoint'
<1>1. \A n \in Names : PlaceOK(n)'
  BY DEF EInv, Matches, PlaceOK, Quiet, LetsGo, queue
<1>2. \A n \in Names : ~Reading(r, n)' /\ ~Out(r, n)'
  BY DEF Quiet, LetsGo, Reading, Out
<1>3. \/ In(hand[r])' = {}
      \/ /\ In(hand[r])' = In(hand[r]) /\ hand'[r] = hand[r]
         /\ \A n \in Names : ~Reading(r, n) /\ ~Out(r, n)
  BY DEF Quiet, LetsGo, In, Reading, Out
<1>4. \A n \in Names, s \in Receivers : HandOK(s, n)'
  BY <1>2, <1>3, OthersSame DEF EInv, Matches, HandOK, Quiet, LetsGo, queue
<1>5. \A n \in Names, s \in Receivers : ReadingOK(s, n)'
  BY <1>2, OthersSame DEF EInv, Matches, ReadingOK, Quiet, LetsGo, queue
<1>6. Disjoint'
  <2>1. \A n \in Names : Held(r, n)' => Held(r, n)
    BY <1>2, <1>3 DEF Held
  <2>2. QED
    BY <2>1, OthersSame DEF EInv, Disjoint
<1>7. QED
  BY <1>1, <1>4, <1>5, <1>6 DEF Matches

(* A step of r does not touch n. *)
Stays(r, n) ==
  /\ pending'[n] = pending[n] /\ inflight'[n] = inflight[n] /\ dead'[n] = dead[n]
  /\ hand'[r][n] = hand[r][n]
  /\ ~Reading(r, n)' /\ ~Out(r, n) /\ ~Out(r, n)'

(* A step that moves one message, held by nobody else, keeps them in       *)
(* agreement if they agree on that message afterwards.                     *)
LEMMA MoveStep ==
  ASSUME EInv, NEW r \in Receivers, Acts(r), NEW m \in Names,
         \A n \in Names \ {m} : Stays(r, n),
         \A s \in Receivers \ {r} : ~Held(s, m),
         PlaceOK(m)', HandOK(r, m)', ReadingOK(r, m)'
  PROVE  Matches' /\ Disjoint'
<1>1. \A n \in Names \ {m} : PlaceOK(n)'
  BY DEF EInv, Matches, PlaceOK, Stays
<1>2. \A n \in Names \ {m} : HandOK(r, n)' /\ ReadingOK(r, n)' /\ (Held(r, n)' => Held(r, n))
  BY DEF EInv, Matches, HandOK, ReadingOK, Held, In, Stays
<1>3. \A n \in Names \ {m}, s \in Receivers \ {r} : HandOK(s, n)' /\ ReadingOK(s, n)'
  BY OthersSame DEF EInv, Matches, HandOK, ReadingOK, Stays
<1>4. \A s \in Receivers \ {r} : ~Held(s, m)'
  BY OthersSame DEF EInv
<1>5. \A s \in Receivers \ {r} : HandOK(s, m)' /\ ReadingOK(s, m)'
  BY <1>4 DEF HandOK, ReadingOK, Held
<1>6. Disjoint'
  BY <1>2, <1>4, OthersSame DEF EInv, Disjoint
<1>7. QED
  BY <1>1, <1>2, <1>3, <1>5, <1>6 DEF Matches

(* Recover of a receiver that is alone: nobody holds anything. *)
LEMMA RecoverStep ==
  ASSUME EInv, Alone, NEW r \in Receivers, Recover(r)
  PROVE  Matches' /\ Disjoint'
<1>1. \A s \in Receivers : s = r
  BY DEF EInv, Phases, Alone, Recover
<1>2. pc'[r] = "recovering" /\ hand' = hand /\ In(hand[r]) = {}
  BY DEF EInv, Phases, Recover
<1>3. \A n \in Names : ~Held(r, n)'
  BY <1>2 DEF Held, Reading, In
<1>4. \A n \in Names : PlaceOK(n)'
  BY DEF EInv, IInv, TypeOK, Folder, Matches, PlaceOK, Recover
<1>5. QED
  BY <1>1, <1>3, <1>4 DEF Matches, Disjoint, HandOK, ReadingOK, Held

(* Claim: what is in pending is in nobody's hands. *)
LEMMA ClaimStep ==
  ASSUME EInv, NEW r \in Receivers, Claim(r)
  PROVE  Matches' /\ Disjoint'
<1>1. PICK m \in Names : m = Min(todo[r])
  BY FirstListed DEF EInv, IInv, Claim, Full
<1>2. /\ pc[r] = "claiming" /\ pc'[r] = "reading" /\ todo' = todo /\ hand' = hand /\ dead' = dead
      /\ pending[m] # Absent
      /\ pending' = [pending EXCEPT ![m] = Absent]
      /\ inflight' = [inflight EXCEPT ![m] = pending[m]]
  BY <1>1 DEF EInv, IInv, TypeOK, Claim, Goto, batch
<1>3. \A n \in Names : Reading(r, n)' => n = m
  BY <1>1, <1>2 DEF Reading
<1>4. \A s \in Receivers : ~Held(s, m)
  BY <1>1, <1>2 DEF EInv, Matches, PlaceOK, HandOK, ReadingOK, Held
<1>5. \A n \in Names \ {m} : Stays(r, n)
  BY <1>1, <1>2, <1>3 DEF EInv, IInv, TypeOK, Folder, Stays, Out
<1>6. PlaceOK(m)'
  BY <1>1, <1>2 DEF EInv, IInv, TypeOK, Folder, Matches, PlaceOK
<1>7. HandOK(r, m)' /\ ReadingOK(r, m)'
  BY <1>1, <1>2, <1>4 DEF EInv, IInv, TypeOK, Folder, HandOK, ReadingOK, Held, In
<1>8. QED
  BY <1>1, <1>4, <1>5, <1>6, <1>7, MoveStep DEF Acts, Step

(* Read takes what the receiver has just claimed. *)
LEMMA ReadStep ==
  ASSUME EInv, NEW r \in Receivers, Read(r)
  PROVE  Matches' /\ Disjoint'
<1>1. PICK m \in Names : m = Min(todo[r])
  BY FirstListed DEF EInv, IInv, ShapeOK, Read
<1>2. /\ pc[r] = "reading" /\ UNCHANGED queue
      /\ \/ pc'[r] = "discarding" /\ UNCHANGED <<todo, hand>>
         \/ pc'[r] = "claiming" /\ hand' = [hand EXCEPT ![r] = [hand[r] EXCEPT ![m] = inflight[m]]]
  BY <1>1 DEF EInv, IInv, TypeOK, Read, Goto
<1>3. Reading(r, m)
  BY <1>1, <1>2 DEF Reading
<1>4. \A n \in Names : Reading(r, n)' => n = m /\ UNCHANGED hand
  BY <1>1, <1>2 DEF Reading
<1>5. \A s \in Receivers \ {r} : ~Held(s, m)
  BY <1>1, <1>3 DEF EInv, Disjoint, Held
<1>6. \A n \in Names \ {m} : Stays(r, n)
  BY <1>1, <1>2, <1>4 DEF EInv, IInv, TypeOK, Folder, Stays, Out, queue
<1>7. PlaceOK(m)'
  BY <1>1, <1>2 DEF EInv, Matches, PlaceOK, queue
<1>8. HandOK(r, m)'
  BY <1>1, <1>2, <1>3 DEF EInv, IInv, TypeOK, Folder, Matches, PlaceOK, HandOK, ReadingOK, Out,
     In, queue
<1>9. ReadingOK(r, m)'
  BY <1>1, <1>2, <1>3, <1>4 DEF EInv, Matches, ReadingOK, In, queue
<1>10. QED
  BY <1>1, <1>5, <1>6, <1>7, <1>8, <1>9, MoveStep DEF Acts, Step

(* A damaged message goes to dead, its reader never had it in hand. *)
LEMMA DiscardStep ==
  ASSUME EInv, Alone, NEW r \in Receivers, Discard(r)
  PROVE  Matches' /\ Disjoint'
<1>1. PICK m \in Names : m = Min(todo[r])
  BY FirstListed DEF EInv, IInv, ShapeOK, Discard
<1>2. Reading(r, m)
  BY <1>1 DEF Reading, Discard
<1>3. /\ pc[r] = "discarding" /\ pc'[r] = "claiming" /\ hand' = hand /\ pending' = pending
      /\ dead' = [dead EXCEPT ![m] = inflight[m]]
      /\ inflight' = [inflight EXCEPT ![m] = Absent]
  BY <1>1, <1>2 DEF EInv, IInv, TypeOK, Matches, ReadingOK, Alone, NoLosingFaults, Discard, Goto
<1>4. \A s \in Receivers \ {r} : ~Held(s, m)
  BY <1>1, <1>2 DEF EInv, Disjoint, Held
<1>5. \A n \in Names \ {m} : Stays(r, n)
  BY <1>3 DEF EInv, IInv, TypeOK, Folder, Stays, Reading, Out
<1>6. PlaceOK(m)'
  BY <1>1, <1>2, <1>3 DEF EInv, IInv, TypeOK, Folder, Matches, PlaceOK, ReadingOK
<1>7. HandOK(r, m)' /\ ReadingOK(r, m)'
  BY <1>1, <1>2, <1>3 DEF EInv, Matches, HandOK, ReadingOK, Reading, In
<1>8. QED
  BY <1>1, <1>4, <1>5, <1>6, <1>7, MoveStep DEF Acts, Step

(* The message a receiver is at is held by no other. *)
LEMMA CurrentAlone ==
  ASSUME EInv, NEW r \in Receivers, pc[r] \in Busy
  PROVE  /\ Current(r) \in Names /\ Current(r) \in In(hand[r])
         /\ \A s \in Receivers \ {r} : ~Held(s, Current(r))
<1>1. Current(r) \in Names /\ Current(r) \in In(hand[r])
  BY CurrentHeld DEF EInv, IInv, ShapeOK
<1>2. QED
  BY <1>1 DEF EInv, Disjoint, Held

(* Ack removes a file only its holder refers to. *)
LEMMA AckMoves ==
  ASSUME EInv, NEW r \in Receivers, Ack(r)
  PROVE  Matches' /\ Disjoint'
<1>1. PICK c \in Names : c = Current(r) /\ \A s \in Receivers \ {r} : ~Held(s, c)
  BY CurrentAlone DEF Busy, Ack
<1>2. /\ pc[r] = "acking" /\ pc'[r] = "next" /\ pending' = pending /\ dead' = dead
      /\ inflight' = [inflight EXCEPT ![c] = Absent]
      /\ hand' = [hand EXCEPT ![r] = [hand[r] EXCEPT ![c] = Absent]]
  BY <1>1 DEF EInv, IInv, TypeOK, Ack, Dropped, Goto
<1>3. \A n \in Names \ {c} : Stays(r, n)
  BY <1>1, <1>2 DEF EInv, IInv, TypeOK, Folder, Stays, Reading, Out
<1>4. PlaceOK(c)' /\ HandOK(r, c)' /\ ReadingOK(r, c)'
  BY <1>1, <1>2 DEF EInv, IInv, TypeOK, Folder, Matches, PlaceOK, HandOK, ReadingOK, Reading, In
<1>5. QED
  BY <1>1, <1>3, <1>4, MoveStep DEF Acts, Step

(* The first half of Nack likewise. *)
LEMMA NackRemovesStep ==
  ASSUME EInv, Alone, NEW r \in Receivers, NackRemoves(r)
  PROVE  Matches' /\ Disjoint'
<1>1. PICK c \in Names : /\ c = Current(r) /\ c \in In(hand[r])
                        /\ \A s \in Receivers \ {r} : ~Held(s, c)
  BY CurrentAlone DEF Busy, NackRemoves
<1>2. /\ pc[r] = "nacking" /\ pc'[r] = "returning"
      /\ pending' = pending /\ dead' = dead /\ hand' = hand
      /\ inflight' = [inflight EXCEPT ![c] = Absent]
  BY <1>1 DEF EInv, IInv, TypeOK, Alone, NoLosingFaults, NackRemoves, Goto, batch
<1>3. \A n : Out(r, n)' <=> n = c
  BY <1>1, <1>2, CurrentKept DEF Out
<1>4. \A n \in Names \ {c} : Stays(r, n)
  BY <1>1, <1>2, <1>3 DEF EInv, IInv, TypeOK, Folder, Stays, Reading, Out
<1>5. PlaceOK(c)'
  BY <1>1, <1>2 DEF EInv, IInv, TypeOK, Folder, Matches, PlaceOK
<1>6. HandOK(r, c)' /\ ReadingOK(r, c)'
  BY <1>1, <1>2, <1>3 DEF EInv, IInv, TypeOK, Folder, Matches, HandOK, ReadingOK, Reading, In
<1>7. QED
  BY <1>1, <1>4, <1>5, <1>6, MoveStep DEF Acts, Step

(* The second half writes a message that is in no directory. *)
LEMMA NackWritesStep ==
  ASSUME EInv, NEW r \in Receivers, NackWrites(r)
  PROVE  Matches' /\ Disjoint'
<1>1. PICK c \in Names : /\ c = Current(r) /\ c \in In(hand[r])
                        /\ \A s \in Receivers \ {r} : ~Held(s, c)
  BY CurrentAlone DEF Busy, NackWrites
<1>2. /\ pc[r] = "returning" /\ pc'[r] = "next" /\ inflight' = inflight
      /\ \/ \E a : dead' = [dead EXCEPT ![c] = a] /\ pending' = pending
         \/ \E a : pending' = [pending EXCEPT ![c] = a] /\ dead' = dead
      /\ hand' = [hand EXCEPT ![r] = [hand[r] EXCEPT ![c] = Absent]]
  BY <1>1 DEF EInv, IInv, TypeOK, NackWrites, Dropped, Goto
<1>3. \A n : Out(r, n) <=> n = c
  BY <1>1, <1>2 DEF Out
<1>4. \A n \in Names \ {c} : Stays(r, n)
  BY <1>1, <1>2, <1>3 DEF EInv, IInv, TypeOK, Folder, Stays, Reading, Out
<1>5. pending[c] = Absent /\ inflight[c] = Absent /\ dead[c] = Absent
  BY <1>1, <1>3 DEF EInv, Matches, HandOK
<1>6. PlaceOK(c)'
  BY <1>1, <1>2, <1>5 DEF EInv, IInv, TypeOK, Folder, PlaceOK
<1>7. HandOK(r, c)' /\ ReadingOK(r, c)'
  BY <1>1, <1>2 DEF EInv, IInv, TypeOK, Folder, HandOK, ReadingOK, Reading, In
<1>8. QED
  BY <1>1, <1>4, <1>6, <1>7, MoveStep DEF Acts, Step

(* RunOnce begins and ends with empty hands. *)
LEMMA PhasesStep ==
  ASSUME EInv, NEW r \in Receivers, Acts(r)
  PROVE  Phases'
<1>1. ASSUME NEW s \in Receivers, s # r
      PROVE  /\ pc'[s] \in {"down", "recovering", "idle"} => In(hand[s])' = {}
             /\ pc'[s] = "recovering" => Recovers(s)
  BY <1>1, OthersKeep DEF EInv, IInv, Phases, In
<1>2. pc'[r] = "recovering" => Recovers(r)
  BY DEF EInv, IInv, TypeOK, Phases, Acts, Step, Begin, Recover, Recovered, List, Missed, Claim,
     Read,
     Discard, ReceiveFails, Received, Process, Processed, ProcessFails, Ack, AckFails,
     NackRemoves,
     NackWrites, NackFails, BatchEnds, Crash, RunEnds, Fresh, Dropped, Goto, batch
<1>3. ASSUME pc'[r] \in {"down", "recovering", "idle"} PROVE In(hand[r])' = {}
  <2>1. hand'[r] = Empty \/ (hand' = hand /\ pc[r] = "recovering")
    BY <1>3 DEF EInv, IInv, TypeOK, Acts, Step, Begin, Recover, Recovered, List, Missed, Claim,
       Read, Discard, ReceiveFails, Received, Process, Processed, ProcessFails, Ack, AckFails,
       NackRemoves, NackWrites, NackFails, BatchEnds, Crash, RunEnds, Fresh, Dropped, Goto, batch
  <2>2. QED
    BY <2>1 DEF EInv, Phases, In, Empty
<1>4. QED
  BY <1>1, <1>2, <1>3 DEF Phases, Recovers

(* Every step of a receiver, by the lemmas above. *)
LEMMA ReceiverStep ==
  ASSUME EInv, Alone, NEW r \in Receivers, Acts(r)
  PROVE  Matches' /\ Disjoint'
<1>1. CASE Begin(r) \/ ReceiveFails(r) \/ BatchEnds(r) \/ Crash(r)
  <2>1. PICK to \in {"down", "recovering", "idle"} : \E listed : Fresh(r, to, listed)
    BY <1>1 DEF Begin, ReceiveFails, BatchEnds, Crash, RunEnds
  <2>2. pc'[r] = to /\ hand'[r] = Empty
    BY <2>1 DEF EInv, IInv, TypeOK, Fresh, Goto
  <2>3. In(hand[r])' = {}
    BY <2>2 DEF In, Empty
  <2>4. LetsGo(r)
    BY <1>1, <2>2, <2>3 DEF Begin, ReceiveFails, BatchEnds, Crash, LetsGo
  <2>5. QED
    BY <2>4, QuietStep
<1>2. CASE \/ Recovered(r) \/ List(r) \/ Missed(r) \/ Received(r)
           \/ Process(r) \/ Processed(r) \/ ProcessFails(r)
  <2>1. Quiet(r)
    BY <1>2 DEF EInv, IInv, TypeOK, Recovered, List, Missed, Received, Process, Processed,
       ProcessFails, Goto, Quiet, batch
  <2>2. QED
    BY <2>1, QuietStep
<1>3. CASE AckFails(r) \/ NackFails(r)
  BY <1>3 DEF Alone, NoLosingFaults, AckFails, NackFails
<1>4. QED
  BY <1>1, <1>2, <1>3, RecoverStep, ClaimStep, ReadStep, DiscardStep, AckMoves, NackRemovesStep,
     NackWritesStep DEF Acts, Step

(* A message is sent once, so nobody has it yet. *)
LEMMA SendStep ==
  ASSUME EInv, NEW n \in Names, Send(n)
  PROVE  Matches' /\ Disjoint' /\ Phases'
<1>1. UNCHANGED <<inflight, dead, pc, todo, hand>>
  BY DEF Send, batch
<1>2. \A s : Current(s)' = Current(s)
  BY <1>1, CurrentKept
<1>3. \A s, m : /\ Reading(s, m)' = Reading(s, m) /\ Out(s, m)' = Out(s, m)
                /\ Held(s, m)' = Held(s, m) /\ In(hand[s])' = In(hand[s])
  BY <1>1, <1>2 DEF Reading, Out, Held, In
<1>4. ~OnDisk(n) /\ \A s \in Receivers : ~Held(s, n)
  BY DEF EInv, IInv, ShapeOK, FilesOK, Matches, ReadingOK, OnDisk, Held, Send
<1>5. \A m \in Names \ {n} : pending'[m] = pending[m]
  BY DEF EInv, IInv, TypeOK, Folder, Send
<1>6. \A m \in Names : PlaceOK(m)'
  BY <1>1, <1>4, <1>5 DEF EInv, Matches, PlaceOK, OnDisk
<1>7. \A m \in Names, s \in Receivers : HandOK(s, m)' /\ ReadingOK(s, m)'
  BY <1>1, <1>3, <1>4, <1>5 DEF EInv, Matches, HandOK, ReadingOK, Held
<1>8. Disjoint' /\ Phases'
  BY <1>1, <1>3 DEF EInv, Disjoint, Phases, Recovers
<1>9. QED
  BY <1>6, <1>7, <1>8 DEF Matches

(* For every number of messages: with one receiver, or any number of which *)
(* none recovers, no two receivers hold the same message (queue.go:19-20). *)
THEOREM ClaimsAreExclusive ==
  ASSUME Alone
  PROVE  Spec => []ClaimedIsInvisible
<1>1. Init => EInv
  BY InitOK DEF Init, EInv, Matches, PlaceOK, HandOK, ReadingOK, Reading, Disjoint, Held,
     Phases, Empty, In
<1>2. EInv /\ [Next]_vars => EInv'
  <2> SUFFICES ASSUME EInv, [Next]_vars PROVE EInv'
    OBVIOUS
  <2>1. IInv'
    BY NextOK DEF EInv
  <2>2. CASE UNCHANGED vars
    <3>1. \A s : Current(s)' = Current(s)
      BY <2>2, CurrentKept DEF vars, batch
    <3>2. UNCHANGED <<pending, inflight, dead, pc, todo, hand>>
      BY <2>2 DEF vars, queue, batch
    <3>3. QED
      BY <2>1, <3>1, <3>2 DEF EInv, Matches, PlaceOK, HandOK, ReadingOK, Reading, Out, Disjoint,
         Held, Phases, In, Recovers
  <2>3. ASSUME NEW n \in Names, Send(n) PROVE EInv'
    BY <2>1, <2>3, SendStep DEF EInv
  <2>4. ASSUME NEW r \in Receivers, Acts(r) PROVE EInv'
    BY <2>1, <2>4, ReceiverStep, PhasesStep DEF EInv
  <2>5. QED
    BY <2>2, <2>3, <2>4 DEF Next, Acts
<1>3. EInv => ClaimedIsInvisible
  <2>1. ASSUME EInv, NEW r \in Receivers, NEW n \in Holds(r) PROVE n \in Names /\ Held(r, n)
    BY <2>1, FirstListed DEF EInv, IInv, ShapeOK, Holds, Held, Reading, In
  <2>2. QED
    BY <2>1 DEF EInv, Disjoint, ClaimedIsInvisible
<1>4. QED
  BY <1>1, <1>2, <1>3, PTL DEF Spec
-----------------------------------------------------------------------------
(* What the queue promises.  The first part counts the attempts a file     *)
(* carries against the tries that were made; the second takes the mapping  *)
(* at the end of DirQueue place by place, where one receiver has the queue *)
(* to itself or none of several recovers.                                  *)

(* r is at n in RunOnce's loop. *)
AtIt(r, n) == pc[r] \in Busy /\ n = Current(r)

(* Somebody is. *)
Trying(n) == \E r \in Receivers : AtIt(r, n)

(* A step of r changes nothing of what the others are at. *)
LEMMA OthersAtIt ==
  ASSUME IInv, NEW r \in Receivers, Acts(r), NEW s \in Receivers, s # r, NEW n \in Names
  PROVE  AtIt(s, n)' <=> AtIt(s, n)
  BY OthersKeep, CurrentKept DEF IInv, AtIt

(* What a receiver is at has its attempts in the file, until a Nack has    *)
(* removed it.                                                             *)
LEMMA AtItHeld ==
  ASSUME EInv, NEW r \in Receivers, pc[r] \in Busy, NEW c, c = Current(r)
  PROVE  /\ c \in Names /\ c \in In(hand[r]) /\ c \in sent /\ hand[r][c] \in Nat
         /\ hand[r][c] < MaxAttempts
         /\ pending[c] = Absent /\ dead[c] = Absent
         /\ inflight[c] = IF pc[r] = "returning" THEN Absent ELSE hand[r][c]
<1>1. c \in Names /\ c \in In(hand[r])
  BY CurrentAlone
<1>2. c \in sent /\ hand[r][c] < MaxAttempts
  BY <1>1 DEF EInv, IInv, ShapeOK
<1>3. hand[r][c] \in Nat
  BY <1>1, QueueAssumption DEF EInv, IInv, TypeOK, Folder, In
<1>4. HandOK(r, c) /\ (Out(r, c) <=> pc[r] = "returning")
  BY <1>1 DEF EInv, Matches, Out
<1>. QED BY <1>1, <1>2, <1>3, <1>4 DEF HandOK

(* The same of the message it is about to try, which nobody is at. *)
LEMMA NextHeld ==
  ASSUME EInv, NEW r \in Receivers, Process(r), NEW c, c = Current(r)
  PROVE  /\ c \in Names /\ c \in In(hand[r]) /\ c \in sent
         /\ inflight[c] \in Nat /\ inflight[c] = hand[r][c] /\ inflight[c] < MaxAttempts
         /\ pending[c] = Absent /\ dead[c] = Absent /\ ~Trying(c)
<1>1. c \in Names /\ c \in In(hand[r])
  BY CurrentHeld DEF EInv, IInv, Process
<1>2. c \in sent /\ hand[r][c] < MaxAttempts
  BY <1>1 DEF EInv, IInv, ShapeOK
<1>3. hand[r][c] \in Nat
  BY <1>1, QueueAssumption DEF EInv, IInv, TypeOK, Folder, In
<1>4. HandOK(r, c) /\ ~Out(r, c)
  BY <1>1 DEF EInv, Matches, Out, Process
<1>5. ASSUME NEW s \in Receivers, AtIt(s, c) PROVE FALSE
  <2>1. s # r
    BY <1>5 DEF AtIt, Busy, Process
  <2>2. ~Held(r, c)
    BY <1>5, <2>1, CurrentAlone DEF AtIt
  <2>. QED BY <1>1, <2>2 DEF Held
<1>. QED BY <1>1, <1>2, <1>3, <1>4, <1>5 DEF HandOK, Trying

-----------------------------------------------------------------------------
(* Tries exceed the attempts recorded only by crashes, and by the one that *)
(* is under way.                                                           *)
TriesOK(n) ==
  /\ n \notin sent => tried[n] = 0
  /\ tried[n] <= MaxAttempts + crashes
  /\ pending[n] # Absent => tried[n] <= pending[n] + crashes
  /\ inflight[n] # Absent =>
       /\ tried[n] <= inflight[n] + crashes + 1
       /\ ~Trying(n) => tried[n] <= inflight[n] + crashes
  /\ \A r \in Receivers : Out(r, n) => tried[n] <= hand[r][n] + crashes + 1

(* Inductive under Alone. *)
RetryInv == EInv /\ \A n \in Names : TriesOK(n)

(* A receiver that is not in RunOnce's loop, or dies outside a Nack,       *)
(* leaves every count.                                                     *)
Idles(r) == \/ Begin(r) \/ Recovered(r) \/ List(r) \/ Missed(r) \/ Read(r)
            \/ ReceiveFails(r) \/ Received(r) \/ BatchEnds(r)

LEMMA CountsTyped ==
  ASSUME IInv, NEW n \in Names
  PROVE  /\ tried[n] \in Nat /\ crashes \in Nat /\ MaxAttempts \in Nat
         /\ pending[n] # Absent => pending[n] \in Nat
         /\ inflight[n] # Absent => inflight[n] \in Nat
         /\ dead[n] # Absent => dead[n] \in Nat
  BY QueueAssumption DEF IInv, TypeOK, Folder

LEMMA IdleTries ==
  ASSUME RetryInv, Alone, NEW r \in Receivers, Idles(r), NEW n \in Names
  PROVE  TriesOK(n)'
<1>1. /\ UNCHANGED <<queue, history, crashes>>
      /\ pc[r] \notin Busy /\ pc'[r] \notin Busy
  BY DEF RetryInv, EInv, IInv, TypeOK, Alone, NoLosingFaults, Idles, Begin, Recovered, List, Missed,
     Read, ReceiveFails, Received, BatchEnds, RunEnds, Fresh, Goto, Busy, bounds
<1>2. Acts(r)
  BY DEF Idles, Acts, Step
<1>3. \A s \in Receivers : (AtIt(s, n)' <=> AtIt(s, n)) /\ (Out(s, n)' <=> Out(s, n))
  <2>1. ~AtIt(r, n) /\ ~AtIt(r, n)' /\ ~Out(r, n) /\ ~Out(r, n)'
    BY <1>1 DEF AtIt, Out, Busy
  <2>2. \A s \in Receivers \ {r} : (AtIt(s, n)' <=> AtIt(s, n)) /\ (Out(s, n)' <=> Out(s, n))
    BY <1>2, OthersAtIt, OthersSame DEF RetryInv, EInv
  <2>. QED BY <2>1, <2>2
<1>4. \A s \in Receivers : Out(s, n)' => hand'[s] = hand[s]
  BY <1>1, <1>2, OthersKeep DEF RetryInv, EInv, IInv, Out, Busy
<1>5. Trying(n)' <=> Trying(n)
  BY <1>3 DEF Trying
<1>. QED BY <1>1, <1>3, <1>4, <1>5 DEF RetryInv, TriesOK, queue, history

(* The steps that move a file, with nobody beginning or ending a try. *)
LEMMA MoveTries ==
  ASSUME RetryInv, Alone, NEW r \in Receivers, Recover(r) \/ Claim(r) \/ Discard(r),
         NEW n \in Names
  PROVE  TriesOK(n)'
<1>0. Acts(r)
  BY DEF Acts, Step
<1>1. /\ UNCHANGED <<history, crashes, hand>>
      /\ pc[r] \notin Busy /\ pc'[r] \notin Busy
  BY DEF RetryInv, EInv, IInv, TypeOK, Recover, Claim, Discard, Goto, Busy, bounds, batch
<1>2. \A s \in Receivers : (AtIt(s, n)' <=> AtIt(s, n)) /\ (Out(s, n)' <=> Out(s, n))
  <2>1. ~AtIt(r, n) /\ ~AtIt(r, n)' /\ ~Out(r, n) /\ ~Out(r, n)'
    BY <1>1 DEF AtIt, Out, Busy
  <2>2. \A s \in Receivers \ {r} : (AtIt(s, n)' <=> AtIt(s, n)) /\ (Out(s, n)' <=> Out(s, n))
    BY <1>0, OthersAtIt, OthersSame DEF RetryInv, EInv
  <2>. QED BY <2>1, <2>2
<1>3. Trying(n)' <=> Trying(n)
  BY <1>2 DEF Trying
<1>4. /\ pending'[n] # Absent =>
           pending'[n] = pending[n] \/ (pending'[n] = inflight[n] /\ ~Trying(n))
      /\ inflight'[n] # Absent => inflight'[n] \in {inflight[n], pending[n]}
  <2>1. CASE Recover(r)
    <3>1. ~Trying(n)
      BY <2>1, <1>1 DEF RetryInv, EInv, Phases, Alone, Recover, Trying, AtIt
    <3>2. Min(todo[r]) \in Names
      BY <2>1, FirstListed DEF RetryInv, EInv, IInv, Recover
    <3>. QED BY <2>1, <3>1, <3>2 DEF RetryInv, EInv, IInv, TypeOK, Folder, Recover
  <2>2. CASE Claim(r)
    <3>1. PICK m \in Names : m = Min(todo[r])
      BY <2>2, FirstListed DEF RetryInv, EInv, IInv, Claim, Full
    <3>2. /\ pending' = [pending EXCEPT ![m] = Absent]
          /\ inflight' = [inflight EXCEPT ![m] = pending[m]]
      BY <2>2, <3>1 DEF Claim
    <3>. QED BY <3>2 DEF RetryInv, EInv, IInv, TypeOK, Folder
  <2>3. CASE Discard(r)
    <3>1. PICK m \in Names : m = Min(todo[r])
      BY <2>3, FirstListed DEF RetryInv, EInv, IInv, ShapeOK, Discard
    <3>2. pending' = pending
          /\ (inflight' = inflight \/ inflight' = [inflight EXCEPT ![m] = Absent])
      BY <2>3, <3>1 DEF Discard
    <3>. QED BY <3>2 DEF RetryInv, EInv, IInv, TypeOK, Folder
  <2>. QED BY <2>1, <2>2, <2>3
<1>5. TriesOK(n) /\ tried'[n] = tried[n] /\ crashes' = crashes /\ sent' = sent /\ hand' = hand
  BY <1>1 DEF RetryInv, history
<1>. QED BY <1>2, <1>3, <1>4, <1>5, CountsTyped DEF RetryInv, EInv, TriesOK

(* A try begins: the attempts in the file are still below the limit. *)
LEMMA ProcessTries ==
  ASSUME RetryInv, NEW r \in Receivers, Process(r), NEW n \in Names
  PROVE  TriesOK(n)'
<1>. DEFINE c == Current(r)
<1>0. Acts(r) /\ EInv
  BY DEF Acts, Step, RetryInv
<1>1. /\ c \in Names /\ c \in sent
      /\ inflight[c] \in Nat /\ inflight[c] < MaxAttempts /\ pending[c] = Absent /\ ~Trying(c)
  BY <1>0, NextHeld
<1>2. /\ UNCHANGED <<queue, hand, sent, crashes>>
      /\ pc[r] = "next" /\ pc'[r] = "processing"
      /\ tried' = [tried EXCEPT ![c] = tried[c] + 1]
  BY DEF RetryInv, EInv, IInv, TypeOK, Process, Goto, batch, bounds
<1>3. c' = c
  BY <1>2, CurrentKept
<1>4. \A s \in Receivers : (Out(s, n)' <=> Out(s, n))
  BY <1>0, <1>2, OthersSame DEF EInv, Out
<1>. HIDE DEF c
<1>5. tried \in [Names -> Nat]
  BY DEF RetryInv, EInv, IInv, TypeOK
<1>6. CASE n = c
  <2>1. tried'[n] = tried[n] + 1
    BY <1>1, <1>2, <1>5, <1>6
  <2>2. tried[n] <= inflight[n] + crashes
    BY <1>1, <1>6, QueueAssumption DEF RetryInv, TriesOK
  <2>3. Trying(n)'
    BY <1>2, <1>3, <1>6 DEF Trying, AtIt, Busy, c
  <2>4. \A s \in Receivers : ~Out(s, n)
    BY <1>1, <1>6 DEF Trying, AtIt, Out, Busy
  <2>. QED
    BY <1>0, <1>1, <1>2, <1>4, <1>6, <2>1, <2>2, <2>3, <2>4, CountsTyped
    DEF EInv, TriesOK, queue
<1>7. CASE n # c
  <2>1. tried'[n] = tried[n]
    BY <1>2, <1>5, <1>7
  <2>2. ~AtIt(r, n) /\ ~AtIt(r, n)'
    BY <1>2, <1>3, <1>7 DEF AtIt, Busy, c
  <2>3. Trying(n)' <=> Trying(n)
    BY <1>0, <2>2, OthersAtIt DEF EInv, Trying
  <2>. QED BY <1>2, <1>4, <2>1, <2>3 DEF RetryInv, TriesOK, queue
<1>. QED BY <1>6, <1>7

(* It succeeds or fails. *)
LEMMA EndTries ==
  ASSUME RetryInv, NEW r \in Receivers, Processed(r) \/ ProcessFails(r), NEW n \in Names
  PROVE  TriesOK(n)'
<1>0. Acts(r) /\ EInv
  BY DEF Acts, Step, RetryInv
<1>1. /\ UNCHANGED <<queue, hand, sent, tried, crashes>>
      /\ pc[r] = "processing" /\ pc'[r] \in {"acking", "nacking"}
  BY <1>0 DEF EInv, IInv, TypeOK, Processed, ProcessFails, Goto, batch, bounds, history
<1>2. (AtIt(r, n)' <=> AtIt(r, n)) /\ ~Out(r, n) /\ ~Out(r, n)'
  BY <1>1, CurrentKept DEF AtIt, Out, Busy
<1>3. \A s \in Receivers : (AtIt(s, n)' <=> AtIt(s, n)) /\ (Out(s, n)' <=> Out(s, n))
  <2>1. \A s \in Receivers \ {r} : (AtIt(s, n)' <=> AtIt(s, n)) /\ (Out(s, n)' <=> Out(s, n))
    BY <1>0, OthersAtIt, OthersSame DEF EInv
  <2>. QED BY <1>2, <2>1
<1>4. Trying(n)' <=> Trying(n)
  BY <1>3 DEF Trying
<1>. QED BY <1>1, <1>3, <1>4 DEF RetryInv, TriesOK, queue

(* It is acknowledged, or its Nack removes the file or writes it: the      *)
(* attempts written count the try.                                         *)
LEMMA ReturnTries ==
  ASSUME RetryInv, Alone, NEW r \in Receivers, Ack(r) \/ NackRemoves(r) \/ NackWrites(r),
         NEW n \in Names
  PROVE  TriesOK(n)'
<1>. DEFINE c == Current(r)
<1>0. Acts(r) /\ EInv
  BY DEF Acts, Step, RetryInv
<1>1. /\ c \in Names /\ c \in In(hand[r]) /\ hand[r][c] \in Nat /\ hand[r][c] < MaxAttempts
      /\ pending[c] = Absent
      /\ inflight[c] = IF pc[r] = "returning" THEN Absent ELSE hand[r][c]
  BY <1>0, AtItHeld DEF Ack, NackRemoves, NackWrites, Busy
<1>2. UNCHANGED <<sent, tried, crashes>> /\ pc[r] \in Busy
  BY DEF Ack, NackRemoves, NackWrites, history, bounds, Busy
<1>3. \A s \in Receivers \ {r} : /\ (AtIt(s, n)' <=> AtIt(s, n)) /\ (Out(s, n)' <=> Out(s, n))
                                /\ hand'[s] = hand[s]
  BY <1>0, OthersAtIt, OthersSame DEF EInv
<1>. HIDE DEF c
<1>4. CASE n # c
  <2>1. /\ pending'[n] = pending[n] /\ inflight'[n] = inflight[n]
        /\ ~AtIt(r, n) /\ ~AtIt(r, n)' /\ ~Out(r, n)'
    <3>1. pending'[n] = pending[n] /\ inflight'[n] = inflight[n]
      BY <1>0, <1>1, <1>4
      DEF EInv, IInv, TypeOK, Folder, Ack, NackRemoves, NackWrites, c
    <3>2. \/ pc'[r] = "next"
          \/ pc'[r] = "returning" /\ hand' = hand
      BY <1>0 DEF EInv, IInv, TypeOK, Ack, NackRemoves, NackWrites, Dropped, Goto, batch
    <3>. QED BY <1>4, <3>1, <3>2, CurrentKept DEF AtIt, Out, Busy, c
  <2>2. Trying(n)' <=> Trying(n)
    BY <1>3, <2>1 DEF Trying
  <2>. QED BY <1>2, <1>3, <2>1, <2>2 DEF RetryInv, TriesOK
<1>5. CASE n = c
  <2>1. \A s \in Receivers \ {r} : ~AtIt(s, n) /\ ~Out(s, n)
    <3>1. ASSUME NEW s \in Receivers \ {r}, pc[s] \in Busy, n = Current(s) PROVE FALSE
      BY <1>0, <1>1, <1>5, <3>1, CurrentAlone DEF Held
    <3>. QED BY <3>1 DEF AtIt, Out, Busy
  <2>2. TriesOK(n) /\ n \in Names
    BY DEF RetryInv
  <2>3. CASE Ack(r)
    <3>1. inflight'[n] = Absent /\ pending'[n] = Absent /\ ~Out(r, n)'
      BY <1>0, <1>1, <1>5, <2>3
      DEF EInv, IInv, TypeOK, Folder, Ack, Dropped, Goto, Out, c
    <3>. QED BY <1>2, <1>3, <2>1, <2>2, <3>1 DEF TriesOK
  <2>4. CASE NackRemoves(r)
    <3>1. /\ inflight'[n] = Absent /\ pending'[n] = Absent /\ hand' = hand
          /\ pc[r] = "nacking"
      BY <1>0, <1>1, <1>5, <2>4
      DEF EInv, IInv, TypeOK, Folder, Alone, NoLosingFaults, NackRemoves, Goto, batch, c
    <3>2. tried[n] <= hand[r][n] + crashes + 1
      BY <1>1, <1>5, <2>2, <3>1, QueueAssumption DEF TriesOK
    <3>. QED BY <1>2, <1>3, <2>1, <2>2, <3>1, <3>2 DEF TriesOK
  <2>5. CASE NackWrites(r)
    <3>1. /\ pc[r] = "returning" /\ inflight' = inflight /\ pc'[r] = "next"
          /\ pending'[n] \in {Absent, hand[r][n] + 1}
      BY <1>0, <1>1, <1>5, <2>5
      DEF EInv, IInv, TypeOK, Folder, NackWrites, Dropped, Goto, c
    <3>2. tried[n] <= hand[r][n] + crashes + 1
      BY <1>5, <2>2, <3>1 DEF TriesOK, Out, c
    <3>3. inflight'[n] = Absent /\ ~Out(r, n)'
      BY <1>1, <1>5, <3>1 DEF Out
    <3>4. pending'[n] # Absent => tried[n] <= pending'[n] + crashes
      BY <1>0, <1>1, <1>5, <3>1, <3>2, CountsTyped DEF EInv
    <3>. QED BY <1>2, <1>3, <2>1, <2>2, <3>3, <3>4 DEF TriesOK
  <2>. QED BY <2>3, <2>4, <2>5
<1>. QED BY <1>4, <1>5

(* A crash cuts a try short: it was not counted, the crash is. *)
LEMMA CrashTries ==
  ASSUME RetryInv, Alone, NEW r \in Receivers, Crash(r), NEW n \in Names
  PROVE  TriesOK(n)'
<1>0. Acts(r) /\ EInv
  BY DEF Acts, RetryInv
<1>1. /\ UNCHANGED <<queue, sent, tried>> /\ crashes' = crashes + 1
      /\ pc[r] # "returning" /\ pc'[r] = "down"
  BY <1>0 DEF EInv, IInv, TypeOK, Alone, NoLosingFaults, Crash, Fresh, Goto, history
<1>2. \A s \in Receivers : Out(s, n)' => Out(s, n) /\ hand'[s] = hand[s]
  BY <1>0, <1>1, OthersSame DEF EInv, Out
<1>3. TriesOK(n)
  BY DEF RetryInv
<1>4. \A s \in Receivers : Out(s, n) => hand[s][n] \in Nat
  BY <1>0, AtItHeld DEF Out, Busy
<1>. QED BY <1>0, <1>1, <1>2, <1>3, <1>4, CountsTyped DEF EInv, TriesOK, queue

(* Under every step. *)
LEMMA TriesStep ==
  ASSUME RetryInv, Alone, NEW r \in Receivers, Acts(r), NEW n \in Names
  PROVE  TriesOK(n)'
<1>1. ~AckFails(r) /\ ~NackFails(r)
  BY DEF Alone, NoLosingFaults, AckFails, NackFails
<1>. QED
  BY <1>1, IdleTries, MoveTries, ProcessTries, EndTries, ReturnTries, CrashTries
  DEF Acts, Step, Idles

LEMMA SendTries ==
  ASSUME RetryInv, NEW m \in Names, Send(m), NEW n \in Names
  PROVE  TriesOK(n)'
<1>1. /\ UNCHANGED <<inflight, pc, hand, tried, crashes>> /\ sent' = sent \cup {m}
      /\ pending' = [pending EXCEPT ![m] = 0] /\ m \notin sent
  BY DEF Send, batch, bounds
<1>2. \A s : Current(s)' = Current(s)
  BY <1>1, CurrentKept
<1>3. (Trying(n)' <=> Trying(n)) /\ \A s \in Receivers : (Out(s, n)' <=> Out(s, n))
  BY <1>1, <1>2 DEF Trying, AtIt, Out
<1>4. TriesOK(n) /\ pending'[n] = IF n = m THEN 0 ELSE pending[n]
  BY <1>1 DEF RetryInv, EInv, IInv, TypeOK, Folder
<1>5. tried[n] \in Nat /\ crashes \in Nat
  BY CountsTyped DEF RetryInv, EInv
<1>6. n = m => tried[n] <= pending'[n] + crashes
  BY <1>1, <1>4, <1>5 DEF TriesOK
<1>. QED BY <1>1, <1>3, <1>4, <1>6 DEF TriesOK

(* EInv is inductive by itself. *)
LEMMA EInvInit == Init => EInv
  BY InitOK DEF Init, EInv, Matches, PlaceOK, HandOK, ReadingOK, Reading, Disjoint, Held,
     Phases, Empty, In

LEMMA EInvStep == Alone /\ EInv /\ [Next]_vars => EInv'
<1>. SUFFICES ASSUME Alone, EInv, [Next]_vars PROVE EInv'
  OBVIOUS
<1>1. IInv'
  BY NextOK DEF EInv
<1>2. CASE UNCHANGED vars
  <2>1. \A s : Current(s)' = Current(s)
    BY <1>2, CurrentKept DEF vars, batch
  <2>2. UNCHANGED <<pending, inflight, dead, pc, todo, hand>>
    BY <1>2 DEF vars, queue, batch
  <2>. QED
    BY <1>1, <2>1, <2>2 DEF EInv, Matches, PlaceOK, HandOK, ReadingOK, Reading, Out, Disjoint,
       Held, Phases, In, Recovers
<1>3. ASSUME NEW n \in Names, Send(n) PROVE EInv'
  BY <1>1, <1>3, SendStep DEF EInv
<1>4. ASSUME NEW r \in Receivers, Acts(r) PROVE EInv'
  BY <1>1, <1>4, ReceiverStep, PhasesStep DEF EInv
<1>. QED BY <1>2, <1>3, <1>4 DEF Next, Acts

(* "MaxAttempts is how often a message may fail before it is dead-lettered" *)
(* (queue.go:36): with one receiver, or any number of which none recovers,  *)
(* a try beyond MaxAttempts is the repetition of one a crash cut short.     *)
THEOREM TriesAreBounded == Alone => (Spec => []ExtraTriesAreCrashes)
<1>. SUFFICES ASSUME Alone PROVE Spec => []ExtraTriesAreCrashes
  OBVIOUS
<1>1. Init => RetryInv
  <2>. SUFFICES ASSUME Init, NEW n \in Names PROVE TriesOK(n)
    BY EInvInit DEF RetryInv
  <2>1. MaxAttempts \in Nat /\ tried[n] = 0 /\ crashes = 0
    BY QueueAssumption DEF Init
  <2>2. /\ pending[n] = Absent /\ inflight[n] = Absent
        /\ \A r \in Receivers : ~Out(r, n)
    BY DEF Init, Empty, Out
  <2>. QED BY <2>1, <2>2 DEF TriesOK
<1>2. RetryInv /\ [Next]_vars => RetryInv'
  <2>. SUFFICES ASSUME RetryInv, [Next]_vars PROVE RetryInv'
    OBVIOUS
  <2>1. EInv'
    BY EInvStep DEF RetryInv
  <2>2. CASE UNCHANGED vars
    <3>1. \A s : Current(s)' = Current(s)
      BY <2>2, CurrentKept DEF vars, batch
    <3>. QED
      BY <2>1, <2>2, <3>1
      DEF RetryInv, TriesOK, Trying, AtIt, Out, vars, queue, batch, history, bounds
  <2>3. ASSUME NEW n \in Names, Send(n) PROVE RetryInv'
    BY <2>1, <2>3, SendTries DEF RetryInv
  <2>4. ASSUME NEW r \in Receivers, Acts(r) PROVE RetryInv'
    BY <2>1, <2>4, TriesStep DEF RetryInv
  <2>. QED BY <2>2, <2>3, <2>4 DEF Next, Acts
<1>3. RetryInv => ExtraTriesAreCrashes
  BY DEF RetryInv, TriesOK, ExtraTriesAreCrashes
<1>. QED BY <1>1, <1>2, <1>3, PTL DEF Spec
-----------------------------------------------------------------------------
(* Several receivers share the queue and none of them recovers: icr beside *)
(* the dashboard.                                                          *)
NobodyRecovers == \A r \in Receivers : ~Recovers(r)

(* One receiver at most has a message, and only one that was sent and is   *)
(* in pending no more.                                                     *)
SharedOK(n) ==
  /\ \A r, s \in Receivers : Held(r, n) /\ Held(s, n) => r = s
  /\ \A r \in Receivers : Held(r, n) => n \in sent /\ pending[n] = Absent
  /\ \A r \in Receivers : Reading(r, n) => n \notin In(hand[r])

(* The attempts of a message were really made, and once it was processed   *)
(* no receiver has it but the one that will acknowledge it.                *)
Untouched(n, attempts) == n \notin handled /\ tried[n] >= attempts

HopeOK(n) ==
  /\ dead[n] # Absent => /\ Untouched(n, MaxAttempts) /\ pending[n] = Absent
                         /\ \A r \in Receivers : ~Held(r, n)
  /\ pending[n] # Absent => Untouched(n, pending[n])
  /\ \A r \in Receivers :
       /\ Reading(r, n) => n \notin handled /\ (inflight[n] # Absent => tried[n] >= inflight[n])
       /\ n \in In(hand[r]) =>
            IF AtIt(r, n) THEN /\ tried[n] >= hand[r][n] + 1
                               /\ n \in handled => pc[r] = "acking"
                          ELSE Untouched(n, hand[r][n])

(* Inductive under NobodyRecovers, whatever faults there are.              *)
ShareInv ==
  /\ IInv
  /\ \A r \in Receivers : pc[r] = "recovering" => Recovers(r)
  /\ \A r \in Receivers : pc[r] = "discarding" => Min(todo[r]) \in Damaged
  /\ \A n \in Names : SharedOK(n) /\ (n \notin Damaged => HopeOK(n))

MessageOK(n) == SharedOK(n) /\ (n \notin Damaged => HopeOK(n))

(* The others see what they saw. *)
LEMMA OthersSee ==
  ASSUME IInv, NEW r \in Receivers, Acts(r), NEW n \in Names
  PROVE  \A s \in Receivers \ {r} :
           /\ pc'[s] = pc[s] /\ hand'[s] = hand[s]
           /\ n \in In(hand[s])' <=> n \in In(hand[s])
           /\ Reading(s, n)' <=> Reading(s, n)
           /\ Held(s, n)' <=> Held(s, n)
           /\ AtIt(s, n)' <=> AtIt(s, n)
  BY OthersSame, OthersAtIt, Zenon

(* r lets go of all it has. *)
LEMMA LetsGoShared ==
  ASSUME ShareInv, NEW r \in Receivers, Acts(r), LetsGo(r), UNCHANGED history, NEW n \in Names
  PROVE  MessageOK(n)'
<1>1. IInv /\ MessageOK(n)
  BY DEF ShareInv, MessageOK
<1>2. ~Held(r, n)' /\ ~Reading(r, n)' /\ n \notin In(hand[r])'
  BY DEF LetsGo, Held, Reading
<1>3. SharedOK(n)'
  BY <1>1, <1>2, OthersSee DEF MessageOK, SharedOK, LetsGo, queue, history
<1>4. HopeOK(n) => HopeOK(n)'
  BY <1>1, <1>2, OthersSee DEF HopeOK, Untouched, LetsGo, queue, history
<1>. QED BY <1>1, <1>3, <1>4 DEF MessageOK

(* r moves no file and begins or ends no try. *)
LEMMA QuietShared ==
  ASSUME ShareInv, NEW r \in Receivers, Acts(r), Quiet(r), UNCHANGED history,
         pc[r] \notin Busy, pc'[r] \notin Busy, NEW n \in Names
  PROVE  MessageOK(n)'
<1>1. IInv /\ MessageOK(n)
  BY DEF ShareInv, MessageOK
<1>2. /\ Held(r, n)' <=> Held(r, n)
      /\ n \in In(hand[r])' <=> n \in In(hand[r])
      /\ ~Reading(r, n)' /\ ~AtIt(r, n) /\ ~AtIt(r, n)' /\ hand'[r] = hand[r]
  BY DEF Quiet, Held, Reading, AtIt, In
<1>3. SharedOK(n)'
  BY <1>1, <1>2, OthersSee DEF MessageOK, SharedOK, Quiet, queue, history
<1>4. HopeOK(n) => HopeOK(n)'
  BY <1>1, <1>2, OthersSee DEF HopeOK, Untouched, Quiet, queue, history
<1>. QED BY <1>1, <1>3, <1>4 DEF MessageOK

(* A step that is about m leaves the other messages as they are. *)
LEMMA OtherMessages ==
  ASSUME ShareInv, NEW r \in Receivers, Acts(r), NEW n \in Names,
         pending'[n] = pending[n], inflight'[n] = inflight[n], dead'[n] = dead[n],
         tried'[n] = tried[n], n \in handled' <=> n \in handled, sent' = sent,
         hand'[r][n] = hand[r][n], n \in In(hand[r])' <=> n \in In(hand[r]),
         ~Reading(r, n), ~Reading(r, n)', ~AtIt(r, n), ~AtIt(r, n)'
  PROVE  MessageOK(n)'
<1>1. IInv /\ MessageOK(n)
  BY DEF ShareInv, MessageOK
<1>2. Held(r, n)' <=> Held(r, n)
  BY DEF Held
<1>3. SharedOK(n)'
  BY <1>1, <1>2, OthersSee DEF MessageOK, SharedOK
<1>4. HopeOK(n) => HopeOK(n)'
  BY <1>1, <1>2, OthersSee DEF HopeOK, Untouched
<1>. QED BY <1>1, <1>3, <1>4 DEF MessageOK

(* Claim: what is in pending nobody has. *)
LEMMA ClaimShared ==
  ASSUME ShareInv, NEW r \in Receivers, Claim(r), NEW n \in Names
  PROVE  MessageOK(n)'
<1>1. PICK m \in Names : m = Min(todo[r])
  BY FirstListed DEF ShareInv, IInv, Claim, Full
<1>2. /\ pc[r] = "claiming" /\ pc'[r] = "reading" /\ todo' = todo /\ hand' = hand /\ dead' = dead
      /\ pending[m] # Absent
      /\ pending' = [pending EXCEPT ![m] = Absent]
      /\ inflight' = [inflight EXCEPT ![m] = pending[m]]
      /\ UNCHANGED history
  BY <1>1 DEF ShareInv, IInv, TypeOK, Claim, Goto, batch
<1>3. Acts(r) /\ IInv /\ MessageOK(n)
  BY DEF Acts, Step, ShareInv, MessageOK
<1>4. ~Reading(r, n) /\ (Reading(r, n)' <=> n = m) /\ ~AtIt(r, n) /\ ~AtIt(r, n)'
  BY <1>1, <1>2 DEF Reading, AtIt, Busy
<1>5. hand'[r] = hand[r] /\ (n \in In(hand[r])' <=> n \in In(hand[r]))
  BY <1>2 DEF In
<1>6. pending \in Folder /\ inflight \in Folder
  BY DEF ShareInv, IInv, TypeOK
<1>7. CASE n # m
  <2>1. pending'[n] = pending[n] /\ inflight'[n] = inflight[n]
    BY <1>2, <1>6, <1>7 DEF Folder
  <2>. QED BY <1>2, <1>3, <1>4, <1>5, <1>7, <2>1, OtherMessages DEF history
<1>8. CASE n = m
  <2>1. pending'[n] = Absent /\ inflight'[n] = pending[n] /\ dead'[n] = dead[n]
    BY <1>2, <1>6, <1>8 DEF Folder
  <2>2. \A s \in Receivers : ~Held(s, n)
    BY <1>2, <1>3, <1>8 DEF MessageOK, SharedOK
  <2>3. n \notin In(hand[r])' /\ n \in sent
    <3>1. n \in sent
      BY <1>2, <1>8 DEF ShareInv, IInv, FilesOK, OnDisk
    <3>. QED BY <1>5, <2>2, <3>1 DEF Held
  <2>4. \A s \in Receivers \ {r} : ~Held(s, n)'
    BY <1>3, <2>2, OthersSee
  <2>5. SharedOK(n)'
    BY <1>2, <2>1, <2>3, <2>4 DEF SharedOK, Held, history
  <2>6. HopeOK(n) => HopeOK(n)'
    BY <1>2, <1>8, <2>1, <2>3, <2>4 DEF HopeOK, Untouched, Held, history
  <2>. QED BY <1>3, <2>5, <2>6 DEF MessageOK
<1>. QED BY <1>7, <1>8

(* Read takes it in hand, or finds it damaged. *)
LEMMA ReadShared ==
  ASSUME ShareInv, NEW r \in Receivers, Read(r), NEW n \in Names
  PROVE  MessageOK(n)'
<1>1. PICK m \in Names : m = Min(todo[r])
  BY FirstListed DEF ShareInv, IInv, ShapeOK, Read
<1>2. /\ pc[r] = "reading" /\ UNCHANGED <<queue, history>>
      /\ \/ pc'[r] = "discarding" /\ UNCHANGED <<todo, hand>>
         \/ /\ pc'[r] = "claiming" /\ inflight[m] # Absent
            /\ hand' = [hand EXCEPT ![r] = [hand[r] EXCEPT ![m] = inflight[m]]]
  BY <1>1 DEF ShareInv, IInv, TypeOK, Read, Goto
<1>3. Acts(r) /\ IInv /\ MessageOK(n)
  BY DEF Acts, Step, ShareInv, MessageOK
<1>4. (Reading(r, n) <=> n = m) /\ ~AtIt(r, n) /\ ~AtIt(r, n)'
  BY <1>1, <1>2 DEF Reading, AtIt, Busy
<1>5. CASE pc'[r] = "discarding" /\ UNCHANGED <<todo, hand>>
  <2>1. /\ Reading(r, n)' <=> Reading(r, n)
        /\ Held(r, n)' <=> Held(r, n)
        /\ n \in In(hand[r])' <=> n \in In(hand[r])
        /\ hand'[r] = hand[r]
    BY <1>2, <1>5 DEF Reading, Held, In
  <2>2. SharedOK(n)'
    BY <1>2, <1>3, <2>1, OthersSee DEF MessageOK, SharedOK, queue, history
  <2>3. HopeOK(n) => HopeOK(n)'
    BY <1>2, <1>3, <1>4, <2>1, OthersSee DEF HopeOK, Untouched, queue, history
  <2>. QED BY <1>3, <2>2, <2>3 DEF MessageOK
<1>6. CASE /\ pc'[r] = "claiming" /\ inflight[m] # Absent
           /\ hand' = [hand EXCEPT ![r] = [hand[r] EXCEPT ![m] = inflight[m]]]
  <2>1. ~Reading(r, n)'
    BY <1>6 DEF Reading
  <2>2. hand'[r][n] = IF n = m THEN inflight[n] ELSE hand[r][n]
    BY <1>1, <1>6 DEF ShareInv, IInv, TypeOK, Folder
  <2>3. n \in In(hand[r])' <=> n = m \/ n \in In(hand[r])
    BY <1>6, <2>2 DEF In
  <2>4. CASE n # m
    BY <1>2, <1>3, <1>4, <2>1, <2>2, <2>3, <2>4, OtherMessages DEF queue, history
  <2>5. CASE n = m
    <3>1. Held(r, n) /\ Held(r, n)'
      BY <1>4, <2>3, <2>5 DEF Held
    <3>2. \A s \in Receivers \ {r} : ~Held(s, n) /\ ~Held(s, n)'
      BY <1>3, <3>1, OthersSee DEF MessageOK, SharedOK
    <3>3. SharedOK(n)'
      BY <1>2, <1>3, <2>1, <3>1, <3>2 DEF MessageOK, SharedOK, Held, queue, history
    <3>4. HopeOK(n) => HopeOK(n)'
      BY <1>2, <1>3, <1>4, <2>1, <2>2, <2>5, <3>1, <3>2
      DEF HopeOK, Untouched, Held, queue, history
    <3>. QED BY <1>3, <3>3, <3>4 DEF MessageOK
  <2>. QED BY <2>4, <2>5
<1>. QED BY <1>2, <1>5, <1>6

(* Only damaged messages are discarded. *)
LEMMA DiscardShared ==
  ASSUME ShareInv, NEW r \in Receivers, Discard(r), NEW n \in Names
  PROVE  MessageOK(n)'
<1>1. PICK m \in Names : m = Min(todo[r]) /\ m \in Damaged
  BY FirstListed DEF ShareInv, IInv, ShapeOK, Discard
<1>2. /\ pc[r] = "discarding" /\ pc'[r] = "claiming" /\ UNCHANGED <<pending, hand, history>>
      /\ \/ UNCHANGED <<inflight, dead>>
         \/ /\ dead' = [dead EXCEPT ![m] = inflight[m]]
            /\ inflight' = [inflight EXCEPT ![m] = Absent]
  BY <1>1 DEF ShareInv, IInv, TypeOK, Discard, Goto
<1>3. Acts(r) /\ IInv /\ MessageOK(n)
  BY DEF Acts, Step, ShareInv, MessageOK
<1>4. /\ (Reading(r, n) <=> n = m) /\ ~Reading(r, n)' /\ ~AtIt(r, n) /\ ~AtIt(r, n)'
      /\ hand'[r] = hand[r] /\ (n \in In(hand[r])' <=> n \in In(hand[r]))
  BY <1>1, <1>2 DEF Reading, AtIt, Busy, In
<1>5. CASE n # m
  <2>1. inflight'[n] = inflight[n] /\ dead'[n] = dead[n]
    BY <1>2, <1>5 DEF ShareInv, IInv, TypeOK, Folder
  <2>. QED BY <1>2, <1>3, <1>4, <1>5, <2>1, OtherMessages DEF history
<1>6. CASE n = m
  <2>1. Held(r, n)' => Held(r, n)
    BY <1>4 DEF Held
  <2>2. SharedOK(n)'
    BY <1>2, <1>3, <1>4, <2>1, OthersSee DEF MessageOK, SharedOK, history
  <2>. QED BY <1>1, <1>6, <2>2 DEF MessageOK
<1>. QED BY <1>5, <1>6

(* What a receiver is at it has in hand, alone. *)
LEMMA AtItAlone ==
  ASSUME ShareInv, NEW r \in Receivers, In(hand[r]) # {}, NEW c, c = Current(r)
  PROVE  /\ c \in Names /\ c \in In(hand[r]) /\ hand[r][c] \in Nat /\ Held(r, c)
         /\ ~Reading(r, c) /\ pending[c] = Absent
         /\ \A s \in Receivers \ {r} : ~Held(s, c)
<1>1. c \in Names /\ c \in In(hand[r])
  BY CurrentHeld DEF ShareInv, IInv
<1>2. hand[r][c] \in Nat
  BY <1>1, QueueAssumption DEF ShareInv, IInv, TypeOK, Folder, In
<1>. QED BY <1>1, <1>2 DEF ShareInv, SharedOK, Held

(* A try begins, succeeds or fails. *)
LEMMA TryShared ==
  ASSUME ShareInv, NEW r \in Receivers, Process(r) \/ Processed(r) \/ ProcessFails(r),
         NEW n \in Names
  PROVE  MessageOK(n)'
<1>. DEFINE c == Current(r)
<1>1. Acts(r) /\ IInv /\ MessageOK(n)
  BY DEF Acts, Step, ShareInv, MessageOK
<1>2. In(hand[r]) # {}
  BY DEF ShareInv, IInv, ShapeOK, Process, Processed, ProcessFails, Busy
<1>3. /\ c \in Names /\ c \in In(hand[r]) /\ hand[r][c] \in Nat /\ Held(r, c)
      /\ ~Reading(r, c) /\ pending[c] = Absent
      /\ \A s \in Receivers \ {r} : ~Held(s, c)
  BY <1>2, AtItAlone
<1>4. /\ UNCHANGED <<queue, todo, hand, sent>> /\ c' = c
      /\ pc[r] \in {"next", "processing"} /\ pc'[r] \in Busy \ {"returning"}
  BY CurrentKept
  DEF ShareInv, IInv, TypeOK, Process, Processed, ProcessFails, Goto, batch, history, Busy
<1>5. /\ ~Reading(r, n) /\ ~Reading(r, n)' /\ hand'[r] = hand[r]
      /\ n \in In(hand[r])' <=> n \in In(hand[r])
      /\ AtIt(r, n)' <=> n = c
      /\ AtIt(r, n) => n = c
  BY <1>4 DEF Reading, AtIt, Busy, In
<1>6. tried \in [Names -> Nat] /\ handled \subseteq Names
  BY <1>1 DEF IInv, TypeOK
<1>7. \/ /\ Process(r) /\ tried' = [tried EXCEPT ![c] = tried[c] + 1] /\ handled' = handled
      \/ /\ tried' = tried /\ pc[r] = "processing"
         /\ \/ handled' = handled
            \/ handled' = handled \cup {c} /\ pc'[r] = "acking"
  BY <1>1 DEF IInv, TypeOK, Process, Processed, ProcessFails, Goto, history
<1>. HIDE DEF c
<1>8. CASE n # c
  <2>1. tried'[n] = tried[n] /\ (n \in handled' <=> n \in handled)
    BY <1>6, <1>7, <1>8
  <2>. QED BY <1>1, <1>4, <1>5, <1>8, <2>1, OtherMessages DEF queue
<1>9. CASE n = c
  <2>1. Held(r, n)' /\ \A s \in Receivers \ {r} : ~Held(s, n)'
    BY <1>1, <1>3, <1>5, <1>9, OthersSee DEF Held
  <2>2. SharedOK(n)'
    BY <1>1, <1>3, <1>4, <1>5, <1>9, <2>1 DEF MessageOK, SharedOK, Held, queue
  <2>3. ASSUME HopeOK(n) PROVE HopeOK(n)'
    <3>1. dead[n] = Absent /\ pending[n] = Absent
      BY <1>3, <1>9, <2>3 DEF HopeOK
    <3>2. tried'[n] >= hand[r][n] + 1
      <4>1. CASE Process(r)
        <5>1. ~AtIt(r, n)
          BY <4>1 DEF AtIt, Busy, Process
        <5>2. tried[n] >= hand[r][n] /\ tried[n] \in Nat
          BY <1>3, <1>6, <1>9, <2>3, <5>1 DEF HopeOK, Untouched
        <5>3. tried'[n] = tried[n] + 1
          BY <1>6, <1>7, <1>9, <4>1 DEF Process
        <5>. QED BY <1>3, <1>9, <5>2, <5>3
      <4>2. CASE tried' = tried /\ pc[r] = "processing"
        BY <1>3, <1>9, <2>3, <4>2 DEF HopeOK, AtIt, Busy, c
      <4>. QED BY <1>7, <4>1, <4>2
    <3>3. n \in handled' => pc'[r] = "acking"
      <4>1. n \notin handled
        BY <1>3, <1>4, <1>9, <2>3 DEF HopeOK, AtIt, Untouched, Busy
      <4>. QED BY <1>7, <4>1
    <3>. QED
      BY <1>3, <1>4, <1>5, <1>9, <2>1, <3>1, <3>2, <3>3 DEF HopeOK, Held, queue
  <2>. QED BY <1>1, <2>2, <2>3 DEF MessageOK
<1>. QED BY <1>8, <1>9

(* An Ack, or an Ack or a Nack that fails: the message leaves the hands.   *)
LEMMA DropShared ==
  ASSUME ShareInv, NEW r \in Receivers, Ack(r) \/ AckFails(r) \/ NackFails(r), NEW n \in Names
  PROVE  MessageOK(n)'
<1>. DEFINE c == Current(r)
<1>1. Acts(r) /\ IInv /\ MessageOK(n)
  BY DEF Acts, Step, ShareInv, MessageOK
<1>2. In(hand[r]) # {}
  BY DEF ShareInv, IInv, ShapeOK, Ack, AckFails, NackFails, Busy
<1>3. /\ c \in Names /\ c \in In(hand[r]) /\ pending[c] = Absent
      /\ \A s \in Receivers \ {r} : ~Held(s, c)
  BY <1>2, AtItAlone
<1>4. /\ UNCHANGED <<pending, dead, todo, history>>
      /\ inflight' \in {inflight, [inflight EXCEPT ![c] = Absent]}
      /\ pc[r] \in {"acking", "returning"} /\ pc'[r] = "next"
      /\ hand' = [hand EXCEPT ![r] = [hand[r] EXCEPT ![c] = Absent]]
  BY <1>1 DEF IInv, TypeOK, Ack, AckFails, NackFails, Dropped, Goto, queue
<1>5. ~Reading(r, n) /\ ~Reading(r, n)' /\ ~AtIt(r, n)' /\ (AtIt(r, n) => n = c)
  BY <1>4 DEF Reading, AtIt, Busy
<1>. HIDE DEF c
<1>6. hand'[r][n] = IF n = c THEN Absent ELSE hand[r][n]
  BY <1>1, <1>3, <1>4 DEF IInv, TypeOK, Folder
<1>7. n \in In(hand[r])' <=> n \in In(hand[r]) /\ n # c
  BY <1>6 DEF In
<1>8. CASE n # c
  <2>1. inflight'[n] = inflight[n]
    BY <1>1, <1>4, <1>8 DEF IInv, TypeOK, Folder
  <2>. QED BY <1>1, <1>4, <1>5, <1>6, <1>7, <1>8, <2>1, OtherMessages DEF history
<1>9. CASE n = c
  <2>1. \A s \in Receivers : ~Held(s, n)'
    BY <1>1, <1>3, <1>5, <1>7, <1>9, OthersSee DEF Held
  <2>2. SharedOK(n)'
    BY <2>1 DEF SharedOK, Held
  <2>3. HopeOK(n) => HopeOK(n)'
    BY <1>3, <1>4, <1>9, <2>1 DEF HopeOK, Untouched, Held, history
  <2>. QED BY <1>1, <2>2, <2>3 DEF MessageOK
<1>. QED BY <1>8, <1>9

(* The first half of a Nack. *)
LEMMA NackRemovesShared ==
  ASSUME ShareInv, NEW r \in Receivers, NackRemoves(r), NEW n \in Names
  PROVE  MessageOK(n)'
<1>1. Acts(r) /\ IInv /\ MessageOK(n)
  BY DEF Acts, Step, ShareInv, MessageOK
<1>2. /\ UNCHANGED <<pending, dead, todo, hand, history>>
      /\ pc[r] = "nacking" /\ pc'[r] = "returning"
      /\ Current(r)' = Current(r)
  BY <1>1, CurrentKept DEF IInv, TypeOK, NackRemoves, Goto, batch
<1>3. /\ ~Reading(r, n) /\ ~Reading(r, n)' /\ hand'[r] = hand[r]
      /\ n \in In(hand[r])' <=> n \in In(hand[r])
      /\ AtIt(r, n)' <=> AtIt(r, n)
      /\ Held(r, n)' <=> Held(r, n)
  BY <1>2 DEF Reading, AtIt, Busy, In, Held
<1>4. SharedOK(n)'
  BY <1>1, <1>2, <1>3, OthersSee DEF MessageOK, SharedOK, history
<1>5. \A s \in Receivers \ {r} : Reading(s, n) => inflight'[n] = inflight[n]
  <2>1. In(hand[r]) # {}
    BY DEF ShareInv, IInv, ShapeOK, NackRemoves, Busy
  <2>2. \A s \in Receivers \ {r} : ~Held(s, Current(r))
    BY <2>1, AtItAlone
  <2>. QED BY <1>1, <2>2 DEF IInv, TypeOK, Folder, NackRemoves, Held
<1>6. HopeOK(n) => HopeOK(n)'
  BY <1>1, <1>2, <1>3, <1>5, OthersSee DEF HopeOK, Untouched, Held, history
<1>. QED BY <1>1, <1>4, <1>6 DEF MessageOK

(* The second half writes the tries that were made.                        *)
LEMMA NackWritesShared ==
  ASSUME ShareInv, NEW r \in Receivers, NackWrites(r), NEW n \in Names
  PROVE  MessageOK(n)'
<1>. DEFINE c == Current(r)
<1>1. Acts(r) /\ IInv /\ MessageOK(n)
  BY DEF Acts, Step, ShareInv, MessageOK
<1>2. In(hand[r]) # {}
  BY DEF ShareInv, IInv, ShapeOK, NackWrites, Busy
<1>3. /\ c \in Names /\ c \in In(hand[r]) /\ hand[r][c] \in Nat /\ pending[c] = Absent
      /\ Held(r, c) /\ \A s \in Receivers \ {r} : ~Held(s, c)
  BY <1>2, AtItAlone
<1>4. /\ UNCHANGED <<inflight, todo, history>>
      /\ pc[r] = "returning" /\ pc'[r] = "next"
      /\ hand' = [hand EXCEPT ![r] = [hand[r] EXCEPT ![c] = Absent]]
      /\ \/ /\ hand[r][c] + 1 >= MaxAttempts
            /\ dead' = [dead EXCEPT ![c] = hand[r][c] + 1] /\ pending' = pending
         \/ pending' = [pending EXCEPT ![c] = hand[r][c] + 1] /\ dead' = dead
  BY <1>1 DEF IInv, TypeOK, NackWrites, Dropped, Exhausted, Goto
<1>5. ~Reading(r, n) /\ ~Reading(r, n)' /\ ~AtIt(r, n)' /\ (AtIt(r, n) <=> n = c)
  BY <1>4 DEF Reading, AtIt, Busy
<1>. HIDE DEF c
<1>6. hand'[r][n] = IF n = c THEN Absent ELSE hand[r][n]
  BY <1>1, <1>3, <1>4 DEF IInv, TypeOK, Folder
<1>7. n \in In(hand[r])' <=> n \in In(hand[r]) /\ n # c
  BY <1>6 DEF In
<1>8. CASE n # c
  <2>1. pending'[n] = pending[n] /\ dead'[n] = dead[n]
    BY <1>1, <1>4, <1>8 DEF IInv, TypeOK, Folder
  <2>. QED BY <1>1, <1>4, <1>5, <1>6, <1>7, <1>8, <2>1, OtherMessages DEF history
<1>9. CASE n = c
  <2>1. \A s \in Receivers : ~Held(s, n)'
    BY <1>1, <1>3, <1>5, <1>7, <1>9, OthersSee DEF Held
  <2>2. SharedOK(n)'
    BY <2>1 DEF SharedOK, Held
  <2>3. ASSUME HopeOK(n) PROVE HopeOK(n)'
    <3>1. tried[n] >= hand[r][n] + 1 /\ n \notin handled
      BY <1>3, <1>4, <1>5, <1>9, <2>3 DEF HopeOK
    <3>2. dead[n] = Absent
      BY <1>3, <1>9, <2>3 DEF HopeOK
    <3>3. \/ /\ hand[r][n] + 1 >= MaxAttempts
             /\ dead'[n] = hand[r][n] + 1 /\ pending'[n] = Absent
          \/ pending'[n] = hand[r][n] + 1 /\ dead'[n] = Absent
      BY <1>1, <1>3, <1>4, <1>9, <3>2 DEF IInv, TypeOK, Folder
    <3>4. tried[n] \in Nat /\ MaxAttempts \in Nat /\ hand[r][n] \in Nat
      BY <1>1, <1>3, <1>9, QueueAssumption DEF IInv, TypeOK
    <3>5. dead'[n] # Absent => tried[n] >= MaxAttempts /\ pending'[n] = Absent
      BY <3>1, <3>3, <3>4
    <3>6. pending'[n] # Absent => tried[n] >= pending'[n]
      BY <3>1, <3>3, <3>4
    <3>. QED BY <1>4, <2>1, <3>1, <3>5, <3>6 DEF HopeOK, Untouched, Held, history
  <2>. QED BY <1>1, <2>2, <2>3 DEF MessageOK
<1>. QED BY <1>8, <1>9

(* A message is sent once. *)
LEMMA SendShared ==
  ASSUME ShareInv, NEW m \in Names, Send(m), NEW n \in Names
  PROVE  MessageOK(n)'
<1>1. /\ UNCHANGED <<inflight, dead, pc, todo, hand, tried, handled>> /\ sent' = sent \cup {m}
      /\ pending' = [pending EXCEPT ![m] = 0] /\ m \notin sent
  BY DEF Send, batch, bounds
<1>2. \A s : Current(s)' = Current(s)
  BY <1>1, CurrentKept
<1>3. \A s \in Receivers : /\ Reading(s, n)' <=> Reading(s, n)
                           /\ Held(s, n)' <=> Held(s, n)
                           /\ AtIt(s, n)' <=> AtIt(s, n)
                           /\ n \in In(hand[s])' <=> n \in In(hand[s])
  BY <1>1, <1>2 DEF Reading, Held, AtIt, In
<1>4. MessageOK(n) /\ IInv /\ pending'[n] = IF n = m THEN 0 ELSE pending[n]
  BY <1>1 DEF ShareInv, IInv, TypeOK, Folder, MessageOK
<1>5. n = m => /\ \A s \in Receivers : ~Held(s, n)
               /\ dead[n] = Absent /\ n \notin handled
  BY <1>1, <1>4 DEF MessageOK, SharedOK, IInv, TypeOK, FilesOK, OnDisk
<1>6. tried[n] \in Nat
  BY <1>4, CountsTyped
<1>7. SharedOK(n)'
  BY <1>1, <1>3, <1>4, <1>5 DEF MessageOK, SharedOK
<1>8. HopeOK(n) => HopeOK(n)'
  BY <1>1, <1>3, <1>4, <1>5, <1>6 DEF HopeOK, Untouched
<1>. QED BY <1>4, <1>7, <1>8 DEF MessageOK

(* Every step of a receiver, nobody recovering. *)
LEMMA SharedStep ==
  ASSUME ShareInv, NobodyRecovers, NEW r \in Receivers, Acts(r), NEW n \in Names
  PROVE  MessageOK(n)'
<1>1. CASE Begin(r) \/ ReceiveFails(r) \/ BatchEnds(r) \/ Crash(r)
  <2>1. PICK to \in {"down", "recovering", "idle"} : \E listed : Fresh(r, to, listed)
    BY <1>1 DEF Begin, ReceiveFails, BatchEnds, Crash, RunEnds
  <2>2. pc'[r] = to /\ hand'[r] = Empty
    BY <2>1 DEF ShareInv, IInv, TypeOK, Fresh, Goto
  <2>3. In(hand[r])' = {}
    BY <2>2 DEF In, Empty
  <2>4. LetsGo(r) /\ UNCHANGED history
    BY <1>1, <2>2, <2>3 DEF Begin, ReceiveFails, BatchEnds, Crash, LetsGo
  <2>. QED BY <2>4, LetsGoShared
<1>2. CASE Recovered(r) \/ List(r) \/ Missed(r) \/ Received(r)
  <2>1. Quiet(r) /\ UNCHANGED history /\ pc[r] \notin Busy /\ pc'[r] \notin Busy
    BY <1>2 DEF ShareInv, IInv, TypeOK, Recovered, List, Missed, Received, Goto, Quiet, Busy, batch
  <2>. QED BY <2>1, QuietShared
<1>3. ~Recover(r)
  BY DEF ShareInv, NobodyRecovers, Recover
<1>. QED
  BY <1>1, <1>2, <1>3, ClaimShared, ReadShared, DiscardShared, TryShared, DropShared,
     NackRemovesShared, NackWritesShared DEF Acts, Step

(* A receiver recovers only if it is the worker, and sets aside only what  *)
(* does not decode.                                                        *)
LEMMA PlacesStep ==
  ASSUME ShareInv, NEW r \in Receivers, Acts(r)
  PROVE  \A s \in Receivers : /\ pc'[s] = "recovering" => Recovers(s)
                              /\ pc'[s] = "discarding" => Min(todo'[s]) \in Damaged
<1>1. ASSUME NEW s \in Receivers, s # r
      PROVE  pc'[s] = pc[s] /\ todo'[s] = todo[s]
  BY <1>1, OthersKeep DEF ShareInv, IInv, TypeOK, Acts, Step, Begin, Recover, Recovered, List, Missed,
     Claim, Read, Discard, ReceiveFails, Received, Process, Processed, ProcessFails, Ack, AckFails,
     NackRemoves, NackWrites, NackFails, BatchEnds, Crash, RunEnds, Fresh, Dropped, Goto, batch
<1>2. pc'[r] = "recovering" => Recovers(r)
  BY DEF ShareInv, IInv, TypeOK, Acts, Step, Begin, Recover, Recovered, List, Missed, Claim, Read,
     Discard, ReceiveFails, Received, Process, Processed, ProcessFails, Ack, AckFails, NackRemoves,
     NackWrites, NackFails, BatchEnds, Crash, RunEnds, Fresh, Dropped, Goto, batch
<1>3. pc'[r] = "discarding" => Read(r)
  BY DEF ShareInv, IInv, TypeOK, Acts, Step, Begin, Recover, Recovered, List, Missed, Claim,
     Discard, ReceiveFails, Received, Process, Processed, ProcessFails, Ack, AckFails, NackRemoves,
     NackWrites, NackFails, BatchEnds, Crash, RunEnds, Fresh, Dropped, Goto, batch
<1>4. Read(r) /\ pc'[r] = "discarding" => Min(todo[r]) \in Damaged /\ todo' = todo
  BY DEF ShareInv, IInv, TypeOK, Read, Goto
<1>. QED BY <1>1, <1>2, <1>3, <1>4 DEF ShareInv

LEMMA ShareInvInit == Init => ShareInv
<1>. SUFFICES ASSUME Init PROVE ShareInv
  OBVIOUS
<1>1. \A r \in Receivers : pc[r] = "down" /\ In(hand[r]) = {}
  BY DEF Init, In, Empty
<1>2. \A n \in Names : dead[n] = Absent /\ pending[n] = Absent
  BY DEF Init, Empty
<1>3. \A n \in Names, r \in Receivers : ~Held(r, n) /\ ~Reading(r, n)
  BY <1>1 DEF Held, Reading
<1>. QED BY InitOK, <1>1, <1>2, <1>3 DEF ShareInv, SharedOK, HopeOK, Recovers

LEMMA ShareInvStep == NobodyRecovers /\ ShareInv /\ [Next]_vars => ShareInv'
<1>. SUFFICES ASSUME NobodyRecovers, ShareInv, [Next]_vars PROVE ShareInv'
  OBVIOUS
<1>1. IInv'
  BY NextOK DEF ShareInv
<1>2. CASE UNCHANGED vars
  <2>1. \A s : Current(s)' = Current(s)
    BY <1>2, CurrentKept DEF vars, batch
  <2>. QED
    BY <1>1, <1>2, <2>1 DEF ShareInv, SharedOK, HopeOK, Untouched, Held, Reading, AtIt, In,
       Recovers, vars, queue, batch, history
<1>3. ASSUME NEW n \in Names, Send(n) PROVE ShareInv'
  BY <1>1, <1>3, SendShared DEF ShareInv, MessageOK, Send, batch, Recovers
<1>4. ASSUME NEW r \in Receivers, Acts(r) PROVE ShareInv'
  BY <1>1, <1>4, SharedStep, PlacesStep DEF ShareInv, MessageOK, Recovers
<1>. QED BY <1>2, <1>3, <1>4 DEF Next, Acts

(* What is dead-lettered was tried MaxAttempts times in vain or does not   *)
(* decode (queue.go:119-129), whatever else shares the queue and whichever *)
(* file operations fail, as long as nobody recovers beside a receiver.     *)
THEOREM TheDeadWereHopeless == NobodyRecovers => (Spec => []DeadWasHopeless)
<1>. SUFFICES ASSUME NobodyRecovers PROVE Spec => []DeadWasHopeless
  OBVIOUS
<1>1. ShareInv => DeadWasHopeless
  BY DEF ShareInv, HopeOK, Untouched, DeadWasHopeless, In
<1>. QED BY <1>1, ShareInvInit, ShareInvStep, PTL DEF Spec

(* Receivers of which none recovers hold no message twice (queue.go:19-20) *)
(* under every fault: also when files cannot be read, removed or written,  *)
(* and when one dies between the halves of a Nack.                         *)
THEOREM SharersNeverCollide == NobodyRecovers => (Spec => []ClaimedIsInvisible)
<1>. SUFFICES ASSUME NobodyRecovers PROVE Spec => []ClaimedIsInvisible
  OBVIOUS
<1>1. ShareInv => ClaimedIsInvisible
  <2>1. ASSUME ShareInv, NEW r \in Receivers, NEW n \in Holds(r) PROVE n \in Names /\ Held(r, n)
    BY <2>1, FirstListed DEF ShareInv, IInv, ShapeOK, Holds, Held, Reading, In
  <2>. QED BY <2>1 DEF ShareInv, SharedOK, ClaimedIsInvisible
<1>. QED BY <1>1, ShareInvInit, ShareInvStep, PTL DEF Spec

-----------------------------------------------------------------------------
(* The directories as a queue                                              *)

(* What the mapping makes of n. *)
View(n, state, holder, attempts) ==
  State(n) = state /\ Holder(n) = holder /\ Attempts(n) = attempts

Nowhere(n) == ~OnDisk(n) /\ \A r \in Receivers : ~Held(r, n)

(* Who has a message in hand or reads it holds it, and one receiver at     *)
(* most.                                                                   *)
LEMMA HolderOf ==
  ASSUME EInv, NEW n \in Names
  PROVE  /\ \A r \in Receivers : Held(r, n) => Holder(n) = r
         /\ (\A r \in Receivers : ~Held(r, n)) => Holder(n) = Absent
<1>1. \A r \in Receivers : n \in Holds(r) <=> Held(r, n)
  BY DEF Holds, Held, Reading
<1>2. ASSUME NEW r \in Receivers, Held(r, n) PROVE Holder(n) = r
  <2>1. \A s \in Receivers : n \in Holds(s) => s = r
    BY <1>1, <1>2 DEF EInv, Disjoint
  <2>. QED BY <1>1, <1>2, <2>1 DEF Holder
<1>. QED BY <1>1, <1>2 DEF Holder

(* The mapping, place by place. *)
ViewOK(n) ==
  /\ n \notin sent => View(n, "unsent", Absent, 0)
  /\ pending[n] # Absent => View(n, "ready", Absent, pending[n])
  /\ dead[n] # Absent => View(n, "dead", Absent, dead[n])
  /\ inflight[n] # Absent =>
       /\ State(n) = "claimed" /\ Attempts(n) = inflight[n]
       /\ \A r \in Receivers : Held(r, n) => Holder(n) = r
       /\ (\A r \in Receivers : ~Held(r, n)) => Holder(n) = Absent
  /\ \A r \in Receivers : Out(r, n) => View(n, "claimed", r, hand[r][n])
  /\ n \in sent /\ Nowhere(n) => View(n, "acked", Absent, 0)

LEMMA Views == EInv => \A n \in Names : ViewOK(n)
<1>. SUFFICES ASSUME EInv, NEW n \in Names PROVE ViewOK(n)
  OBVIOUS
<1>1. /\ \A r \in Receivers : Held(r, n) => Holder(n) = r
      /\ (\A r \in Receivers : ~Held(r, n)) => Holder(n) = Absent
  BY HolderOf
<1>2. PlaceOK(n) /\ \A r \in Receivers : HandOK(r, n) /\ ReadingOK(r, n)
  BY DEF EInv, Matches
<1>3. \A r \in Receivers : Held(r, n) =>
        /\ pending[n] = Absent /\ dead[n] = Absent
        /\ inflight[n] # Absent \/ Out(r, n)
  <2>1. ASSUME NEW r \in Receivers, n \in In(hand[r]) PROVE hand[r][n] # Absent
    BY <2>1 DEF In
  <2>. QED BY <1>2, <2>1 DEF PlaceOK, HandOK, ReadingOK, Held
<1>4. OnDisk(n) => n \in sent
  BY DEF EInv, IInv, FilesOK
<1>5. \A r \in Receivers : n \in In(hand[r]) => n \in sent
  BY DEF EInv, IInv, ShapeOK
<1>6. \A r \in Receivers : Held(r, n) => n \in sent
  BY <1>2, <1>4, <1>5 DEF Held, ReadingOK, OnDisk
<1>7. ASSUME NEW r \in Receivers, Out(r, n)
      PROVE  /\ n \in In(hand[r]) /\ n \in sent
             /\ pending[n] = Absent /\ dead[n] = Absent /\ inflight[n] = Absent
  BY <1>7, AtItHeld DEF Out, Busy
<1>8. \A r \in Receivers : r # Absent
  BY QueueAssumption
<1>9. n \notin sent => View(n, "unsent", Absent, 0)
  BY <1>1, <1>4, <1>6 DEF View, State, Attempts, OnDisk
<1>10. pending[n] # Absent => View(n, "ready", Absent, pending[n])
  BY <1>1, <1>2, <1>3, <1>4 DEF View, State, Attempts, OnDisk, PlaceOK
<1>11. dead[n] # Absent => View(n, "dead", Absent, dead[n])
  BY <1>1, <1>2, <1>3, <1>4 DEF View, State, Attempts, OnDisk, PlaceOK
<1>12. ASSUME inflight[n] # Absent PROVE State(n) = "claimed" /\ Attempts(n) = inflight[n]
  <2>1. n \in sent /\ pending[n] = Absent /\ dead[n] = Absent
    BY <1>2, <1>4, <1>12 DEF OnDisk, PlaceOK
  <2>. QED BY <1>12, <2>1 DEF State, Attempts
<1>13. ASSUME NEW r \in Receivers, Out(r, n) PROVE View(n, "claimed", r, hand[r][n])
  <2>1. Holder(n) = r /\ r # Absent
    BY <1>1, <1>7, <1>8, <1>13 DEF Held
  <2>. QED BY <1>7, <1>13, <2>1 DEF View, State, Attempts
<1>14. ASSUME n \in sent, Nowhere(n) PROVE View(n, "acked", Absent, 0)
  <2>1. /\ Holder(n) = Absent
        /\ pending[n] = Absent /\ dead[n] = Absent /\ inflight[n] = Absent
    BY <1>1, <1>14 DEF Nowhere, OnDisk
  <2>. QED BY <1>14, <2>1 DEF View, State, Attempts
<1>. QED BY <1>1, <1>9, <1>10, <1>11, <1>12, <1>13, <1>14 DEF ViewOK

LEMMA ViewsAfter == EInv' => (\A n \in Names : ViewOK(n))'
  BY Views, PTL

(* A message is in a directory, being returned, done with, or not sent.    *)
LEMMA Somewhere ==
  ASSUME EInv, NEW n \in Names
  PROVE  \/ n \notin sent \/ OnDisk(n) \/ Nowhere(n)
         \/ \E r \in Receivers : Out(r, n)
<1>1. ASSUME NEW r \in Receivers, Held(r, n), ~Out(r, n) PROVE OnDisk(n)
  BY <1>1 DEF EInv, Matches, HandOK, ReadingOK, Held, OnDisk, In
<1>. QED BY <1>1 DEF Nowhere

SameView(n) == State(n)' = State(n) /\ Holder(n)' = Holder(n) /\ Attempts(n)' = Attempts(n)

(* A message whose files and claims stay as they are. *)
LEMMA KeptView ==
  ASSUME EInv, EInv', NEW n \in Names,
         pending'[n] = pending[n], inflight'[n] = inflight[n], dead'[n] = dead[n],
         n \in sent' <=> n \in sent,
         \A s \in Receivers : /\ Held(s, n)' <=> Held(s, n)
                              /\ Out(s, n)' <=> Out(s, n)
                              /\ Out(s, n) => hand'[s][n] = hand[s][n]
  PROVE  SameView(n)
<1>1. ViewOK(n) /\ ViewOK(n)'
  BY Views, ViewsAfter
<1>2. CASE n \notin sent \/ pending[n] # Absent \/ dead[n] # Absent
  BY <1>1, <1>2 DEF ViewOK, View, SameView
<1>3. CASE inflight[n] # Absent
  BY <1>1, <1>3 DEF ViewOK, View, SameView
<1>4. ASSUME NEW s \in Receivers, Out(s, n) PROVE SameView(n)
  BY <1>1, <1>4 DEF ViewOK, View, SameView
<1>5. CASE n \in sent /\ Nowhere(n)
  <2>1. n \in sent' /\ Nowhere(n)'
    BY <1>5 DEF Nowhere, OnDisk
  <2>. QED BY <1>1, <1>5, <2>1 DEF ViewOK, View, SameView
<1>. QED BY <1>2, <1>3, <1>4, <1>5, Somewhere DEF OnDisk

(* A receiver's step leaves the views of others' messages. *)
LEMMA Undisturbed ==
  ASSUME EInv, EInv', NEW r \in Receivers, Acts(r), NEW n \in Names,
         pending'[n] = pending[n], inflight'[n] = inflight[n], dead'[n] = dead[n], sent' = sent,
         Held(r, n)' <=> Held(r, n), Out(r, n)' <=> Out(r, n),
         Out(r, n) => hand'[r][n] = hand[r][n]
  PROVE  SameView(n)
<1>1. \A s \in Receivers \ {r} : /\ Held(s, n)' <=> Held(s, n)
                                 /\ Out(s, n)' <=> Out(s, n)
                                 /\ hand'[s][n] = hand[s][n]
  BY OthersSame DEF EInv
<1>. QED BY <1>1, KeptView

(* A step of the queue that is about m alone. *)
Moves(m, to, holder, attempts) ==
  /\ State(m)' = to /\ Holder(m)' = holder /\ Attempts(m)' = attempts
  /\ \A n \in Names \ {m} : SameView(n)

(* A step it does not show. *)
LEMMA ViewsStay ==
  ASSUME \A n \in Names : SameView(n)
  PROVE  /\ [n \in Names |-> State(n)]' = [n \in Names |-> State(n)]
         /\ [n \in Names |-> Holder(n)]' = [n \in Names |-> Holder(n)]
         /\ [n \in Names |-> Attempts(n)]' = [n \in Names |-> Attempts(n)]
  BY DEF SameView

LEMMA SettleView ==
  ASSUME NEW m \in Names, NEW r \in Receivers, NEW to, NEW tries,
         State(m) = "claimed", Holder(m) = r, Moves(m, to, Absent, tries)
  PROVE  Contract!Settle(m, r, to, tries)
<1>1. [n \in Names |-> State(n)]' = [[n \in Names |-> State(n)] EXCEPT ![m] = to]
  BY DEF Moves, SameView
<1>2. [n \in Names |-> Holder(n)]' = [[n \in Names |-> Holder(n)] EXCEPT ![m] = Absent]
  BY DEF Moves, SameView
<1>3. [n \in Names |-> Attempts(n)]' = [[n \in Names |-> Attempts(n)] EXCEPT ![m] = tries]
  BY DEF Moves, SameView
<1>4. [n \in Names |-> State(n)][m] = "claimed" /\ [n \in Names |-> Holder(n)][m] = r
  OBVIOUS
<1>. QED BY <1>1, <1>2, <1>3, <1>4, Zenon DEF Contract!Settle

-----------------------------------------------------------------------------
(* Steps the interface does not show. *)
LEMMA QuietView ==
  ASSUME EInv, EInv', NEW r \in Receivers, Acts(r), Quiet(r), sent' = sent, NEW n \in Names
  PROVE  SameView(n)
<1>1. /\ Held(r, n)' <=> Held(r, n)
      /\ Out(r, n)' <=> Out(r, n)
      /\ hand'[r][n] = hand[r][n]
  BY DEF Quiet, Held, Reading, Out, In
<1>. QED BY <1>1, Undisturbed DEF Quiet, queue

LEMMA ReadView ==
  ASSUME EInv, EInv', NEW r \in Receivers, Read(r), NEW n \in Names
  PROVE  SameView(n)
<1>1. PICK m \in Names : m = Min(todo[r])
  BY FirstListed DEF EInv, IInv, ShapeOK, Read
<1>2. /\ pc[r] = "reading" /\ UNCHANGED <<queue, history>>
      /\ \/ pc'[r] = "discarding" /\ UNCHANGED <<todo, hand>>
         \/ /\ pc'[r] = "claiming" /\ inflight[m] # Absent
            /\ hand' = [hand EXCEPT ![r] = [hand[r] EXCEPT ![m] = inflight[m]]]
  BY <1>1 DEF EInv, IInv, TypeOK, Read, Goto
<1>3. ~Out(r, n) /\ ~Out(r, n)'
  BY <1>2 DEF Out
<1>4. Held(r, n)' <=> Held(r, n)
  <2>1. CASE pc'[r] = "discarding" /\ UNCHANGED <<todo, hand>>
    BY <1>2, <2>1 DEF Held, Reading, In
  <2>2. CASE /\ pc'[r] = "claiming" /\ inflight[m] # Absent
             /\ hand' = [hand EXCEPT ![r] = [hand[r] EXCEPT ![m] = inflight[m]]]
    <3>1. hand'[r][n] = IF n = m THEN inflight[n] ELSE hand[r][n]
      BY <2>2 DEF EInv, IInv, TypeOK, Folder
    <3>. QED BY <1>1, <1>2, <2>2, <3>1 DEF Held, Reading, In
  <2>. QED BY <1>2, <2>1, <2>2
<1>. QED BY <1>2, <1>3, <1>4, Undisturbed DEF Acts, Step, queue, history

(* Between its halves a Nack keeps its claim. *)
LEMMA NackRemovesView ==
  ASSUME EInv, EInv', Alone, NEW r \in Receivers, NackRemoves(r), NEW n \in Names
  PROVE  SameView(n)
<1>. DEFINE c == Current(r)
<1>1. /\ c \in Names /\ c \in In(hand[r])
      /\ hand[r][c] \in Nat /\ inflight[c] = hand[r][c] /\ pc[r] = "nacking"
  BY AtItHeld DEF NackRemoves, Busy
<1>2. /\ UNCHANGED <<pending, dead, todo, hand, sent>> /\ pc'[r] = "returning" /\ c' = c
      /\ inflight' = [inflight EXCEPT ![c] = Absent]
  BY CurrentKept
  DEF EInv, IInv, TypeOK, Alone, NoLosingFaults, NackRemoves, Goto, batch, history
<1>3. /\ Held(r, n)' <=> Held(r, n)
      /\ Out(r, n)' <=> n = c
      /\ ~Out(r, n)
  BY <1>1, <1>2 DEF Held, Reading, Out, In
<1>. HIDE DEF c
<1>4. CASE n # c
  <2>1. inflight'[n] = inflight[n]
    BY <1>2, <1>4 DEF EInv, IInv, TypeOK, Folder
  <2>. QED BY <1>2, <1>3, <1>4, <2>1, Undisturbed DEF Acts, Step
<1>5. CASE n = c
  <2>1. ViewOK(n) /\ ViewOK(n)' /\ inflight[n] # Absent
    BY <1>1, <1>5, Views, ViewsAfter, QueueAssumption
  <2>2. State(n) = "claimed" /\ Holder(n) = r /\ Attempts(n) = inflight[n]
    BY <1>1, <1>5, <2>1 DEF ViewOK, Held
  <2>3. View(n, "claimed", r, hand[r][n])'
    BY <1>3, <1>5, <2>1 DEF ViewOK
  <2>. QED BY <1>1, <1>2, <1>5, <2>2, <2>3 DEF View, SameView
<1>. QED BY <1>4, <1>5

-----------------------------------------------------------------------------
(* Steps that are the interface's operations. *)
LEMMA SendView ==
  ASSUME EInv, EInv', NEW m \in Names, Send(m)
  PROVE  Contract!Send(m)
<1>1. /\ UNCHANGED <<inflight, dead, pc, todo, hand>> /\ sent' = sent \cup {m}
      /\ pending' = [pending EXCEPT ![m] = 0] /\ m \notin sent
  BY DEF Send, batch
<1>2. \A s : Current(s)' = Current(s)
  BY <1>1, CurrentKept
<1>3. \A s \in Receivers, n \in Names :
        (Held(s, n)' <=> Held(s, n)) /\ (Out(s, n)' <=> Out(s, n))
  BY <1>1, <1>2 DEF Held, Reading, Out, In
<1>4. \A n \in Names : pending'[n] = IF n = m THEN 0 ELSE pending[n]
  BY <1>1 DEF EInv, IInv, TypeOK, Folder
<1>5. \A n \in Names : ViewOK(n) /\ ViewOK(n)'
  BY Views, ViewsAfter
<1>6. View(m, "unsent", Absent, 0) /\ View(m, "ready", Absent, 0)'
  BY <1>1, <1>4, <1>5, QueueAssumption DEF ViewOK
<1>7. ASSUME NEW n \in Names \ {m} PROVE SameView(n)
  <2>1. n \in Names /\ pending'[n] = pending[n] /\ (n \in sent' <=> n \in sent)
    BY <1>1, <1>4, <1>7
  <2>2. \A s \in Receivers : /\ Held(s, n)' <=> Held(s, n)
                             /\ Out(s, n)' <=> Out(s, n)
                             /\ Out(s, n) => hand'[s][n] = hand[s][n]
    BY <1>1, <1>3, <2>1
  <2>. QED BY <1>1, <2>1, <2>2, KeptView
<1>8. Moves(m, "ready", Absent, 0)
  BY <1>6, <1>7 DEF Moves, View
<1>9. [n \in Names |-> State(n)]' = [[n \in Names |-> State(n)] EXCEPT ![m] = "ready"]
  BY <1>8 DEF Moves, SameView
<1>10. /\ [n \in Names |-> Holder(n)]' = [n \in Names |-> Holder(n)]
       /\ [n \in Names |-> Attempts(n)]' = [n \in Names |-> Attempts(n)]
  BY <1>6, <1>8 DEF Moves, SameView, View
<1>11. [n \in Names |-> State(n)][m] = "unsent"
  BY <1>6 DEF View
<1>. QED BY <1>9, <1>10, <1>11, Zenon DEF Contract!Send

LEMMA ClaimView ==
  ASSUME EInv, EInv', NEW r \in Receivers, Claim(r)
  PROVE  \E m \in Names : Contract!Claim(m, r)
<1>1. PICK m \in Names : m = Min(todo[r])
  BY FirstListed DEF EInv, IInv, Claim, Full
<1>2. /\ pc[r] = "claiming" /\ pc'[r] = "reading" /\ todo' = todo /\ hand' = hand
      /\ dead' = dead /\ sent' = sent
      /\ pending[m] # Absent
      /\ pending' = [pending EXCEPT ![m] = Absent]
      /\ inflight' = [inflight EXCEPT ![m] = pending[m]]
  BY <1>1 DEF EInv, IInv, TypeOK, Claim, Goto, batch, history
<1>3. ViewOK(m) /\ ViewOK(m)'
  BY Views, ViewsAfter
<1>4. inflight'[m] = pending[m]
  BY <1>2 DEF EInv, IInv, TypeOK, Folder
<1>5. View(m, "ready", Absent, pending[m])
  BY <1>2, <1>3 DEF ViewOK
<1>6. Held(r, m)'
  BY <1>1, <1>2 DEF Held, Reading
<1>7. State(m)' = "claimed" /\ Holder(m)' = r /\ Attempts(m)' = pending[m]
  BY <1>2, <1>3, <1>4, <1>6 DEF ViewOK
<1>8. ASSUME NEW n \in Names \ {m} PROVE SameView(n)
  <2>1. pending'[n] = pending[n] /\ inflight'[n] = inflight[n] /\ dead'[n] = dead[n]
    BY <1>2, <1>8 DEF EInv, IInv, TypeOK, Folder
  <2>2. (Held(r, n)' <=> Held(r, n)) /\ ~Out(r, n) /\ ~Out(r, n)'
    BY <1>1, <1>2, <1>8 DEF Held, Reading, Out, In
  <2>. QED BY <1>2, <1>8, <2>1, <2>2, Undisturbed DEF Acts, Step
<1>9. Moves(m, "claimed", r, pending[m])
  BY <1>7, <1>8 DEF Moves
<1>10. [n \in Names |-> Attempts(n)]' = [n \in Names |-> Attempts(n)]
  BY <1>5, <1>9 DEF Moves, SameView, View
<1>11. /\ [n \in Names |-> State(n)]' = [[n \in Names |-> State(n)] EXCEPT ![m] = "claimed"]
       /\ [n \in Names |-> Holder(n)]' = [[n \in Names |-> Holder(n)] EXCEPT ![m] = r]
  BY <1>9 DEF Moves, SameView
<1>12. [n \in Names |-> State(n)][m] = "ready"
  BY <1>5 DEF View
<1>. QED BY <1>10, <1>11, <1>12, Zenon DEF Contract!Claim

(* The worker puts back what nobody has any more. *)
LEMMA RecoverView ==
  ASSUME EInv, EInv', Alone, NEW r \in Receivers, Recover(r)
  PROVE  (\E m \in Names : Contract!Recover(m)) \/ \A n \in Names : SameView(n)
<1>1. PICK m \in Names : m = Min(todo[r])
  BY FirstListed DEF EInv, IInv, Recover
<1>2. /\ pc[r] = "recovering" /\ pc'[r] = "recovering" /\ hand' = hand /\ dead' = dead
      /\ sent' = sent
  BY DEF EInv, IInv, TypeOK, Recover, history
<1>3. \A s \in Receivers : s = r
  BY <1>2 DEF EInv, Phases, Alone
<1>4. \A n \in Names : /\ ~Held(r, n) /\ ~Held(r, n)'
                       /\ ~Out(r, n) /\ ~Out(r, n)'
  BY <1>2 DEF EInv, Phases, Held, Reading, Out, In
<1>5. CASE UNCHANGED <<pending, inflight>>
  BY <1>2, <1>4, <1>5, Undisturbed DEF Acts, Step
<1>6. CASE /\ inflight[m] # Absent
           /\ pending' = [pending EXCEPT ![m] = inflight[m]]
           /\ inflight' = [inflight EXCEPT ![m] = Absent]
  <2>1. ViewOK(m) /\ ViewOK(m)' /\ pending'[m] = inflight[m]
    BY <1>6, Views, ViewsAfter DEF EInv, IInv, TypeOK, Folder
  <2>2. View(m, "claimed", Absent, inflight[m])
    BY <1>3, <1>4, <1>6, <2>1 DEF ViewOK, View
  <2>3. State(m)' = "ready" /\ Holder(m)' = Absent /\ Attempts(m)' = inflight[m]
    BY <1>6, <2>1 DEF ViewOK, View
  <2>4. ASSUME NEW n \in Names \ {m} PROVE SameView(n)
    <3>1. pending'[n] = pending[n] /\ inflight'[n] = inflight[n]
      BY <1>6, <2>4 DEF EInv, IInv, TypeOK, Folder
    <3>. QED BY <1>2, <1>4, <2>4, <3>1, Undisturbed DEF Acts, Step
  <2>5. [n \in Names |-> State(n)]' = [[n \in Names |-> State(n)] EXCEPT ![m] = "ready"]
    BY <2>3, <2>4 DEF SameView
  <2>6. /\ [n \in Names |-> Holder(n)]' = [n \in Names |-> Holder(n)]
        /\ [n \in Names |-> Attempts(n)]' = [n \in Names |-> Attempts(n)]
    BY <2>2, <2>3, <2>4 DEF SameView, View
  <2>7. [n \in Names |-> State(n)][m] = "claimed" /\ [n \in Names |-> Holder(n)][m] = Absent
    BY <2>2 DEF View
  <2>. QED BY <2>5, <2>6, <2>7, Zenon DEF Contract!Recover
<1>. QED BY <1>1, <1>5, <1>6 DEF Recover

(* A message that does not decode is set aside with the attempts it had.   *)
LEMMA DiscardView ==
  ASSUME EInv, EInv', Alone, NEW r \in Receivers, Discard(r)
  PROVE  \E m \in Names : Contract!Discard(m, r)
<1>1. PICK m \in Names : m = Min(todo[r])
  BY FirstListed DEF EInv, IInv, ShapeOK, Discard
<1>2. Reading(r, m) /\ pc[r] = "discarding"
  BY <1>1 DEF Reading, Discard
<1>3. /\ pc'[r] = "claiming" /\ hand' = hand /\ pending' = pending /\ sent' = sent
      /\ inflight[m] # Absent
      /\ dead' = [dead EXCEPT ![m] = inflight[m]]
      /\ inflight' = [inflight EXCEPT ![m] = Absent]
  BY <1>1, <1>2
  DEF EInv, IInv, TypeOK, Matches, ReadingOK, Alone, NoLosingFaults, Discard, Goto, history
<1>4. ViewOK(m) /\ ViewOK(m)' /\ dead'[m] = inflight[m]
  BY <1>3, Views, ViewsAfter DEF EInv, IInv, TypeOK, Folder
<1>5. View(m, "claimed", r, inflight[m])
  BY <1>2, <1>3, <1>4 DEF ViewOK, View, Held
<1>6. State(m)' = "dead" /\ Holder(m)' = Absent /\ Attempts(m)' = inflight[m]
  BY <1>3, <1>4 DEF ViewOK, View
<1>7. ASSUME NEW n \in Names \ {m} PROVE SameView(n)
  <2>1. dead'[n] = dead[n] /\ inflight'[n] = inflight[n]
    BY <1>3, <1>7 DEF EInv, IInv, TypeOK, Folder
  <2>2. (Held(r, n)' <=> Held(r, n)) /\ ~Out(r, n) /\ ~Out(r, n)'
    BY <1>1, <1>2, <1>3, <1>7 DEF Held, Reading, Out, In
  <2>. QED BY <1>3, <1>7, <2>1, <2>2, Undisturbed DEF Acts, Step
<1>8. Moves(m, "dead", Absent, [n \in Names |-> Attempts(n)][m])
  BY <1>5, <1>6, <1>7 DEF Moves, View
<1>9. Contract!Settle(m, r, "dead", [n \in Names |-> Attempts(n)][m])
  BY <1>5, <1>8, SettleView DEF View
<1>. QED BY <1>9 DEF Contract!Discard

(* What an Ack or the end of a Nack does to its message. *)
LEMMA LetGo ==
  ASSUME EInv, EInv', NEW r \in Receivers, Ack(r) \/ NackWrites(r), NEW c, c = Current(r)
  PROVE  /\ c \in Names /\ hand[r][c] \in Nat /\ pc[r] \in {"acking", "returning"}
         /\ View(c, "claimed", r, hand[r][c])
         /\ \A s \in Receivers : ~Held(s, c)'
         /\ pending[c] = Absent /\ dead[c] = Absent
         /\ c \in sent /\ sent' = sent
         /\ \A n \in Names \ {c} : SameView(n)
<1>1. /\ c \in Names /\ c \in In(hand[r]) /\ c \in sent
      /\ hand[r][c] \in Nat /\ pending[c] = Absent /\ dead[c] = Absent
      /\ inflight[c] = IF pc[r] = "returning" THEN Absent ELSE hand[r][c]
  BY AtItHeld DEF Ack, NackWrites, Busy
<1>2. /\ UNCHANGED <<todo, sent>> /\ pc[r] \in {"acking", "returning"} /\ pc'[r] = "next"
      /\ hand' = [hand EXCEPT ![r] = [hand[r] EXCEPT ![c] = Absent]]
  BY DEF EInv, IInv, TypeOK, Ack, NackWrites, Dropped, Goto, history
<1>3. Acts(r)
  BY DEF Acts, Step
<1>4. ViewOK(c)
  BY <1>1, Views
<1>5. View(c, "claimed", r, hand[r][c])
  <2>1. CASE pc[r] = "returning"
    BY <1>1, <1>4, <2>1 DEF ViewOK, Out
  <2>2. CASE pc[r] # "returning"
    <3>1. inflight[c] # Absent /\ inflight[c] = hand[r][c]
      BY <1>1, <2>2, QueueAssumption
    <3>. QED BY <1>1, <1>4, <3>1 DEF ViewOK, View, Held
  <2>. QED BY <2>1, <2>2
<1>6. \A s \in Receivers : ~Held(s, c)'
  <2>1. \A s \in Receivers \ {r} : ~Held(s, c)
    BY <1>2, CurrentAlone DEF Busy
  <2>2. \A s \in Receivers \ {r} : ~Held(s, c)'
    BY <1>1, <1>3, <2>1, OthersSame DEF EInv
  <2>3. hand'[r][c] = Absent
    BY <1>1, <1>2 DEF EInv, IInv, TypeOK, Folder
  <2>4. ~Held(r, c)'
    BY <1>2, <2>3 DEF Held, Reading, In
  <2>. QED BY <2>2, <2>4
<1>7. ASSUME NEW n \in Names \ {c} PROVE SameView(n)
  <2>1. pending'[n] = pending[n] /\ inflight'[n] = inflight[n] /\ dead'[n] = dead[n]
    BY <1>1, <1>7 DEF EInv, IInv, TypeOK, Folder, Ack, NackWrites
  <2>2. hand'[r][n] = hand[r][n]
    BY <1>2, <1>7 DEF EInv, IInv, TypeOK, Folder
  <2>3. (Held(r, n)' <=> Held(r, n)) /\ ~Out(r, n) /\ ~Out(r, n)'
    BY <1>2, <1>7, <2>2 DEF Held, Reading, Out, In
  <2>. QED BY <1>2, <1>3, <1>7, <2>1, <2>2, <2>3, Undisturbed
<1>. QED BY <1>1, <1>2, <1>5, <1>6, <1>7

LEMMA AckView ==
  ASSUME EInv, EInv', NEW r \in Receivers, Ack(r)
  PROVE  \E m \in Names : Contract!Ack(m, r)
<1>1. PICK c : c = Current(r)
  OBVIOUS
<1>2. /\ c \in Names /\ View(c, "claimed", r, hand[r][c])
      /\ \A s \in Receivers : ~Held(s, c)'
      /\ pending[c] = Absent /\ dead[c] = Absent /\ c \in sent /\ sent' = sent
      /\ \A n \in Names \ {c} : SameView(n)
  BY <1>1, LetGo
<1>3. pending' = pending /\ dead' = dead /\ inflight'[c] = Absent
  BY <1>1, <1>2 DEF EInv, IInv, TypeOK, Folder, Ack
<1>4. View(c, "acked", Absent, 0)'
  <2>1. ViewOK(c)'
    BY <1>2, ViewsAfter
  <2>2. c \in sent' /\ Nowhere(c)'
    BY <1>2, <1>3 DEF Nowhere, OnDisk
  <2>. QED BY <2>1, <2>2 DEF ViewOK
<1>5. Moves(c, "acked", Absent, 0)
  BY <1>2, <1>4 DEF Moves, View
<1>6. Contract!Settle(c, r, "acked", 0)
  BY <1>2, <1>5, SettleView DEF View
<1>. QED BY <1>2, <1>6 DEF Contract!Ack

LEMMA NackView ==
  ASSUME EInv, EInv', NEW r \in Receivers, NackWrites(r)
  PROVE  \E m \in Names : Contract!Nack(m, r)
<1>1. PICK c : c = Current(r)
  OBVIOUS
<1>2. /\ c \in Names /\ View(c, "claimed", r, hand[r][c]) /\ hand[r][c] \in Nat
      /\ pending[c] = Absent /\ dead[c] = Absent
      /\ \A n \in Names \ {c} : SameView(n)
  BY <1>1, LetGo
<1>3. PICK a \in Nat : a = hand[r][c] + 1
  BY <1>2
<1>4. MaxAttempts \in Nat /\ Absent \notin Nat
  BY QueueAssumption
<1>5. ViewOK(c)'
  BY <1>2, ViewsAfter
<1>6. \/ a >= MaxAttempts /\ dead'[c] = a
      \/ a < MaxAttempts /\ pending'[c] = a
  BY <1>1, <1>2, <1>3, <1>4
  DEF EInv, IInv, TypeOK, Folder, NackWrites, Exhausted
<1>7. /\ State(c)' = IF a < MaxAttempts THEN "ready" ELSE "dead"
      /\ Holder(c)' = Absent /\ Attempts(c)' = a
  BY <1>4, <1>5, <1>6 DEF ViewOK, View
<1>8. [n \in Names |-> Attempts(n)][c] + 1 = a
  BY <1>2, <1>3 DEF View
<1>9. Moves(c, IF a < MaxAttempts THEN "ready" ELSE "dead", Absent, a)
  BY <1>2, <1>7 DEF Moves
<1>10. Contract!Settle(c, r, IF a < MaxAttempts THEN "ready" ELSE "dead", a)
  BY <1>2, <1>9, SettleView DEF View
<1>. QED BY <1>2, <1>8, <1>10 DEF Contract!Nack

(* A receiver that ends its run or dies gives up what it has. *)
LEMMA AbandonView ==
  ASSUME EInv, EInv', NEW r \in Receivers, Acts(r), LetsGo(r), sent' = sent, pc[r] # "returning"
  PROVE  Contract!Abandon(r)
<1>1. ASSUME NEW n \in Names
      PROVE  /\ State(n)' = State(n) /\ Attempts(n)' = Attempts(n)
             /\ Holder(n)' = IF Holder(n) = r THEN Absent ELSE Holder(n)
  <2>1. ~Held(r, n)' /\ ~Out(r, n)' /\ ~Out(r, n)
    BY DEF LetsGo, Held, Reading, Out
  <2>2. \A s \in Receivers \ {r} : /\ Held(s, n)' <=> Held(s, n)
                                   /\ Out(s, n)' <=> Out(s, n)
                                   /\ hand'[s] = hand[s]
    BY OthersSame DEF EInv
  <2>3. r # Absent
    BY QueueAssumption
  <2>4. CASE Held(r, n)
    <3>1. inflight[n] # Absent /\ \A s \in Receivers \ {r} : ~Held(s, n)
      BY <2>1, <2>4 DEF EInv, Matches, HandOK, ReadingOK, Disjoint, Held, In
    <3>2. \A s \in Receivers : ~Held(s, n)'
      BY <2>1, <2>2, <3>1
    <3>3. ViewOK(n) /\ ViewOK(n)' /\ inflight' = inflight
      BY Views, ViewsAfter DEF LetsGo, queue
    <3>4. State(n) = "claimed" /\ Attempts(n) = inflight[n] /\ Holder(n) = r
      BY <2>4, <3>1, <3>3 DEF ViewOK
    <3>5. State(n)' = "claimed" /\ Attempts(n)' = inflight[n] /\ Holder(n)' = Absent
      BY <3>1, <3>2, <3>3 DEF ViewOK
    <3>. QED BY <3>4, <3>5
  <2>5. CASE ~Held(r, n)
    <3>1. SameView(n)
      <4>1. \A s \in Receivers : /\ Held(s, n)' <=> Held(s, n)
                                 /\ Out(s, n)' <=> Out(s, n)
                                 /\ Out(s, n) => hand'[s][n] = hand[s][n]
        BY <2>1, <2>2, <2>5
      <4>2. /\ pending'[n] = pending[n] /\ inflight'[n] = inflight[n] /\ dead'[n] = dead[n]
            /\ n \in sent' <=> n \in sent
        BY DEF LetsGo, queue
      <4>. QED BY <4>1, <4>2, KeptView
    <3>2. Holder(n) # r
      <4>1. n \notin Holds(r)
        BY <2>5 DEF Holds, Held, Reading
      <4>. QED BY <2>3, <4>1 DEF Holder
    <3>. QED BY <3>1, <3>2 DEF SameView
  <2>. QED BY <2>4, <2>5
<1>2. [n \in Names |-> Holder(n)]' =
        [m \in Names |-> IF [n \in Names |-> Holder(n)][m] = r
                         THEN Absent ELSE [n \in Names |-> Holder(n)][m]]
  BY <1>1
<1>3. /\ [n \in Names |-> State(n)]' = [n \in Names |-> State(n)]
      /\ [n \in Names |-> Attempts(n)]' = [n \in Names |-> Attempts(n)]
  BY <1>1
<1>. QED BY <1>2, <1>3, Zenon DEF Contract!Abandon

-----------------------------------------------------------------------------
(* Every step is one of the interface's or is not seen. *)
LEMMA StepIsContract ==
  ASSUME EInv, EInv', Alone, [Next]_vars
  PROVE  Contract!Next \/ \A n \in Names : SameView(n)
<1>1. CASE UNCHANGED vars
  <2>1. \A s : Current(s)' = Current(s)
    BY <1>1, CurrentKept DEF vars, batch
  <2>2. UNCHANGED <<pending, inflight, dead, pc, todo, hand, sent>>
    BY <1>1 DEF vars, queue, batch, history
  <2>3. \A n \in Names, s \in Receivers : (Held(s, n)' <=> Held(s, n)) /\ (Out(s, n)' <=> Out(s, n))
    BY <2>1, <2>2 DEF Held, Reading, Out, In
  <2>. QED BY <2>2, <2>3, KeptView
<1>2. ASSUME NEW m \in Names, Send(m) PROVE Contract!Next
  <2>1. Contract!Send(m)
    BY <1>2, SendView
  <2>. QED BY <2>1 DEF Contract!Next
<1>3. ASSUME NEW r \in Receivers, Acts(r) PROVE Contract!Next \/ \A n \in Names : SameView(n)
  <2>1. CASE Begin(r) \/ ReceiveFails(r) \/ BatchEnds(r) \/ Crash(r)
    <3>1. PICK to \in {"down", "recovering", "idle"} : \E listed : Fresh(r, to, listed)
      BY <2>1 DEF Begin, ReceiveFails, BatchEnds, Crash, RunEnds
    <3>2. pc'[r] = to /\ hand'[r] = Empty
      BY <3>1 DEF EInv, IInv, TypeOK, Fresh, Goto
    <3>3. In(hand[r])' = {}
      BY <3>2 DEF In, Empty
    <3>4. LetsGo(r) /\ sent' = sent /\ pc[r] # "returning"
      BY <2>1, <3>2, <3>3
      DEF Alone, NoLosingFaults, Begin, ReceiveFails, BatchEnds, Crash, LetsGo, history
    <3>5. Contract!Abandon(r)
      BY <1>3, <3>4, AbandonView
    <3>. QED BY <3>5 DEF Contract!Next
  <2>2. CASE \/ Recovered(r) \/ List(r) \/ Missed(r) \/ Received(r)
             \/ Process(r) \/ Processed(r) \/ ProcessFails(r)
    <3>1. Quiet(r) /\ sent' = sent
      BY <2>2 DEF EInv, IInv, TypeOK, Recovered, List, Missed, Received, Process, Processed,
         ProcessFails, Goto, Quiet, batch, history
    <3>. QED BY <1>3, <3>1, QuietView
  <2>3. ~AckFails(r) /\ ~NackFails(r)
    BY DEF Alone, NoLosingFaults, AckFails, NackFails
  <2>4. CASE Read(r) \/ NackRemoves(r)
    BY <2>4, ReadView, NackRemovesView
  <2>5. CASE Recover(r)
    BY <2>5, RecoverView DEF Contract!Next
  <2>6. CASE Claim(r)
    BY <2>6, ClaimView DEF Contract!Next
  <2>7. CASE Discard(r)
    BY <2>7, DiscardView DEF Contract!Next
  <2>8. CASE Ack(r)
    BY <2>8, AckView DEF Contract!Next
  <2>9. CASE NackWrites(r)
    BY <2>9, NackView DEF Contract!Next
  <2>. QED BY <1>3, <2>1, <2>2, <2>3, <2>4, <2>5, <2>6, <2>7, <2>8, <2>9 DEF Acts, Step
<1>. QED BY <1>1, <1>2, <1>3 DEF Next, Acts

(* "Claimed messages are invisible to other receivers until Ack'd or       *)
(* Nack'd", "Nack returns a message for retry, or dead-letters it"         *)
(* (queue.go:15-25): under Alone, one receiver or several of whom none     *)
(* recovers, with crashes and failing messages but without failing file    *)
(* operations and a death inside a Nack, the directories implement the     *)
(* interface, for every number of messages.  A worker that starts beside   *)
(* another receiver (queue.go:41-42) is not covered: there the directories *)
(* are no such queue (run queue_stranded).                                 *)
THEOREM TheDirectoriesAreAQueue == Alone => (Spec => ImplementsContract)
<1>. SUFFICES ASSUME Alone PROVE Spec => ImplementsContract
  OBVIOUS
<1>1. Init => Contract!Init
  <2>. SUFFICES ASSUME Init PROVE Contract!Init
    OBVIOUS
  <2>1. \A n \in Names : ViewOK(n) /\ n \notin sent
    BY EInvInit, Views DEF Init
  <2>2. \A n \in Names : State(n) = "unsent" /\ Holder(n) = Absent /\ Attempts(n) = 0
    BY <2>1 DEF ViewOK, View
  <2>3. /\ [n \in Names |-> State(n)] = [m \in Names |-> "unsent"]
        /\ [n \in Names |-> Holder(n)] = [m \in Names |-> Absent]
        /\ [n \in Names |-> Attempts(n)] = [m \in Names |-> 0]
    BY <2>2
  <2>. QED BY <2>3, Zenon DEF Contract!Init
<1>2. EInv /\ EInv' /\ [Next]_vars => [Contract!Next]_(Contract!vars)
  <2>. SUFFICES ASSUME EInv, EInv', [Next]_vars PROVE [Contract!Next]_(Contract!vars)
    OBVIOUS
  <2>1. CASE \A n \in Names : SameView(n)
    <3>1. UNCHANGED Contract!vars
      BY <2>1, ViewsStay, Zenon DEF Contract!vars
    <3>. QED BY <3>1
  <2>. QED BY <2>1, StepIsContract
<1>3. EInv /\ [Next]_vars => EInv'
  BY EInvStep
<1>. QED BY <1>1, <1>2, <1>3, EInvInit, PTL DEF Spec, ImplementsContract, Contract!Spec
=============================================================================

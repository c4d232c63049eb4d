# Rivergate ICR pipeline: models and proofs

TLA+ models of the ticket pipeline in `internal/`, the TLC configurations that
check them on small instances, and TLAPS proofs of the results that hold for
every configuration, every number of processes and every number of tickets.

## 1. The system

A support ticket enters (webhook, drop zone, CLI, dashboard), is stored as an
*item*, queued, classified by a model, routed by rules from
`config/rivergate.yaml`, and acted upon (page, ticket, KB article). A person can
approve or correct the classification; the item is then routed again.

| Component | State it keeps | Operations | Talks to |
|---|---|---|---|
| Pipeline service (`pipeline/pipeline.go`) | a mutex; everything else is in the store | Ingest, Accept, RunOnce, Process, Reclassify, Route, Approve, Override | store, classifier, router, action sink, queue |
| Rules engine (`router/router.go`, `config/config.go`) | none | Route | - |
| Classifier (`classify/`) | none | Classify, ParseModelOutput, Fallback | Bedrock, or keyword lists |
| Item stores (`store/`) | items: one JSON document per ticket | Get, Put, List | file system, DynamoDB |
| Action sinks (`router/actions.go`, `router/logsink.go`) | append-only lines | Execute | file system, log |
| Directory queue (`ingest/queue.go`) | files in pending/, inflight/, dead/ | Send, Receive, Ack, Nack, Recover | file system |
| SQS (`ingest/sqs.go`, `infra/template.yaml`) | messages, receive counts, a DLQ | Send; delivery to the worker Lambda | worker Lambda |
| Drop zone, webhooks (`ingest/entrypoints.go`, `awsapp/handlers.go`) | files in incoming/, processed/, rejected/ | Scan, POST /tickets | service |
| Workers (`cmd/worker`, `awsapp/handlers.go`) | none | poll loop; SQS batch handler | service, queue |
| Dashboard (`dashboard/`) | sessions (signed cookies) | submit, approve, override | service |
| MCP server (`mcp/server.go`) | the set of allowed write tools | tool calls | service |
| CLI (`cmd/cli`) | none | ingest, classify, route, review, outbox, mcp, reset | service |

Each of worker, webhook, dashboard, MCP server and CLI is a **process of its own**
with its own `pipeline.Service`; what they share is the store, the queue and the
outbox. That is where the difficulty lies:

- *Interleaving.* `Service.mu` orders the calls of one process. Between processes
  nothing does: Get and Put are unconditional, so two calls may both hold an item.
- *Atomicity and crashes.* An action is executed before the write that records
  it; `Process` writes the item twice; `Nack` removes a message before writing it
  back; `Ingest` stores before it sends.
- *Redelivery.* Both queues deliver at least once; `Process` decides by the
  item's status whether a delivery is a duplicate.
- *Re-judging.* An item may be classified again, reviewed, corrected again and
  re-routed in any order; its label, decision, review, audit trail and
  idempotency keys must keep telling the same story.

What makes each component correct: the **router** answers every classification,
never acts below a threshold, never does less when the model is surer. The
**service** stores items whose decision is the one their label calls for, never
claims an action it did not take, repeats none, loses no audit entry, does not undo a
verdict. The **queues** lose no message before it is handled or dead-lettered.
**Ingest and workers together** bring every accepted ticket to a route or to a
person. The **MCP gate** keeps write tools shut. `PROJECT.json` lists each hazard
at its line with the properties that watch it.

## 2. Modules

| Module | Role |
|---|---|
| `Routing` | router, confidence gate, fallback, taxonomy check, as operators of the configuration |
| `Rivergate` | the shipped `config/rivergate.yaml` as values |
| `Labelling` | one ticket judged, re-judged, approved, corrected, and where it is routed |
| `MCRouting` | TLC instance of `Labelling`: the shipped configuration |
| `RoutingProofs` | theorems about `Route` for every valid configuration |
| `LabellingProofs` | where labels lead, and the mock's arithmetic; the shipped rules against the README's table |
| `Service` | the pipeline service in several processes over one store |
| `Ledger` | what the service promises of an item if its calls are atomic: the abstract service |
| `MCService` | TLC instances of `Service` |
| `ServiceProofs` | the inductive invariant of `Service` and its theorems |
| `Outbox` | `Service` with the local action sink step by step: ticket numbers, torn lines, what `ReadOutbox` reads |
| `MCOutbox` | TLC instance of `Outbox`: one process |
| `OneProcessProofs` | what the lock adds: calls are atomic (`Service` implements `Ledger`), trails only grow, verdicts stand; and its outbox: unique numbers, no repeated page, decided before ignored, feed = readable outbox |
| `Mock` | the keyword classifier, as operators |
| `Ticket` | normalization of the channels' payloads, the dashboard's form, ticket IDs |
| `Ingest` | the entry points and the worker's loop around `Service`, over the directory queue file by file |
| `MCIngest` | TLC instances of `Ingest` |
| `IngestProofs` | the entry points implement `Service`; what is queued, answered, filed and driven |
| `FrontEnds` | sessions and sandboxes, expiry, the agent's write tools, icr, over `Service` |
| `MCFrontEnds` | TLC instance of `FrontEnds`: three processes, two sign-ins |
| `FrontEndsProofs` | sandboxes last as long as sessions, who may review, what undoes a verdict |
| `Queue` | what the interface `ingest.Queue` promises: the abstract queue |
| `DirQueue` | the directory queue and the processes that drain it through `RunOnce` |
| `MCDirQueue` | TLC instances of `DirQueue`: who drains |
| `DirQueueProofs` | no message lost, exclusive claims; `DirQueue` implements `Queue`; how often a message is tried, what is dead |
| `LambdaWorker` | SQS and the worker Lambdas of the deployed pipeline, as callers of `Service` |
| `MCLambdaWorker` | TLC instance of `LambdaWorker` |
| `LambdaWorkerProofs` | the workers implement `Service`; nothing unsettled is acknowledged and only failures are dead-lettered |

`Service` extends `Routing`: it calls `Route` exactly where `routeLocked` does.
`DirQueue` sees of the service what `RunOnce` sees, an answer or an error of
`Process`; `Service` in turn lets `Process` be called at any time on any item. `DirQueue`
is shown to implement `Queue` under the mapping at its end, and `Service`, of one process, `Ledger`. `LambdaWorker`, `Ingest` and
`FrontEnds` extend `Service` and restrict it to the calls the workers, the entry points and
the front ends make, in their order; `Outbox` refines what an action does.

### Routing

`Route(c)` is `Router.Route`: first rule that matches (category in one list *or*
priority in the other), then the gate, then the decision. `ConfigOK` is what
`config.Validate` accepts, and an assumption of the module. Confidences are
whole percents, because `ParseModelOutput` rounds to two decimals. `Fallback`,
`Classified` and `Corrected` are the three ways an item comes by a
classification. Reasons, summaries and rationales are wording and are left out.

### Service

*State.* `store` maps each ticket ID to an item or `Nil`; `outbox` keeps, per item,
the lines its actions wrote; `call` is the call each caller has under way with
its **local copy** of the item (the Go local `it`), the loop index and whether an
action failed; `calls` counts calls for the bound.

*Steps.* A step is one access to what processes share:

| Action | Code |
|---|---|
| `Accept`, `Process`, `Reclassify`, `RouteItem`, `Approve`, `Override` | lock, `Store.Get`, early returns and the local work up to the next shared access; a refusal ends the call at once |
| `ProcessIgnored` | `Process` finds a status other than received: acknowledged, nothing done |
| `GetFails`, `PutFails` | store errors; a failed Put may or may not have taken effect |
| `PutAccepted` | the Put of `accept` |
| `PutClassified` | the first Put of `Process` and `Reclassify`, and the routing that follows in memory |
| `Skip`, `Execute`, `ExecuteFails` | one turn of the loop over the decision's actions |
| `PutRouted` | the last Put, and the return |
| `Crash` | the process ends: its calls and its lock vanish |

`ClassifyInto`, `Routed`, `Reviewed`, `Executed` are what the Go functions do to the
local copy, the appended audit events included. An event keeps its type, the
classification it records and the key of the action; this is enough to tell an
executed action from a skipped one, as `ActionsFromItems` does by `Data["action"]`.

*Abstractions.* Any call may come at any time from any caller, on any item: this
covers every delivery order and every duplicate a queue can produce, and every
user. The classifier may answer anything in `Answers`, valid or not, or fail. The
three stores are one: Get is consistent (`ConsistentRead`, a mutex, a read of a
file renamed into place), Put replaces the whole item and checks nothing. Left
out: time and expiry, ticket text, who acted, `Item.Queue` and `Item.NeedsReview`
(written with the decision they copy).

### DirQueue

*State.* `pending`, `inflight`, `dead` map each file name to the attempts in the file
or `Absent`. A file is named by enqueue time and ticket, and `Nack` writes it back under
that name, so a name is a message and names order by age. Per receiver: `pc`, the names
it has listed and not yet tried (`todo`), the messages `Receive` returned and `RunOnce`
has not finished with (`hand`, with the attempts it read), and `RunOnce`'s processed
count and error. `sent`, `tried`, `handled` are history.

*Steps.* One file operation each:

| Action | Code |
|---|---|
| `Begin`, `Recover`, `Recovered` | a process starts; the worker lists inflight and renames file after file back |
| `List`, `Missed`, `Claim`, `Read`, `Discard`, `ReceiveFails`, `Received` | `Receive`: ReadDir; a rename that finds the file gone; the rename; ReadFile; the rename of a damaged file into dead; an error, on which `RunOnce` drops what was claimed; the return |
| `Process`, `Processed`, `ProcessFails` | `RunOnce` calls `Process` |
| `Ack`, `AckFails` | one Remove |
| `NackRemoves`, `NackWrites`, `NackFails` | the two halves of `Nack` |
| `BatchEnds` | `RunOnce` returns: the worker polls again, `-once` stops after a batch with 0 processed, tried messages or not, `icr` also at an error, the dashboard after one batch |
| `Crash` | the process ends; in the middle of a `Nack` only if `Faults` has `midnack` |

`Faults` says what can go wrong (`process`, `crash`, `midnack`, `io`), so that each run
states under which faults its property holds. *Left out:* a file's text, `LastError`,
the wait between polls, `Depth`, and two tickets of one ID queued in the same nanosecond.

### LambdaWorker

*State.* SQS keeps, per message, a `state` (visible, hidden, deleted, dead) and its
`receives`; `kind` is what the message turns out to be, fixed from the start: a ticket, a
drop-zone object, an object that is no ticket, or junk. A worker has a `stage`, the `batch` of
its invocation, the records `left`, the `failures` it will report and the record it is
`doing`; its call of the service is `call` of `Service`, each worker being a process.
`timedOut` is history.

| Action | Code |
|---|---|
| `Poll` | an invocation with up to `BatchSize` visible messages |
| `Drop`, `FetchFails` | records `handleRecord` gives up on, or cannot read |
| `TakeTicket`, `TakeObject` | the next record: `Process`, or `Accept` and then |
| `Accepted` | `Process`, the item new or a duplicate |
| `Works` | the steps of `Service` within the call |
| `Succeeds`, `Fails` | the record returns, its error goes to `BatchItemFailures` |
| `Respond` | the answer: the rest is deleted, failures are visible again, or dead after `MaxReceives` |
| `TimesOut` | Lambda kills the worker: its call is gone, its whole batch comes back |

SQS is what `infra/template.yaml` configures: the visibility timeout is six times the
worker's, so a message stays hidden until its Lambda has ended, and at most two workers
run. A second message with the same ticket stands for SQS's own duplicates. The item of a
ticket may be absent when `Process` comes (it expired, or was sent from elsewhere) or
received (here through the object that carries the same ticket). *Left out:* notifications of
several objects, which S3 does not send, the batching window and retention.

### Mock

Of a text only the number of keywords of each category that occur in it is kept, and the
priorities of which one occurs. `Winner` is the stable sort's first, `RunnerUp` its second,
`Scored` the confidence in whole percents. `Labelling` judges texts by `MockAnswer` and routes
what comes out, so that the scores and the thresholds of the shipped rules are checked together.
A score that lies exactly between two percents takes eight keywords of one category, more than
the texts have.

### Ticket

`Normalize` takes the union of the three channels' payloads to a ticket or `Invalid`; a payload
that does not decode is one whose channel is none of the three. Text is a sequence of lines,
the empty string a blank one; a value whose spelling `Normalize` tidies (capitals, spaces around it)
carries a flag. `TicketID` keeps what the code hashes and drops what it does not, the spelling
of the address included. It is injective on that: collisions of the ID's 32 bits are left out,
and so are names, companies and times. `SubmissionPayload` is what the dashboard makes of a
form before it normalizes it like any other payload. What `parseFrom` makes of a sender whose name or
address the visitor left empty (`submit.go:165-168`, `ticket.go:139-143`) is left out: no property depends on it.

### Ingest

*State.* Each caller has a `role` (worker, webhook, icr, dashboard), a `stage` in its loop, the
`ticket` it ingests, the files its scan has listed (`todo`), the queue's files its `Receive` or
`Recover` has listed (`listed`) and the messages its `RunOnce` has received (`batch`). `place` is the
drop zone's directory each file is in; `sent` has the messages in order, and `pending`, `inflight`
and `dead` their numbers: age is order, a set's `Min` its oldest. `content`, `told`, `dropped`,
`refused`, `cut`, `lost` and `left` are history: what the program knows and forgets, or never knew.

| Action | Code |
|---|---|
| `Posted`, `Submitted`, `ScansFile` | `IngestIn` from the webhooks, icr, the form, the drop zone: normalize, then accept's Get |
| `Serves` | the rest of the call of the service, here accept's Put |
| `IngestEnds` | invalid, duplicate or an error: nothing is sent |
| `Sends`, `SendFails` | `Queue.Send`, outside the lock |
| `Starts`, `Recovers` | the worker starts: `Recover` lists `inflight/` and renames **every** file back, whoever holds it; what fails stays |
| `Scans`, `FilesAway`, `ScanFails` | `Scan` lists `incoming/`, moves a file, or stops at a failing read or rename |
| `Lists`, `Misses`, `Claims`, `Reads` | `Receive`: ReadDir, a rename that finds the file gone, the rename, ReadFile |
| `ReceiveFails` | `Receive` returns an error, also because a `Recover` took the file it was about to read: `RunOnce` drops what was claimed, which stays in `inflight/` |
| `Works`, `Acks`, `RunOnceEnds` | `RunOnce`; an Ack of a file that is gone is an error |
| `NackRemoves`, `NackWrites`, `NackFails` | the Remove, whose own failure is ignored; the write, for another attempt or into `dead/`; the write that fails and leaves the message nowhere |
| `Dies` | a process ends, its callers with it, between the halves of a Nack as anywhere else |

The worker and its webhook are one process with one lock, as in `cmd/worker`; icr or the
dashboard is another. *Left out:* the count of attempts (a Nack may go either way; `DirQueue`
counts), damaged files and a `Recover` that cannot list, which `DirQueue` has or which ends the worker
before it began; requests the webhooks turn away for their token or size.

### Outbox

A ticket action is two steps, `Counts` (read the file, count its newlines) and `Appends`. A write
that fails or a process that dies may leave a piece of a line at the end of its file (`torn`); the next
line written there, be it the retry of the very action that failed, continues the piece (`Ended`): its newline counts,
but `ReadOutbox` can read neither. `records` is what it reads of each item. `spoiled` remembers the items
of calls that never learnt what became of their Put, `glued` those one of whose lines continues a piece.

### FrontEnds

*State.* `until` is when each workspace's session ends, `home` the workspace a ticket's ID was
made for, `expires` the end of each stored item and `due` the same in the copy a call works on;
`request` is what a caller of the dashboard serves, `mail` the tickets a message was sent for. `told`,
`by` and `behind` are history. `store` is what `Get` shows: an item that expired is `Nil`,
whether or not it was deleted, and a Put of an expired copy hides what was there.

| Action | Code |
|---|---|
| `LogIn`, `SignedIn`, `Tick` | `login`, `requireAuth`, time |
| `Submits`, `Redirects` | `submit` up to accept, and its Send and redirect |
| `Opens`, `ReviewsOpened` | `getOwned`, then `Approve` or `Override`, which read the item again |
| `AgentCalls`, `PersonCalls`, `Delivers` | an agent's write tools, icr's commands, a worker on a message |
| `Puts`, `PutsExpired`, `PutErrs`, `Acts`, `Dies` | the rest of a call of the service, and faults |

A message may be delivered at any time and any number of times once it was sent: redelivered,
late, or redriven by hand from the dead-letter queue. Time is in half days: a session lasts one, a
sandbox two, as `auth.go` and `newItem` say. *Left out:* requests that are refused before
they reach the service, signing out, by which only a browser forgets something, and `icr reset`,
which deletes the data directory under everyone.

## 3. Runs

| Run | Expect | Shows |
|---|---|---|
| `routing` | pass | README's routing table, row by row; monotonicity; unusable answers go to a person; approval confirms; the mock's scores are monotone and its ties are deferred |
| `shared_store` | pass | two processes, every fault: what is stored agrees with itself and with what was sent |
| `one_process` | pass | one process with its outbox, failing actions, a torn line, a failing Put or a crash: unique ticket numbers; unless a Put was lost, no repeated action, and no delivery ignored before the item is decided and each action taken or on record as failed; the feed is what `ReadOutbox` reads unless a Put was lost or a line glued; the trail only grows, a verdict stands; the service implements `Ledger`, whose operations are single steps |
| `two_writers` | violation | two processes repeat an action, no fault needed |
| `stuck` | violation | a Put that returns an error, the first although it took effect (the trace) or the last, leaves an item nobody will look at; its redelivery is acknowledged |
| `entry` | pass | every door, every spelling, a `Recover` beside a live icr or dashboard: one message per ticket and process, the right ID, files where they belong, a message for every received ticket and an end for everything stored, but for the places named below where the code loses them |
| `retried` | violation | the queue refuses a message, the client tries again and is answered `queued`: no message exists |
| `front_ends` | pass | dashboard, worker and terminal over one store: a visitor keeps their tickets while signed in, only those who may review, no message undoes a verdict |
| `queue_worker` | pass | one worker that fails and crashes: implements `Queue`, loses nothing, every message ends |
| `queue_sharing` | pass | `icr` and the dashboard drain at once under every fault: exclusive claims, dead means hopeless |
| `queue_stranded` | violation | `-once` beside a worker, no fault: a message stays in inflight while the worker polls |
| `delivery` | pass | two worker Lambdas, failures and timeouts: nothing unsettled is acknowledged, no record pays for its batch, every ticket settles or is dead-lettered |

The four violations are disagreements between the code and a sentence of its
README or comments; `PROJECT.json` "findings" quotes each.

What the README promises of actions, of the feed and of low confidence holds of a single process,
for every item none of whose Puts was lost (`PagesOnceUnlessLost`, `FeedIsOutbox`,
`DefersUnlessLost`). An action that fails without writing breaks none of it; one that fails half way through its
line makes the next line of its file unreadable, so that `ReadOutbox` may show less than the feed:
`FeedIsOutbox` exempts the items of such lines by name (`glued`), and only from that half. An action that failed
is not tried again by a redelivery: `DefersUnlessLost` asks that the trail has the failure, which is all the
code keeps. `two_writers` and `stuck` show the two exceptions, a second process and a lost Put.

Exclusive claims of the queue fail once a worker recovers beside another receiver, which
`queue_stranded` carries to its end, and tries stay bounded only without crashes:
`Nack` alone counts, a message that kills the worker comes back uncounted. A worker that dies
between the two halves of a `Nack`, or whose write there fails, leaves the message nowhere, which is why
`NothingLost` is checked and proved without those. `entry` has both, and every way a `Recover` crosses
other receivers. There, `ReceivedIsDriven` names the two ways a received ticket comes to have no message:
the call that stored it ended before its Send (`dropped`; `retried` shows what the client is told),
and a Nack cut short (`lost`). `EverythingLands` adds where else a ticket may end (`GivenUp`): in `dead/`;
in `inflight/` after a failing Receive, a Recover that could not move it, or the death of icr or the dashboard, until a worker
is started again (`left`); or classified, when `Process` ended between its two Puts (`cut`).

`rejected/` is for files that "don't parse" (`entrypoints.go:20-21`); the code moves a file there on any
error of the sink (`:55-57`). `FilesAccountedFor` says what does hold: the file is no ticket, or the store or the queue
failed while this very file was ingested (`refused`). Such a ticket may be stored and given up, or not stored
at all, and then only the file remembers it.

*Bounds.* One ticket: a call reads, writes and acts on its own item only, so two
tickets are two independent systems but for the lock, and a lock that also
excludes calls on other items only removes behaviours. Two callers:
every race listed is one of two. `MaxCalls` is 3 or 4: three allow a delivery, a review
and a late delivery or a re-classification, in any overlap, four a failure before them. The answers are a
page that is also reviewed (45%), a routed bug (80%) and the same label below its
threshold (70%), each with and without a failing classifier; the labels are a
correction, one outside the taxonomy, and an override that asks for nothing.
Confidences in `MCRouting` are both sides of every threshold (60, 75), zero,
100, and the out-of-range -1 and 101; the mock's texts have up to four keywords of four
categories, one more than it counts.

In `one_process`, the first two of these answers, with the fallback for what is deferred;
`MaxLosses` 1: a lost Put, a crash or a torn line; the proofs take any number. In `entry`: one file, one payload or form, one
fault, and what fails in answer to a failure (`FailingAgain`: a Nack's Remove and write, a death in between) without a bound; neither `MaxMessages` nor `MaxCalls` is ever
reached (`Len(sent) < MaxMessages /\ calls < MaxCalls` holds as an invariant), so they cut nothing off. One ticket comes from the file, the webhook (respelled) and the form;
the same words come from a sandbox as another. The classifier's answers are all unusable, so that every ticket is
deferred and no action runs: actions are `one_process`'s, and a failing one is a Nack like that of a failing Get or Put. A Nack may use up the attempts
at any time. In `front_ends`: one ticket, as sandboxes never
share one; two sign-ins, the ticket's and a stranger's; two half days, so that a session and
a sandbox end; one lost Put or death; four calls, for a submission, a delivery, a review and a rival.

In the `DirQueue` runs: three messages with a batch of two give a full batch and a
remainder, the damaged one in the middle; `MaxAttempts` is the code's 3. Two receivers,
as every race listed is one of two, of the kinds that differ in what they do at their
start and end. `MaxCrashes` 2 covers a second crash while the first is being
recovered from. `MaxRuns` bounds how often `-once`, `icr` and the dashboard start.

In `delivery`: two workers, as the template's concurrency; two messages, one of which may be a
ticket or junk and the other an object or no ticket, so that both may carry the one
ticket; a batch of two, so that a failure has a neighbour; two receives instead of
three, so that a failure and its retry are the whole life of a message. `MaxTimedOut` stops timeouts
once two messages have seen one. `MaxCalls` 6 is never reached: two receives of a
ticket are two calls, of an object four. `put` is not among the faults: a failed write
of a classified item strands it as a timeout does, which `stuck` shows. `EveryTicketSettles`
and `ForgottenIsSettled` allow for that end by name (`Stranded`), and for no other.

*Symmetry.* `Callers` permutes the two callers. Both placements (`OneProcess`,
`TwoProcesses`) are invariant under the swap up to the name of the process, which no
state and no property mentions. `SignIns` permutes the sandbox IDs, which are drawn at random. No liveness is checked under either.

*Deadlock.* `CHECK_DEADLOCK FALSE` in the `Service` runs, where the model stops
after `MaxCalls` calls, and in the `DirQueue` runs without a polling worker, which stop
after `MaxRuns` runs, and in `delivery`, which stops when all messages are gone, and in `front_ends`, when time is up. With a worker, which polls for ever, deadlock is checked.

*Fairness.* `DirQueue`'s `FairSpec` assumes that a process that runs takes its next
step (the loops in `main.go` have no exit but those modelled), and that the worker is
started again after it died, as its `Recover` presupposes. No fairness is assumed of
`icr` or the dashboard, which a person starts, nor of `Processed` against
`ProcessFails`: a message may fail every time, and then ends in dead. Crashes are
finitely many. `DeliveryFairSpec` assumes that SQS goes on invoking a worker that is
free while messages are visible, and that an invocation goes on to its end or its timeout.
`IngestFairSpec` assumes that every process goes on with what it has begun and
the worker with its loop and its restarts, never that a client comes, a file is dropped or
a message succeeds. Nothing is assumed of success: every retry may fail. `Service`
assumes none; its properties are safety.

*Mutants.* A definition such as `RoutedOnce` next to `Routed` is the same code
with one plausible mistake; it is used in no specification. Each shows that a
property notices that mistake.

## 4. Proofs

`RoutingProofs` assumes `ConfigOK` alone. It first shows that `SelectInSeq` is
the first match (`FirstMatchIsFirst`), then that every answer is one of four
(`RouteCases`), and splits on those:
`RouteTyped`, `ActionsPassTheGate`, `NobodyForgotten`, `SurerNeverDoesLess`,
`ApprovalKeepsTheRoute`, and `FallbackDefers`, which states the condition
`config.Validate` would have to check for "never a guess" to hold.

`LabellingProofs` carries this over to every classification one ticket can come to carry, whatever the
classifier answers and in whatever order it is judged, approved and corrected, and adds the mock:

    LabelsTyped                MockIsInTaxonomy => (Spec => []TypeOK)
    ConfidenceNeverHurts       Spec => []ConfidenceIsMonotone
    ApprovalsConfirm           Spec => ApprovalConfirms
    GuessesNeverAct            FallbackUnclaimed => (Spec => []NeverAGuess)
    EvidenceCounts             Spec => []MoreEvidenceIsSurer
    SplitGoesToAPerson         MockIsInTaxonomy /\ SplitNeedsMore => (Spec => []SplitEvidenceDefers)
    TicketsLandAsDocumented    Shipped => (Spec => []RoutesAsDocumented)
    ShippedIsFit               Shipped => MockIsInTaxonomy /\ FallbackUnclaimed /\ SplitNeedsMore

The invariant `Labelled` says that a label nobody trusts is the fallback until a person stands
behind it. The three conditions are what `config.Validate` leaves unchecked and these promises
rest on: that the taxonomy has the priorities the mock names, that no rule acts on the
fallback's labels at confidence 0, and that the rules which claim bugs and bills want more than
the 70 percent the mock has at most of split evidence (`SplitScores`). The last theorem says that
`config/rivergate.yaml` (`Shipped`) meets them, so with it they hold outright. That a score grows with the
winner's keywords and falls with a rival's is a comparison of rounded quotients
(`QuotientGrows`, by cross-multiplication), for any number of keywords and categories; that
there is a winner (`OneLeads`) is by the first prefix of the taxonomy without one.

`ServiceProofs` proves, for every configuration, set of callers, placement in
processes, set of tickets, fault set and call bound:

    TypeCorrect              Spec => []TypeOK
    DecisionsAreCurrent      Spec => []DecisionCurrent
    GateAlwaysHolds          Spec => []GateHolds
    NothingIsClaimedUndone   Spec => []NothingClaimedUndone
    TrailsExplain            Spec => []TrailExplains

None of the invariants is inductive: a Put publishes the copy a call took earlier, so
the copies must be right as well. `IInv` adds, for every call under way, that
its copy is consistent (`CallOK`: classified before it is written as classified,
carrying the decision of its own label while it acts) and that the outbox
already backs every action the copy claims (`CallBacked`). Two facts make it
inductive without any mutual exclusion: a call changes the store only by
publishing its copy, and the outbox only grows. So these five hold however
processes interleave; the properties that do need the lock are exactly those
the runs refute for two processes.

The proof has a lemma for each change of a copy (`ClassifyIntoOK`, `RoutedOK`,
`ReviewedOK`, `LoggedBacked`, `ExecutedOK`), one for a step that changes only a
call (`CallStep`), one for a store write (`WriteStep`), one for the outbox
(`ExecuteStep`), and one case per action. `TrailsExplain` adds to `IInv` that every copy and
every stored item is `Explained`: the last judgement in its trail (a classification or a review) bears
its label, a person's exactly when it is a review. What an event is appended to is explained
afterwards because the new event either is the last judgement or leaves it where it was.

Assumptions: `ConfigAssumption` (what Validate accepts), `ServiceAssumption`
(the sets are what their names say), `NilAssumption` (`Nil` is none of the values
it stands beside).

`DirQueueProofs` proves, for every set of messages and receivers, every batch size,
attempt limit, number of crashes and runs:

    TypeCorrect              Spec => []TypeOK               under every fault
    NoMessageIsLost          Spec => []NothingLost          NoLosingFaults
    ClaimsAreExclusive       Spec => []ClaimedIsInvisible   Alone

`NoLosingFaults` excludes failing file operations and a crash inside `Nack`, nothing
else: a `Recover` beside running receivers may make a message be handled twice but never
loses it. The invariant is that an unprocessed message is in a directory or between
the two halves of a `Nack`; it needs that an `Ack` removes only what was processed.
`Alone` says that no receiver recovers or that there is only one, the boundary
`queue_stranded` shows from the other side. Its invariant adds that hands and directories
agree: what is in hand is in inflight with the attempts that were read, in one
directory at most, so a rename out of pending takes what nobody has. Names being
numbers, the oldest one is found by the library's well-foundedness of `<`.
`QueueAssumption` is assumed throughout.

It also proves where the local queue is what its users take it for. That is not the sharing of
`queue.go:41-42` as a whole: `Alone` leaves out a worker that starts beside another receiver, with which
`queue_stranded` refutes it, and failing file operations.

    TriesAreBounded            Alone => (Spec => []ExtraTriesAreCrashes)
    TheDirectoriesAreAQueue    Alone => (Spec => ImplementsContract)
    TheDeadWereHopeless        NobodyRecovers => (Spec => []DeadWasHopeless)
    SharersNeverCollide        NobodyRecovers => (Spec => []ClaimedIsInvisible)

`RetryInv` counts: the attempts in a message's file fall short of its tries by the crashes so far,
and by one while it is being tried. For `ImplementsContract` the mapping is read off place by place
(`ViewOK`): a file in pending is ready, in inflight claimed, in dead dead, one a `Nack` has in
hand is still claimed, and what is nowhere was acknowledged. The last two, without any recovering worker, hold under every fault,
failing writes and a crash inside a `Nack` included: `ShareInv` does without the agreement of hands
and directories and keeps only that one receiver at most has a message and that it is in
pending no more.

`LambdaWorkerProofs` proves, for every number of workers and messages, every batch size,
number of receives and timeouts:

    DeliveryTypeCorrect            DeliverySpec => []DeliveryOK
    WorkersImplementService        DeliverySpec => Spec
    DeployedStoreIsSound           DeliverySpec => [](DecisionCurrent /\ GateHolds /\ NothingClaimedUndone
                                                      /\ TrailExplains)
    NothingUnsettledIsForgotten    DeliverySpec => []ForgottenIsSettled     NoLostWrites
    OnlyFailuresAreDeadLettered    DeliverySpec => []DeadNeedsAttention     NoLostWrites

The third follows from the second and `ServiceProofs`. The fourth is about the system as a whole:
whether a record was acknowledged rightly depends on who else is at its ticket, and a
ticket that was settled can become received again when another worker's `Accept`
writes late. The invariant `Driven` therefore says who will still move a ticket: if it is classified,
somebody acts on it or a timeout stranded it; if it is not settled, some record that
carries it is `Open`, that is visible, dead, left, failed or in an unfinished call. Each
worker changes only its own part (`OthersRest`, `OpenKept`), and the one delicate step is
`ProcessDrives`: a delivery that is ignored leaves a ticket that is settled, stranded or
acted on by another. The fifth is its counterpart. `Answered` says of a settled ticket none of
whose records timed out that its trail has a failed action or some record that carries it is
`Acknowledged`: deleted, or begun in a batch that has not failed it. It rests on `Honest`, that a
call reports a failure only of an action the trail of its copy records; which record it is
changes when a later worker overwrites the item. `NoLostWrites` says that no write of the store fails; `DeliveryAssumption`
that each worker is a process of its own and the constants are of their kinds.

`OneProcessProofs` proves what `Service.mu` adds, under `OneService`, that every caller is in
one process:

    TrailsOnlyGrow             OneService => (Spec => AuditAppendOnly)
    VerdictsStand              OneService => (Spec => VerdictStands)
    CallsAreOneAfterAnother    OneService => (Spec => CallsAreAtomic)

`LockInv` strengthens `IInv`: at most one call is under way, and its copy continues what is stored,
the trail as a prefix and, unless it is a re-classification, the verdict. Two processes
break exactly this: the copy of one is then older than what the other has stored.

The third is the refinement of `Ledger`, where an item is entered once, judged, routed by the label it
carries and reviewed, each in one step. `Page` maps a stored item to its label, its decision while it is
settled and the keys of its executed actions. `AllForeseen` says that the copy each call holds, if it were
written now, would be one such step from what is stored: a fresh item where there is none; the
model's label with the stored keys; or the stored label, or a correction of it, with its own
decision and some of the actions that asks for beyond the stored ones. Beginning a call establishes
this, a turn of the loop extends it, and since nobody else writes meanwhile it holds when the Put comes,
so every write is a step of the ledger and everything else, crashes and Puts without effect
included, is none. With two processes TLC refutes it at once:
an `Accept` puts its fresh item over one that the other has classified meanwhile.

It is also about the local outbox of one process, under every fault:

    SinkImplementsService      SinkSpec => Spec
    TicketNumbersAreUnique     OneService => (SinkSpec => []NumbersAreUnique)
    NeverPagedTwice            OneService /\ DistinctActions => (SinkSpec => []PagesOnceUnlessLost)
    DefersToHuman              OneService => (SinkSpec => DefersUnlessLost)
    FeedsAreTheOutbox          OneService => (SinkSpec => []FeedIsOutbox)

The first carries `LockInv` over. `NumberInv` says that line m has number 1000 + m, so that a
number that was counted stays the next one while its caller holds the lock, a torn line included.
`Accounted` says, of an item none of whose Puts was lost, that each action was sent once and that the
copy under way, or else the stored item, has the key of every one: what was sent and what
is recorded never drift apart; `Recorded` has the feed rebuilt from the trail in it. `TriedInv` says how far through its
decision's actions a copy has come: each before the loop's index was executed or is in its trail as failed, so that an
item once written at the end has all of them, and `DefersToHuman` reads it off where a delivery is ignored.
`RecordsInv` compares what was written with what can be read: it is the same for an item without a glued line, and
less for the others; with `Accounted`, the last theorem reads it off at rest. The feed is a recursive function: what it yields for a trail with one more event
(`FeedAppend`) is proved by the least length at which it would be wrong. `DistinctActions` says that no two rules list an action of the same type
and target, which `config.Validate` does not ask and the shipped rules satisfy; a person
sees two rules' actions on one target as one action repeated.

`IngestProofs` proves, for any number of callers and processes, files, payloads and faults:

    EntrancesImplementService  IngestSpec => Spec
    QueuedOnce                 IngestSpec => []NoSecondMessage
    NobodyWaitsUnseen          IngestSpec => []ReceivedIsDriven
    AnswersAreOwn              IngestSpec => []AnsweredForItsOwn
    ScannedIsAccountedFor      IngestSpec => []FilesAccountedFor
    EntranceTypesCorrect       IngestSpec => []IngestOK
    FormsBecomeTickets         IngestSpec => FormsAreTickets

`ShapeInv` ties each caller's stage to the call it may have under way and to what it has listed and received, and
keeps the queue's numbers among those sent; that a message is in one hand only is not claimed, as a `Recover` may put it
into two. `OnceInv` is the argument for "a no-op": from the moment accept finds a ticket absent
until its message is sent, the caller *claims* it, and within one process no other caller
claims it and no message carries it, since both would have stored it before. What the lock does
not cover, the Send after it, needs nothing more. `DriveInv` calls a message *open* while it is somewhere, in a directory, between the halves
of a Nack or lost, and no `Process` on it by any caller has written the item; it shows that a received ticket has one, is about to get one, or is
in `dropped`. Only an Ack takes a message away for good, and only after a Process that found the item past received or
made it so. `AnswersInv` keeps under each ID the ticket it is the ID of, however many processes accept it at
once; `FilesInv` follows a file's answer to the directory it is moved to (`refused` only grows). `TidyInv` says what a caller
holds at each stage. `FormsBecomeTickets` is about text of any length:
`TrimSpace` takes only blank lines (`TrimKeepsWords`, from the first and the last line that is not blank),
`Kept`, a recursive function, keeps what it is told to and nothing else (`KeptOnly`, by the
least length at which it would not), so the normalized body has the form's words. Assumed are
`IngestAssumption` (the constants are of their kinds), `FormsAssumption` (a form's message is a sequence of
lines) and `IdsAssumption` (`Ids` has the IDs of
everything that can come in); `TicketID` is injective by its definition, as section 2 says.

`FrontEndsProofs` proves, for any number of processes, callers, sandboxes and tickets, whatever
expires, fails or dies:

    FrontTypesCorrect            FrontSpec => []FrontOK
    VerdictsYieldOnlyToRivals    FrontSpec => VerdictYieldsToRivalsOnly
    ReviewsAreAllowed            FrontSpec => []ReviewedByOneWhoMay
    SandboxesLast                FrontSpec => []SignedInKeepsTickets     ExpiryOutlivesSessions

Items expire, so `FrontSpec` is no refinement of `Service`; `IInv` holds of it all the same, since that an
item is hidden breaks none of its parts. `Begins`, `WentOn` and `WroteOrNot` say what each step
does to calls and items, whoever takes it. `VInv`: the copy of a call that no other has
overtaken has the stored item's expiry and verdict. `RInv`: the verdict a call holds, like the
stored one, was asked for by one who may; the item `getOwned` saw and the one that is reviewed
share an ID, and an ID has one workspace. `KInv`: every expiry is past the end of the session
whose sandbox it is in, so a ticket that was accepted is stored or its session is over, and
a message that comes afterwards makes it anew for nobody. `ExpiryOutlivesSessions` says that
the default and every `ICR_SANDBOX_TTL` that is set exceed the session's length, as in
`template.yaml`; nothing in the code checks it, and a shorter one does break the promise.

*Model-checked only:*

- `NeverPagesTwice`, `LowConfidenceDefers` and `QueuedMeansSent`, which the repository claims and
  the code does not keep: TLC refutes them (section 3).
- `EveryMessageEnds`, `EveryTicketSettles`, `EverythingLands`: liveness is out of the prover's reach, as are
  ENABLED.

## 5. Plan

Done: all modules of section 2, with proofs about each. Left, in
this order:

1. *An at-least-once queue*, an abstract specification for SQS beside `Queue`, which the messages
   of `LambdaWorker` refine: there a timeout returns a whole batch.
2. *The model's answer as text:* the outermost braces and the number formats `ParseModelOutput`
   accepts; and `icr reset` beside running processes.

## 6. Not modelled

- *Text.* Which keywords occur in a text, summaries, prompts, the choice of a KB article,
  HTML, JSON and JSON-RPC framing: no property is about them. What decoding *yields* is modelled
  where it matters: payloads, forms, and answers outside the taxonomy.
- *Remote calls.* Bedrock, S3, DynamoDB and SQS requests are answers or errors; their construction
  (`awsapp/app.go`, `cmd/lambda`) has no state.
- *Refusals before anything happens.* Tokens, origins, sizes, cookie signatures (taken to be
  unforgeable), and the HTTP adapter `httplambda/adapter.go`, which converts requests.
- *Deletion of everything.* `icr reset` removes the data directory under whoever runs.
- *Queries.* List, Stats, Preview, the feed's and the dashboard's pages change nothing; the feed's
  content is `FeedIsOutbox`.
- `internal/testutil` and the tests themselves.

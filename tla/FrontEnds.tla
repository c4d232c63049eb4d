----------------------------- MODULE FrontEnds -----------------------------
(***************************************************************************)
(* Who may ask the service for what, and for how long: the dashboard's     *)
(* sessions and sandboxes (internal/dashboard/auth.go, server.go,          *)
(* submit.go), the write tools an operator enables for an agent            *)
(* (internal/mcp/server.go), icr (cmd/cli/main.go), the worker, and the    *)
(* expiry of sandbox items in the stores (internal/store).                 *)
(*                                                                         *)
(* Each front end is a process of its own over one store.  A step is       *)
(* Service's, a step of a front end around a call, or the passing of time. *)
(* Service's store is here what Get returns: an item that has expired is   *)
(* Nil, deleted or not.  A message of the queue may come at any time, any  *)
(* number of times and however late: redelivered, delayed or redriven by   *)
(* hand from the dead-letter queue.                                        *)
(*                                                                         *)
(* Left out: requests that are refused before they reach the service (a    *)
(* wrong password, a foreign origin, a blank reviewer or note, arguments   *)
(* that do not decode), which change nothing; signing out, by which only a *)
(* browser forgets something; and icr reset.                               *)
(***************************************************************************)
EXTENDS Service

CONSTANTS
  FrontOf,    \* what each caller serves: "dashboard", "icr" or "worker"
  Workspaces, \* the sandbox IDs sign-ins can draw
  AllowSpecs, \* the -allow-write lists an agent's server may be started with
  SessionTTL, DefaultTTL,  \* in units of half a day
  SandboxTTL, \* each process's ICR_SANDBOX_TTL, 0 where it is not set
  MaxClock,   \* bound: the time modelled
  MaxFailures \* bound: Puts that fail and processes that die

ASSUME FrontEndsAssumption ==
  /\ FrontOf \in [Threads -> {"dashboard", "icr", "worker"}]
  /\ "" \notin Workspaces /\ Nil \notin Nat
  /\ {SessionTTL, DefaultTTL, MaxClock, MaxFailures} \subseteq Nat \ {0}
  /\ \A t \in Threads : SandboxTTL[ProcOf[t]] \in Nat

(* WriteToolNames; ParseAllowWrite refuses any other name *)
WriteTools == {"route_item", "reclassify", "approve"}

ASSUME AllowAssumption == AllowSpecs \subseteq SUBSET WriteTools

VARIABLES
  sandboxes, \* whether the dashboard gives every sign-in a sandbox
  locked,    \* whether it has a password
  allow,     \* the write tools the agent's server was started with
  home,      \* the workspace each ticket's ID was made for
  clock,
  until,     \* of each workspace, when its session ends, Nil before it is drawn
  expires,   \* of each stored item, Nil for never
  due,       \* the expiry in the copy each call works on
  request,   \* the dashboard's request a caller serves
  mail,      \* IDs a message was sent for
  told,      \* history: IDs a visitor was redirected to
  by,        \* history: who has asked for a review of each item
  behind,    \* history: calls whose item another call has written since their Get
  failures

deployment == <<sandboxes, locked, allow, home>>
session == <<clock, until>>
lives == <<expires, due, behind>>
fronts == <<deployment, session, lives, request, mail, told, by, failures>>
world == <<vars, fronts>>

Shared == ""

(* New refuses sandboxes without a password: the session carries them *)
FrontInit ==
  /\ Init
  /\ sandboxes \in BOOLEAN /\ locked \in BOOLEAN
  /\ sandboxes => locked
  /\ allow \in AllowSpecs
  /\ home \in [Ids -> IF sandboxes THEN Workspaces ELSE {Shared}]
  /\ clock = 0
  /\ until = [ws \in Workspaces \cup {Shared} |-> Nil]
  /\ expires = [id \in Ids |-> Nil]
  /\ due = [t \in Threads |-> Nil]
  /\ request = [t \in Threads |-> Nil]
  /\ mail = {} /\ told = {} /\ behind = {}
  /\ by = [id \in Ids |-> {}]
  /\ failures = 0

Fails == failures < MaxFailures /\ failures' = failures + 1

-----------------------------------------------------------------------------
(* Sessions                                                                *)

(* login: every sign-in gets a fresh sandbox, or the shared workspace *)
LogIn(ws) ==
  /\ locked
  /\ IF sandboxes THEN ws \in Workspaces /\ until[ws] = Nil ELSE ws = Shared
  /\ until' = [until EXCEPT ![ws] = clock + SessionTTL]
  /\ UNCHANGED <<vars, deployment, clock, lives, request, mail, told, by, failures>>

(* requireAuth, and parse on the cookie: without a password everyone is in *)
SignedIn(ws) ==
  IF locked THEN until[ws] # Nil /\ clock <= until[ws] ELSE ws = Shared

-----------------------------------------------------------------------------
(* Lives of items                                                          *)

NewExpiryUndefaulted(t, id) ==
  IF home[id] = Shared THEN Nil ELSE clock + SandboxTTL[ProcOf[t]]

NewExpiryForAll(t, id) ==
  LET ttl == SandboxTTL[ProcOf[t]]
  IN clock + (IF ttl = 0 THEN DefaultTTL ELSE ttl)

(* newItem *)
NewExpiry(t, id) ==
  LET ttl == SandboxTTL[ProcOf[t]]
  IN IF home[id] = Shared THEN Nil
     ELSE clock + (IF ttl = 0 THEN DefaultTTL ELSE ttl)

Over(expiry, now) == expiry # Nil /\ now >= expiry

(* Time passes: Get and List hide what has expired *)
Tick ==
  /\ clock < MaxClock
  /\ clock' = clock + 1
  /\ store' = [id \in Ids |-> IF Over(expires[id], clock') THEN Nil ELSE store[id]]
  /\ UNCHANGED <<outbox, call, calls, deployment, until, lives, request, mail, told, by, failures>>

(* A call that has begun works on a new item or on a copy with its expiry *)
Carries(t, id) ==
  /\ due' = [due EXCEPT ![t] = IF call'[t].pc = "idle" THEN Nil
                               ELSE IF store[id] = Nil THEN NewExpiry(t, id)
                               ELSE expires[id]]
  /\ UNCHANGED <<expires, behind, failures>>

(* A Put writes the item with the expiry it was read with, and the other   *)
(* calls on that item are behind.                                          *)
Writes(t) ==
  /\ expires' = [expires EXCEPT ![call[t].id] = due[t]]
  /\ behind' = {u \in behind \cup {v \in Threads : call[v].id = call[t].id /\ v # t} :
                  call'[u].pc # "idle"}
  /\ UNCHANGED due

Live(t) == call[t].pc # "idle" /\ ~Over(due[t], clock)

Puts(t) ==
  /\ Live(t)
  /\ PutAccepted(t) \/ PutClassified(t) \/ PutRouted(t)
  /\ Writes(t)

(* The same on a copy that has expired meanwhile: what is stored is hidden *)
PutsExpired(t) ==
  /\ call[t].pc # "idle" /\ ~Live(t)
  /\ \/ call[t].pc = "accepting" /\ Return(t, "ok")
     \/ /\ call[t].pc = "classified"
        /\ call' = [call EXCEPT ![t] = [call[t] EXCEPT !.pc = "acting",
                                                       !.item = Routed(call[t].item)]]
     \/ LoopDone(t) /\ Return(t, IF call[t].failed THEN "error" ELSE "ok")
  /\ store' = [store EXCEPT ![call[t].id] = Nil]
  /\ UNCHANGED <<outbox, calls>>
  /\ Writes(t)

PutErrs(t) ==
  /\ Live(t) /\ PutFails(t) /\ Fails
  /\ \/ store'[call[t].id] = call[t].item /\ Writes(t)
     \/ store' = store /\ behind' = behind \ {t} /\ UNCHANGED <<expires, due>>

Acts(t) == (Skip(t) \/ Execute(t) \/ ExecuteFails(t)) /\ UNCHANGED lives

Goes(t) ==
  /\ \/ (Puts(t) \/ PutsExpired(t) \/ Acts(t)) /\ UNCHANGED failures
     \/ PutErrs(t)
  /\ UNCHANGED <<deployment, session, request, mail, told, by>>

Dies(t) ==
  /\ Crash(ProcOf[t]) /\ Fails
  /\ behind' = {u \in behind : call'[u].pc # "idle"}
  /\ request' = [u \in Threads |-> IF ProcOf[u] = ProcOf[t] THEN Nil ELSE request[u]]
  /\ UNCHANGED <<expires, due, deployment, session, mail, told, by>>

-----------------------------------------------------------------------------
(* The dashboard                                                           *)

Request == [kind: {"submit", "review"}, ws: Workspaces \cup {Shared}, id: Ids]

(* index: List with the session's workspace, where "" means any *)
Listed(ws) == {id \in Stored : ws = Shared \/ home[id] = ws}

GetOwnedByAnyone(ws, id) == store[id] # Nil

(* getOwned *)
GetOwned(ws, id) ==
  /\ store[id] # Nil
  /\ ws = Shared \/ home[id] = ws
  /\ ~(ws = Shared /\ sandboxes)

Serves(t, kind, ws, id) ==
  /\ FrontOf[t] = "dashboard"
  /\ request[t] = Nil
  /\ SignedIn(ws)
  /\ request' = [request EXCEPT ![t] = [kind |-> kind, ws |-> ws, id |-> id]]
  /\ UNCHANGED <<deployment, session, mail, told, by>>

(* submit, up to the end of accept *)
Submits(t, ws, id) ==
  /\ home[id] = ws
  /\ Serves(t, "submit", ws, id)
  /\ Accept(t, id) /\ Carries(t, id)

Answered(t) == request[t] # Nil /\ call[t].pc = "idle"

(* The message is sent and the visitor redirected to the item's page; a    *)
(* duplicate is only redirected, an error is shown.                        *)
Redirects(t) ==
  /\ Answered(t) /\ request[t].kind = "submit"
  /\ LET id == request[t].id
     IN /\ mail' = IF call[t].result = "ok" THEN mail \cup {id} ELSE mail
        /\ told' = IF call[t].result \in {"ok", "duplicate"} THEN told \cup {id} ELSE told
  /\ request' = [request EXCEPT ![t] = Nil]
  /\ UNCHANGED <<vars, deployment, session, lives, by, failures>>

(* approve and override, up to getOwned *)
Opens(t, ws, id) ==
  /\ GetOwned(ws, id)
  /\ Serves(t, "review", ws, id)
  /\ UNCHANGED <<vars, lives, failures>>

(* A review is asked for; what it will do is the service's to decide *)
Asks(t, front, ws, id) ==
  by' = IF call'[t].pc = "idle" THEN by
        ELSE [by EXCEPT ![id] = @ \cup {[front |-> front, ws |-> ws]}]

Reviews(t, id) == \/ Approve(t, id)
                  \/ \E l \in Labels : Override(t, id, l[1], l[2])

(* The rest of approve and override: the service reads the item again *)
ReviewsOpened(t) ==
  /\ request[t] # Nil /\ request[t].kind = "review"
  /\ LET id == request[t].id
     IN Reviews(t, id) /\ Carries(t, id) /\ Asks(t, "dashboard", request[t].ws, id)
  /\ request' = [request EXCEPT ![t] = Nil]
  /\ UNCHANGED <<deployment, session, mail, told>>

-----------------------------------------------------------------------------
(* The agent's server and icr                                              *)

AnyTool(tool) == tool \in WriteTools

(* enabled, of a tool that writes *)
Enabled(tool) == tool \in allow

Classifies(t, id) == \E a \in Answers : Reclassify(t, id, a, FALSE)

(* callTool: route_item, reclassify, and approve with or without labels *)
AgentCalls(t, id) ==
  /\ FrontOf[t] = "icr"
  /\ \/ Enabled("route_item") /\ RouteItem(t, id) /\ UNCHANGED by
     \/ Enabled("reclassify") /\ Classifies(t, id) /\ UNCHANGED by
     \/ Enabled("approve") /\ Reviews(t, id) /\ Asks(t, "mcp", Shared, id)
  /\ Carries(t, id)
  /\ UNCHANGED <<deployment, session, request, mail, told>>

(* icr classify, route and review, for a person at a terminal; a dashboard *)
(* without sandboxes over the same store does the last one as well.        *)
PersonCalls(t, id) ==
  /\ FrontOf[t] = "icr"
  /\ \/ Classifies(t, id) /\ UNCHANGED by
     \/ RouteItem(t, id) /\ UNCHANGED by
     \/ Reviews(t, id) /\ Asks(t, "cli", Shared, id)
  /\ Carries(t, id)
  /\ UNCHANGED <<deployment, session, request, mail, told>>

(* A worker on a message *)
Delivers(t, id) ==
  /\ FrontOf[t] = "worker"
  /\ id \in mail
  /\ ProcessIgnored(t, id) \/ \E a \in Answers : Process(t, id, a, FALSE)
  /\ Carries(t, id)
  /\ UNCHANGED <<deployment, session, request, mail, told, by>>

FrontNext ==
  \/ Tick
  \/ \E ws \in Workspaces \cup {Shared} : LogIn(ws)
  \/ \E t \in Threads :
       \/ Goes(t) \/ Dies(t) \/ Redirects(t) \/ ReviewsOpened(t)
       \/ \E id \in Ids :
            \/ \E ws \in Workspaces \cup {Shared} : Submits(t, ws, id) \/ Opens(t, ws, id)
            \/ AgentCalls(t, id) \/ PersonCalls(t, id) \/ Delivers(t, id)

FrontSpec == FrontInit /\ [][FrontNext]_world

-----------------------------------------------------------------------------
(* Types: besides Service's, what the front ends keep.                     *)
FrontOK ==
  /\ TypeOK
  /\ until \in [Workspaces \cup {Shared} -> 0 .. MaxClock + SessionTTL \cup {Nil}]
  /\ request \in [Threads -> Request \cup {Nil}]
  /\ \A id \in Ids : expires[id] # Nil => home[id] # Shared

(* A sandbox lasts as long as its session (auth.go:19, pipeline.go:125-132, *)
(* template.yaml:61): while a visitor is signed in, every ticket they were  *)
(* redirected to is on their front page and opens, whatever the worker, an  *)
(* agent, a failed write or the clock did to it meanwhile.                  *)
SignedInKeepsTickets ==
  \A id \in told :
    SignedIn(home[id]) => id \in Listed(home[id]) /\ GetOwned(home[id], id)

MayReview(reviewer, id) ==
  CASE reviewer.front = "cli"       -> TRUE
    [] reviewer.front = "mcp"       -> "approve" \in allow
    [] reviewer.front = "dashboard" -> reviewer.ws = home[id] /\ (sandboxes => reviewer.ws # Shared)

(* An item passes as human-verified only after a review by one who may give *)
(* it: a visitor in the item's own sandbox (server.go:231-244), whoever     *)
(* sits at icr, or an agent whose server was started with the approve tool  *)
(* (mcp/server.go:273), although approve checks one copy of the item and    *)
(* reviews another, and late messages make items anew.                      *)
ReviewedByOneWhoMay ==
  \A id \in Ids :
    /\ Verified(store[id]) => by[id] # {}
    /\ \A reviewer \in by[id] : MayReview(reviewer, id)

(* A verdict is given up only to a new classification somebody asked for,   *)
(* to the end of the sandbox, or to a call of another process that had read *)
(* the item before the verdict was written (pipeline.go:172-174, :310): a   *)
(* message that comes after it never undoes it, in whichever process.       *)
VerdictYieldsToRivalsOnly ==
  [][\A id \in Ids : Verified(store[id]) /\ ~Verified(store'[id]) =>
       \/ clock' # clock
       \/ \E t \in Threads : call[t].id = id /\ (call[t].op = "reclassify" \/ t \in behind)]_world
=============================================================================

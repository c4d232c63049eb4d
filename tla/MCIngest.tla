------------------------------ MODULE MCIngest ------------------------------
(***************************************************************************)
(* A worker with its webhook in one process, and beside it icr or the      *)
(* dashboard, over one ticket in several spellings, the same words in a    *)
(* sandbox, and something that is no ticket.  Every ticket is deferred:    *)
(* what the actions add is Outbox's, here a failing one would be a Nack    *)
(* like any other, for which a failing Get and a failing Put stand.        *)
(***************************************************************************)
EXTENDS Ingest, Rivergate

CONSTANTS w, h, d

ThreeCallers == w :> {"worker"} @@ h :> {"webhook"} @@ d :> {"submit", "cli"}
TwoProcesses == w :> "worker" @@ h :> "worker" @@ d :> "desk"

LOCAL Mail ==
  [EmptyPayload EXCEPT !.channel = Clean("email"),
                       !.from = [name |-> "Ann", address |-> Clean(<<"ann">>), parses |-> TRUE],
                       !.subject = <<"help">>, !.body = <<"down", "", "again">>]

LOCAL Untidy(value) == [value |-> value, tidy |-> FALSE]

(* The same mail as another client would post it *)
LOCAL Respelled ==
  [Mail EXCEPT !.channel = Untidy("email"), !.from.name = "ann", !.from.address = Untidy(<<"ann">>),
               !.body = <<"", "down", "", "again", "">>]

LOCAL NoWords == [Mail EXCEPT !.subject = <<"">>, !.body = <<"", "">>]

LOCAL Saying(from, text) == [from |-> from, text |-> text]

LOCAL Chat ==
  [EmptyPayload EXCEPT !.channel = Clean("chat"), !.customer = Clean(<<"ann">>),
                       !.transcript = << Saying("agent", "hello"), Saying("customer", "down"),
                                         Saying("customer", "again") >>]

MCPayloads == {Respelled, NoWords}

MCFiles == {Mail, NoWords}

LOCAL Fields(channel) ==
  [mode |-> "fields", file |-> EmptyPayload, json |-> EmptyPayload, channel |-> channel,
   name |-> "Ann", email |-> Clean(<<"ann">>), subject |-> <<"help">>,
   message |-> <<"down", "", "again">>]

LOCAL Pasted == [Fields("email") EXCEPT !.mode = "json", !.json = Mail]

MCForms == {<<"", Fields("chat")>>, <<"visitor", Pasted>>}

LOCAL IDs(payload, workspace) == {TicketID(Normalize(payload, workspace))}

MCIds == IDs(Mail, "") \cup IDs(Mail, "visitor") \cup IDs(Chat, "")

LOCAL Says(category, priority, confidence) ==
  [category |-> category, priority |-> priority, confidence |-> confidence,
   human_verified |-> FALSE]

MCAnswers == {Says("spam", "low", 90)}
=============================================================================

------------------------------- MODULE Ticket -------------------------------
(***************************************************************************)
(* Normalization (internal/ingest/ticket.go) and the dashboard's form      *)
(* (internal/dashboard/submit.go): the payload of every channel to one     *)
(* ticket, and a ticket to its ID.                                         *)
(*                                                                         *)
(* Text is a sequence of lines, "" a blank one.  What Normalize tidies up  *)
(* (capitals, spaces around it) is a value with a flag.  The ID is what    *)
(* TicketID hashes.  Left out: collisions of its 32 bits; names,           *)
(* companies, times and the entry point, which it does not hash; the       *)
(* shortening of a chat's first line; sizes.                               *)
(***************************************************************************)
EXTENDS Sequences, FiniteSetsExt

Channels == {"email", "chat", "webform"}

Invalid == [id |-> "ErrInvalid"]

Clean(value) == [value |-> value, tidy |-> TRUE]

(* The union of the channels' payloads.  One that does not decode has a     *)
(* channel that is none of the three.                                       *)
EmptyPayload ==
  [channel |-> Clean("none"),
   from |-> [name |-> "", address |-> Clean(<<>>), parses |-> FALSE],
   subject |-> <<>>, body |-> <<>>,
   customer |-> Clean(<<>>), transcript |-> <<>>,
   email |-> Clean(<<>>), topic |-> <<>>, message |-> <<>>]

TrimSpace(text) ==
  LET words == {n \in DOMAIN text : text[n] # ""}
  IN IF words = {} THEN <<>> ELSE SubSeq(text, Min(words), Max(words))

(* A header that is no address becomes one, whole *)
ParseFrom(from) ==
  IF from.parses THEN from.address
  ELSE [from.address EXCEPT !.value = IF from.name = "" THEN @ ELSE <<from.name>> \o @]

FirstLine(text) == IF text = <<>> THEN <<>> ELSE <<Head(text)>>

(* The elements of s that are in some, in their order *)
Kept(s, some) ==
  LET kept[n \in 0 .. Len(s)] ==
        IF n = 0 THEN <<>>
        ELSE IF s[n] \in some THEN Append(kept[n - 1], s[n])
        ELSE kept[n - 1]
  IN kept[Len(s)]

(* What the customer said *)
Said(transcript) ==
  LET lines == Kept(transcript, {line \in Range(transcript) : line.from = "customer"})
  IN [n \in DOMAIN lines |-> lines[n].text]

Normalize(payload, workspace) ==
  LET channel == payload.channel.value
      email == CASE channel = "email" -> ParseFrom(payload.from)
                 [] channel = "chat"  -> payload.customer
                 [] OTHER             -> payload.email
      body == CASE channel = "email" -> payload.body
                [] channel = "chat"  -> Said(payload.transcript)
                [] OTHER             -> payload.message
      subject == CASE channel = "email" -> payload.subject
                   [] channel = "chat"  -> FirstLine(body)
                   [] OTHER             -> payload.topic
  IN IF channel \notin Channels \/ (TrimSpace(subject) = <<>> /\ TrimSpace(body) = <<>>)
     THEN Invalid
     ELSE [channel |-> channel, email |-> email, subject |-> TrimSpace(subject),
           body |-> TrimSpace(body), workspace |-> workspace]

TicketIDAnyWorkspace(t) ==
  [channel |-> t.channel, email |-> t.email.value, subject |-> t.subject, body |-> t.body]

TicketID(t) ==
  [channel |-> t.channel, email |-> t.email.value, subject |-> t.subject, body |-> t.body,
   workspace |-> t.workspace]

-----------------------------------------------------------------------------
(* The dashboard's submission: an uploaded file, pasted JSON or the fields  *)
(* of a form; the payload they stand for, or Invalid                        *)

SpeakerIsNamed(form) == form.name

(* Who speaks in a transcript made of the message's lines *)
Speaker(form) == "customer"

FromFields(form) ==
  CASE form.channel = "email" ->
         [EmptyPayload EXCEPT
            !.channel = Clean("email"),
            !.from = [name |-> IF form.email.value = <<>> THEN "" ELSE form.name,
                      address |-> form.email, parses |-> form.email.value # <<>>],
            !.subject = form.subject,
            !.body = form.message]
    [] form.channel = "chat" ->
         LET lines == Kept(form.message, Range(form.message) \ {""})
         IN [EmptyPayload EXCEPT
               !.channel = Clean("chat"),
               !.customer = form.email,
               !.transcript = [n \in DOMAIN lines |-> [from |-> Speaker(form), text |-> lines[n]]]]
    [] OTHER ->
         [EmptyPayload EXCEPT
            !.channel = Clean("webform"),
            !.email = form.email,
            !.topic = form.subject,
            !.message = form.message]

SubmissionPayload(form) ==
  CASE form.mode = "json" /\ form.file # EmptyPayload -> form.file
    [] form.mode = "json" /\ form.file = EmptyPayload -> form.json
    [] form.mode = "fields" /\ TrimSpace(form.message) = <<>> -> EmptyPayload
    [] form.mode = "fields" /\ TrimSpace(form.message) # <<>> -> FromFields(form)
=============================================================================

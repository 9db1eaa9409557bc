------------------------------- MODULE Sending -------------------------------
(***************************************************************************)
(* The RPCs that send something through a session (server/messages.go,     *)
(* server/buttons.go) from their arrival to their reply: GoWS.SendMessage  *)
(* and GoWS.MarkRead (gows/gows.go), the broadcast of a status in batches  *)
(* (gows/status.go), votes in newsletters (gows/newsletter.go) and the     *)
(* unary interceptors (main.go, wrpc/interceptors.go).                     *)
(*                                                                         *)
(* What is sent is announced to the session's own streams and storage as   *)
(* if it had been received.  A call has three witnesses: the recipients,   *)
(* the announcement and the reply; a failed batch, a lost acknowledgement  *)
(* or the deadline may set them against each other.                        *)
(***************************************************************************)
EXTENDS Naturals, Sequences, FiniteSets, SequencesExt, Subsequences

CONSTANTS Calls,      \* RPCs
          Kinds,      \* a bound: the kinds of RPC each call may be
          Places,     \* a bound: where to: "chat", "status", "newsletter"
          ClientIds,  \* message ids given by clients
          FreshIds,   \* what GenerateMessageID yields
          Audience,   \* the status list WhatsApp returns, the own id at its end
          Lists,      \* the lists of participants clients give, <<>>: none
          Users,      \* the participants on types.DefaultUserServer
          BatchSize,  \* StatusParticipantsBatchSize (5000)
          Null

AllKinds == {"text", "media", "plain", "vote", "reaction", "markRead", "revoke",
             "edit", "buttons", "buttonReply", "cancelEvent"}

ASSUME KindsAssumption ==
    Kinds \in [Calls -> SUBSET AllKinds] /\ Places \subseteq {"chat", "status", "newsletter"}
ASSUME IdsAssumption ==
    /\ ClientIds \cap FreshIds = {} /\ Null \notin ClientIds \cup FreshIds
    /\ Null \notin {"ok", "error", "panic", "deadline"}
ASSUME BatchAssumption == BatchSize \in Nat \ {0} /\ <<>> \in Lists
ASSUME ListsAssumption ==
    /\ \A list \in Lists \cup {Audience} : list \in Seq(ToSet(list))
    /\ Audience # <<>> /\ Last(Audience) \in Users

VARIABLES
    pc,         \* of a call
    req,        \* its request
    id,         \* the id of the message it sends
    batches,    \* the batches of a status still to be sent
    tried,      \* those it has sent: the participants, the id, the outcome
    result,     \* what the handler returns: "ok", "error" or "panic"
    expired,    \* the calls whose deadline has passed
    reply,      \* what the client gets: "ok", "error" or "deadline"
    accepted,   \* history: [by, id, to], what WhatsApp took
    announced   \* [by, id]: `go gows.handleEvent(evt)`

outcome == <<accepted, announced>>
vars == <<pc, req, id, batches, tried, result, expired, reply, outcome>>

Requests ==
    {q \in [kind : AllKinds, to : Places, id : ClientIds \cup {Null}, list : Lists,
            hint : BOOLEAN] :   \* the client names the newsletter's server id
        /\ q.id # Null => q.kind \in {"text", "media", "plain", "vote", "markRead"}
        /\ q.list # <<>> => q.kind \in {"text", "media", "plain", "vote", "revoke"}
        /\ q.kind = "markRead" => q.id # Null
        /\ q.hint => q.to = "newsletter" /\ q.kind \in {"vote", "reaction"}}

InNewsletter(q) == q.to = "newsletter" /\ q.kind \in {"vote", "reaction"}
IsStatus(q) == q.to = "status" /\ q.kind # "markRead"

Init ==
    /\ pc = [c \in Calls |-> "new"]
    /\ req = [c \in Calls |-> Null]
    /\ id = [c \in Calls |-> Null]
    /\ batches = [c \in Calls |-> <<>>]
    /\ tried = [c \in Calls |-> <<>>]
    /\ result = [c \in Calls |-> Null]
    /\ expired = {}
    /\ reply = [c \in Calls |-> Null]
    /\ accepted = {} /\ announced = {}

-----------------------------------------------------------------------------
(* What each RPC does before it sends, in order: every call that can fail. *)
SendMessageSteps(q) ==
    (IF q.kind = "vote" THEN <<>> ELSE <<"settings">>) \o <<"quote">>
    \o (IF q.kind = "media" THEN <<"file">> ELSE <<>>) \o <<"participants">>

TextSteps == <<"preview", "color">>

\* Polls, events, contacts, lists and locations: nothing that can fail.
PlainSteps == <<>>

MediaSteps == <<"upload", "thumbnail">>

VoteSteps(q) ==
    IF q.to # "newsletter" THEN <<"poll", "encrypt">>
    ELSE IF q.hint THEN <<>> ELSE <<"poll">>

ReactionSteps(q) ==
    IF q.to # "newsletter" THEN <<"sender">>
    ELSE IF q.hint THEN <<>> ELSE <<"serverId">>

MarkReadSteps == <<"sender", "type">>

RevokeSteps == <<"author", "participants">>

EditSteps == <<"preview">>

ButtonsSteps == <<"upload">>

ButtonReplySteps == <<"quote">>

CancelEventSteps == <<"event", "update">>

Preparation(q) ==
    <<"session">> \o
    CASE q.kind = "text" -> SendMessageSteps(q) \o TextSteps
      [] q.kind = "media" -> SendMessageSteps(q) \o MediaSteps
      [] q.kind = "vote" -> SendMessageSteps(q) \o VoteSteps(q)
      [] q.kind = "plain" -> SendMessageSteps(q) \o PlainSteps
      [] q.kind = "reaction" -> ReactionSteps(q)
      [] q.kind = "markRead" -> MarkReadSteps
      [] q.kind = "revoke" -> RevokeSteps
      [] q.kind = "edit" -> EditSteps
      [] q.kind = "buttons" -> ButtonsSteps
      [] q.kind = "buttonReply" -> ButtonReplySteps
      [] q.kind = "cancelEvent" -> CancelEventSteps

(* Steps whose error is logged, or dropped, and the call goes on.          *)
Advisory == {"settings", "quote", "preview", "thumbnail", "update"}

(* Steps that may panic: the reply to a message stored without content, or a
   vote on one, the cancellation of what is not an event, and the revocation
   of an own message on a device that is not paired.                       *)
Panicking == {"quote", "poll", "event", "author"}

\* Call c arrives at its handler.
Receive(c, q) ==
    /\ pc[c] = "new"
    /\ q.kind \in Kinds[c]
    /\ pc' = [pc EXCEPT ![c] = "preparing"]
    /\ req' = [req EXCEPT ![c] = q]
    /\ id' = [id EXCEPT ![c] = q.id]
    /\ UNCHANGED <<batches, tried, result, expired, reply, outcome>>

Return(c, r) == /\ pc' = [pc EXCEPT ![c] = "returning"]
                /\ result' = [result EXCEPT ![c] = r]

\* The image of a link preview of high quality is uploaded with the context of
\* the session, which ends with the session and not before: neither the deadline
\* of the call nor the six seconds for the rest of the preview end it.
UploadPreview(c) ==
    /\ pc[c] = "preparing"
    /\ "preview" \in ToSet(Preparation(req[c]))
    /\ pc' = [pc EXCEPT ![c] = "uploading"]
    /\ UNCHANGED <<req, id, batches, tried, result, expired, reply, outcome>>

\* The upload ends, or fails: AddLinkPreviewSafe logs that and goes on.
UploadReturns(c) ==
    /\ pc[c] = "uploading"
    /\ pc' = [pc EXCEPT ![c] = "uploaded"]
    /\ UNCHANGED <<req, id, batches, tried, result, expired, reply, outcome>>

Ready(c) == pc[c] \in {"preparing", "uploaded"}

\* The k-th step of call c is still ahead of it.
Ahead(c, k) == pc[c] = "uploaded" =>
                   \E j \in 1..(k - 1) : Preparation(req[c])[j] = "preview"

\* A step fails.  The steps before it were done, or failed without consequence;
\* they share nothing with other calls.
Refuse(c) ==
    /\ Ready(c)
    /\ \E k \in DOMAIN Preparation(req[c]) :
          LET step == Preparation(req[c])[k] IN
          /\ Ahead(c, k)
          /\ \/ step \notin Advisory /\ Return(c, "error")
             \/ step \in Panicking /\ Return(c, "panic")
    /\ UNCHANGED <<req, id, batches, tried, expired, reply, outcome>>

-----------------------------------------------------------------------------
\* GenerateMessageID, when the client gave no id, and always in newsletters.
MessageId(c) ==
    IF id[c] # Null /\ ~InNewsletter(req[c]) THEN {id[c]} ELSE FreshIds \ {id[o] : o \in Calls}

\* WhatsApp takes message m for all of these recipients, or for none.  It may
\* take it and the library still report an error: no acknowledgement in time.
Deliver(c, m, recipients, ok) ==
    \/ accepted' = accepted \cup {[by |-> c, id |-> m, to |-> u] : u \in recipients}
    \/ ~ok /\ UNCHANGED accepted

\* `go gows.handleEvent(...)`, only once WhatsApp has acknowledged.  A reaction
\* in a newsletter is not announced.
Announce(c, m) ==
    announced' = IF InNewsletter(req[c]) /\ req[c].kind = "reaction" THEN announced
                 ELSE announced \cup {[by |-> c, id |-> m]}

\* Everything but a status: one call of the library (SendMessage, MarkRead,
\* SendNewsletterPollVoteNode, NewsletterSendReaction).
Recipients(q) == IF q.list = <<>> \/ InNewsletter(q) THEN {q.to} ELSE ToSet(q.list)

SendOnce(c) ==
    /\ Ready(c)
    /\ ~IsStatus(req[c])
    /\ \E m \in MessageId(c), ok \in BOOLEAN :
          /\ id' = [id EXCEPT ![c] = m]
          /\ Deliver(c, m, Recipients(req[c]), ok)
          /\ IF ok THEN Announce(c, m) ELSE UNCHANGED announced
          /\ Return(c, IF ok THEN "ok" ELSE "error")
    /\ UNCHANGED <<req, batches, tried, expired, reply>>

-----------------------------------------------------------------------------
(* SendStatusMessage.                                                      *)
\* The given participants, or the audience, reversed "so we have ownId first".
AllParticipants(q) == IF q.list # <<>> THEN q.list ELSE Reverse(Audience)

ValidParticipants(q) ==
    LET all == AllParticipants(q)
    IN  Picked(all, {k \in DOMAIN all : all[k] \in Users})

ParticipantsBatchSize(q) == IF q.list # <<>> THEN Len(q.list) ELSE BatchSize

\* mutation: the last, incomplete batch is left out
FullChunks(q, n) == [k \in 1..(Len(q) \div n) |-> SubSeq(q, n * (k - 1) + 1, n * k)]

\* lo.Chunk
Chunk(q, n) == [k \in 1..((Len(q) + n - 1) \div n) |->
                    SubSeq(q, n * (k - 1) + 1, IF n * k <= Len(q) THEN n * k ELSE Len(q))]

\* GetBroadcastListParticipants may fail.
BeginStatus(c) ==
    /\ Ready(c)
    /\ IsStatus(req[c])
    /\ \/ /\ pc' = [pc EXCEPT ![c] = "batches"]
          /\ batches' = [batches EXCEPT ![c] =
                Chunk(ValidParticipants(req[c]), ParticipantsBatchSize(req[c]))]
          /\ \E m \in MessageId(c) : id' = [id EXCEPT ![c] = m]
          /\ UNCHANGED result
       \/ /\ req[c].list = <<>>
          /\ Return(c, "error")
          /\ UNCHANGED <<batches, id>>
    /\ UNCHANGED <<req, tried, expired, reply, outcome>>

\* The next batch, whatever became of the one before.
SendBatch(c) ==
    /\ pc[c] = "batches" /\ batches[c] # <<>>
    /\ \E ok \in BOOLEAN :
          /\ Deliver(c, id[c], ToSet(Head(batches[c])), ok)
          /\ tried' = [tried EXCEPT ![c] =
                Append(@, [batch |-> Head(batches[c]), id |-> id[c], ok |-> ok])]
          /\ batches' = [batches EXCEPT ![c] = Tail(@)]
    /\ UNCHANGED <<pc, req, id, result, expired, reply, announced>>

\* mutation: only the error of the last batch counts
LastFailed(c) == tried[c] # <<>> /\ ~tried[c][Len(tried[c])].ok

\* len(errs) > 0
HasErrors(c) == \E k \in DOMAIN tried[c] : ~tried[c][k].ok

EndStatus(c) ==
    /\ pc[c] = "batches" /\ batches[c] = <<>>
    /\ IF HasErrors(c) THEN Return(c, "error") /\ UNCHANGED announced
                       ELSE Return(c, "ok") /\ Announce(c, id[c])
    /\ UNCHANGED <<req, id, batches, tried, expired, reply, accepted>>

-----------------------------------------------------------------------------
\* The deadline of the call passes.  Nothing of the handler ends by that: the
\* library's calls fail, and everything else goes on.
Expire(c) ==
    /\ pc[c] \notin {"new", "returned"}
    /\ expired' = expired \cup {c}
    /\ UNCHANGED <<pc, req, id, batches, tried, result, reply, outcome>>

\* mutation: no recovery, a panic leaves the call without an answer
Unrecovered(c) == IF result[c] = "panic" THEN Null
                  ELSE IF c \in expired THEN "deadline" ELSE result[c]

\* recovery and UnaryTimeoutInterceptor: a panic passes the latter by.  (When
\* the deadline is the client's own it is the client that does not wait.)
Answer(c) == IF result[c] = "panic" THEN "error"
             ELSE IF c \in expired THEN "deadline" ELSE result[c]

Reply(c) ==
    /\ pc[c] = "returning"
    /\ pc' = [pc EXCEPT ![c] = "returned"]
    /\ reply' = [reply EXCEPT ![c] = Answer(c)]
    /\ UNCHANGED <<req, id, batches, tried, result, expired, outcome>>

Handle(c) ==
    \/ UploadPreview(c) \/ Refuse(c) \/ SendOnce(c)
    \/ BeginStatus(c) \/ SendBatch(c) \/ EndStatus(c)
    \/ Reply(c)

Next == \E c \in Calls : \/ \E q \in Requests : Receive(c, q)
                         \/ Handle(c) \/ UploadReturns(c) \/ Expire(c)

Spec == Init /\ [][Next]_vars

(* A handler's goroutine runs, and what it calls returns: the library gives up
   when the context of the call ends, after 30 minutes at the latest (main.go),
   and so do the requests it answers itself after a time of its own.  The upload
   of a preview image has neither limit: UploadReturns is not fair.        *)
FairSpec == Spec /\ \A c \in Calls : WF_vars(Handle(c))

-----------------------------------------------------------------------------
Ids == ClientIds \cup FreshIds

TypeOK ==
    /\ pc \in [Calls -> {"new", "preparing", "uploading", "uploaded", "batches", "returning",
                       "returned"}]
    /\ req \in [Calls -> Requests \cup {Null}]
    /\ \A c \in Calls : pc[c] # "new" => req[c] \in Requests
    /\ id \in [Calls -> Ids \cup {Null}]
    /\ \A c \in Calls : pc[c] = "batches" => id[c] \in Ids
    /\ batches \in [Calls -> Seq(Seq(Users))]
    /\ tried \in [Calls -> Seq([batch : Seq(Users), id : Ids, ok : BOOLEAN])]
    /\ result \in [Calls -> {"ok", "error", "panic", Null}]
    /\ expired \subseteq Calls
    /\ reply \in [Calls -> {"ok", "error", "deadline", Null}]
    /\ \A a \in accepted : a.by \in Calls /\ a.id \in Ids
    /\ announced \subseteq [by : Calls, id : Ids]

\* Whom call c must have reached to have succeeded.
Addressees(c) == IF IsStatus(req[c]) THEN ToSet(ValidParticipants(req[c]))
                 ELSE Recipients(req[c])

(* Three witnesses, one story, wherever batches fail, acknowledgements are lost
   and deadlines pass: what is announced (and so stored as sent) reached every
   addressee under that id; "ok" means that it was announced, but for reactions
   in newsletters; "error" that it was not.  Only "deadline" says nothing.  *)
WitnessesAgree ==
    \A c \in Calls :
        LET said == \E a \in announced : a.by = c IN
        /\ \A a \in announced : a.by = c =>
              \A u \in Addressees(c) : [by |-> c, id |-> a.id, to |-> u] \in accepted
        /\ reply[c] = "ok" => said \/ (InNewsletter(req[c]) /\ req[c].kind = "reaction")
        /\ reply[c] = "error" => ~said

\* The parts, laid end to end, are the list; none is longer than size.
Laid(parts, list, size) ==
    /\ \A k \in DOMAIN parts : \A j \in DOMAIN parts[k] :
          LET i == size * (k - 1) + j IN
          j <= size /\ i \in DOMAIN list /\ parts[k][j] = list[i]
    /\ \A i \in DOMAIN list : \E k \in DOMAIN parts : \E j \in DOMAIN parts[k] :
          i = size * (k - 1) + j

(* A status is tried once for every user of its list, in the order of the list
   and the own account first, under one id - the client's if it gave one, so
   that repeating the call repeats the message -, and a batch that fails keeps
   nobody after it from getting theirs.                                    *)
EveryUserTriedOnce ==
    \A c \in Calls : pc[c] = "returned" /\ tried[c] # <<>> =>
        /\ Laid([k \in DOMAIN tried[c] |-> tried[c][k].batch],
                ValidParticipants(req[c]), ParticipantsBatchSize(req[c]))
        /\ \A k \in DOMAIN tried[c] :
              /\ tried[c][k].id = id[c]
              /\ req[c].id # Null => tried[c][k].id = req[c].id
        /\ req[c].list = <<>> => Head(tried[c][1].batch) = Last(Audience)

(* Every call gets an answer, however many batches fail and whether or not its
   deadline passes - unless it waits for the upload of a preview image, which may
   hang for as long as the session lives.  Once that is over it is answered, too:
   "uploaded" never leads back to "uploading".                             *)
EveryCallAnswered ==
    \A c \in Calls : pc[c] # "new" ~> reply[c] # Null \/ pc[c] = "uploading"
=============================================================================

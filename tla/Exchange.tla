------------------------------ MODULE Exchange ------------------------------
(***************************************************************************)
(* A conversation through the gateway, from the request of one API client  *)
(* to the event of another and back.  Accounts of the gateway share chats; *)
(* each handles one request of the message API at a time (module Sending)  *)
(* and publishes what whatsmeow delivers to it (Projection,                *)
(* AccountEvents).  Clients answer what they read in events, with the      *)
(* identifiers they read there.  WhatsApp, between the accounts, is not    *)
(* the code: it carries messages in any order, addresses people by phone   *)
(* number or by LID as it likes, and may be slow.                          *)
(***************************************************************************)
EXTENDS AccountEvents, Sending, FiniteSets

CONSTANTS
    Accounts,      \* people whose account is an instance of the gateway
    People,        \* everybody
    Group,         \* the user of the group's JID
    FirstRequests, \* for each account, what its client may ask out of the blue
    FromPhones,    \* messages of phones: [author, to, category, content]
    Notices,       \* events that are no messages
    MaxBegun       \* bound: how many requests and messages of phones there are

ASSUME ExchangeAssumption ==
    /\ Accounts \subseteq People
    /\ {Group, NoUser, Stray} \cap People = {}
    /\ DOMAIN FirstRequests = Accounts
    /\ MaxBegun \in Nat

IsJID(j) == j = [user |-> j.user, server |-> j.server, device |-> j.device]

\* The chats there are: two people, and the group.
IsChat(j) == j.server \in {"pn", "lid"} \/ (j.server = "group" /\ j.user = Group)

\* Phones write to people, to the group, and to everybody.
ASSUME PhonesAssumption ==
    \A m \in FromPhones :
      /\ m.author \in People
      /\ IsJID(m.to) /\ (IsChat(m.to) \/ m.to.server = "status")

\* Clients write to people and to the group; without a server it is a number.
\* Out of the blue they reply to nothing.
WrittenTo(r) == IF r.kind \in SendKinds THEN r.to ELSE r.chatId

ASSUME RequestsAssumption ==
    \A a \in Accounts : \A r \in FirstRequests[a] :
      /\ r.kind \in SendKinds \cup ChatKinds
      /\ \/ WrittenTo(r).server \in {NoServer, "pn", "lid"}
         \/ WrittenTo(r) = Written(Group, "group")
      /\ ~Has(r, "replyTo")

\* The addresses of a notice.
Addresses(evt) ==
    CASE evt.is \in {"Mute", "Pin", "Archive", "MarkChatAsRead", "PushName", "UserAbout",
                     "Presence", "Contact"} -> {evt.jid}
      [] evt.is = "Picture"      -> {evt.jid, evt.author}
      [] evt.is = "ChatPresence" -> {evt.info.chat, evt.info.sender}
      [] evt.is \in {"GroupInfo", "JoinedGroup"} -> {evt.jid, evt.by.sender, evt.by.senderPN}
      [] evt.is = "CallOffer"    -> {evt.creator, evt.group}
      [] evt.is \in {"CallTerminate", "CallAccept"} -> {evt.creator}
      [] OTHER -> {}

ASSUME NoticesAssumption ==
    \A evt \in Notices :
      /\ evt.is \notin {"Message", "Receipt", "DeleteForMe", "Star"}
      /\ \A j \in Addresses(evt) : IsJID(j)

VARIABLES
    known,      \* for each account, the people whose two addresses it relates
    request,    \* for each account, its request and how far it is
    sent,       \* what WhatsApp has got: messages, receipts and patches
    published,  \* for each account, what it published of sent[i], for the i it got
    noticed,    \* what the last notice made an account publish
    answered    \* history: the requests that are over

vars == <<known, request, sent, published, noticed, answered>>

Idle     == [pc |-> "idle"]
GroupJID == Jid(Group, "group")
NoNotice == [by |-> NoUser, events |-> <<>>]

-----------------------------------------------------------------------------
(* WhatsApp. *)

\* The person on the other side of a direct chat, for the sender: who the
\* message is for.
InGroup(i)  == sent[i].to.server = "group"
IsStatus(i) == sent[i].to.server = "status"
Direct(i)   == ~InGroup(i) /\ ~IsStatus(i)

\* Who gets sent[i].  A message does not come back to the client that sent
\* it; the messages of a phone come to the account's client as well.
Receivers(i) ==
    LET m == sent[i]
    IN  CASE m.what = "patch"   -> {m.by}
          [] m.what = "receipt" -> {m.content.sender.user} \cap Accounts
          [] m.what = "message" ->
                (IF Direct(i) THEN {m.to.user, m.by} \cap Accounts ELSE Accounts)
                \ (IF m.via = "api" THEN {m.by} ELSE {})

Other(server) == IF server = "pn" THEN "lid" ELSE "pn"

\* How sent[i] is addressed when it comes to account a: people by `server',
\* with the other address if `alt'.
Info(a, i, server, alt) ==
    LET m == sent[i]
    IN  [id |-> i, type |-> "text", category |-> m.category,
         isGroup |-> InGroup(i), fromMe |-> m.by = a,
         sender  |-> [Jid(m.by, server) EXCEPT !.device = IF m.via = "api" THEN 3 ELSE 0],
         senderAlt |-> IF alt THEN Jid(m.by, Other(server)) ELSE EmptyJID,
         chat    |-> IF ~Direct(i) THEN m.to
                     ELSE Jid(IF m.by = a THEN m.to.user ELSE m.by, server)]

\* The event of whatsmeow.
Raw(a, i, server, alt) ==
    LET m    == sent[i]
        info == Info(a, i, server, alt)
    IN  CASE m.what = "message" -> [is |-> "Message", info |-> info, content |-> m.content]
          [] m.what = "receipt" ->
                [is |-> "Receipt", info |-> info, type |-> m.content.type,
                 messageSender |-> IF InGroup(i) THEN m.content.sender ELSE EmptyJID,
                 messageIds |-> m.content.ids]
          [] m.what = "patch" ->
                [is   |-> IF m.content.patch = "star" THEN "Star" ELSE "DeleteForMe",
                 id   |-> m.content.id,
                 info |-> [info EXCEPT !.chat = ParseJID(m.content.chat),
                                       !.sender = m.content.sender,
                                       !.fromMe = m.content.fromMe]]
                @@ (IF m.content.patch = "star" THEN [starred |-> m.content.starred] ELSE Nothing)

\* The two addresses that come with a message are stored before it is handled.
Learned(a, i, alt) ==
    IF alt /\ sent[i].what = "message"
    THEN {IF sent[i].by = a /\ Direct(i) THEN sent[i].to.user ELSE sent[i].by} \cap People
    ELSE {}

-----------------------------------------------------------------------------
(* The client of an account. *)

\* What a client may refer to: a message it was told of, with the addresses
\* of the sender, or one of its own, with the ID of the response.
Reference(i, chat, senders, mine) == [of |-> i, chat |-> chat, senders |-> senders, mine |-> mine]

Read(a) ==
    {Reference(i, AsWritten(published[a][i][1].data.chatId),
               LET s == published[a][i][1].data.sender
               IN  {AsWritten(s.id)} \cup (IF s.lid = NoUser THEN {} ELSE {Written(s.lid, "lid")}),
               published[a][i][1].data.sender.isMe) :
       i \in {j \in DOMAIN published[a] :
                /\ published[a][j] # <<>> /\ published[a][j][1].eventType = "message"
                /\ ~IsStatus(j)}}

Wrote(a) ==
    {Reference(q.out, AsWritten(sent[q.out].to), {Written(a, "pn"), Written(a, NoServer)}, TRUE) :
       q \in {p \in {answered[n] : n \in DOMAIN answered} :
                p.by = a /\ p.status = 200 /\ sent[p.out].what = "message"}}

\* What may be done with a message.  A client stars its own messages by its
\* phone number.
Answers(ref) ==
    LET id   == [messageId |-> ref.of]
        chat == [chatId |-> ref.chat]
        to   == [to |-> ref.chat]
    IN  (UNION {
          {id @@ to @@ [kind |-> "reaction", senderId |-> s, reaction |-> "e"],
           id @@ chat @@ [kind |-> "delete", senderId |-> s],
           id @@ chat @@ [kind |-> "pin", senderId |-> s, pinned |-> TRUE, pinExpiration |-> "7d"],
           id @@ chat @@ [kind |-> "deleteForMe", senderId |-> s, isFromMe |-> ref.mine]}
          \cup (IF s.server = NoServer THEN {}
                ELSE {to @@ [kind |-> "text", text |-> "re", replyTo |-> ref.of, replyToSenderId |-> s]})
          \cup (IF ref.mine /\ s.server = "lid" THEN {}
                ELSE {id @@ chat @@ [kind |-> "star", senderId |-> s, starred |-> TRUE]})
          \cup (IF ref.mine THEN {}
                ELSE {id @@ chat @@ [kind |-> "read", senderId |-> s, receiptType |-> "read"]})
          : s \in ref.senders})
        \cup (IF ref.mine THEN {id @@ to @@ [kind |-> "edit", text |-> "new"]} ELSE {})

\* Bound: a behaviour begins with one request or one message of a phone; what
\* follows is about it.
Active  == {a \in Accounts : request[a] # Idle}
Phoned  == {n \in DOMAIN sent : sent[n].via = "phone"}
Begun   == Cardinality(Phoned) + Len(answered) + Cardinality(Active)

\* The next request of a client, and the message it is about.
Asks(a) ==
    {[r |-> r, about |-> NoId] : r \in IF Begun = 0 THEN FirstRequests[a] ELSE {}}
    \cup UNION {{[r |-> r, about |-> ref.of] : r \in Answers(ref)} : ref \in Read(a) \cup Wrote(a)}

-----------------------------------------------------------------------------
(* The handlers. *)

\* Mutation: a send that is not acknowledged in time is the client's fault.
ServiceStatusBlames(err) ==
    CASE err = "none" -> 200 [] err = "notFound" -> 404 [] err = "upstream" -> 502
      [] err = "tooLarge" -> 413 [] err \in {"timeout", "deadline"} -> 504
      [] err = "canceled" -> 499 [] OTHER -> 400

IsUpstreamTimeout(err) == err \in {"ackTimeout", "iqTimeout"}

\* serviceStatus; 200 stands for 201 and 204 too.
ServiceStatus(err) ==
    CASE err = "none" -> 200 [] err = "notFound" -> 404 [] err = "upstream" -> 502
      [] err = "tooLarge" -> 413 [] err \in {"timeout", "deadline"} -> 504
      [] IsUpstreamTimeout(err) -> 504
      [] err = "canceled" -> 499 [] OTHER -> 400

\* The answer of a handler: the error it met, and what was sent.
Finish(a, q, err, out) ==
    /\ request'  = [request EXCEPT ![a] = Idle]
    /\ answered' = Append(answered, [by |-> a, kind |-> q.r.kind, status |-> ServiceStatus(err),
                                     out |-> out, cut |-> err = "disconnected"])

Goto(a, q, pc) == request' = [request EXCEPT ![a] = [pc |-> pc, r |-> q.r, about |-> q.about, out |-> NoId]]

\* Decode, then straight to the service, or to the data of a file.
Submit(a) ==
    /\ request[a] = Idle
    /\ Begun < MaxBegun
    /\ \E q \in Asks(a) :
         IF ~Valid(q.r) THEN Finish(a, q, "invalid", NoId)
         ELSE /\ Goto(a, q, IF q.r.kind \in MediaKinds THEN "resolve" ELSE "send")
              /\ UNCHANGED answered
    /\ noticed' = NoNotice
    /\ UNCHANGED <<known, sent, published>>

\* resolveData, with DownloadMediaFromURL: whatever the other server answers
\* is the client's problem, unless it is late.
ResolveData(a) ==
    LET q == request[a]
    IN  /\ q.pc = "resolve"
        /\ \/ /\ OneSource(q.r) /\ Decodes(q.r)
              /\ Goto(a, q, "upload") /\ UNCHANGED answered
           \/ /\ ~OneSource(q.r) \/ ~Decodes(q.r)
              /\ Finish(a, q, "other", NoId)
           \/ /\ OneSource(q.r) /\ Has(q.r, "dataUrl")
              /\ \E err \in {"other", "deadline", "canceled"} : Finish(a, q, err, NoId)
        /\ noticed' = NoNotice
        /\ UNCHANGED <<known, sent, published>>

\* uploadMedia hides the cause of a failure.
UploadMedia(a) ==
    LET q == request[a]
    IN  /\ q.pc = "upload"
        /\ \/ Goto(a, q, "send") /\ UNCHANGED answered
           \/ Finish(a, q, "other", NoId)
        /\ noticed' = NoNotice
        /\ UNCHANGED <<known, sent, published>>

What(r) == CASE r.kind \in PatchKinds -> "patch" [] r.kind = "read" -> "receipt"
             [] OTHER -> "message"

\* What Store.ID and the request make of a message, on its way.
Leaves(a, q) ==
    sent' = Append(sent, [what |-> What(q.r), via |-> "api", by |-> a, to |-> Target(q.r),
                          category |-> "", content |-> Outgoing(a, q.r), r |-> q.r,
                          about |-> q.about])

\* The service refuses, whatsmeow cannot send, or it sends: a receipt is done
\* then, a message and a patch wait.  What is sent may get lost.
Send(a) ==
    LET q == request[a]
    IN  /\ q.pc = "send"
        /\ IF Refused(q.r) THEN Finish(a, q, "other", NoId) /\ UNCHANGED sent
           ELSE \/ /\ \E err \in IF What(q.r) = "message"
                                 THEN {"other", "iqTimeout", "canceled"} ELSE {"other"} :
                        Finish(a, q, err, NoId)
                   /\ UNCHANGED sent
                \/ /\ What(q.r) = "receipt"
                   /\ Finish(a, q, "none", Len(sent) + 1) /\ Leaves(a, q)
                \/ /\ What(q.r) # "receipt"
                   /\ request' = [request EXCEPT ![a].pc = "ack", ![a].out = Len(sent) + 1]
                   /\ Leaves(a, q) /\ UNCHANGED answered
                \/ /\ What(q.r) # "receipt"
                   /\ request' = [request EXCEPT ![a].pc = "ack"]
                   /\ UNCHANGED <<sent, answered>>
        /\ noticed' = NoNotice
        /\ UNCHANGED <<known, published>>

\* The acknowledgement, or the end of the wait for it.  The errors of a patch
\* lose their cause.
Acknowledge(a) ==
    LET q == request[a]
    IN  /\ q.pc = "ack"
        /\ \/ q.out # NoId /\ Finish(a, q, "none", q.out)
           \/ \E err \in IF What(q.r) = "patch" THEN {"other"}
                         ELSE {"ackTimeout", "canceled", "disconnected"} :
                Finish(a, q, err, q.out)
        /\ noticed' = NoNotice
        /\ UNCHANGED <<known, sent, published>>

-----------------------------------------------------------------------------
(* What comes from elsewhere. *)

\* A phone sends a message: to another person, to a group or to everybody.
PhoneSends ==
    /\ Begun = 0
    /\ \E m \in FromPhones :
         sent' = Append(sent, [what |-> "message", via |-> "phone", by |-> m.author, to |-> m.to,
                               category |-> m.category, content |-> m.content,
                               r |-> [kind |-> "none"], about |-> NoId])
    /\ noticed' = NoNotice
    /\ UNCHANGED <<known, request, published, answered>>

\* The event handler publishes what Project makes of an event.
Deliver(a, i) ==
    /\ a \in Receivers(i) /\ i \notin DOMAIN published[a]
    /\ \E server \in {"pn", "lid"}, alt \in BOOLEAN :
         LET knows == known[a] \cup Learned(a, i, alt)
         IN  /\ known' = [known EXCEPT ![a] = knows]
             /\ published' = [published EXCEPT
                    ![a] = @ @@ (i :> Project(Raw(a, i, server, alt), Jid(a, "pn"), knows))]
    /\ noticed' = NoNotice
    /\ UNCHANGED <<request, sent, answered>>

\* Presences, names, pictures, calls, newsletters and sessions: what is
\* published depends on `known' alone, so they come, one after the other, when
\* no request is under way and at most one thing has been sent.
Notice(a) ==
    /\ Active = {} /\ Len(sent) <= 1 /\ noticed = NoNotice
    /\ \E evt \in Notices :
         noticed' = [by |-> a, events |-> Project(evt, Jid(a, "pn"), known[a])]
    /\ UNCHANGED <<known, request, sent, published, answered>>

-----------------------------------------------------------------------------
Init ==
    /\ known = [a \in Accounts |-> {a}]
    /\ request = [a \in Accounts |-> Idle]
    /\ sent = <<>>
    /\ published = [a \in Accounts |-> Nothing]
    /\ noticed = NoNotice
    /\ answered = <<>>

Next ==
    \/ PhoneSends
    \/ \E a \in Accounts :
         \/ Submit(a) \/ ResolveData(a) \/ UploadMedia(a) \/ Send(a) \/ Acknowledge(a)
         \/ Notice(a)
         \/ \E i \in DOMAIN sent : Deliver(a, i)

Spec == Init /\ [][Next]_vars

-----------------------------------------------------------------------------
(* Properties. *)

\* Types: every event that is published has the shape of its type.
TypeOK ==
    /\ known \in [Accounts -> SUBSET People]
    /\ \A a \in Accounts :
         /\ request[a].pc \in {"idle", "resolve", "upload", "send", "ack"}
         /\ DOMAIN published[a] \subseteq DOMAIN sent
         /\ \A i \in DOMAIN published[a] : \A n \in DOMAIN published[a][i] : WellFormed(published[a][i][n])
    /\ \A n \in DOMAIN noticed.events : WellFormed(noticed.events[n])

\* What the options of a request ask for is in the event.
TellsOptions(d, r) ==
    /\ Flag(r, "isForwarded") <=> Has(d, "isForwarded")
    /\ Get(r, "ephemeralExpiration") \notin {"", "off"} =>
         Get(d, "ephemeralExpiration") = r.ephemeralExpiration
    /\ Has(r, "mentions") /\ DOMAIN r.mentions # {} =>
         /\ Has(d, "mentions") /\ DOMAIN d.mentions = DOMAIN r.mentions
         /\ \A n \in DOMAIN r.mentions : d.mentions[n].user = r.mentions[n].user
    /\ Has(r, "replyTo") =>
         /\ Has(d, "replyTo") /\ d.replyTo.id = r.replyTo
         /\ d.replyTo.sender.id.user = sent[r.replyTo].by

\* What a request asks to show is in the event: its content, and a file that
\* can be downloaded.
Tells(e, r) ==
    LET d == e.data
        Same(fields) == \A f \in fields : Get(d, f) = Get(r, f)
    IN  CASE r.kind = "delete" -> e.eventType = "message_delete" /\ d.id = r.messageId
          [] r.kind = "text" -> Same({"text"}) /\ TellsOptions(d, r)
          [] r.kind = "link" ->
                /\ Same({"text"}) /\ TellsOptions(d, r)
                /\ Get(r, "title") # "" => d.extendedText.title = r.title
                                           /\ d.extendedText.matchedText = r.url
          [] r.kind \in MediaKinds ->
                /\ d.media.mediaType = r.kind
                /\ d.media.id.file = Upload(File(r), DownloadClass(d.media.mediaType))
                /\ r.kind \in {"image", "video", "document"} => Get(d.media, "caption") = Get(r, "caption")
                /\ r.kind \in {"image", "video"} => Flag(d, "viewOnce") = Flag(r, "viewOnce")
                /\ r.kind = "document" => d.media.filename = r.filename
                /\ TellsOptions(d, r)
          [] r.kind = "contact"  -> d.contact = r.vcard
          [] r.kind = "reaction" -> d.reaction = [messageId |-> r.messageId, emoji |-> r.reaction]
          [] r.kind = "edit"     -> Same({"text"}) /\ d.edit.originalMessageId = r.messageId
          [] r.kind = "pin"      ->
                /\ d.pin.messageId = r.messageId /\ d.pin.pinned = r.pinned
                /\ r.pinned /\ Get(r, "pinExpiration") \in {"24h", "7d", "30d"} =>
                     d.pin.expiration = r.pinExpiration

\* No projector shows a place, nor a card without a vCard.
Shown(r) == r.kind # "location" /\ (r.kind = "contact" => Get(r, "vcard") # "")

\* What one client asks the gateway to send is what the gateway tells the
\* other client, whatever the kind and the options of the message: the methods
\* of MessageService and the projectors, written apart, agree on every field,
\* and the file of an event can be downloaded with the key of its upload.
SentIsPublished ==
    /\ TypeOK
    /\ \A a \in Accounts : \A i \in DOMAIN published[a] :
         sent[i].via = "api" /\ sent[i].what = "message" =>
            IF Shown(sent[i].r)
            THEN published[a][i] # <<>> /\ Tells(published[a][i][1], sent[i].r)
            ELSE published[a][i] = <<>>

\* The chat of sent[i], for account a: the group, or the other person by
\* either address.
IsChatOf(j, a, i) ==
    IF InGroup(i) THEN j = GroupJID
    ELSE /\ j.user = IF sent[i].by = a THEN sent[i].to.user ELSE sent[i].by
         /\ j.server \in {"pn", "lid"}
IsAuthor(j, i) == j.user = sent[i].by /\ j.server \in {"pn", "lid"}

KeyDenotes(key, a, i) ==
    /\ key.id = i /\ IsChatOf(key.remote, a, i)
    /\ key.fromMe <=> sent[i].by = a
    /\ InGroup(i) /\ ~key.fromMe => IsAuthor(key.participant, i)

\* What account a says, in the content of a message, refers to sent[i].
Denotes(what, content, a, i) ==
    CASE what = "receipt" ->
           /\ content.ids = <<i>> /\ IsChatOf(content.chat, a, i)
           /\ InGroup(i) => IsAuthor(content.sender, i)
      [] what = "patch" ->
           /\ content.id = i /\ IsChatOf(ParseJID(content.chat), a, i)
           /\ content.fromMe <=> sent[i].by = a
           /\ InGroup(i) /\ ~content.fromMe => IsAuthor(content.sender, i)
      [] what = "message" /\ Has(content, "reaction") -> KeyDenotes(content.reaction.key, a, i)
      [] what = "message" /\ Has(content, "pin")      -> KeyDenotes(content.pin.key, a, i)
      [] what = "message" /\ Has(content, "protocol") -> KeyDenotes(content.protocol.key, a, i)
      [] OTHER -> /\ content.extendedText.context.stanzaId = i
                  /\ IsAuthor(ParseText(content.extendedText.context.participant), i)

\* An answer reaches what it answers: a client that takes the chat, the sender
\* and the ID from an event, in whichever form they stand there, and passes
\* them to a reaction, a reply, an edit, a deletion, a pin, a star or a receipt
\* refers to the message of that event, with its author.
AnswersReach ==
    \A n \in DOMAIN sent :
      sent[n].via = "api" /\ sent[n].about # NoId =>
        Denotes(sent[n].what, sent[n].content, sent[n].by, sent[n].about)

\* Identifiers of people and chats in an event.
Ids(e) ==
    LET d == e.data
        people == {"sender", "user", "caller", "messageSender"}
                  \cup (IF e.eventType = "contact" THEN {"contact"} ELSE {})
    IN  {d[f].id : f \in people \cap DOMAIN d}
        \cup {d[f] : f \in {"chatId"} \cap DOMAIN d}
        \cup (IF e.eventType \in {"chat_setting", "chat_presence", "chat_picture"} THEN {d.id} ELSE {})
        \cup (IF Has(d, "ephemeral") THEN {d.ephemeral.sender.id} ELSE {})
        \cup (IF Has(d, "mentions") THEN {d.mentions[n] : n \in DOMAIN d.mentions} ELSE {})
        \cup (IF Has(d, "replyTo") /\ Has(d.replyTo, "sender") THEN {d.replyTo.sender.id} ELSE {})

Settled(e, a) == \A j \in Ids(e) : j.user \in known'[a] => j.server # "lid"

\* One person, one chat: from the moment an account can relate a person's LID
\* to the phone number, nothing it publishes names that person or their chat
\* by the LID, however WhatsApp addresses it; and a message in a direct chat
\* names chat and sender alike, even before that moment.
OneChatPerPerson ==
    [][ \A a \in Accounts :
          /\ \A i \in DOMAIN published'[a] \ DOMAIN published[a] :
               published'[a][i] # <<>> =>
                 LET e == published'[a][i][1]
                 IN  /\ Settled(e, a)
                     /\ e.eventType = "message" /\ Direct(i) /\ sent[i].by # a =>
                          e.data.chatId = e.data.sender.id
          /\ noticed'.by = a =>
               \A n \in DOMAIN noticed'.events : Settled(noticed'.events[n], a)
      ]_vars

\* The status of an answer tells the truth: a client that is told that its
\* request was at fault (4xx) can correct it and send it again, for nothing has
\* been sent, and what was answered with success has been.  A patch, and a wait
\* that ended with the connection, are not that well told.
StatusTellsTruth ==
    \A n \in DOMAIN answered :
      LET q == answered[n]
      IN  /\ q.status = 200 => q.out \in DOMAIN sent /\ sent[q.out].by = q.by
          /\ q.status \in 400..498 /\ ~q.cut /\ q.kind \notin PatchKinds => q.out = NoId
=============================================================================

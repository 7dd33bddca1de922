--------------------------- MODULE ExchangeProofs ---------------------------
(***************************************************************************)
(* What Exchange promises, for any accounts, people, requests, messages of *)
(* phones and notices.                                                     *)
(*                                                                         *)
(* The first part is about the projectors: whatever an event holds, no     *)
(* person whose two addresses are known is named by the LID in what is     *)
(* published of it.  The second part follows a reference: what a client    *)
(* reads says where a message was sent and by whom (PublishedInv), so what *)
(* it asks for denotes that message (RequestInv), and so does what leaves  *)
(* (SentInv).  The third part follows a message: what a method of          *)
(* MessageService makes of a request (Outgoing) has the parts in which the *)
(* projectors look for what the request asked to show (Shows), so what is  *)
(* published tells it (ToldInv), as long as what leaves was accepted       *)
(* (SoundInv).                                                             *)
(***************************************************************************)
EXTENDS Exchange, TLAPS

-----------------------------------------------------------------------------
(* Functions.                                                              *)

\* What a merge of two functions is made of.
LEMMA Merge ==
    ASSUME NEW f, NEW g
    PROVE  /\ DOMAIN (f @@ g) = DOMAIN f \cup DOMAIN g
           /\ \A x \in DOMAIN f : (f @@ g)[x] = f[x]
           /\ \A x \in DOMAIN g \ DOMAIN f : (f @@ g)[x] = g[x]
BY DEF @@

LEMMA MergeAt ==
    ASSUME NEW f, NEW g, NEW x
    PROVE  /\ x \in DOMAIN (f @@ g) <=> x \in DOMAIN f \/ x \in DOMAIN g
           /\ x \in DOMAIN f => (f @@ g)[x] = f[x]
           /\ x \in DOMAIN g /\ x \notin DOMAIN f => (f @@ g)[x] = g[x]
BY DEF @@

\* The fields that an optional part may add.
LEMMA Parts ==
    /\ DOMAIN Nothing = {}
    /\ \A c, f : DOMAIN If(c, f) \subseteq DOMAIN f
    /\ \A part, fields : DOMAIN Copy(part, fields) \subseteq fields
<1>1. DOMAIN Nothing = {}
  BY DEF Nothing
<1> QED
  BY <1>1 DEF If, Copy

-----------------------------------------------------------------------------
(* Addresses.                                                              *)

\* An identifier does not name a person by the LID whose number is known.
Named(j, knows) == j.user \in knows => j.server # "lid"

LEMMA ChatNamed ==
    ASSUME NEW knows, NoUser \notin knows, NEW j, IsJID(j)
    PROVE  Named(ProjectChatID(j, knows), knows)
BY DEF Named, ProjectChatID, IsJID, GetPNForLID, CleanJID, Jid

LEMMA MentionNamed ==
    ASSUME NEW knows, NoUser \notin knows, NEW j
    PROVE  Named(ResolveMention(j, knows), knows)
BY DEF Named, ResolveMention, GetPNForLID, Jid

\* The two sides of an address and its alternative.
LEMMA SidesFacts ==
    ASSUME NEW knows, NoUser \notin knows, NEW j, NEW alt,
           NEW s, s = Sides(j, alt, knows)
    PROVE  /\ s.pn = NoUser /\ s.lid # NoUser => s.lid \notin knows
           /\ s.pn = NoUser /\ s.lid = NoUser /\ j.server = "lid" => j.user = NoUser
<1> DEFINE none == [pn |-> NoUser, lid |-> NoUser]
           one  == Categorize(none, j)
           told == Categorize(one, alt)
<1>1. /\ one = [pn |-> one.pn, lid |-> one.lid]
      /\ j.server = "lid" => one.lid = j.user
  BY DEF Categorize
<1>2. told = [pn |-> told.pn, lid |-> told.lid] /\ (one.lid # NoUser => told.lid = one.lid)
  BY <1>1 DEF Categorize
<1>3. s = [pn  |-> IF told.pn = NoUser /\ told.lid # NoUser
                   THEN GetPNForLID(Jid(told.lid, "lid"), knows) ELSE told.pn,
           lid |-> IF told.lid = NoUser /\ told.pn # NoUser
                   THEN GetLIDForPN(Jid(told.pn, "pn"), knows) ELSE told.lid]
  BY DEF Sides
<1> HIDE DEF one, told
<1> QED
  BY <1>1, <1>2, <1>3 DEF GetPNForLID, GetLIDForPN, Jid

LEMMA PersonNamed ==
    ASSUME NEW knows, NoUser \notin knows, NEW j, IsJID(j), NEW alt
    PROVE  Named(Resolve(j, alt, knows).id, knows)
<1> DEFINE s == Sides(j, alt, knows)
<1>1. /\ s.pn = NoUser /\ s.lid # NoUser => s.lid \notin knows
      /\ s.pn = NoUser /\ s.lid = NoUser /\ j.server = "lid" => j.user = NoUser
  BY SidesFacts
<1>2. Resolve(j, alt, knows).id =
        CASE s.pn # NoUser  -> Jid(s.pn, "pn")
          [] s.pn = NoUser /\ s.lid # NoUser -> Jid(s.lid, "lid")
          [] OTHER -> CleanJID(j)
  BY DEF Resolve
<1> HIDE DEF s
<1> QED
  BY <1>1, <1>2 DEF Named, Jid, CleanJID, IsJID

LEMMA SenderNamed ==
    ASSUME NEW knows, NoUser \notin knows, NEW j, IsJID(j), NEW alt, NEW isMe
    PROVE  Named(ResolveSender(j, isMe, alt, knows).id, knows)
BY PersonNamed DEF ResolveSender

-----------------------------------------------------------------------------
(* What is told of people and chats.                                       *)

PeopleFields == {"sender", "user", "caller", "messageSender"}
ChatTypes    == {"chat_setting", "chat_presence", "chat_picture"}

\* In the data of an event, every identifier but that of the event itself.
NamedData(d, knows) ==
    /\ \A f \in PeopleFields \cap DOMAIN d : Named(d[f].id, knows)
    /\ "chatId" \in DOMAIN d => Named(d.chatId, knows)
    /\ "ephemeral" \in DOMAIN d => Named(d.ephemeral.sender.id, knows)
    /\ "mentions" \in DOMAIN d => \A n \in DOMAIN d.mentions : Named(d.mentions[n], knows)
    /\ "replyTo" \in DOMAIN d /\ "sender" \in DOMAIN d.replyTo =>
         Named(d.replyTo.sender.id, knows)

NamedEvent(e, knows) ==
    /\ NamedData(e.data, knows)
    /\ e.eventType = "contact" => Named(e.data.contact.id, knows)
    /\ e.eventType \in ChatTypes => Named(e.data.id, knows)

\* What Project makes of an event.
NamedEvents(s, knows) == s = <<>> \/ \E e : s = <<e>> /\ NamedEvent(e, knows)

\* The fields of data that NamedData looks at.
NamingFields == PeopleFields \cup {"chatId", "ephemeral", "mentions", "replyTo"}

LEMMA NamedNothing ==
    ASSUME NEW d, NEW knows, DOMAIN d \cap NamingFields = {}
    PROVE  NamedData(d, knows)
BY DEF NamedData, NamingFields, PeopleFields

LEMMA NamedMerge ==
    ASSUME NEW f, NEW g, NEW knows, NamedData(f, knows), NamedData(g, knows)
    PROVE  NamedData(f @@ g, knows)
<1> DEFINE h == f @@ g
<1>1. \A x \in DOMAIN h : \/ x \in DOMAIN f /\ h[x] = f[x]
                          \/ x \in DOMAIN g /\ h[x] = g[x]
  <2>1. /\ DOMAIN h = DOMAIN f \cup DOMAIN g
        /\ \A x \in DOMAIN f : h[x] = f[x]
        /\ \A x \in DOMAIN g \ DOMAIN f : h[x] = g[x]
    BY Merge
  <2> HIDE DEF h
  <2> QED
    BY <2>1
<1> HIDE DEF h
<1>2. \A x \in PeopleFields \cap DOMAIN h : Named(h[x].id, knows)
  BY <1>1 DEF NamedData
<1>3. "chatId" \in DOMAIN h => Named(h.chatId, knows)
  BY <1>1 DEF NamedData
<1>4. "ephemeral" \in DOMAIN h => Named(h.ephemeral.sender.id, knows)
  BY <1>1 DEF NamedData
<1>5. "mentions" \in DOMAIN h => \A n \in DOMAIN h.mentions : Named(h.mentions[n], knows)
  BY <1>1 DEF NamedData
<1>6. "replyTo" \in DOMAIN h /\ "sender" \in DOMAIN h.replyTo =>
         Named(h.replyTo.sender.id, knows)
  BY <1>1 DEF NamedData
<1>7. NamedData(h, knows)
  BY <1>2, <1>3, <1>4, <1>5, <1>6 DEF NamedData
<1> QED
  BY <1>7 DEF h

LEMMA NamedIf ==
    ASSUME NEW d, NEW knows, NamedData(d, knows), NEW c
    PROVE  NamedData(If(c, d), knows)
<1>1. DOMAIN Nothing = {}
  BY Parts
<1> QED
  BY <1>1, NamedNothing DEF If

\* Identifiers in an event.
LEMMA NamedIds ==
    ASSUME NEW e, NEW knows, NamedEvent(e, knows), NEW j \in Ids(e)
    PROVE  Named(j, knows)
<1> DEFINE d == e.data
           people == PeopleFields \cup (IF e.eventType = "contact" THEN {"contact"} ELSE {})
<1>1. \/ \E f \in people \cap DOMAIN d : j = d[f].id
      \/ "chatId" \in DOMAIN d /\ j = d.chatId
      \/ e.eventType \in ChatTypes /\ j = d.id
      \/ "ephemeral" \in DOMAIN d /\ j = d.ephemeral.sender.id
      \/ "mentions" \in DOMAIN d /\ \E n \in DOMAIN d.mentions : j = d.mentions[n]
      \/ "replyTo" \in DOMAIN d /\ "sender" \in DOMAIN d.replyTo /\ j = d.replyTo.sender.id
  BY DEF Ids, Has, PeopleFields, ChatTypes
<1>2. CASE \E f \in people \cap DOMAIN d : j = d[f].id
  <2>1. PICK f \in people \cap DOMAIN d : j = d[f].id
    BY <1>2
  <2>2. CASE f \in PeopleFields
    BY <2>1, <2>2 DEF NamedEvent, NamedData
  <2>3. CASE f \notin PeopleFields
    BY <2>1, <2>3 DEF NamedEvent, PeopleFields
  <2> QED
    BY <2>2, <2>3
<1>3. CASE ~\E f \in people \cap DOMAIN d : j = d[f].id
  BY <1>1, <1>3 DEF NamedEvent, NamedData
<1> QED
  BY <1>2, <1>3

LEMMA PublishedNamed ==
    ASSUME NEW type, NEW d, NEW knows, NamedData(d, knows),
           type = "contact" => Named(d.contact.id, knows),
           type \in ChatTypes => Named(d.id, knows)
    PROVE  NamedEvents(Published(type, d), knows)
<1> DEFINE e == [eventType |-> type, data |-> d]
<1>1. e.eventType = type /\ e.data = d
  OBVIOUS
<1>2. Published(type, d) = <<e>>
  BY DEF Published
<1> HIDE DEF e
<1>3. NamedEvent(e, knows)
  BY <1>1 DEF NamedEvent
<1> QED
  BY <1>2, <1>3 DEF NamedEvents

LEMMA DiscardedNamed == \A knows : NamedEvents(Discarded, knows)
BY DEF NamedEvents, Discarded

-----------------------------------------------------------------------------
(* The content of a message.                                               *)

PlainPayload == {"type", "text", "media", "reaction", "adReferral", "contact", "contactArray",
                 "extendedText", "pin", "edit", "isEdit", "isForwarded", "viewOnce",
                 "ephemeralExpiration"}

\* The fields a payload may have; who wrote what in which chat is none of them.
PayloadOK(d, knows) ==
    /\ DOMAIN d \subseteq PlainPayload \cup {"mentions", "replyTo"}
    /\ NamedData(d, knows)

LEMMA PayloadPlain ==
    ASSUME NEW d, DOMAIN d \subseteq PlainPayload, NEW knows
    PROVE  PayloadOK(d, knows)
<1>1. DOMAIN d \cap NamingFields = {}
  BY DEF NamingFields, PeopleFields, PlainPayload
<1> QED
  BY <1>1, NamedNothing DEF PayloadOK

LEMMA PayloadMerge ==
    ASSUME NEW f, NEW g, NEW knows, PayloadOK(f, knows), PayloadOK(g, knows)
    PROVE  PayloadOK(f @@ g, knows)
<1>1. DOMAIN (f @@ g) = DOMAIN f \cup DOMAIN g
  BY Merge
<1>2. NamedData(f @@ g, knows)
  BY NamedMerge DEF PayloadOK
<1> QED
  BY <1>1, <1>2 DEF PayloadOK

LEMMA PayloadIf ==
    ASSUME NEW d, NEW knows, PayloadOK(d, knows), NEW c
    PROVE  PayloadOK(If(c, d), knows)
<1>1. DOMAIN If(c, d) \subseteq DOMAIN d
  BY Parts
<1>2. NamedData(If(c, d), knows)
  BY NamedIf DEF PayloadOK
<1> QED
  BY <1>1, <1>2 DEF PayloadOK

LEMMA PayloadNothing ==
    ASSUME NEW knows
    PROVE  PayloadOK(Nothing, knows)
<1>1. DOMAIN Nothing \subseteq PlainPayload
  BY Parts
<1> QED
  BY <1>1, PayloadPlain

LEMMA MentionsPayload ==
    ASSUME NEW knows, NoUser \notin knows, NEW jids
    PROVE  PayloadOK([mentions |-> ResolveMentions(jids, knows)], knows)
<1> DEFINE m == ResolveMentions(jids, knows)
           d == [mentions |-> m]
<1>1. \A n \in DOMAIN m : Named(m[n], knows)
  BY MentionNamed DEF ResolveMentions
<1>2. DOMAIN d = {"mentions"} /\ d.mentions = m
  OBVIOUS
<1> HIDE DEF m, d
<1>3. NamedData(d, knows)
  BY <1>1, <1>2 DEF NamedData, PeopleFields
<1> QED
  BY <1>2, <1>3 DEF PayloadOK, m, d

LEMMA ReplyPayload ==
    ASSUME NEW knows, NoUser \notin knows, NEW ctx
    PROVE  PayloadOK(ReplyTo(ctx, knows), knows)
<1> DEFINE named  == Has(ctx, "participant")
           quoted == IF Has(ctx, "quoted") THEN Copy(ctx.quoted, {"text"}) ELSE Nothing
           id     == If(Has(ctx, "stanzaId"), [id |-> ctx.stanzaId])
           who    == ResolveSender(ParseText(ctx.participant), FALSE, EmptyJID, knows)
           sender == If(named, [sender |-> who])
           flag   == If(Flag(ctx, "forwarded"), [isForwarded |-> TRUE])
           reply  == id @@ sender @@ flag @@ quoted
           d      == [replyTo |-> reply]
<1>1. ReplyTo(ctx, knows) = If(Has(ctx, "stanzaId") \/ named, d)
  BY DEF ReplyTo
<1>2. IsJID(ParseText(ctx.participant))
  BY DEF IsJID, ParseText, ParseJID, Jid
<1>3. Named(who.id, knows)
  BY <1>2, SenderNamed
<1>4. "sender" \notin DOMAIN id \cup DOMAIN flag \cup DOMAIN quoted
  <2>1. DOMAIN quoted \subseteq {"text"}
    BY Parts
  <2> QED
    BY <2>1 DEF If, Nothing
<1>5. "sender" \in DOMAIN sender => sender.sender = who
  <2> HIDE DEF who
  <2> QED
    BY DEF If, Nothing
<1>6. "sender" \in DOMAIN reply => Named(reply.sender.id, knows)
  <2> HIDE DEF id, sender, flag, quoted, who
  <2>1. /\ "sender" \in DOMAIN (id @@ sender) <=> "sender" \in DOMAIN sender
        /\ "sender" \in DOMAIN sender => (id @@ sender)["sender"] = sender["sender"]
    BY <1>4, MergeAt
  <2>2. /\ "sender" \in DOMAIN (id @@ sender @@ flag) <=> "sender" \in DOMAIN sender
        /\ "sender" \in DOMAIN sender => (id @@ sender @@ flag)["sender"] = sender["sender"]
    BY <1>4, <2>1, MergeAt
  <2>3. /\ "sender" \in DOMAIN reply <=> "sender" \in DOMAIN sender
        /\ "sender" \in DOMAIN sender => reply["sender"] = sender["sender"]
    BY <1>4, <2>2, MergeAt
  <2> HIDE DEF reply
  <2> QED
    BY <1>3, <1>5, <2>3
<1>7. DOMAIN d = {"replyTo"} /\ d.replyTo = reply
  OBVIOUS
<1> HIDE DEF reply, d
<1>8. NamedData(d, knows)
  BY <1>6, <1>7 DEF NamedData, PeopleFields
<1>9. PayloadOK(d, knows)
  BY <1>7, <1>8 DEF PayloadOK
<1> QED
  BY <1>1, <1>9, PayloadIf

\* The context of a message adds mentions, a reply and plain fields.
LEMMA ContextPayload ==
    ASSUME NEW knows, NoUser \notin knows, NEW part
    PROVE  PayloadOK(Context(part, knows), knows)
<1> DEFINE ctx == part.context
           fwd  == If(Flag(ctx, "forwarded"), [isForwarded |-> TRUE])
           ment == If(Has(ctx, "mentioned") /\ ctx.mentioned # <<>>,
                      [mentions |-> ResolveMentions(ctx.mentioned, knows)])
           rep  == ReplyTo(ctx, knows)
           eph  == If(Has(ctx, "expiration"),
                      [ephemeralExpiration |-> ExpirationString(ctx.expiration)])
           ad   == AdReferral(ctx)
<1>1. PayloadOK(fwd, knows)
  <2>1. DOMAIN [isForwarded |-> TRUE] \subseteq PlainPayload
    BY DEF PlainPayload
  <2> QED
    BY <2>1, PayloadPlain, PayloadIf
<1>2. PayloadOK(ment, knows)
  BY MentionsPayload, PayloadIf
<1>3. PayloadOK(rep, knows)
  BY ReplyPayload
<1>4. PayloadOK(eph, knows)
  <2>1. DOMAIN [ephemeralExpiration |-> ExpirationString(ctx.expiration)] \subseteq PlainPayload
    BY DEF PlainPayload
  <2> QED
    BY <2>1, PayloadPlain, PayloadIf
<1>5. PayloadOK(ad, knows)
  <2>1. DOMAIN ad \subseteq {"adReferral"}
    BY Parts DEF AdReferral, If
  <2> HIDE DEF ad
  <2>2. DOMAIN ad \subseteq PlainPayload
    BY <2>1 DEF PlainPayload
  <2> QED
    BY <2>2, PayloadPlain
<1>6. ContextInfo(ctx, knows) = fwd @@ ment @@ rep @@ eph @@ ad
  BY DEF ContextInfo
<1> HIDE DEF fwd, ment, rep, eph, ad
<1>7. PayloadOK(fwd @@ ment @@ rep @@ eph @@ ad, knows)
  BY <1>1, <1>2, <1>3, <1>4, <1>5, PayloadMerge
<1>8. PayloadOK(ContextInfo(ctx, knows), knows)
  BY <1>6, <1>7
<1> QED
  BY <1>8, PayloadNothing DEF Context

LEMMA TextPayloadOK ==
    ASSUME NEW text, NEW knows
    PROVE  PayloadOK(TextPayload(text), knows)
<1>1. DOMAIN [type |-> "text", text |-> text] \subseteq PlainPayload
  BY DEF PlainPayload
<1> QED
  BY <1>1, PayloadPlain, PayloadIf DEF TextPayload

LEMMA MediaPayloadOK ==
    ASSUME NEW knows, NoUser \notin knows, NEW class, NEW name, NEW shown, NEW part
    PROVE  PayloadOK(MediaPayload(class, name, shown, part, knows), knows)
<1> DEFINE m == [mediaType |-> class, id |-> [class |-> class, file |-> part.file, name |-> name]]
                @@ Copy(part, shown)
           d == [type  |-> "media", media |-> m]
<1>1. DOMAIN d \subseteq PlainPayload
  BY DEF PlainPayload
<1>2. MediaPayload(class, name, shown, part, knows) = d @@ Context(part, knows)
  BY DEF MediaPayload
<1> HIDE DEF d
<1> QED
  BY <1>1, <1>2, PayloadPlain, PayloadMerge, ContextPayload

LEMMA ViewOncePayload ==
    ASSUME NEW knows, NEW part
    PROVE  PayloadOK(ViewOnce(part), knows)
<1>1. DOMAIN [viewOnce |-> TRUE] \subseteq PlainPayload
  BY DEF PlainPayload
<1> QED
  BY <1>1, PayloadPlain, PayloadIf DEF ViewOnce

LEMMA ExtendedTextOK ==
    ASSUME NEW knows, NoUser \notin knows, NEW m
    PROVE  PayloadOK(ExtendedTextPayload(m, knows), knows)
<1> DEFINE rich  == {"description", "title", "jpegThumbnail"}
           text  == TextPayload(Get(m, "text"))
           shown == Copy(m, rich \cup {"matchedText"})
           ext   == If(\E f \in rich : Get(m, f) # "", [extendedText |-> shown])
<1>1. PayloadOK(ext, knows)
  <2>1. DOMAIN [extendedText |-> shown] \subseteq PlainPayload
    BY DEF PlainPayload
  <2> HIDE DEF shown
  <2> QED
    BY <2>1, PayloadPlain, PayloadIf
<1>2. PayloadOK(text, knows)
  BY TextPayloadOK
<1>3. ExtendedTextPayload(m, knows) = text @@ ext @@ Context(m, knows)
  BY DEF ExtendedTextPayload
<1> HIDE DEF ext, text
<1> QED
  BY <1>1, <1>2, <1>3, PayloadMerge, ContextPayload

LEMMA EditPayloadOK ==
    ASSUME NEW knows, NEW m
    PROVE  PayloadOK(EditPayload(m), knows)
<1> DEFINE new  == IF Has(m, "edited") THEN m.edited ELSE Nothing
           text == IF Get(new, "conversation") # "" THEN new.conversation
                   ELSE IF Has(new, "extendedText") THEN Get(new.extendedText, "text") ELSE ""
           key  == If(Has(m, "key"), [originalMessageId |-> m.key.id])
           d    == [isEdit |-> TRUE, edit |-> key]
<1>1. EditPayload(m) = TextPayload(text) @@ d
  BY DEF EditPayload
<1>2. DOMAIN d \subseteq PlainPayload
  BY DEF PlainPayload
<1> HIDE DEF text, d
<1> QED
  BY <1>1, <1>2, TextPayloadOK, PayloadPlain, PayloadMerge

LEMMA PinPayloadOK ==
    ASSUME NEW knows, NEW m, NEW seconds
    PROVE  PayloadOK(PinPayload(m, seconds), knows)
<1>1. DOMAIN PinPayload(m, seconds) \subseteq {"type", "pin"}
  BY Parts DEF PinPayload
<1> HIDE DEF PinPayload
<1>2. DOMAIN PinPayload(m, seconds) \subseteq PlainPayload
  BY <1>1 DEF PlainPayload
<1> QED
  BY <1>2, PayloadPlain

LEMMA ReactionPayloadOK ==
    ASSUME NEW knows, NEW m
    PROVE  PayloadOK(ReactionPayload(m), knows)
<1>1. DOMAIN ReactionPayload(m) \subseteq PlainPayload
  BY DEF ReactionPayload, PlainPayload
<1> QED
  BY <1>1, PayloadPlain

LEMMA ContactPayloadOK ==
    ASSUME NEW knows, NEW m
    PROVE  PayloadOK(ContactPayload(m), knows)
<1> DEFINE d == [contact |-> m.vcard]
           t == [type |-> "contact"]
<1>1. DOMAIN t \subseteq PlainPayload /\ DOMAIN d \subseteq PlainPayload
  BY DEF PlainPayload
<1>2. ContactPayload(m) = t @@ If(Get(m, "vcard") # "", d)
  BY DEF ContactPayload
<1> HIDE DEF d, t
<1>3. PayloadOK(t, knows) /\ PayloadOK(d, knows)
  BY <1>1, PayloadPlain
<1>4. PayloadOK(If(Get(m, "vcard") # "", d), knows)
  BY <1>3, PayloadIf
<1> QED
  BY <1>2, <1>3, <1>4, PayloadMerge

LEMMA ContactArrayPayloadOK ==
    ASSUME NEW knows, NEW m
    PROVE  PayloadOK(ContactArrayPayload(m), knows)
<1> DEFINE cards == SelectSeq(m.contacts, LAMBDA c : c # "")
           d == [contactArray |-> cards]
           t == [type |-> "contactArray"]
<1>1. DOMAIN t \subseteq PlainPayload /\ DOMAIN d \subseteq PlainPayload
  BY DEF PlainPayload
<1>2. ContactArrayPayload(m) = t @@ If(cards # <<>>, d)
  BY DEF ContactArrayPayload
<1> HIDE DEF cards, d, t
<1>3. PayloadOK(t, knows) /\ PayloadOK(d, knows)
  BY <1>1, PayloadPlain
<1>4. PayloadOK(If(cards # <<>>, d), knows)
  BY <1>3, PayloadIf
<1> QED
  BY <1>2, <1>3, <1>4, PayloadMerge

\* Whatever is in a message, its payload says nothing of the sender and the
\* chat, and names those who are mentioned or answered.
LEMMA PayloadFacts ==
    ASSUME NEW knows, NoUser \notin knows, NEW content
    PROVE  PayloadOK(Payload(content, knows), knows)
<1> DEFINE kind == Kind(content)
           P == Payload(content, knows)
<1>1. \/ P = TextPayload(content.conversation)
      \/ P = ImagePayload(content.image, knows)
      \/ P = VideoPayload(content.video, knows)
      \/ P = AudioPayload(content.audio, knows)
      \/ P = DocumentPayload(content.document, knows)
      \/ P = StickerPayload(content.sticker, knows)
      \/ P = ReactionPayload(content.reaction)
      \/ P = ContactPayload(content.contact)
      \/ P = ContactArrayPayload(content.contacts)
      \/ P = ExtendedTextPayload(content.extendedText, knows)
      \/ P = PinPayload(content.pin, IF Has(content, "addOnSeconds")
                                     THEN content.addOnSeconds ELSE 0)
      \/ P = EditPayload(content.protocol)
      \/ P = Nothing
  <2> HIDE DEF kind
  <2> QED
    BY DEF Payload, kind
<1> HIDE DEF P
<1>2. CASE P = TextPayload(content.conversation)
  BY <1>2, TextPayloadOK DEF P
<1>3. CASE P = ImagePayload(content.image, knows)
  <2>1. PayloadOK(ImagePayload(content.image, knows), knows)
    <3> DEFINE m == MediaPayload("image", "", {"mimeType", "fileLength", "caption", "height",
                       "width", "jpegThumbnail"}, content.image, knows)
    <3>1. ImagePayload(content.image, knows) = m @@ ViewOnce(content.image)
      BY DEF ImagePayload
    <3>2. PayloadOK(m, knows)
      BY MediaPayloadOK
    <3> HIDE DEF m
    <3> QED
      BY <3>1, <3>2, ViewOncePayload, PayloadMerge
  <2> QED
    BY <1>3, <2>1 DEF P
<1>4. CASE P = VideoPayload(content.video, knows)
  <2>1. PayloadOK(VideoPayload(content.video, knows), knows)
    <3> DEFINE m == MediaPayload("video", "", {"mimeType", "fileLength", "caption", "height",
                       "width", "jpegThumbnail", "duration"}, content.video, knows)
    <3>1. VideoPayload(content.video, knows) = m @@ ViewOnce(content.video)
      BY DEF VideoPayload
    <3>2. PayloadOK(m, knows)
      BY MediaPayloadOK
    <3> HIDE DEF m
    <3> QED
      BY <3>1, <3>2, ViewOncePayload, PayloadMerge
  <2> QED
    BY <1>4, <2>1 DEF P
<1>5. CASE P = AudioPayload(content.audio, knows)
  <2>1. PayloadOK(AudioPayload(content.audio, knows), knows)
    BY MediaPayloadOK DEF AudioPayload
  <2> QED
    BY <1>5, <2>1 DEF P
<1>6. CASE P = DocumentPayload(content.document, knows)
  <2>1. PayloadOK(DocumentPayload(content.document, knows), knows)
    BY MediaPayloadOK DEF DocumentPayload
  <2> QED
    BY <1>6, <2>1 DEF P
<1>7. CASE P = StickerPayload(content.sticker, knows)
  <2>1. PayloadOK(StickerPayload(content.sticker, knows), knows)
    BY MediaPayloadOK DEF StickerPayload
  <2> QED
    BY <1>7, <2>1 DEF P
<1>8. CASE P = ReactionPayload(content.reaction)
  BY <1>8, ReactionPayloadOK DEF P
<1>9. CASE P = ContactPayload(content.contact)
  BY <1>9, ContactPayloadOK DEF P
<1>10. CASE P = ContactArrayPayload(content.contacts)
  BY <1>10, ContactArrayPayloadOK DEF P
<1>11. CASE P = ExtendedTextPayload(content.extendedText, knows)
  BY <1>11, ExtendedTextOK DEF P
<1>12. CASE P = PinPayload(content.pin, IF Has(content, "addOnSeconds")
                                        THEN content.addOnSeconds ELSE 0)
  BY <1>12, PinPayloadOK DEF P
<1>13. CASE P = EditPayload(content.protocol)
  BY <1>13, EditPayloadOK DEF P
<1>14. CASE P = Nothing
  BY <1>14, PayloadNothing DEF P
<1> QED
  BY <1>1, <1>2, <1>3, <1>4, <1>5, <1>6, <1>7, <1>8, <1>9, <1>10, <1>11, <1>12, <1>13, <1>14

-----------------------------------------------------------------------------
(* The projectors.                                                         *)

\* The origin of a message names nobody by a LID that is known.
LEMMA OriginNamed ==
    ASSUME NEW knows, NoUser \notin knows, NEW info, IsJID(info.chat), IsJID(info.sender)
    PROVE  /\ DOMAIN Origin(info, knows) = {"chatId", "sender"}
           /\ Origin(info, knows).chatId = ProjectChatID(info.chat, knows)
           /\ Origin(info, knows).sender = Sender(info, knows)
           /\ Named(Sender(info, knows).id, knows)
           /\ NamedData(Origin(info, knows), knows)
<1> DEFINE c == ProjectChatID(info.chat, knows)
           s == Sender(info, knows)
<1>1. Named(c, knows)
  BY ChatNamed
<1>2. Named(s.id, knows)
  BY SenderNamed DEF Sender
<1>3. Origin(info, knows) = [chatId |-> c, sender |-> s]
  BY DEF Origin
<1> HIDE DEF c, s
<1> DEFINE o == [chatId |-> c, sender |-> s]
<1>4. DOMAIN o = {"chatId", "sender"} /\ o.chatId = c /\ o.sender = s
  OBVIOUS
<1> HIDE DEF o
<1>5. NamedData(o, knows)
  BY <1>1, <1>2, <1>4 DEF NamedData, PeopleFields
<1> QED
  BY <1>2, <1>3, <1>4, <1>5 DEF o, c, s

LEMMA StatusNamed ==
    ASSUME NEW chat, NEW knows
    PROVE  NamedData(Status(chat), knows) /\ DOMAIN Status(chat) \subseteq {"isStatus"}
<1>1. DOMAIN Status(chat) \subseteq {"isStatus"}
  BY Parts DEF Status
<1> HIDE DEF Status
<1>2. DOMAIN Status(chat) \cap NamingFields = {}
  BY <1>1 DEF NamingFields, PeopleFields
<1> QED
  BY <1>1, <1>2, NamedNothing

\* A message that is deleted, for all or for the account.
LEMMA DeleteNamed ==
    ASSUME NEW knows, NoUser \notin knows, NEW info, IsJID(info.chat), IsJID(info.sender),
           NEW d, DOMAIN d \cap NamingFields = {}, NEW chat
    PROVE  NamedEvents(Published("message_delete", d @@ Origin(info, knows) @@ Status(chat)), knows)
<1>1. NamedData(d, knows) /\ NamedData(Origin(info, knows), knows) /\ NamedData(Status(chat), knows)
  BY OriginNamed, StatusNamed, NamedNothing
<1>2. NamedData(d @@ Origin(info, knows) @@ Status(chat), knows)
  BY <1>1, NamedMerge
<1> QED
  BY <1>2, PublishedNamed DEF ChatTypes

\* A timer set in a chat.
LEMMA EphemeralNamed ==
    ASSUME NEW knows, NoUser \notin knows, NEW jid, IsJID(jid), NEW value, NEW who,
           Named(who.id, knows)
    PROVE  NamedEvents(Published("chat_setting",
              [id |-> ProjectChatID(jid, knows), settingType |-> "ephemeral",
               ephemeral |-> [expiration |-> value, sender |-> who]]), knows)
<1> DEFINE c == ProjectChatID(jid, knows)
           t == [expiration |-> value, sender |-> who]
           d == [id |-> c, settingType |-> "ephemeral", ephemeral |-> t]
<1>1. Named(c, knows)
  BY ChatNamed
<1>2. t.sender = who
  OBVIOUS
<1> HIDE DEF c, t
<1>3. DOMAIN d = {"id", "settingType", "ephemeral"} /\ d.id = c /\ d.ephemeral = t
  OBVIOUS
<1> HIDE DEF d
<1>4. NamedData(d, knows)
  BY <1>2, <1>3 DEF NamedData, PeopleFields
<1>5. NamedEvents(Published("chat_setting", d), knows)
  BY <1>1, <1>3, <1>4, PublishedNamed
<1> QED
  BY <1>5 DEF d, t, c

\* A message tells its chat and its sender.
MessageTells(s, info, knows) ==
    s # <<>> /\ s[1].eventType = "message" =>
      /\ s[1].data.chatId = ProjectChatID(info.chat, knows)
      /\ s[1].data.sender = Sender(info, knows)

LEMMA MessageNamed ==
    ASSUME NEW knows, NoUser \notin knows, NEW evt, IsJID(evt.info.chat), IsJID(evt.info.sender)
    PROVE  /\ NamedEvents(ProjectMessage(evt, knows), knows)
           /\ MessageTells(ProjectMessage(evt, knows), evt.info, knows)
<1> DEFINE info    == evt.info
           P       == Payload(evt.content, knows)
           shape   == [id |-> info.id, isGroup |-> info.isGroup,
                       type |-> IF info.type # "" THEN info.type ELSE "unknown"]
           origin  == Origin(info, knows)
           status  == Status(info.chat)
           result  == P @@ shape @@ origin @@ status
           setting == evt.content.protocol
           M       == ProjectMessage(evt, knows)
<1>1. \/ M = Discarded
      \/ M = ProjectMessageDeleteForAll(evt, knows)
      \/ M = ProjectMessageEphemeralSetting(evt, knows)
      \/ M = Published("message", result)
  <2> DEFINE kind == Kind(evt.content)
             c1   == info.category = "peer" \/ info.id = NoId
             c2   == kind = "protocol" /\ setting.type = "revoke"
             c3   == kind = "protocol" /\ setting.type = "ephemeral"
             c4   == kind = "senderKey" \/ ~HasContent(result)
  <2>1. M = IF c1 THEN Discarded
            ELSE CASE c2 -> ProjectMessageDeleteForAll(evt, knows)
                   [] c3 -> ProjectMessageEphemeralSetting(evt, knows)
                   [] OTHER -> IF c4 THEN Discarded ELSE Published("message", result)
    BY DEF ProjectMessage
  <2> HIDE DEF M, c1, c2, c3, c4, result
  <2> QED
    BY <2>1
<1> HIDE DEF M
<1>2. CASE M = Discarded
  BY <1>2, DiscardedNamed DEF M, MessageTells, Discarded
<1>3. CASE M = ProjectMessageDeleteForAll(evt, knows)
  <2> DEFINE d == [id |-> setting.key.id, isDeletedForAll |-> TRUE]
  <2>1. \/ M = Discarded
        \/ M = Published("message_delete", d @@ origin @@ status)
    BY <1>3 DEF ProjectMessageDeleteForAll
  <2>2. DOMAIN d \cap NamingFields = {}
    BY DEF NamingFields, PeopleFields
  <2> HIDE DEF d
  <2>3. NamedEvents(Published("message_delete", d @@ origin @@ status), knows)
    BY <2>2, DeleteNamed
  <2> HIDE DEF origin, status
  <2>4. NamedEvents(M, knows) /\ MessageTells(M, info, knows)
    BY <2>1, <2>3, DiscardedNamed DEF Published, MessageTells, Discarded
  <2> QED
    BY <2>4 DEF M
<1>4. CASE M = ProjectMessageEphemeralSetting(evt, knows)
  <2> DEFINE value == ExpirationString(IF Has(setting, "expiration") THEN setting.expiration ELSE 0)
             who   == Sender(info, knows)
             d     == [id |-> ProjectChatID(info.chat, knows), settingType |-> "ephemeral",
                       ephemeral |-> [expiration |-> value, sender |-> who]]
  <2>1. M = Published("chat_setting", d)
    BY <1>4 DEF ProjectMessageEphemeralSetting
  <2>2. Named(who.id, knows)
    BY OriginNamed
  <2> HIDE DEF value, who
  <2>3. NamedEvents(Published("chat_setting", d), knows)
    BY <2>2, EphemeralNamed
  <2> HIDE DEF d
  <2>4. NamedEvents(M, knows) /\ MessageTells(M, info, knows)
    BY <2>1, <2>3 DEF Published, MessageTells
  <2> QED
    BY <2>4 DEF M
<1>5. CASE M = Published("message", result)
  <2>1. PayloadOK(P, knows)
    BY PayloadFacts
  <2>2. NamedData(shape, knows) /\ DOMAIN shape = {"id", "isGroup", "type"}
    <3>1. DOMAIN shape = {"id", "isGroup", "type"}
      OBVIOUS
    <3> HIDE DEF shape
    <3>2. DOMAIN shape \cap NamingFields = {}
      BY <3>1 DEF NamingFields, PeopleFields
    <3> QED
      BY <3>1, <3>2, NamedNothing
  <2>3. /\ DOMAIN origin = {"chatId", "sender"} /\ NamedData(origin, knows)
        /\ origin.chatId = ProjectChatID(info.chat, knows)
        /\ origin.sender = Sender(info, knows)
    BY OriginNamed
  <2>4. NamedData(status, knows) /\ DOMAIN status \subseteq {"isStatus"}
    BY StatusNamed
  <2> HIDE DEF P, shape, origin, status, info
  <2>5. NamedData(P @@ shape @@ origin @@ status, knows)
    BY <2>1, <2>2, <2>3, <2>4, NamedMerge DEF PayloadOK
  <2>6. ASSUME NEW f \in {"chatId", "sender"}
        PROVE  f \in DOMAIN result /\ result[f] = origin[f]
    <3>1. f \notin DOMAIN (P @@ shape)
      BY <2>1, <2>2, MergeAt DEF PayloadOK, PlainPayload
    <3>2. f \in DOMAIN (P @@ shape @@ origin) /\ (P @@ shape @@ origin)[f] = origin[f]
      BY <2>3, <3>1, MergeAt
    <3> QED
      BY <3>2, MergeAt
  <2>7. result.chatId = ProjectChatID(info.chat, knows) /\ result.sender = Sender(info, knows)
    BY <2>3, <2>6
  <2> HIDE DEF result
  <2>8. NamedEvents(M, knows)
    BY <1>5, <2>5, PublishedNamed DEF ChatTypes, result
  <2>9. M[1].data = result
    BY <1>5 DEF Published
  <2>10. MessageTells(M, info, knows)
    BY <2>7, <2>9 DEF MessageTells
  <2> QED
    BY <2>8, <2>10 DEF M, info
<1> QED
  BY <1>1, <1>2, <1>3, <1>4, <1>5 DEF M

\* Receipts and what the devices of an account tell each other.
LEMMA ReceiptNamed ==
    ASSUME NEW knows, NoUser \notin knows, NEW evt, IsJID(evt.info.chat), IsJID(evt.info.sender),
           IsJID(evt.messageSender)
    PROVE  NamedEvents(ProjectReceipt(evt, knows), knows)
<1> DEFINE shape  == [isGroup |-> evt.info.isGroup, receiptType |-> evt.type]
           origin == Origin(evt.info, knows)
           who    == ResolveSender(evt.messageSender, FALSE, EmptyJID, knows)
           by     == [messageSender |-> who]
           c1     == evt.messageSender.user # NoUser
           ids    == [messageIds |-> evt.messageIds]
           c2     == evt.messageIds # <<>>
           d      == shape @@ origin @@ If(c1, by) @@ If(c2, ids)
<1>1. \/ ProjectReceipt(evt, knows) = Discarded
      \/ ProjectReceipt(evt, knows) = Published("message_read", d)
  BY DEF ProjectReceipt
<1>2. NamedData(shape, knows) /\ NamedData(ids, knows)
  <2>1. DOMAIN shape \cap NamingFields = {} /\ DOMAIN ids \cap NamingFields = {}
    BY DEF NamingFields, PeopleFields
  <2> HIDE DEF shape, ids
  <2> QED
    BY <2>1, NamedNothing
<1>3. NamedData(by, knows)
  <2>1. Named(who.id, knows)
    BY SenderNamed
  <2> HIDE DEF who
  <2> QED
    BY <2>1 DEF NamedData, PeopleFields
<1>4. NamedData(origin, knows)
  BY OriginNamed
<1> HIDE DEF shape, origin, by, c1, ids, c2
<1>5. NamedData(If(c1, by), knows) /\ NamedData(If(c2, ids), knows)
  BY <1>2, <1>3, NamedIf
<1>6. NamedData(d, knows)
  BY <1>2, <1>4, <1>5, NamedMerge
<1> HIDE DEF d
<1>7. NamedEvents(Published("message_read", d), knows)
  BY <1>6, PublishedNamed DEF ChatTypes
<1> QED
  BY <1>1, <1>7, DiscardedNamed

LEMMA OriginAloneIs ==
    ASSUME NEW knows, NEW info, IsJID(info.chat), IsJID(info.sender),
           {"chat", "sender"} \subseteq DOMAIN info
    PROVE  \E alone : /\ OriginAlone(info, knows) = Origin(alone, knows)
                      /\ IsJID(alone.chat) /\ IsJID(alone.sender)
<1> DEFINE alone == [info EXCEPT !.senderAlt = EmptyJID]
<1>1. OriginAlone(info, knows) = Origin(alone, knows)
  BY DEF OriginAlone
<1>2. alone.chat = info.chat /\ alone.sender = info.sender
  OBVIOUS
<1> HIDE DEF alone
<1>3. IsJID(alone.chat) /\ IsJID(alone.sender)
  BY <1>2
<1> QED
  BY <1>1, <1>3

LEMMA PatchNamed ==
    ASSUME NEW knows, NoUser \notin knows, NEW evt, IsJID(evt.info.chat), IsJID(evt.info.sender),
           {"chat", "sender"} \subseteq DOMAIN evt.info
    PROVE  /\ NamedEvents(ProjectMessageDeleteForMe(evt, knows), knows)
           /\ NamedEvents(ProjectStar(evt, knows), knows)
<1>1. PICK alone : /\ OriginAlone(evt.info, knows) = Origin(alone, knows)
                   /\ IsJID(alone.chat) /\ IsJID(alone.sender)
  BY OriginAloneIs
<1>2. NamedEvents(ProjectMessageDeleteForMe(evt, knows), knows)
  <2> DEFINE d == [id |-> evt.id, isDeletedForMe |-> TRUE]
  <2>1. DOMAIN d \cap NamingFields = {}
    BY DEF NamingFields, PeopleFields
  <2>2. ProjectMessageDeleteForMe(evt, knows)
        = Published("message_delete", d @@ Origin(alone, knows) @@ Status(evt.info.chat))
    BY <1>1 DEF ProjectMessageDeleteForMe
  <2> HIDE DEF d
  <2> QED
    BY <1>1, <2>1, <2>2, DeleteNamed
<1>3. NamedEvents(ProjectStar(evt, knows), knows)
  <2> DEFINE d == [id |-> evt.id, isStarred |-> evt.starred]
  <2>1. DOMAIN d \cap NamingFields = {}
    BY DEF NamingFields, PeopleFields
  <2>2. ProjectStar(evt, knows) = Published("message_star", d @@ Origin(alone, knows))
    BY <1>1 DEF ProjectStar
  <2> HIDE DEF d
  <2>3. NamedData(d @@ Origin(alone, knows), knows)
    BY <1>1, <2>1, OriginNamed, NamedNothing, NamedMerge
  <2> QED
    BY <2>2, <2>3, PublishedNamed DEF ChatTypes
<1> QED
  BY <1>2, <1>3

\* Settings of chats.
LEMMA ChatSettingNamed ==
    ASSUME NEW knows, NoUser \notin knows, NEW evt, IsJID(evt.jid), NEW value,
           NEW type \in {"mute", "pin", "archive", "read"}
    PROVE  NamedEvents(ChatSetting(evt, type, value, knows), knows)
<1> DEFINE c == ProjectChatID(evt.jid, knows)
           s == [id |-> c, settingType |-> type]
           v == type :> value
<1>1. Named(c, knows)
  BY ChatNamed
<1>2. NamedData(s, knows) /\ DOMAIN s = {"id", "settingType"} /\ s.id = c
  <2> HIDE DEF c
  <2>1. DOMAIN s = {"id", "settingType"} /\ s.id = c
    OBVIOUS
  <2> HIDE DEF s
  <2>2. DOMAIN s \cap NamingFields = {}
    BY <2>1 DEF NamingFields, PeopleFields
  <2> QED
    BY <2>1, <2>2, NamedNothing
<1>3. NamedData(v, knows)
  <2>1. DOMAIN v = {type}
    BY DEF :>
  <2> HIDE DEF v
  <2>2. DOMAIN v \cap NamingFields = {}
    BY <2>1 DEF NamingFields, PeopleFields
  <2> QED
    BY <2>2, NamedNothing
<1>4. \/ ChatSetting(evt, type, value, knows) = Discarded
      \/ ChatSetting(evt, type, value, knows) = Published("chat_setting", s @@ v)
  BY DEF ChatSetting
<1> HIDE DEF c, s, v
<1>5. NamedData(s @@ v, knows)
  BY <1>2, <1>3, NamedMerge
<1>6. (s @@ v).id = c
  BY <1>2, MergeAt
<1>7. NamedEvents(Published("chat_setting", s @@ v), knows)
  BY <1>1, <1>5, <1>6, PublishedNamed
<1> QED
  BY <1>4, <1>7, DiscardedNamed

\* News of a person: push names, texts, presences and contacts.
LEMMA UserNamed ==
    ASSUME NEW knows, NoUser \notin knows, NEW j, IsJID(j), NEW d, DOMAIN d \cap NamingFields = {}
    PROVE  NamedData([user |-> Person(j, knows)] @@ d, knows)
<1> DEFINE who == Person(j, knows)
<1>1. Named(who.id, knows)
  BY PersonNamed DEF Person
<1> HIDE DEF who
<1>2. NamedData([user |-> who], knows)
  BY <1>1 DEF NamedData, PeopleFields
<1>3. NamedData([user |-> who] @@ d, knows)
  BY <1>2, NamedNothing, NamedMerge
<1> QED
  BY <1>3 DEF who

LEMMA AboutPersonNamed ==
    ASSUME NEW knows, NoUser \notin knows, NEW j, IsJID(j), NEW d, DOMAIN d \cap NamingFields = {},
           NEW type \in {"chat_push_name", "chat_status"}
    PROVE  NamedEvents(AboutPerson(type, j, d, knows), knows)
<1>1. NamedEvents(Published(type, [user |-> Person(j, knows)] @@ d), knows)
  BY UserNamed, PublishedNamed DEF ChatTypes
<1> QED
  BY <1>1, DiscardedNamed DEF AboutPerson

LEMMA PresenceNamed ==
    ASSUME NEW knows, NoUser \notin knows, NEW evt, IsJID(evt.jid)
    PROVE  NamedEvents(ProjectPresence(evt, knows), knows)
<1> DEFINE u == [user |-> Person(evt.jid, knows),
                 status |-> IF evt.unavailable THEN "unavailable" ELSE "available"]
           seen == Copy(evt, {"lastSeen"})
           who == Person(evt.jid, knows)
<1>1. Named(who.id, knows)
  BY PersonNamed DEF Person
<1>2. DOMAIN u = {"user", "status"} /\ u.user = who
  OBVIOUS
<1>3. DOMAIN seen \subseteq {"lastSeen"}
  BY Parts
<1>4. ProjectPresence(evt, knows) = Published("user_presence", u @@ seen)
  BY DEF ProjectPresence
<1> HIDE DEF u, seen, who
<1>5. NamedData(u, knows)
  BY <1>1, <1>2 DEF NamedData, PeopleFields
<1>6. DOMAIN seen \cap NamingFields = {}
  BY <1>3 DEF NamingFields, PeopleFields
<1>7. NamedData(u @@ seen, knows)
  BY <1>5, <1>6, NamedNothing, NamedMerge
<1> QED
  BY <1>4, <1>7, PublishedNamed DEF ChatTypes

LEMMA ContactNamed ==
    ASSUME NEW knows, NoUser \notin knows, NEW evt, IsJID(evt.jid)
    PROVE  NamedEvents(ProjectContact(evt, knows), knows)
<1> DEFINE who == Person(evt.jid, knows)
           d   == [contact |-> who, fullName |-> evt.fullName, inPhoneAddressBook |-> evt.saved]
<1>1. Named(who.id, knows)
  BY PersonNamed DEF Person
<1>2. DOMAIN d = {"contact", "fullName", "inPhoneAddressBook"} /\ d.contact = who
  OBVIOUS
<1>3. \/ ProjectContact(evt, knows) = Discarded
      \/ ProjectContact(evt, knows) = Published("contact", d)
  BY DEF ProjectContact
<1> HIDE DEF d, who
<1>4. DOMAIN d \cap NamingFields = {}
  BY <1>2 DEF NamingFields, PeopleFields
<1>5. NamedEvents(Published("contact", d), knows)
  BY <1>1, <1>2, <1>4, NamedNothing, PublishedNamed DEF ChatTypes
<1> QED
  BY <1>3, <1>5, DiscardedNamed

LEMMA ChatPresenceNamed ==
    ASSUME NEW knows, NoUser \notin knows, NEW evt, IsJID(evt.info.chat), IsJID(evt.info.sender)
    PROVE  NamedEvents(ProjectChatPresence(evt, knows), knows)
<1> DEFINE c == ProjectChatID(evt.info.chat, knows)
           who == Sender(evt.info, knows)
           state == CASE evt.state = "composing" /\ evt.audio -> "recording"
                      [] evt.state = "composing" /\ ~evt.audio -> "typing"
                      [] OTHER -> "paused"
           d == [id |-> c, sender |-> who, state |-> state]
<1>1. Named(c, knows) /\ Named(who.id, knows)
  BY ChatNamed, OriginNamed
<1>2. ProjectChatPresence(evt, knows) = Published("chat_presence", d)
  BY DEF ProjectChatPresence
<1> HIDE DEF c, who, state
<1>3. DOMAIN d = {"id", "sender", "state"} /\ d.id = c /\ d.sender = who
  OBVIOUS
<1> HIDE DEF d
<1>4. NamedData(d, knows)
  BY <1>1, <1>3 DEF NamedData, PeopleFields
<1> QED
  BY <1>1, <1>2, <1>3, <1>4, PublishedNamed

LEMMA PictureNamed ==
    ASSUME NEW knows, NoUser \notin knows, NEW evt, IsJID(evt.jid), IsJID(evt.author), NEW own
    PROVE  NamedEvents(ProjectPicture(evt, own, knows), knows)
<1> DEFINE c == ProjectChatID(evt.jid, knows)
           isMe == own.user # NoUser /\ evt.author.user = own.user
                                     /\ evt.author.server = own.server
           who == ResolveSender(evt.author, isMe, EmptyJID, knows)
           d == [id |-> c, sender |-> who, pictureId |-> evt.pictureId]
<1>1. Named(c, knows) /\ Named(who.id, knows)
  <2> HIDE DEF isMe
  <2> QED
    BY ChatNamed, SenderNamed
<1>2. \/ ProjectPicture(evt, own, knows) = Discarded
      \/ ProjectPicture(evt, own, knows) = Published("chat_picture", d)
  BY DEF ProjectPicture
<1> HIDE DEF c, who
<1>3. DOMAIN d = {"id", "sender", "pictureId"} /\ d.id = c /\ d.sender = who
  OBVIOUS
<1> HIDE DEF d
<1>4. NamedData(d, knows)
  BY <1>1, <1>3 DEF NamedData, PeopleFields
<1>5. NamedEvents(Published("chat_picture", d), knows)
  BY <1>1, <1>3, <1>4, PublishedNamed
<1> QED
  BY <1>2, <1>5, DiscardedNamed

-----------------------------------------------------------------------------
(* Groups and calls.                                                       *)

\* The author of a change of a group.
LEMMA AuthorNamed ==
    ASSUME NEW knows, NoUser \notin knows, NEW by, IsJID(by.sender), IsJID(by.senderPN)
    PROVE  Named(Author(by, knows).id, knows)
<1>1. IsJID(ResolveSenderJID(by.sender, by.senderPN))
  BY DEF ResolveSenderJID
<1> QED
  BY <1>1, SenderNamed DEF Author

LEMMA GroupInfoNamed ==
    ASSUME NEW knows, NoUser \notin knows, NEW evt, IsJID(evt.jid), IsJID(evt.by.sender),
           IsJID(evt.by.senderPN)
    PROVE  NamedEvents(ProjectGroupInfo(evt, knows), knows)
<1> DEFINE c == ProjectChatID(evt.jid, knows)
           who == Author(evt.by, knows)
           s == [id |-> c, sender |-> who]
           changes == Changes(evt.changes, knows)
           value == ExpirationString(evt.changes.ephemeral)
           t == [id |-> c, settingType |-> "ephemeral",
                 ephemeral |-> [expiration |-> value, sender |-> who]]
<1>1. Named(who.id, knows)
  BY AuthorNamed
<1>2. \/ ProjectGroupInfo(evt, knows) = Discarded
      \/ ProjectGroupInfo(evt, knows) = Published("chat_setting", t)
      \/ ProjectGroupInfo(evt, knows) = Published("group", s @@ changes)
  BY DEF ProjectGroupInfo, ProjectGroupEphemeral
<1>3. NamedEvents(Published("chat_setting", t), knows)
  <2> HIDE DEF who, value
  <2> QED
    BY <1>1, EphemeralNamed
<1>4. NamedData(s, knows)
  <2> HIDE DEF c, who
  <2> QED
    BY <1>1 DEF NamedData, PeopleFields
<1>5. NamedData(changes, knows)
  <2> DEFINE plain == [f \in DOMAIN evt.changes \cap PlainFields  |-> evt.changes[f]]
             named == [f \in DOMAIN evt.changes \cap MemberFields
                         |-> ResolveMembers(evt.changes[f], knows)]
  <2>1. DOMAIN plain \subseteq PlainFields /\ DOMAIN named \subseteq MemberFields
    OBVIOUS
  <2>2. changes = plain @@ named
    BY DEF Changes
  <2> HIDE DEF plain, named
  <2>3. DOMAIN plain \cap NamingFields = {} /\ DOMAIN named \cap NamingFields = {}
    BY <2>1 DEF PlainFields, MemberFields, NamingFields, PeopleFields
  <2> HIDE DEF changes
  <2> QED
    BY <2>2, <2>3, NamedNothing, NamedMerge
<1> HIDE DEF s, changes, t
<1>6. NamedEvents(Published("group", s @@ changes), knows)
  BY <1>4, <1>5, NamedMerge, PublishedNamed DEF ChatTypes
<1> QED
  BY <1>2, <1>3, <1>6, DiscardedNamed

LEMMA JoinedGroupNamed ==
    ASSUME NEW knows, NoUser \notin knows, NEW evt, IsJID(evt.jid), IsJID(evt.by.sender),
           IsJID(evt.by.senderPN), NEW own
    PROVE  NamedEvents(ProjectJoinedGroup(evt, own, knows), knows)
<1> DEFINE i  == [id |-> ProjectChatID(evt.jid, knows)]
           who == Author(evt.by, knows)
           s  == [sender |-> who]
           c1 == ResolveSenderJID(evt.by.sender, evt.by.senderPN) # EmptyJID
           k  == Copy(evt, {"joinReason", "groupType"})
           j  == [join |-> <<Resolve(own, Jid(own.user, "lid"), knows)>>]
           c2 == own.user # NoUser
           p  == [isCommunity |-> TRUE]
           c3 == evt.isParent
           g  == [communityId |-> evt.parent]
           c4 == evt.parent # EmptyJID
           a  == [isAnnouncementGroup |-> TRUE]
           c5 == evt.isDefaultSubGroup
           d  == i @@ If(c1, s) @@ k @@ If(c2, j) @@ If(c3, p) @@ If(c4, g) @@ If(c5, a)
<1>1. Named(who.id, knows)
  BY AuthorNamed
<1>2. \/ ProjectJoinedGroup(evt, own, knows) = Discarded
      \/ ProjectJoinedGroup(evt, own, knows) = Published("group", d)
  BY DEF ProjectJoinedGroup
<1>3. NamedData(s, knows)
  <2> HIDE DEF who
  <2> QED
    BY <1>1 DEF NamedData, PeopleFields
<1>4. NamedData(i, knows) /\ NamedData(j, knows) /\ NamedData(p, knows)
      /\ NamedData(g, knows) /\ NamedData(a, knows)
  <2>1. /\ DOMAIN i = {"id"} /\ DOMAIN j = {"join"} /\ DOMAIN p = {"isCommunity"}
        /\ DOMAIN g = {"communityId"} /\ DOMAIN a = {"isAnnouncementGroup"}
    OBVIOUS
  <2> HIDE DEF i, j, p, g, a
  <2>2. /\ DOMAIN i \cap NamingFields = {} /\ DOMAIN j \cap NamingFields = {}
        /\ DOMAIN p \cap NamingFields = {} /\ DOMAIN g \cap NamingFields = {}
        /\ DOMAIN a \cap NamingFields = {}
    BY <2>1 DEF NamingFields, PeopleFields
  <2> QED
    BY <2>2, NamedNothing
<1>5. NamedData(k, knows)
  <2>1. DOMAIN k \subseteq {"joinReason", "groupType"}
    BY Parts
  <2> HIDE DEF k
  <2>2. DOMAIN k \cap NamingFields = {}
    BY <2>1 DEF NamingFields, PeopleFields
  <2> QED
    BY <2>2, NamedNothing
<1> HIDE DEF i, s, c1, k, j, c2, p, c3, g, c4, a, c5
<1>6. /\ NamedData(If(c1, s), knows) /\ NamedData(If(c2, j), knows) /\ NamedData(If(c3, p), knows)
      /\ NamedData(If(c4, g), knows) /\ NamedData(If(c5, a), knows)
  BY <1>3, <1>4, NamedIf
<1>7. NamedData(i @@ If(c1, s) @@ k @@ If(c2, j), knows)
  BY <1>4, <1>5, <1>6, NamedMerge
<1>8. NamedData(d, knows)
  BY <1>6, <1>7, NamedMerge
<1> HIDE DEF d
<1>9. NamedEvents(Published("group", d), knows)
  BY <1>8, PublishedNamed DEF ChatTypes
<1> QED
  BY <1>2, <1>9, DiscardedNamed

LEMMA CallNamed ==
    ASSUME NEW knows, NoUser \notin knows, NEW evt, IsJID(evt.creator)
    PROVE  /\ IsJID(evt.group) => NamedEvents(ProjectCallOffer(evt, knows), knows)
           /\ NamedEvents(ProjectCallTerminated(evt, knows), knows)
           /\ NamedEvents(ProjectCallAccepted(evt, knows), knows)
<1> DEFINE who == Person(evt.creator, knows)
           isGroup == evt.group # EmptyJID
           chat == IF isGroup THEN ProjectChatID(evt.group, knows) ELSE who.id
           offer == [id |-> evt.id, caller |-> who, isGroup |-> isGroup, isVideo |-> evt.video,
                     chatId |-> chat]
           reason == CASE evt.reason = "rejected_elsewhere" -> "rejected"
                       [] evt.reason \in {"accepted_elsewhere", "group_call_ended"} -> "ended"
                       [] OTHER -> "unknown"
           end == [id |-> evt.id, caller |-> who, reason |-> reason]
           accept == [id |-> evt.id, caller |-> who]
<1>1. Named(who.id, knows)
  BY PersonNamed DEF Person
<1>2. /\ ProjectCallOffer(evt, knows) = Published("call_offer", offer)
      /\ ProjectCallTerminated(evt, knows) = Published("call_terminate", end)
      /\ ProjectCallAccepted(evt, knows) = Published("call_accept", accept)
  BY DEF ProjectCallOffer, ProjectCallTerminated, ProjectCallAccepted
<1>3. IsJID(evt.group) => Named(chat, knows)
  <2> HIDE DEF who
  <2> QED
    BY <1>1, ChatNamed
<1> HIDE DEF who, chat, reason, isGroup
<1>4. IsJID(evt.group) => NamedData(offer, knows)
  BY <1>1, <1>3 DEF NamedData, PeopleFields
<1>5. NamedData(end, knows) /\ NamedData(accept, knows)
  BY <1>1 DEF NamedData, PeopleFields
<1> HIDE DEF offer, end, accept
<1> QED
  BY <1>2, <1>4, <1>5, PublishedNamed DEF ChatTypes

\* Newsletters and sessions name no people.
LEMMA OtherNamed ==
    ASSUME NEW knows, NEW evt
    PROVE  /\ \A action : NamedEvents(ProjectNewsletter(evt, action), knows)
           /\ NamedEvents(ProjectLoggedOut(evt), knows)
           /\ NamedEvents(ProjectPairSuccess(evt), knows)
           /\ NamedEvents(ProjectPairError(evt), knows)
<1>1. ASSUME NEW action
      PROVE  NamedEvents(ProjectNewsletter(evt, action), knows)
  <2> DEFINE s == [id |-> evt.jid, action |-> action]
             k == Copy(evt, {"name", "role", "mute"})
  <2>1. DOMAIN k \subseteq {"name", "role", "mute"} /\ DOMAIN s = {"id", "action"}
    BY Parts
  <2>2. ProjectNewsletter(evt, action) = Published("newsletter", s @@ k)
    BY DEF ProjectNewsletter
  <2> HIDE DEF s, k
  <2>3. DOMAIN s \cap NamingFields = {} /\ DOMAIN k \cap NamingFields = {}
    BY <2>1 DEF NamingFields, PeopleFields
  <2>4. NamedData(s @@ k, knows)
    BY <2>3, NamedNothing, NamedMerge
  <2> QED
    BY <2>2, <2>4, PublishedNamed DEF ChatTypes
<1>2. ASSUME NEW type \in {"logged_out", "logged_in", "login_error"}, NEW d,
             DOMAIN d \subseteq {"reason", "deviceId", "id", "error"}
      PROVE  NamedEvents(Published(type, d), knows)
  <2>1. DOMAIN d \cap NamingFields = {}
    BY <1>2 DEF NamingFields, PeopleFields
  <2> QED
    BY <2>1, NamedNothing, PublishedNamed DEF ChatTypes
<1>3. /\ NamedEvents(ProjectLoggedOut(evt), knows)
      /\ NamedEvents(ProjectPairSuccess(evt), knows)
      /\ NamedEvents(ProjectPairError(evt), knows)
  BY <1>2 DEF ProjectLoggedOut, ProjectPairSuccess, ProjectPairError
<1> QED
  BY <1>1, <1>3

\* Any notice.
LEMMA NoticeNamed ==
    ASSUME NEW knows, NoUser \notin knows, NEW evt \in Notices, NEW own
    PROVE  NamedEvents(Project(evt, own, knows), knows)
<1> DEFINE E == Project(evt, own, knows)
<1>1. /\ evt.is \notin {"Message", "Receipt", "DeleteForMe", "Star"}
      /\ \A j \in Addresses(evt) : IsJID(j)
  BY NoticesAssumption
<1>2. CASE evt.is \in {"Mute", "Pin", "Archive", "MarkChatAsRead"}
  <2>1. IsJID(evt.jid)
    BY <1>1, <1>2 DEF Addresses
  <2>2. \/ E = ProjectMute(evt, knows) \/ E = ProjectPin(evt, knows)
        \/ E = ProjectArchive(evt, knows) \/ E = ProjectMarkChatAsRead(evt, knows)
    BY <1>2 DEF Project
  <2> HIDE DEF E
  <2>3. NamedEvents(E, knows)
    BY <2>1, <2>2, ChatSettingNamed
       DEF ProjectMute, ProjectPin, ProjectArchive, ProjectMarkChatAsRead
  <2> QED
    BY <2>3 DEF E
<1>3. CASE evt.is = "ChatPresence"
  <2>1. E = ProjectChatPresence(evt, knows) /\ IsJID(evt.info.chat) /\ IsJID(evt.info.sender)
    BY <1>1, <1>3 DEF Project, Addresses
  <2> QED
    BY <2>1, ChatPresenceNamed
<1>4. CASE evt.is \in {"PushName", "UserAbout"}
  <2>1. IsJID(evt.jid)
    BY <1>1, <1>4 DEF Addresses
  <2>2. E = ProjectPushName(evt, knows) \/ E = ProjectUserAbout(evt, knows)
    BY <1>4 DEF Project
  <2> DEFINE d1 == [pushName |-> evt.name]
             d2 == [status |-> evt.status]
  <2>3. \/ E = AboutPerson("chat_push_name", evt.jid, d1, knows)
        \/ E = AboutPerson("chat_status", evt.jid, d2, knows)
    BY <2>2 DEF ProjectPushName, ProjectUserAbout
  <2>4. DOMAIN d1 \cap NamingFields = {} /\ DOMAIN d2 \cap NamingFields = {}
    BY DEF NamingFields, PeopleFields
  <2> HIDE DEF E, d1, d2
  <2>5. NamedEvents(E, knows)
    BY <2>1, <2>3, <2>4, AboutPersonNamed
  <2> QED
    BY <2>5 DEF E
<1>5. CASE evt.is \in {"Presence", "Contact", "Picture"}
  <2>1. IsJID(evt.jid) /\ (evt.is = "Picture" => IsJID(evt.author))
    BY <1>1, <1>5 DEF Addresses
  <2>2. \/ E = ProjectPresence(evt, knows) \/ E = ProjectContact(evt, knows)
        \/ evt.is = "Picture" /\ E = ProjectPicture(evt, own, knows)
    BY <1>5 DEF Project
  <2> QED
    BY <2>1, <2>2, PresenceNamed, ContactNamed, PictureNamed
<1>6. CASE evt.is \in {"GroupInfo", "JoinedGroup"}
  <2>1. IsJID(evt.jid) /\ IsJID(evt.by.sender) /\ IsJID(evt.by.senderPN)
    BY <1>1, <1>6 DEF Addresses
  <2>2. E = ProjectGroupInfo(evt, knows) \/ E = ProjectJoinedGroup(evt, own, knows)
    BY <1>6 DEF Project
  <2> QED
    BY <2>1, <2>2, GroupInfoNamed, JoinedGroupNamed
<1>7. CASE evt.is \in {"CallOffer", "CallTerminate", "CallAccept"}
  <2>1. IsJID(evt.creator) /\ (evt.is = "CallOffer" => IsJID(evt.group))
    BY <1>1, <1>7 DEF Addresses
  <2>2. \/ evt.is = "CallOffer" /\ E = ProjectCallOffer(evt, knows)
        \/ E = ProjectCallTerminated(evt, knows) \/ E = ProjectCallAccepted(evt, knows)
    BY <1>7 DEF Project
  <2> QED
    BY <2>1, <2>2, CallNamed
<1>8. CASE evt.is \in {"NewsletterJoin", "NewsletterLeave", "NewsletterMuteChange", "LoggedOut",
                       "PairSuccess", "PairError"}
  <2>1. \/ \E action : E = ProjectNewsletter(evt, action)
        \/ E = ProjectLoggedOut(evt) \/ E = ProjectPairSuccess(evt) \/ E = ProjectPairError(evt)
    BY <1>8 DEF Project
  <2> QED
    BY <2>1, OtherNamed
<1>9. CASE evt.is \notin {"Mute", "Pin", "Archive", "MarkChatAsRead", "ChatPresence", "PushName",
                          "UserAbout", "Presence", "Contact", "Picture", "GroupInfo",
                          "JoinedGroup", "CallOffer", "CallTerminate", "CallAccept",
                          "NewsletterJoin", "NewsletterLeave", "NewsletterMuteChange",
                          "LoggedOut", "PairSuccess", "PairError"}
  <2>1. E = Discarded
    BY <1>1, <1>9 DEF Project, ProjectBusinessName
  <2> QED
    BY <2>1, DiscardedNamed
<1> QED
  BY <1>2, <1>3, <1>4, <1>5, <1>6, <1>7, <1>8, <1>9

-----------------------------------------------------------------------------
(* The invariant.                                                          *)

IsSeq(s) == \E S : s \in Seq(S)

\* A request names a chat: a person, or the group.
RequestOK(r) ==
    /\ r.kind \in SendKinds \cup ChatKinds
    /\ \/ WrittenTo(r).server \in {NoServer, "pn", "lid"}
       \/ WrittenTo(r) = Written(Group, "group")

SentOK(m) ==
    /\ m.by \in People /\ IsJID(m.to)
    /\ \/ m.via = "phone" /\ m.what = "message" /\ (IsChat(m.to) \/ m.to.server = "status")
       \/ /\ m.via = "api" /\ m.by \in Accounts /\ IsChat(m.to)
          /\ RequestOK(m.r) /\ m.what = What(m.r) /\ m.to = Target(m.r)
          /\ m.content = Outgoing(m.by, m.r)

\* What account a asks for with r refers to sent[i], if to anything.
Refers(a, r, i) == i # NoId => i \in DOMAIN sent /\ Denotes(What(r), Outgoing(a, r), a, i)

SentInv ==
    /\ IsSeq(sent)
    /\ \A n \in DOMAIN sent : \A m \in {sent[n]} :
         SentOK(m) /\ (m.via = "api" => Refers(m.by, m.r, m.about))

\* sent[i] is what account a has sent by its client.
OwnSent(a, i) == i \in DOMAIN sent /\ sent[i].via = "api" /\ sent[i].by = a

UnderWay(a, q) ==
    /\ q.pc \in {"resolve", "upload", "send", "ack"}
    /\ q = [pc |-> q.pc, r |-> q.r, about |-> q.about, out |-> q.out]
    /\ RequestOK(q.r) /\ Refers(a, q.r, q.about)
    /\ q.pc # "ack" => q.out = NoId
    /\ q.pc = "ack" => What(q.r) # "receipt" /\ (q.out # NoId => OwnSent(a, q.out))

RequestInv ==
    /\ DOMAIN request = Accounts
    /\ \A a \in Accounts : \A q \in {request[a]} : q = Idle \/ UnderWay(a, q)

\* An answer that tells the truth.
AnswerOK(q) ==
    /\ q.status = 200 => OwnSent(q.by, q.out)
    /\ q.status \in 400..498 /\ ~q.cut /\ q.kind \notin PatchKinds => q.out = NoId

AnsweredInv ==
    /\ IsSeq(answered)
    /\ \A n \in DOMAIN answered : \A q \in {answered[n]} : AnswerOK(q)

\* What is told of sent[i] to account a says where it was sent, and by whom.
TellsOrigin(d, a, i) ==
    /\ ~IsStatus(i) => IsChatOf(d.chatId, a, i)
    /\ IsAuthor(d.sender.id, i) /\ d.sender.lid \in {NoUser, sent[i].by}
    /\ d.sender.isMe <=> sent[i].by = a

EventTellsOrigin(s, a, i) ==
    s # <<>> /\ s[1].eventType = "message" => TellsOrigin(s[1].data, a, i)

PublishedInv ==
    /\ DOMAIN published = Accounts
    /\ \A a \in Accounts :
         /\ DOMAIN published[a] \subseteq DOMAIN sent
         /\ \A i \in DOMAIN published[a] : \A s \in {published[a][i]} : EventTellsOrigin(s, a, i)

KnownInv ==
    /\ DOMAIN known = Accounts
    /\ \A a \in Accounts : known[a] \subseteq People

IInv == SentInv /\ RequestInv /\ AnsweredInv /\ PublishedInv /\ KnownInv

-----------------------------------------------------------------------------
(* What is sent stays sent.                                                *)

LEMMA AppendFacts ==
    ASSUME NEW s, IsSeq(s), NEW x
    PROVE  /\ IsSeq(Append(s, x))
           /\ Len(s) \in Nat /\ DOMAIN s = 1..Len(s)
           /\ DOMAIN Append(s, x) = DOMAIN s \cup {Len(s) + 1}
           /\ \A i \in DOMAIN s : Append(s, x)[i] = s[i]
           /\ Append(s, x)[Len(s) + 1] = x
<1>1. PICK S : s \in Seq(S)
  BY DEF IsSeq
<1>2. s \in Seq(S \cup {x})
  BY <1>1
<1>3. Append(s, x) \in Seq(S \cup {x})
  BY <1>2
<1>4. IsSeq(Append(s, x))
  BY <1>3 DEF IsSeq
<1> QED
  BY <1>2, <1>4

Grown == \A i \in DOMAIN sent : i \in DOMAIN sent' /\ sent'[i] = sent[i]

LEMMA SentGrows ==
    ASSUME IsSeq(sent), NEW m, sent' = sent \/ sent' = Append(sent, m)
    PROVE  Grown
BY AppendFacts DEF Grown

\* What a message refers to does not change.
LEMMA RefersStable ==
    ASSUME Grown, NEW a, NEW r, NEW i, Refers(a, r, i)
    PROVE  Refers(a, r, i)'
<1> DEFINE what == What(r)
           content == Outgoing(a, r)
<1>1. CASE i = NoId
  BY <1>1 DEF Refers
<1>2. CASE i # NoId
  <2>1. i \in DOMAIN sent /\ Denotes(what, content, a, i)
    BY <1>2 DEF Refers
  <2>2. i \in DOMAIN sent' /\ sent'[i] = sent[i]
    BY <2>1 DEF Grown
  <2> HIDE DEF what, content
  <2>3. Denotes(what, content, a, i)'
    BY <2>1, <2>2 DEF Denotes, KeyDenotes, IsChatOf, IsAuthor, InGroup
  <2> QED
    BY <2>2, <2>3 DEF Refers, what, content
<1> QED
  BY <1>1, <1>2

LEMMA OwnSentStable ==
    ASSUME Grown, NEW a, NEW i, OwnSent(a, i)
    PROVE  OwnSent(a, i)'
BY DEF Grown, OwnSent

LEMMA TellsOriginStable ==
    ASSUME Grown, NEW d, NEW a, NEW i \in DOMAIN sent, TellsOrigin(d, a, i)
    PROVE  TellsOrigin(d, a, i)'
BY DEF Grown, TellsOrigin, IsStatus, IsChatOf, IsAuthor, InGroup

LEMMA UnderWayStable ==
    ASSUME Grown, NEW a, NEW q, UnderWay(a, q)
    PROVE  UnderWay(a, q)'
BY RefersStable, OwnSentStable DEF UnderWay

LEMMA AnswerStable ==
    ASSUME Grown, NEW q, AnswerOK(q)
    PROVE  AnswerOK(q)'
BY OwnSentStable DEF AnswerOK

\* The requests of the other accounts.
LEMMA RequestsStable ==
    ASSUME Grown, RequestInv, NEW a \in Accounts, NEW q, request' = [request EXCEPT ![a] = q],
           q = Idle \/ UnderWay(a, q)'
    PROVE  RequestInv'
<1>1. DOMAIN request' = Accounts
  BY DEF RequestInv
<1>2. ASSUME NEW b \in Accounts, NEW p, p = request'[b]
      PROVE  p = Idle \/ UnderWay(b, p)'
  <2>1. CASE b = a
    <3>1. p = q
      BY <1>2, <2>1 DEF RequestInv
    <3> QED
      BY <2>1, <3>1
  <2>2. CASE b # a
    <3>1. p = request[b]
      BY <1>2, <2>2 DEF RequestInv
    <3>2. p = Idle \/ UnderWay(b, p)
      BY <3>1 DEF RequestInv
    <3> QED
      BY <3>2, UnderWayStable
  <2> QED
    BY <2>1, <2>2
<1> QED
  BY <1>1, <1>2 DEF RequestInv

\* Nothing happens to the requests.
LEMMA RequestsUnchanged ==
    ASSUME Grown, RequestInv, request' = request
    PROVE  RequestInv'
<1>1. ASSUME NEW b \in Accounts, NEW p, p = request'[b]
      PROVE  p = Idle \/ UnderWay(b, p)'
  <2>1. p = Idle \/ UnderWay(b, p)
    BY <1>1 DEF RequestInv
  <2> QED
    BY <2>1, UnderWayStable
<1> QED
  BY <1>1 DEF RequestInv

LEMMA AnswersUnchanged ==
    ASSUME Grown, AnsweredInv, answered' = answered
    PROVE  AnsweredInv'
<1>1. ASSUME NEW n \in DOMAIN answered', NEW q, q = answered'[n]
      PROVE  AnswerOK(q)'
  <2>1. AnswerOK(q)
    BY <1>1 DEF AnsweredInv
  <2> QED
    BY <2>1, AnswerStable
<1> QED
  BY <1>1 DEF AnsweredInv

LEMMA PublishedUnchanged ==
    ASSUME Grown, PublishedInv, published' = published
    PROVE  PublishedInv'
<1>1. ASSUME NEW a \in Accounts, NEW i \in DOMAIN published'[a], NEW s, s = published'[a][i]
      PROVE  EventTellsOrigin(s, a, i)'
  <2>1. i \in DOMAIN sent /\ EventTellsOrigin(s, a, i)
    BY <1>1 DEF PublishedInv
  <2> QED
    BY <2>1, TellsOriginStable DEF EventTellsOrigin
<1>2. ASSUME NEW a \in Accounts
      PROVE  DOMAIN published'[a] \subseteq DOMAIN sent'
  BY DEF PublishedInv, Grown
<1> QED
  BY <1>1, <1>2 DEF PublishedInv

\* A message that is sent.
LEMMA SentAppends ==
    ASSUME SentInv, NEW m, sent' = Append(sent, m), SentOK(m),
           m.via = "api" => Refers(m.by, m.r, m.about)
    PROVE  SentInv' /\ Grown
<1>1. Grown
  BY SentGrows DEF SentInv
<1>2. IsSeq(sent)'
  BY AppendFacts DEF SentInv
<1>3. ASSUME NEW n \in DOMAIN sent', NEW p, p = sent'[n]
      PROVE  SentOK(p) /\ (p.via = "api" => Refers(p.by, p.r, p.about)')
  <2>1. CASE n \in DOMAIN sent
    <3>1. p = sent[n]
      BY <1>1, <1>3, <2>1 DEF Grown
    <3>2. SentOK(p) /\ (p.via = "api" => Refers(p.by, p.r, p.about))
      BY <2>1, <3>1 DEF SentInv
    <3> QED
      BY <1>1, <3>2, RefersStable
  <2>2. CASE n \notin DOMAIN sent
    <3>1. p = m
      BY <1>3, <2>2, AppendFacts DEF SentInv
    <3> QED
      BY <1>1, <3>1, RefersStable
  <2> QED
    BY <2>1, <2>2
<1>4. SentInv'
  <2>1. ASSUME NEW n \in DOMAIN sent', NEW p \in {sent'[n]}
        PROVE  SentOK(p) /\ (p.via = "api" => Refers(p.by, p.r, p.about)')
    BY <1>3
  <2> QED
    BY <1>2, <2>1 DEF SentInv
<1> QED
  BY <1>1, <1>4

LEMMA SentUnchanged ==
    ASSUME SentInv, sent' = sent
    PROVE  SentInv' /\ Grown
<1>1. Grown
  BY DEF Grown
<1>2. IsSeq(sent)'
  BY DEF SentInv
<1>3. ASSUME NEW n \in DOMAIN sent', NEW p \in {sent'[n]}
      PROVE  SentOK(p) /\ (p.via = "api" => Refers(p.by, p.r, p.about)')
  <2>1. SentOK(p) /\ (p.via = "api" => Refers(p.by, p.r, p.about))
    BY <1>3 DEF SentInv
  <2> QED
    BY <1>1, <2>1, RefersStable
<1> QED
  BY <1>1, <1>2, <1>3 DEF SentInv

-----------------------------------------------------------------------------
(* Requests.                                                               *)

\* An error that may be the client's comes before anything is sent, but for a
\* patch and for a wait that ends with the connection.
ErrorOK(a, q, err, out) ==
    \/ err = "none" /\ OwnSent(a, out)
    \/ err # "none" /\ out = NoId
    \/ err \in {"ackTimeout", "canceled", "disconnected"}
    \/ err # "none" /\ q.r.kind \in PatchKinds

LEMMA FinishFacts ==
    ASSUME Grown, RequestInv, AnsweredInv, NEW a \in Accounts, NEW q, NEW err, NEW out,
           Finish(a, q, err, out), ErrorOK(a, q, err, out)'
    PROVE  RequestInv' /\ AnsweredInv'
<1> DEFINE x == [by |-> a, kind |-> q.r.kind, status |-> ServiceStatus(err),
                 out |-> out, cut |-> err = "disconnected"]
<1>1. request' = [request EXCEPT ![a] = Idle] /\ answered' = Append(answered, x)
  BY DEF Finish
<1>2. RequestInv'
  BY <1>1, RequestsStable
<1>3. AnswerOK(x)'
  <2>1. /\ x.by = a /\ x.kind = q.r.kind /\ x.out = out
        /\ x.status = ServiceStatus(err) /\ (x.cut <=> err = "disconnected")
    OBVIOUS
  <2> HIDE DEF x
  <2>2. ServiceStatus(err) = 200 <=> err = "none"
    <3>1. CASE err = "none"
      BY <3>1 DEF ServiceStatus, IsUpstreamTimeout
    <3>2. CASE err # "none"
      BY <3>2 DEF ServiceStatus, IsUpstreamTimeout
    <3> QED
      BY <3>1, <3>2
  <2>3. err = "ackTimeout" => ServiceStatus(err) = 504
    BY DEF ServiceStatus, IsUpstreamTimeout
  <2>4. err = "canceled" => ServiceStatus(err) = 499
    BY DEF ServiceStatus, IsUpstreamTimeout
  <2>5. (x.status = 200 => OwnSent(x.by, x.out))'
    BY <2>1, <2>2 DEF ErrorOK
  <2>6. x.status \in 400..498 /\ ~x.cut /\ x.kind \notin PatchKinds => x.out = NoId
    BY <2>1, <2>2, <2>3, <2>4 DEF ErrorOK
  <2> QED
    BY <2>5, <2>6 DEF AnswerOK
<1> HIDE DEF x
<1>4. ASSUME NEW n \in DOMAIN answered', NEW p, p = answered'[n]
      PROVE  AnswerOK(p)'
  <2>1. CASE n \in DOMAIN answered
    <3>1. p = answered[n]
      BY <1>1, <1>4, <2>1, AppendFacts DEF AnsweredInv
    <3>2. AnswerOK(p)
      BY <2>1, <3>1 DEF AnsweredInv
    <3> QED
      BY <3>2, AnswerStable
  <2>2. CASE n \notin DOMAIN answered
    <3>1. p = x
      BY <1>1, <1>4, <2>2, AppendFacts DEF AnsweredInv
    <3> QED
      BY <1>3, <3>1
  <2> QED
    BY <2>1, <2>2
<1>5. IsSeq(answered)'
  BY <1>1, AppendFacts DEF AnsweredInv
<1>6. AnsweredInv'
  BY <1>4, <1>5 DEF AnsweredInv
<1> QED
  BY <1>2, <1>6

LEMMA GotoFacts ==
    ASSUME Grown, RequestInv, NEW a \in Accounts, NEW q, NEW pc \in {"resolve", "upload", "send"},
           Goto(a, q, pc), RequestOK(q.r), Refers(a, q.r, q.about)
    PROVE  RequestInv'
<1> DEFINE p == [pc |-> pc, r |-> q.r, about |-> q.about, out |-> NoId]
<1>1. request' = [request EXCEPT ![a] = p]
  BY DEF Goto
<1>2. Refers(a, p.r, p.about)'
  BY RefersStable
<1>3. p.pc = pc /\ p.r = q.r /\ p.about = q.about /\ p.out = NoId
      /\ p = [pc |-> p.pc, r |-> p.r, about |-> p.about, out |-> p.out]
  OBVIOUS
<1> HIDE DEF p
<1>4. UnderWay(a, p)'
  BY <1>2, <1>3 DEF UnderWay
<1> QED
  BY <1>1, <1>4, RequestsStable

\* A request that is about to be sent names a chat.
LEMMA TargetFacts ==
    ASSUME NEW r, RequestOK(r), ~Refused(r)
    PROVE  IsJID(Target(r)) /\ IsChat(Target(r))
<1>1. SendKinds \cap ChatKinds = {}
  BY DEF SendKinds, ChatKinds, MediaKinds
<1>2. CASE r.kind \in SendKinds
  <2> DEFINE j == FormatRecipient(r.to)
  <2>1. Target(r) = j
    BY <1>2 DEF Target
  <2>2. IsJID(j) /\ j.user = r.to.user
        /\ j.server = IF r.to.server = NoServer THEN "pn" ELSE r.to.server
    BY DEF FormatRecipient, IsJID, Jid
  <2>3. \/ r.to.server \in {NoServer, "pn", "lid"}
        \/ r.to.server = "group" /\ r.to.user = Group
    BY <1>2 DEF RequestOK, WrittenTo, Written
  <2> HIDE DEF j
  <2> QED
    BY <2>1, <2>2, <2>3 DEF IsChat, NoServer
<1>3. CASE r.kind \notin SendKinds
  <2>1. r.kind \in ChatKinds /\ r.chatId.server # NoServer
    BY <1>3 DEF RequestOK, Refused, ParsesAsJID
  <2>2. \/ r.chatId.server \in {"pn", "lid"}
        \/ r.chatId = Written(Group, "group")
    BY <1>3, <2>1 DEF RequestOK, WrittenTo
  <2> QED
    BY <1>3, <2>2 DEF Target, ParseJID, IsJID, IsChat, Jid, Written
<1> QED
  BY <1>2, <1>3

\* Mutes of the other variables.
LEMMA KnownUnchanged == KnownInv /\ known' = known => KnownInv'
BY DEF KnownInv

LEMMA ResolveDataStep ==
    ASSUME IInv, NEW a \in Accounts, ResolveData(a)
    PROVE  IInv'
<1>1. sent' = sent /\ known' = known /\ published' = published
  BY DEF ResolveData
<1>2. SentInv' /\ Grown
  BY <1>1, SentUnchanged DEF IInv
<1> PICK q : q = request[a]
  OBVIOUS
<1>3. q.pc = "resolve" /\ q = request[a]
  BY DEF ResolveData
<1>4. UnderWay(a, q)
  BY <1>3 DEF IInv, RequestInv, Idle
<1>5. CASE Goto(a, q, "upload") /\ UNCHANGED answered
  <2>1. RequestInv'
    BY <1>2, <1>4, <1>5, GotoFacts DEF IInv, UnderWay
  <2>2. AnsweredInv'
    BY <1>2, <1>5, AnswersUnchanged DEF IInv
  <2> QED
    BY <1>1, <1>2, <2>1, <2>2, PublishedUnchanged, KnownUnchanged DEF IInv
<1>6. CASE \E err \in {"other", "deadline", "canceled"} : Finish(a, q, err, NoId)
  <2>1. PICK err \in {"other", "deadline", "canceled"} : Finish(a, q, err, NoId)
    BY <1>6
  <2>2. ErrorOK(a, q, err, NoId)'
    BY DEF ErrorOK
  <2>3. RequestInv' /\ AnsweredInv'
    BY <1>2, <2>1, <2>2, FinishFacts DEF IInv
  <2> QED
    BY <1>1, <1>2, <2>3, PublishedUnchanged, KnownUnchanged DEF IInv
<1> QED
  BY <1>3, <1>5, <1>6 DEF ResolveData

LEMMA UploadMediaStep ==
    ASSUME IInv, NEW a \in Accounts, UploadMedia(a)
    PROVE  IInv'
<1>1. sent' = sent /\ known' = known /\ published' = published
  BY DEF UploadMedia
<1>2. SentInv' /\ Grown
  BY <1>1, SentUnchanged DEF IInv
<1> PICK q : q = request[a]
  OBVIOUS
<1>3. q.pc = "upload" /\ q = request[a]
  BY DEF UploadMedia
<1>4. UnderWay(a, q)
  BY <1>3 DEF IInv, RequestInv, Idle
<1>5. CASE Goto(a, q, "send") /\ UNCHANGED answered
  <2>1. RequestInv'
    BY <1>2, <1>4, <1>5, GotoFacts DEF IInv, UnderWay
  <2>2. AnsweredInv'
    BY <1>2, <1>5, AnswersUnchanged DEF IInv
  <2> QED
    BY <1>1, <1>2, <2>1, <2>2, PublishedUnchanged, KnownUnchanged DEF IInv
<1>6. CASE Finish(a, q, "other", NoId)
  <2>1. ErrorOK(a, q, "other", NoId)'
    BY DEF ErrorOK
  <2>2. RequestInv' /\ AnsweredInv'
    BY <1>2, <1>6, <2>1, FinishFacts DEF IInv
  <2> QED
    BY <1>1, <1>2, <2>2, PublishedUnchanged, KnownUnchanged DEF IInv
<1> QED
  BY <1>3, <1>5, <1>6 DEF UploadMedia

\* What leaves for WhatsApp.
LEMMA LeavesFacts ==
    ASSUME SentInv, NEW a \in Accounts, NEW q, UnderWay(a, q), ~Refused(q.r), Leaves(a, q),
           NEW k, k = Len(sent) + 1
    PROVE  SentInv' /\ Grown /\ OwnSent(a, k)'
<1> DEFINE m == [what |-> What(q.r), via |-> "api", by |-> a, to |-> Target(q.r),
                 category |-> "", content |-> Outgoing(a, q.r), r |-> q.r,
                 about |-> q.about]
<1>1. sent' = Append(sent, m)
  BY DEF Leaves
<1>2. /\ m.by = a /\ m.via = "api" /\ m.r = q.r /\ m.about = q.about
      /\ m.what = What(q.r) /\ m.to = Target(q.r) /\ m.content = Outgoing(a, q.r)
  OBVIOUS
<1> HIDE DEF m
<1>3. SentOK(m)
  BY <1>2, TargetFacts, ExchangeAssumption DEF SentOK, UnderWay
<1>4. Refers(m.by, m.r, m.about)
  BY <1>2 DEF UnderWay
<1>5. SentInv' /\ Grown
  BY <1>1, <1>3, <1>4, SentAppends
<1>6. OwnSent(a, k)'
  <2>1. k \in DOMAIN sent' /\ sent'[k] = m
    BY <1>1, AppendFacts DEF SentInv
  <2> QED
    BY <1>2, <2>1 DEF OwnSent
<1> QED
  BY <1>5, <1>6

\* A request that waits for an answer, with what it sent.
Waits(a, k) == request' = [request EXCEPT ![a].pc = "ack", ![a].out = k]

LEMMA AckSent ==
    ASSUME NEW a \in DOMAIN request, NEW q, q = request[a], UnderWay(a, q), NEW k, Waits(a, k)
    PROVE  request' = [request EXCEPT ![a] =
                         [pc |-> "ack", r |-> q.r, about |-> q.about, out |-> k]]
<1> DEFINE p  == [pc |-> "ack", r |-> q.r, about |-> q.about, out |-> k]
           f  == [request EXCEPT ![a].pc = "ack"]
           o1 == [q EXCEPT !.pc = "ack"]
           o  == [pc |-> "ack", r |-> q.r, about |-> q.about, out |-> q.out]
           oo == [o EXCEPT !.out = k]
<1>1. q = [pc |-> q.pc, r |-> q.r, about |-> q.about, out |-> q.out]
  BY DEF UnderWay
<1>2. f = [request EXCEPT ![a] = o]
  <2>1. o1 = o
    BY <1>1
  <2>2. f = [request EXCEPT ![a] = o1]
    OBVIOUS
  <2> HIDE DEF o1, f, o
  <2> QED
    BY <2>1, <2>2
<1>3. oo = p
  OBVIOUS
<1>4. request' = [f EXCEPT ![a].out = k]
  BY DEF Waits
<1> HIDE DEF f, o, p
<1>5. f[a] = o /\ DOMAIN f = DOMAIN request /\ \A b \in DOMAIN request \ {a} : f[b] = request[b]
  BY <1>2
<1>6. request' = [f EXCEPT ![a] = oo]
  BY <1>4, <1>5
<1> HIDE DEF oo
<1>7. request' = [request EXCEPT ![a] = p]
  BY <1>2, <1>3, <1>6
<1> QED
  BY <1>7 DEF p

\* A request that waits for an answer to what got lost.
LEMMA AckLost ==
    ASSUME NEW a \in DOMAIN request, NEW q, q = request[a], UnderWay(a, q), q.pc = "send",
           request' = [request EXCEPT ![a].pc = "ack"]
    PROVE  request' = [request EXCEPT ![a] =
                         [pc |-> "ack", r |-> q.r, about |-> q.about, out |-> NoId]]
<1> DEFINE p == [pc |-> "ack", r |-> q.r, about |-> q.about, out |-> NoId]
           o == [q EXCEPT !.pc = "ack"]
<1>1. q.out = NoId /\ q = [pc |-> q.pc, r |-> q.r, about |-> q.about, out |-> q.out]
  BY DEF UnderWay
<1>2. o = p
  BY <1>1
<1>3. request' = [request EXCEPT ![a] = o]
  OBVIOUS
<1> HIDE DEF o, p
<1>4. request' = [request EXCEPT ![a] = p]
  BY <1>2, <1>3
<1> QED
  BY <1>4 DEF p

\* How sending a request may go on.
LEMMA SendCases ==
    ASSUME NEW a \in Accounts, Send(a), NEW q, q = request[a], NEW k, k = Len(sent) + 1
    PROVE  \/ \E err \in {"other", "iqTimeout", "canceled"} : Finish(a, q, err, NoId) /\ UNCHANGED sent
           \/ ~Refused(q.r) /\ Finish(a, q, "none", k) /\ Leaves(a, q)
           \/ ~Refused(q.r) /\ What(q.r) # "receipt" /\ Waits(a, k) /\ Leaves(a, q) /\ UNCHANGED answered
           \/ /\ What(q.r) # "receipt" /\ request' = [request EXCEPT ![a].pc = "ack"]
              /\ UNCHANGED <<sent, answered>>
<1>1. IF Refused(q.r) THEN Finish(a, q, "other", NoId) /\ UNCHANGED sent
      ELSE \/ /\ \E err \in IF What(q.r) = "message"
                            THEN {"other", "iqTimeout", "canceled"} ELSE {"other"} :
                   Finish(a, q, err, NoId)
              /\ UNCHANGED sent
           \/ /\ What(q.r) = "receipt"
              /\ Finish(a, q, "none", Len(sent) + 1) /\ Leaves(a, q)
           \/ /\ What(q.r) # "receipt"
              /\ Waits(a, Len(sent) + 1) /\ Leaves(a, q) /\ UNCHANGED answered
           \/ /\ What(q.r) # "receipt"
              /\ request' = [request EXCEPT ![a].pc = "ack"]
              /\ UNCHANGED <<sent, answered>>
  BY DEF Send, Waits
<1>2. CASE Refused(q.r)
  BY <1>1, <1>2
<1>3. CASE ~Refused(q.r)
  BY <1>1, <1>3
<1> QED
  BY <1>2, <1>3

LEMMA SendStep ==
    ASSUME IInv, NEW a \in Accounts, Send(a)
    PROVE  IInv'
<1>1. known' = known /\ published' = published
  BY DEF Send
<1> PICK q : q = request[a]
  OBVIOUS
<1> PICK k : k = Len(sent) + 1
  OBVIOUS
<1>2. q.pc = "send" /\ q = request[a]
  BY DEF Send
<1>3. UnderWay(a, q)
  BY <1>2 DEF IInv, RequestInv, Idle
<1>4. CASE \E err \in {"other", "iqTimeout", "canceled"} : Finish(a, q, err, NoId) /\ UNCHANGED sent
  <2>1. PICK err \in {"other", "iqTimeout", "canceled"} : Finish(a, q, err, NoId)
    BY <1>4
  <2>2. SentInv' /\ Grown
    BY <1>4, SentUnchanged DEF IInv
  <2>3. ErrorOK(a, q, err, NoId)'
    BY DEF ErrorOK
  <2>4. RequestInv' /\ AnsweredInv'
    BY <2>1, <2>2, <2>3, FinishFacts DEF IInv
  <2> QED
    BY <1>1, <2>2, <2>4, PublishedUnchanged, KnownUnchanged DEF IInv
<1>5. CASE ~Refused(q.r) /\ Finish(a, q, "none", k) /\ Leaves(a, q)
  <2>1. SentInv' /\ Grown /\ OwnSent(a, k)'
    BY <1>3, <1>5, LeavesFacts DEF IInv
  <2>2. ErrorOK(a, q, "none", k)'
    BY <2>1 DEF ErrorOK
  <2>3. RequestInv' /\ AnsweredInv'
    BY <1>5, <2>1, <2>2, FinishFacts DEF IInv
  <2> QED
    BY <1>1, <2>1, <2>3, PublishedUnchanged, KnownUnchanged DEF IInv
<1>6. CASE ~Refused(q.r) /\ What(q.r) # "receipt" /\ Waits(a, k) /\ Leaves(a, q) /\ UNCHANGED answered
  <2>1. SentInv' /\ Grown /\ OwnSent(a, k)'
    BY <1>3, <1>6, LeavesFacts DEF IInv
  <2> DEFINE p == [pc |-> "ack", r |-> q.r, about |-> q.about, out |-> k]
  <2>2. request' = [request EXCEPT ![a] = p]
    BY <1>2, <1>3, <1>6, AckSent DEF IInv, RequestInv
  <2>3. Refers(a, q.r, q.about)'
    BY <1>3, <2>1, RefersStable DEF UnderWay
  <2>4. /\ p.pc = "ack" /\ p.r = q.r /\ p.about = q.about /\ p.out = k
        /\ p = [pc |-> p.pc, r |-> p.r, about |-> p.about, out |-> p.out]
    OBVIOUS
  <2> HIDE DEF p
  <2>5. UnderWay(a, p)'
    BY <1>3, <1>6, <2>1, <2>3, <2>4 DEF UnderWay
  <2>6. RequestInv'
    BY <2>1, <2>2, <2>5, RequestsStable DEF IInv
  <2> QED
    BY <1>1, <1>6, <2>1, <2>6, AnswersUnchanged, PublishedUnchanged, KnownUnchanged DEF IInv
<1>7. CASE /\ What(q.r) # "receipt" /\ request' = [request EXCEPT ![a].pc = "ack"]
           /\ UNCHANGED <<sent, answered>>
  <2>1. SentInv' /\ Grown
    BY <1>7, SentUnchanged DEF IInv
  <2> DEFINE p == [pc |-> "ack", r |-> q.r, about |-> q.about, out |-> NoId]
  <2>2. request' = [request EXCEPT ![a] = p]
    BY <1>2, <1>3, <1>7, AckLost DEF IInv, RequestInv
  <2>3. Refers(a, q.r, q.about)'
    BY <1>3, <2>1, RefersStable DEF UnderWay
  <2>4. /\ p.pc = "ack" /\ p.r = q.r /\ p.about = q.about /\ p.out = NoId
        /\ p = [pc |-> p.pc, r |-> p.r, about |-> p.about, out |-> p.out]
    OBVIOUS
  <2> HIDE DEF p
  <2>5. UnderWay(a, p)'
    BY <1>3, <1>7, <2>1, <2>3, <2>4 DEF UnderWay
  <2>6. RequestInv'
    BY <2>1, <2>2, <2>5, RequestsStable DEF IInv
  <2> QED
    BY <1>1, <1>7, <2>1, <2>6, AnswersUnchanged, PublishedUnchanged, KnownUnchanged DEF IInv
<1> QED
  BY <1>2, <1>4, <1>5, <1>6, <1>7, SendCases

LEMMA AcknowledgeStep ==
    ASSUME IInv, NEW a \in Accounts, Acknowledge(a)
    PROVE  IInv'
<1>1. sent' = sent /\ known' = known /\ published' = published
  BY DEF Acknowledge
<1>2. SentInv' /\ Grown
  BY <1>1, SentUnchanged DEF IInv
<1> PICK q : q = request[a]
  OBVIOUS
<1>3. q.pc = "ack" /\ q = request[a]
  BY DEF Acknowledge
<1>4. UnderWay(a, q)'
  <2>1. UnderWay(a, q)
    BY <1>3 DEF IInv, RequestInv, Idle
  <2> QED
    BY <1>2, <2>1, UnderWayStable
<1>5. PICK err : Finish(a, q, err, q.out) /\ ErrorOK(a, q, err, q.out)'
  <2>1. CASE q.out # NoId /\ Finish(a, q, "none", q.out)
    BY <1>3, <1>4, <2>1 DEF UnderWay, ErrorOK
  <2>2. CASE \E err \in IF What(q.r) = "patch" THEN {"other"}
                        ELSE {"ackTimeout", "canceled", "disconnected"} :
               Finish(a, q, err, q.out)
    <3>1. CASE What(q.r) = "patch"
      <4>1. q.r.kind \in PatchKinds
        BY <3>1 DEF What
      <4> QED
        BY <2>2, <3>1, <4>1 DEF ErrorOK
    <3>2. CASE What(q.r) # "patch"
      BY <2>2, <3>2 DEF ErrorOK
    <3> QED
      BY <3>1, <3>2
  <2> QED
    BY <1>3, <2>1, <2>2 DEF Acknowledge
<1>6. RequestInv' /\ AnsweredInv'
  BY <1>2, <1>5, FinishFacts DEF IInv
<1> QED
  BY <1>1, <1>2, <1>6, PublishedUnchanged, KnownUnchanged DEF IInv

LEMMA PhoneSendsStep ==
    ASSUME IInv, PhoneSends
    PROVE  IInv'
<1>1. /\ known' = known /\ request' = request /\ published' = published /\ answered' = answered
      /\ \E m \in FromPhones :
           sent' = Append(sent, [what |-> "message", via |-> "phone", by |-> m.author, to |-> m.to,
                                 category |-> m.category, content |-> m.content,
                                 r |-> [kind |-> "none"], about |-> NoId])
  BY DEF PhoneSends
<1>2. PICK f \in FromPhones :
        sent' = Append(sent, [what |-> "message", via |-> "phone", by |-> f.author, to |-> f.to,
                              category |-> f.category, content |-> f.content,
                              r |-> [kind |-> "none"], about |-> NoId])
  BY <1>1
<1> DEFINE m == [what |-> "message", via |-> "phone", by |-> f.author, to |-> f.to,
                 category |-> f.category, content |-> f.content,
                 r |-> [kind |-> "none"], about |-> NoId]
<1>3. m.what = "message" /\ m.via = "phone" /\ m.by = f.author /\ m.to = f.to
  OBVIOUS
<1>4. sent' = Append(sent, m)
  BY <1>2
<1> HIDE DEF m
<1>5. SentOK(m)
  BY <1>3, PhonesAssumption DEF SentOK
<1>6. SentInv' /\ Grown
  BY <1>3, <1>4, <1>5, SentAppends DEF IInv
<1> QED
  BY <1>1, <1>6, RequestsUnchanged, AnswersUnchanged, PublishedUnchanged, KnownUnchanged DEF IInv

LEMMA NoticeStep ==
    ASSUME IInv, NEW a \in Accounts, Notice(a)
    PROVE  IInv'
<1>1. /\ known' = known /\ request' = request /\ published' = published /\ answered' = answered
      /\ sent' = sent
  BY DEF Notice
<1>2. SentInv' /\ Grown
  BY <1>1, SentUnchanged DEF IInv
<1> QED
  BY <1>1, <1>2, RequestsUnchanged, AnswersUnchanged, PublishedUnchanged, KnownUnchanged DEF IInv

-----------------------------------------------------------------------------
(* What comes in.                                                          *)

\* A person is the author by either address, with the other one or alone; the
\* chat with the person is called alike.
LEMMA SenderIs ==
    ASSUME NEW u, u # NoUser, NEW j, IsJID(j), j.user = u, j.server \in {"pn", "lid"},
           NEW knows, NEW isMe, NEW alt, alt \in {EmptyJID, Jid(u, Other(j.server))},
           NEW s, s = ResolveSender(j, isMe, alt, knows)
    PROVE  /\ s.id \in {Jid(u, "pn"), Jid(u, "lid")} /\ s.lid \in {NoUser, u} /\ s.isMe = isMe
           /\ alt = EmptyJID \/ u \in knows => s.id = ProjectChatID(Jid(u, j.server), knows)
<1> DEFINE none == [pn |-> NoUser, lid |-> NoUser]
           one  == Categorize(none, j)
           told == Categorize(one, alt)
           x    == Sides(j, alt, knows)
<1>1. CASE j.server = "pn"
  <2>1. one = [pn |-> u, lid |-> NoUser]
    BY <1>1 DEF Categorize
  <2>2. told \in {one, [pn |-> u, lid |-> u]}
    <3>1. one.pn = u /\ one.lid = NoUser
      BY <2>1
    <3>2. CASE alt = EmptyJID
      BY <3>2 DEF Categorize, EmptyJID, Jid, NoServer
    <3>3. CASE alt = Jid(u, "lid")
      <4>1. alt.server = "lid" /\ alt.user = u
        BY <3>3 DEF Jid
      <4> HIDE DEF one
      <4>2. [one EXCEPT !["lid"] = u] = [pn |-> u, lid |-> u]
        BY <2>1
      <4> QED
        BY <3>1, <4>1, <4>2 DEF Categorize
    <3> QED
      BY <1>1, <3>2, <3>3 DEF Other
  <2>3. told.pn = u /\ told.lid \in {NoUser, u}
    BY <2>1, <2>2
  <2>4. x = [pn  |-> IF told.pn = NoUser /\ told.lid # NoUser
                     THEN GetPNForLID(Jid(told.lid, "lid"), knows) ELSE told.pn,
             lid |-> IF told.lid = NoUser /\ told.pn # NoUser
                     THEN GetLIDForPN(Jid(told.pn, "pn"), knows) ELSE told.lid]
    BY DEF Sides
  <2> HIDE DEF told
  <2>5. x.pn = u /\ x.lid \in {NoUser, u}
    BY <2>3, <2>4 DEF GetLIDForPN, Jid
  <2> HIDE DEF x
  <2>6. s.id = Jid(u, "pn") /\ s.lid = x.lid /\ s.isMe = isMe
    BY <2>5 DEF ResolveSender, Resolve, x
  <2>7. ProjectChatID(Jid(u, "pn"), knows) = Jid(u, "pn")
    BY DEF ProjectChatID, Jid, CleanJID
  <2> QED
    BY <1>1, <2>5, <2>6, <2>7
<1>2. CASE j.server = "lid"
  <2>1. one = [pn |-> NoUser, lid |-> u]
    BY <1>2 DEF Categorize
  <2>2. told = IF alt = EmptyJID THEN one ELSE [pn |-> u, lid |-> u]
    <3>1. one.pn = NoUser /\ one.lid = u
      BY <2>1
    <3>2. CASE alt = EmptyJID
      BY <3>2 DEF Categorize, EmptyJID, Jid, NoServer
    <3>3. CASE alt = Jid(u, "pn")
      <4>1. alt.server = "pn" /\ alt.user = u /\ alt # EmptyJID
        BY <3>3 DEF Jid, EmptyJID
      <4> HIDE DEF one
      <4>2. [one EXCEPT !["pn"] = u] = [pn |-> u, lid |-> u]
        BY <2>1
      <4> QED
        BY <3>1, <4>1, <4>2 DEF Categorize
    <3> QED
      BY <1>2, <3>2, <3>3 DEF Other
  <2>3. told.lid = u /\ told.pn = IF alt = EmptyJID THEN NoUser ELSE u
    BY <2>1, <2>2
  <2>4. x = [pn  |-> IF told.pn = NoUser /\ told.lid # NoUser
                     THEN GetPNForLID(Jid(told.lid, "lid"), knows) ELSE told.pn,
             lid |-> IF told.lid = NoUser /\ told.pn # NoUser
                     THEN GetLIDForPN(Jid(told.pn, "pn"), knows) ELSE told.lid]
    BY DEF Sides
  <2> HIDE DEF told
  <2>5. x.lid = u /\ x.pn = IF alt # EmptyJID \/ u \in knows THEN u ELSE NoUser
    BY <2>3, <2>4 DEF GetPNForLID, Jid
  <2> HIDE DEF x
  <2>6. /\ s.id = Jid(u, IF alt # EmptyJID \/ u \in knows THEN "pn" ELSE "lid")
        /\ s.lid = u /\ s.isMe = isMe
    BY <2>5 DEF ResolveSender, Resolve, x
  <2>7. ProjectChatID(Jid(u, "lid"), knows) = Jid(u, IF u \in knows THEN "pn" ELSE "lid")
    BY DEF ProjectChatID, Jid, CleanJID, GetPNForLID
  <2> QED
    BY <1>2, <2>6, <2>7
<1> QED
  BY <1>1, <1>2

\* The envelope of what is sent.
LEMMA InfoFacts ==
    ASSUME NEW a, NEW i \in DOMAIN sent, NEW server \in {"pn", "lid"}, NEW alt \in BOOLEAN,
           NEW m, m = sent[i], SentOK(m), NEW info, info = Info(a, i, server, alt)
    PROVE  /\ IsJID(info.chat) /\ IsJID(info.sender)
           /\ info.sender.user = m.by /\ info.sender.server = server
           /\ info.senderAlt = IF alt THEN Jid(m.by, Other(server)) ELSE EmptyJID
           /\ (info.fromMe <=> m.by = a)
           /\ Direct(i) => info.chat = Jid(IF m.by = a THEN m.to.user ELSE m.by, server)
           /\ InGroup(i) => info.chat.user = Group /\ info.chat.server = "group"
           /\ {"chat", "sender", "fromMe"} \subseteq DOMAIN info
<1> DEFINE who == [Jid(m.by, server) EXCEPT !.device = IF m.via = "api" THEN 3 ELSE 0]
           chat == IF ~Direct(i) THEN m.to
                   ELSE Jid(IF m.by = a THEN m.to.user ELSE m.by, server)
           other == IF alt THEN Jid(m.by, Other(server)) ELSE EmptyJID
<1>1. info = [id |-> i, type |-> "text", category |-> m.category,
              isGroup |-> InGroup(i), fromMe |-> m.by = a,
              sender  |-> who, senderAlt |-> other, chat |-> chat]
  BY DEF Info
<1>2. who.user = m.by /\ who.server = server /\ IsJID(who)
  BY DEF Jid, IsJID
<1>3. /\ IsJID(chat)
      /\ Direct(i) => chat = Jid(IF m.by = a THEN m.to.user ELSE m.by, server)
      /\ InGroup(i) => chat.user = Group /\ chat.server = "group"
  <2>1. IsJID(Jid(IF m.by = a THEN m.to.user ELSE m.by, server))
    BY DEF Jid, IsJID
  <2>2. InGroup(i) => m.to.server = "group" /\ m.to.user = Group
    BY DEF InGroup, SentOK, IsChat
  <2> QED
    BY <2>1, <2>2 DEF SentOK, Direct
<1> HIDE DEF who, chat, other
<1>4. info.sender = who /\ info.senderAlt = other /\ info.chat = chat
      /\ {"chat", "sender", "fromMe"} \subseteq DOMAIN info
  BY <1>1
<1>5. info.fromMe = (m.by = a)
  BY <1>1
<1> QED
  BY <1>2, <1>3, <1>4, <1>5 DEF other

\* What an account makes of sent[i].
ArrivesAs(s, a, i, knows) ==
    /\ NamedEvents(s, knows) /\ EventTellsOrigin(s, a, i)
    /\ s # <<>> /\ s[1].eventType = "message" /\ Direct(i) /\ sent[i].by # a =>
         s[1].data.chatId = s[1].data.sender.id

LEMMA MessageArrives ==
    ASSUME IInv, NEW a \in Accounts, NEW i \in DOMAIN sent, NEW server \in {"pn", "lid"},
           NEW alt \in BOOLEAN, sent[i].what = "message",
           NEW knows, knows = known[a] \cup Learned(a, i, alt), NoUser \notin knows,
           NEW s, s = Project(Raw(a, i, server, alt), Jid(a, "pn"), knows)
    PROVE  ArrivesAs(s, a, i, knows)
<1> PICK m : m = sent[i]
  OBVIOUS
<1> PICK info : info = Info(a, i, server, alt)
  OBVIOUS
<1> DEFINE evt == [is |-> "Message", info |-> info, content |-> m.content]
<1>1. SentOK(m)
  BY DEF IInv, SentInv
<1>2. /\ IsJID(info.chat) /\ IsJID(info.sender)
      /\ info.sender.user = m.by /\ info.sender.server = server
      /\ info.senderAlt = IF alt THEN Jid(m.by, Other(server)) ELSE EmptyJID
      /\ (info.fromMe <=> m.by = a)
      /\ Direct(i) => info.chat = Jid(IF m.by = a THEN m.to.user ELSE m.by, server)
      /\ InGroup(i) => info.chat.user = Group /\ info.chat.server = "group"
  BY <1>1, InfoFacts
<1>3. evt.is = "Message" /\ evt.info = info
  OBVIOUS
<1>4. Raw(a, i, server, alt) = evt
  BY DEF Raw
<1> HIDE DEF evt
<1>5. s = ProjectMessage(evt, knows)
  BY <1>3, <1>4 DEF Project
<1>6. NamedEvents(s, knows) /\ MessageTells(s, info, knows)
  BY <1>2, <1>3, <1>5, MessageNamed
<1>7. NoUser # m.by
  BY <1>1, ExchangeAssumption DEF SentOK
<1> PICK who : who = Sender(info, knows)
  OBVIOUS
<1>8. /\ who.id \in {Jid(m.by, "pn"), Jid(m.by, "lid")} /\ who.lid \in {NoUser, m.by}
      /\ (who.isMe <=> m.by = a)
      /\ ~alt \/ m.by \in knows => who.id = ProjectChatID(Jid(m.by, server), knows)
  <2>1. info.senderAlt \in {EmptyJID, Jid(m.by, Other(server))}
    BY <1>2
  <2>2. who = ResolveSender(info.sender, info.fromMe, info.senderAlt, knows)
    BY DEF Sender
  <2> QED
    BY <1>2, <1>7, <2>1, <2>2, SenderIs
<1>9. IsAuthor(who.id, i)
  BY <1>8 DEF IsAuthor, Jid
<1>10. ~IsStatus(i) => IsChatOf(ProjectChatID(info.chat, knows), a, i)
  <2>1. CASE InGroup(i)
    BY <1>2, <2>1 DEF IsChatOf, ProjectChatID, CleanJID, IsJID, GroupJID, Jid
  <2>2. CASE Direct(i)
    BY <1>2, <2>2 DEF IsChatOf, ProjectChatID, CleanJID, GetPNForLID, Jid, Direct
  <2> QED
    BY <2>1, <2>2 DEF Direct
<1>11. EventTellsOrigin(s, a, i)
  BY <1>6, <1>8, <1>9, <1>10 DEF EventTellsOrigin, MessageTells, TellsOrigin
<1>12. ASSUME s # <<>>, s[1].eventType = "message", Direct(i), m.by # a
       PROVE  s[1].data.chatId = s[1].data.sender.id
  <2>1. alt => m.by \in knows
    BY <1>1, <1>12 DEF Learned, SentOK
  <2>2. info.chat = Jid(m.by, server)
    BY <1>2, <1>12
  <2> QED
    BY <1>6, <1>8, <1>12, <2>1, <2>2 DEF MessageTells
<1> QED
  BY <1>6, <1>11, <1>12 DEF ArrivesAs

\* The type of what is published.
LEMMA ReceiptType ==
    \A evt, knows : LET s == ProjectReceipt(evt, knows)
                    IN  s = <<>> \/ s[1].eventType = "message_read"
BY DEF ProjectReceipt, Discarded, Published

LEMMA PatchTypes ==
    \A evt, knows : /\ ProjectMessageDeleteForMe(evt, knows)[1].eventType = "message_delete"
                    /\ ProjectStar(evt, knows)[1].eventType = "message_star"
BY DEF ProjectMessageDeleteForMe, ProjectStar, Published

LEMMA ReceiptArrives ==
    ASSUME IInv, NEW a \in Accounts, NEW i \in DOMAIN sent, NEW server \in {"pn", "lid"},
           NEW alt \in BOOLEAN, sent[i].what = "receipt", NEW knows, NoUser \notin knows,
           NEW s, s = Project(Raw(a, i, server, alt), Jid(a, "pn"), knows)
    PROVE  ArrivesAs(s, a, i, knows)
<1> PICK m : m = sent[i]
  OBVIOUS
<1> PICK info : info = Info(a, i, server, alt)
  OBVIOUS
<1> DEFINE sender == IF InGroup(i) THEN m.content.sender ELSE EmptyJID
           evt == [is |-> "Receipt", info |-> info, type |-> m.content.type,
                   messageSender |-> sender, messageIds |-> m.content.ids]
<1>1. SentOK(m)
  BY DEF IInv, SentInv
<1>2. IsJID(info.chat) /\ IsJID(info.sender)
  BY <1>1, InfoFacts
<1>3. IsJID(sender)
  <2>1. m.r.kind = "read" /\ m.content = Outgoing(m.by, m.r)
    BY <1>1 DEF SentOK, What
  <2>2. m.content = ReadReceipt(m.r)
    BY <2>1 DEF Outgoing
  <2>3. m.content.sender = FormatRecipient(m.r.senderId)
    BY <2>2 DEF ReadReceipt
  <2> QED
    BY <2>3 DEF FormatRecipient, IsJID, Jid, EmptyJID
<1> HIDE DEF sender
<1>4. evt.is = "Receipt" /\ evt.info = info /\ evt.messageSender = sender
  OBVIOUS
<1>5. Raw(a, i, server, alt) = evt
  BY DEF Raw, sender
<1> HIDE DEF evt
<1>6. s = ProjectReceipt(evt, knows)
  BY <1>4, <1>5 DEF Project
<1>7. NamedEvents(s, knows)
  BY <1>2, <1>3, <1>4, <1>6, ReceiptNamed
<1>8. s = <<>> \/ s[1].eventType = "message_read"
  BY <1>6, ReceiptType
<1> QED
  BY <1>7, <1>8 DEF ArrivesAs, EventTellsOrigin

\* What a patch holds.
LEMMA StarIs ==
    ASSUME NEW me, NEW r, r.kind = "star", NEW c, c = Outgoing(me, r),
           NEW sender, sender = FormatRecipient(r.senderId)
    PROVE  /\ c.chat = r.chatId /\ c.id = r.messageId
           /\ c.sender = (IF ParseJID(r.chatId).server = "group" THEN sender ELSE EmptyJID)
           /\ c.fromMe = SameUser(sender, Jid(me, "pn"))
<1> DEFINE who  == IF ParseJID(r.chatId).server = "group" THEN sender ELSE EmptyJID
           mine == SameUser(sender, Jid(me, "pn"))
           f    == [patch |-> "star", starred |-> r.starred]
           g    == [chat |-> r.chatId, id |-> r.messageId, sender |-> who, fromMe |-> mine]
<1>1. Outgoing(me, r) = StarMessage(me, r)
  BY DEF Outgoing
<1>2. StarMessage(me, r) = f @@ g
  BY DEF StarMessage, BuildStar, Patch
<1>3. \A x \in {"chat", "id", "sender", "fromMe"} : x \notin DOMAIN f /\ x \in DOMAIN g
  OBVIOUS
<1>4. g.chat = r.chatId /\ g.id = r.messageId /\ g.sender = who /\ g.fromMe = mine
  OBVIOUS
<1> HIDE DEF f, g, who, mine
<1>5. \A x \in {"chat", "id", "sender", "fromMe"} : c[x] = g[x]
  BY <1>1, <1>2, <1>3, MergeAt
<1>6. c.chat = g.chat /\ c.id = g.id /\ c.sender = g.sender /\ c.fromMe = g.fromMe
  BY <1>5
<1> QED
  BY <1>4, <1>6 DEF who, mine

LEMMA DeleteForMeIs ==
    ASSUME NEW me, NEW r, r.kind = "deleteForMe", NEW c, c = Outgoing(me, r)
    PROVE  /\ c.chat = r.chatId /\ c.id = r.messageId
           /\ c.sender = (IF NeedsSender(r) THEN FormatRecipient(r.senderId) ELSE EmptyJID)
           /\ c.fromMe = Flag(r, "isFromMe")
<1> DEFINE who  == IF NeedsSender(r) THEN FormatRecipient(r.senderId) ELSE EmptyJID
           mine == Flag(r, "isFromMe")
           f    == [patch |-> "deleteForMe"]
           g    == [chat |-> r.chatId, id |-> r.messageId, sender |-> who, fromMe |-> mine]
<1>1. Outgoing(me, r) = DeleteMessageForMe(r)
  BY DEF Outgoing
<1>2. DeleteMessageForMe(r) = f @@ g
  BY DEF DeleteMessageForMe, BuildDeleteForMe, Patch
<1>3. \A x \in {"chat", "id", "sender", "fromMe"} : x \notin DOMAIN f /\ x \in DOMAIN g
  OBVIOUS
<1>4. g.chat = r.chatId /\ g.id = r.messageId /\ g.sender = who /\ g.fromMe = mine
  OBVIOUS
<1> HIDE DEF f, g, who, mine
<1>5. \A x \in {"chat", "id", "sender", "fromMe"} : c[x] = g[x]
  BY <1>1, <1>2, <1>3, MergeAt
<1>6. c.chat = g.chat /\ c.id = g.id /\ c.sender = g.sender /\ c.fromMe = g.fromMe
  BY <1>5
<1> QED
  BY <1>4, <1>6 DEF who, mine

LEMMA PatchSender ==
    ASSUME NEW me, NEW r, r.kind \in PatchKinds, NEW c, c = Outgoing(me, r)
    PROVE  IsJID(c.sender)
<1>1. IsJID(FormatRecipient(r.senderId)) /\ IsJID(EmptyJID)
  BY DEF FormatRecipient, IsJID, Jid, EmptyJID
<1>2. CASE r.kind = "star"
  BY <1>1, <1>2, StarIs
<1>3. CASE r.kind = "deleteForMe"
  BY <1>1, <1>3, DeleteForMeIs
<1> QED
  BY <1>2, <1>3 DEF PatchKinds

LEMMA PatchArrives ==
    ASSUME IInv, NEW a \in Accounts, NEW i \in DOMAIN sent, NEW server \in {"pn", "lid"},
           NEW alt \in BOOLEAN, sent[i].what = "patch", NEW knows, NoUser \notin knows,
           NEW s, s = Project(Raw(a, i, server, alt), Jid(a, "pn"), knows)
    PROVE  ArrivesAs(s, a, i, knows)
<1> PICK m : m = sent[i]
  OBVIOUS
<1> PICK info : info = Info(a, i, server, alt)
  OBVIOUS
<1> DEFINE chat == ParseJID(m.content.chat)
           by   == m.content.sender
           mine == m.content.fromMe
           inf  == [info EXCEPT !.chat = chat, !.sender = by, !.fromMe = mine]
           type == IF m.content.patch = "star" THEN "Star" ELSE "DeleteForMe"
           base == [is |-> type, id |-> m.content.id, info |-> inf]
           more == IF m.content.patch = "star" THEN [starred |-> m.content.starred] ELSE Nothing
           evt  == base @@ more
<1>1. SentOK(m)
  BY DEF IInv, SentInv
<1>2. {"chat", "sender", "fromMe"} \subseteq DOMAIN info
  BY <1>1, InfoFacts
<1>3. m.r.kind \in PatchKinds /\ m.content = Outgoing(m.by, m.r)
  BY <1>1 DEF SentOK, What
<1>4. IsJID(chat) /\ IsJID(by)
  <2>1. IsJID(by)
    BY <1>3, PatchSender
  <2> QED
    BY <2>1 DEF ParseJID, IsJID, Jid
<1>5. Raw(a, i, server, alt) = evt
  BY DEF Raw
<1> HIDE DEF chat, by, mine
<1>6. inf.chat = chat /\ inf.sender = by /\ {"chat", "sender"} \subseteq DOMAIN inf
  BY <1>2
<1> HIDE DEF inf
<1>7. base.is = type /\ base.info = inf /\ {"is", "info"} \subseteq DOMAIN base
  OBVIOUS
<1> HIDE DEF base, more
<1>8. evt.is = type /\ evt.info = inf
  BY <1>7, MergeAt
<1> HIDE DEF evt
<1>9. /\ NamedEvents(ProjectMessageDeleteForMe(evt, knows), knows)
      /\ NamedEvents(ProjectStar(evt, knows), knows)
  <2>1. IsJID(evt.info.chat) /\ IsJID(evt.info.sender) /\ {"chat", "sender"} \subseteq DOMAIN evt.info
    BY <1>4, <1>6, <1>8
  <2> QED
    BY <2>1, PatchNamed
<1>10. s = ProjectMessageDeleteForMe(evt, knows) \/ s = ProjectStar(evt, knows)
  <2>1. evt.is \in {"Star", "DeleteForMe"}
    BY <1>8
  <2> HIDE DEF type
  <2> QED
    BY <1>5, <2>1 DEF Project
<1>11. NamedEvents(s, knows) /\ s[1].eventType # "message"
  BY <1>9, <1>10, PatchTypes
<1> QED
  BY <1>11 DEF ArrivesAs, EventTellsOrigin

\* A delivery, whatever it brings.
LEMMA DeliverFacts ==
    ASSUME IInv, NEW a \in Accounts, NEW i \in DOMAIN sent, Deliver(a, i)
    PROVE  \E knows, s :
             /\ \E server \in {"pn", "lid"}, alt \in BOOLEAN :
                  s = Project(Raw(a, i, server, alt), Jid(a, "pn"), knows)
             /\ known[a] \subseteq knows /\ knows \subseteq People /\ ArrivesAs(s, a, i, knows)
             /\ known' = [known EXCEPT ![a] = knows]
             /\ published' = [published EXCEPT ![a] = @ @@ (i :> s)]
<1>1. PICK server \in {"pn", "lid"}, alt \in BOOLEAN :
        LET knows == known[a] \cup Learned(a, i, alt)
        IN  /\ known' = [known EXCEPT ![a] = knows]
            /\ published' = [published EXCEPT
                   ![a] = @ @@ (i :> Project(Raw(a, i, server, alt), Jid(a, "pn"), knows))]
  BY DEF Deliver
<1> PICK knows : knows = known[a] \cup Learned(a, i, alt)
  OBVIOUS
<1> PICK s : s = Project(Raw(a, i, server, alt), Jid(a, "pn"), knows)
  OBVIOUS
<1>2. known[a] \subseteq knows /\ knows \subseteq People
  BY DEF Learned, IInv, KnownInv
<1>3. NoUser \notin knows
  BY <1>2, ExchangeAssumption
<1>4. sent[i].what \in {"message", "receipt", "patch"}
  BY DEF IInv, SentInv, SentOK, What
<1>5. ArrivesAs(s, a, i, knows)
  <2>1. CASE sent[i].what = "message"
    BY <1>3, <2>1, MessageArrives
  <2>2. CASE sent[i].what = "receipt"
    BY <1>3, <2>2, ReceiptArrives
  <2>3. CASE sent[i].what = "patch"
    BY <1>3, <2>3, PatchArrives
  <2> QED
    BY <1>4, <2>1, <2>2, <2>3
<1> QED
  BY <1>1, <1>2, <1>5

LEMMA DeliverStep ==
    ASSUME IInv, NEW a \in Accounts, NEW i \in DOMAIN sent, Deliver(a, i)
    PROVE  IInv'
<1>1. request' = request /\ sent' = sent /\ answered' = answered /\ i \notin DOMAIN published[a]
  BY DEF Deliver
<1>2. SentInv' /\ Grown
  BY <1>1, SentUnchanged DEF IInv
<1>3. RequestInv' /\ AnsweredInv'
  BY <1>1, <1>2, RequestsUnchanged, AnswersUnchanged DEF IInv
<1>4. PICK knows, s :
             /\ knows \subseteq People /\ ArrivesAs(s, a, i, knows)
             /\ known' = [known EXCEPT ![a] = knows]
             /\ published' = [published EXCEPT ![a] = @ @@ (i :> s)]
  BY DeliverFacts
<1>5. KnownInv'
  BY <1>4 DEF IInv, KnownInv
<1>6. PublishedInv'
  <2> PICK f : f = published[a]
    OBVIOUS
  <2> DEFINE told == f @@ (i :> s)
  <2>1. /\ DOMAIN told = DOMAIN f \cup {i} /\ told[i] = s
        /\ \A n \in DOMAIN f : told[n] = f[n]
    <3>1. i \notin DOMAIN f
      BY <1>1
    <3> QED
      BY <3>1 DEF @@, :>
  <2>2. published' = [published EXCEPT ![a] = told] /\ DOMAIN published = Accounts
    BY <1>4 DEF IInv, PublishedInv
  <2> HIDE DEF told
  <2>3. ASSUME NEW b \in Accounts
        PROVE  DOMAIN published'[b] \subseteq DOMAIN sent'
    BY <1>1, <2>1, <2>2 DEF IInv, PublishedInv
  <2>4. ASSUME NEW b \in Accounts, NEW n \in DOMAIN published'[b], NEW e, e = published'[b][n]
        PROVE  EventTellsOrigin(e, b, n)'
    <3>1. n \in DOMAIN sent
      BY <1>1, <2>3, <2>4
    <3>2. EventTellsOrigin(e, b, n)
      <4>1. CASE b = a /\ n = i
        <5>1. e = s
          BY <2>1, <2>2, <2>4, <4>1
        <5> QED
          BY <1>4, <4>1, <5>1 DEF ArrivesAs
      <4>2. CASE ~(b = a /\ n = i)
        <5>1. n \in DOMAIN published[b] /\ e = published[b][n]
          BY <2>1, <2>2, <2>4, <4>2
        <5> QED
          BY <5>1 DEF IInv, PublishedInv
      <4> QED
        BY <4>1, <4>2
    <3> QED
      BY <1>2, <3>1, <3>2, TellsOriginStable DEF EventTellsOrigin
  <2> QED
    BY <2>2, <2>3, <2>4 DEF PublishedInv
<1> QED
  BY <1>2, <1>3, <1>5, <1>6 DEF IInv

-----------------------------------------------------------------------------
(* What a client answers.                                                  *)

\* A chat and an author, as a client writes them.
ChatRef(w, a, i) ==
    w = Written(w.user, w.server) /\ IsChatOf(Jid(w.user, w.server), a, i)
AuthorRef(s, i) == \E server \in {NoServer, "pn", "lid"} : s = Written(sent[i].by, server)

LEMMA ChatRefFacts ==
    ASSUME NEW w, NEW a, NEW i, ChatRef(w, a, i)
    PROVE  /\ ParseJID(w) = Jid(w.user, w.server) /\ FormatRecipient(w) = Jid(w.user, w.server)
           /\ Jid(w.user, w.server).server = w.server
           /\ IF InGroup(i) THEN w = Written(Group, "group") ELSE w.server \in {"pn", "lid"}
           /\ w.server \in {NoServer, "pn", "lid"} \/ w = Written(Group, "group")
<1>1. w.plus = FALSE
  BY DEF ChatRef, Written
<1>2. Jid(w.user, w.server).server = w.server /\ Jid(w.user, w.server).user = w.user
  BY DEF Jid
<1>3. IF InGroup(i) THEN w = Written(Group, "group") ELSE w.server \in {"pn", "lid"}
  <2>1. CASE InGroup(i)
    <3>1. Jid(w.user, w.server) = Jid(Group, "group")
      BY <2>1 DEF ChatRef, IsChatOf, GroupJID
    <3>2. w.user = Group /\ w.server = "group"
      BY <3>1 DEF Jid
    <3> QED
      BY <2>1, <3>2 DEF ChatRef
  <2>2. CASE ~InGroup(i)
    BY <1>2, <2>2 DEF ChatRef, IsChatOf
  <2> QED
    BY <2>1, <2>2
<1>4. w.server # NoServer
  <2>1. Written(Group, "group").server = "group"
    BY DEF Written
  <2>2. w.server \in {"pn", "lid", "group"}
    BY <1>3, <2>1
  <2> QED
    BY <2>2 DEF NoServer
<1> QED
  BY <1>1, <1>2, <1>3, <1>4 DEF ParseJID, FormatRecipient

LEMMA AuthorRefFacts ==
    ASSUME NEW s, NEW i, AuthorRef(s, i), sent[i].by \in People, NEW a,
           NEW j, j = FormatRecipient(s)
    PROVE  /\ j \in {Jid(sent[i].by, "pn"), Jid(sent[i].by, "lid")} /\ j # EmptyJID
           /\ IsAuthor(j, i) /\ (Own(a, j) <=> sent[i].by = a)
           /\ s.server # "lid" => j = Jid(sent[i].by, "pn")
           /\ s.server # NoServer => ParseText(s) = j
<1>1. PICK server \in {NoServer, "pn", "lid"} : s = Written(sent[i].by, server)
  BY DEF AuthorRef
<1>2. s.user = sent[i].by /\ s.server = server /\ s.plus = FALSE
  BY <1>1 DEF Written
<1>3. j = Jid(sent[i].by, IF server = NoServer THEN "pn" ELSE server)
  BY <1>2 DEF FormatRecipient
<1>4. j \in {Jid(sent[i].by, "pn"), Jid(sent[i].by, "lid")}
  BY <1>3
<1>5. j.user = sent[i].by /\ j.server \in {"pn", "lid"}
  BY <1>4 DEF Jid
<1>6. j # EmptyJID
  <2>1. EmptyJID.server = ""
    BY DEF EmptyJID, Jid, NoServer
  <2> QED
    BY <1>5, <2>1
<1>7. IsAuthor(j, i)
  BY <1>5 DEF IsAuthor
<1>8. Own(a, j) <=> sent[i].by = a
  BY <1>5 DEF Own, SameUser, Jid
<1>9. s.server # "lid" => j = Jid(sent[i].by, "pn")
  BY <1>2, <1>3
<1>10. s.server # NoServer => ParseText(s) = j
  BY <1>2, <1>3 DEF ParseText, ParsesAsJID, ParseJID
<1> QED
  BY <1>4, <1>6, <1>7, <1>8, <1>9, <1>10

\* The key of a message denotes it.
LEMMA KeyFacts ==
    ASSUME NEW a, NEW i, sent[i].by \in People, NEW w, ChatRef(w, a, i), NEW s, AuthorRef(s, i)
    PROVE  KeyDenotes(BuildMessageKey(a, Jid(w.user, w.server), FormatRecipient(s), i), a, i)
<1> PICK c : c = Jid(w.user, w.server)
  OBVIOUS
<1> PICK j : j = FormatRecipient(s)
  OBVIOUS
<1> DEFINE mine == j = EmptyJID \/ Own(a, j)
           c1   == ~mine /\ c.server \notin {"pn", "lid"}
           base == [remote |-> c, id |-> i, fromMe |-> mine]
           part == [participant |-> j]
           key  == base @@ If(c1, part)
<1>1. BuildMessageKey(a, c, j, i) = key
  BY DEF BuildMessageKey
<1>2. IsChatOf(c, a, i) /\ (InGroup(i) => c.server = "group")
  BY ChatRefFacts DEF ChatRef, Written
<1>3. /\ j # EmptyJID /\ IsAuthor(j, i) /\ (Own(a, j) <=> sent[i].by = a)
  BY AuthorRefFacts
<1>4. mine <=> sent[i].by = a
  BY <1>3
<1>5. base.remote = c /\ base.id = i /\ {"remote", "id", "fromMe"} = DOMAIN base
  OBVIOUS
<1>6. base.fromMe = mine
  OBVIOUS
<1>7. part.participant = j /\ DOMAIN part = {"participant"}
  OBVIOUS
<1> HIDE DEF base, part, mine
<1>8. key.remote = c /\ key.id = i /\ (key.fromMe <=> mine)
  BY <1>5, <1>6, MergeAt
<1>9. c1 => key.participant = j
  BY <1>5, <1>7, MergeAt DEF If
<1>10. InGroup(i) /\ ~key.fromMe => key.participant = j
  BY <1>2, <1>8, <1>9
<1> HIDE DEF key
<1>11. KeyDenotes(key, a, i)
  BY <1>2, <1>3, <1>4, <1>8, <1>10 DEF KeyDenotes
<1> QED
  BY <1>1, <1>11

\* A request that is good for an answer to sent[i].
AnswerTo(r, a, i) == RequestOK(r) /\ Denotes(What(r), Outgoing(a, r), a, i)

LEMMA ReactionDenotes ==
    ASSUME NEW a, NEW i, sent[i].by \in People, NEW w, ChatRef(w, a, i), NEW s, AuthorRef(s, i),
           NEW r, r.kind = "reaction", r.to = w, Has(r, "senderId"), r.senderId = s,
           r.messageId = i
    PROVE  AnswerTo(r, a, i)
<1> DEFINE key == BuildMessageKey(a, Jid(w.user, w.server), FormatRecipient(s), i)
           inner == [key |-> key, text |-> r.reaction]
           content == [reaction |-> inner]
<1>1. Outgoing(a, r) = content
  BY ChatRefFacts DEF Outgoing, SendReaction, BuildReaction
<1>2. KeyDenotes(key, a, i)
  BY KeyFacts
<1> HIDE DEF key
<1>3. content.reaction.key = key /\ Has(content, "reaction") /\ ~Has(content, "pin")
      /\ ~Has(content, "protocol")
  BY DEF Has
<1> HIDE DEF content
<1>4. What(r) = "message"
  BY DEF What, PatchKinds
<1>5. Denotes("message", content, a, i)
  BY <1>2, <1>3 DEF Denotes
<1>6. RequestOK(r)
  BY ChatRefFacts DEF RequestOK, WrittenTo, SendKinds
<1> QED
  BY <1>1, <1>4, <1>5, <1>6 DEF AnswerTo

LEMMA EditDenotes ==
    ASSUME NEW a, NEW i, sent[i].by = a, NEW w, ChatRef(w, a, i),
           NEW r, r.kind = "edit", r.to = w, r.messageId = i
    PROVE  AnswerTo(r, a, i)
<1> DEFINE c == Jid(w.user, w.server)
           key == [remote |-> c, fromMe |-> TRUE, id |-> i]
           new == Text(FormatRecipient(w), r)
           inner == [type |-> "edit", key |-> key, edited |-> new]
           content == [protocol |-> inner]
<1>1. Outgoing(a, r) = content
  BY DEF Outgoing, EditMessage
<1>2. KeyDenotes(key, a, i)
  <2>1. IsChatOf(c, a, i)
    BY DEF ChatRef
  <2> HIDE DEF c
  <2>2. key.remote = c /\ key.fromMe /\ key.id = i
    OBVIOUS
  <2> HIDE DEF key
  <2> QED
    BY <2>1, <2>2 DEF KeyDenotes
<1> HIDE DEF key, new
<1>3. content.protocol.key = key /\ Has(content, "protocol") /\ ~Has(content, "reaction")
      /\ ~Has(content, "pin")
  BY DEF Has
<1> HIDE DEF content
<1>4. What(r) = "message"
  BY DEF What, PatchKinds
<1>5. Denotes("message", content, a, i)
  BY <1>2, <1>3 DEF Denotes
<1>6. RequestOK(r)
  BY ChatRefFacts DEF RequestOK, WrittenTo, SendKinds
<1> QED
  BY <1>1, <1>4, <1>5, <1>6 DEF AnswerTo

\* Requests about a chat are no sends.
LEMMA ChatRequestOK ==
    ASSUME NEW a, NEW i, NEW w, ChatRef(w, a, i), NEW r, r.kind \in ChatKinds, r.chatId = w
    PROVE  RequestOK(r)
<1>1. r.kind \notin SendKinds
  BY DEF SendKinds, ChatKinds, MediaKinds
<1> QED
  BY <1>1, ChatRefFacts DEF RequestOK, WrittenTo

LEMMA DeleteDenotes ==
    ASSUME NEW a, NEW i, sent[i].by \in People, NEW w, ChatRef(w, a, i), NEW s, AuthorRef(s, i),
           NEW r, r.kind = "delete", r.chatId = w, r.senderId = s, r.messageId = i
    PROVE  AnswerTo(r, a, i)
<1> DEFINE key == BuildMessageKey(a, Jid(w.user, w.server), FormatRecipient(s), i)
           inner == [type |-> "revoke", key |-> key]
           content == [protocol |-> inner]
<1>1. Outgoing(a, r) = content
  BY ChatRefFacts DEF Outgoing, DeleteMessage, BuildRevoke
<1>2. KeyDenotes(key, a, i)
  BY KeyFacts
<1> HIDE DEF key
<1>3. content.protocol.key = key /\ Has(content, "protocol") /\ ~Has(content, "reaction")
      /\ ~Has(content, "pin")
  BY DEF Has
<1> HIDE DEF content
<1>4. What(r) = "message"
  BY DEF What, PatchKinds
<1>5. Denotes("message", content, a, i)
  BY <1>2, <1>3 DEF Denotes
<1>6. RequestOK(r)
  BY ChatRequestOK DEF ChatKinds
<1> QED
  BY <1>1, <1>4, <1>5, <1>6 DEF AnswerTo

LEMMA PinDenotes ==
    ASSUME NEW a, NEW i, sent[i].by \in People, NEW w, ChatRef(w, a, i), NEW s, AuthorRef(s, i),
           NEW r, r.kind = "pin", r.chatId = w, r.senderId = s, r.messageId = i
    PROVE  AnswerTo(r, a, i)
<1> DEFINE key == BuildMessageKey(a, Jid(w.user, w.server), FormatRecipient(s), i)
           inner == [key |-> key, pinned |-> r.pinned]
<1>1. PICK secs : Outgoing(a, r) = [pin |-> inner, addOnSeconds |-> secs]
  BY ChatRefFacts DEF Outgoing, PinMessage
<1> DEFINE content == [pin |-> inner, addOnSeconds |-> secs]
<1>2. KeyDenotes(key, a, i)
  BY KeyFacts
<1> HIDE DEF key
<1>3. content.pin.key = key /\ Has(content, "pin") /\ ~Has(content, "reaction")
      /\ ~Has(content, "protocol")
  BY DEF Has
<1> HIDE DEF content
<1>4. What(r) = "message"
  BY DEF What, PatchKinds
<1>5. Denotes("message", content, a, i)
  BY <1>2, <1>3 DEF Denotes
<1>6. RequestOK(r)
  BY ChatRequestOK DEF ChatKinds
<1>7. Outgoing(a, r) = content
  BY <1>1 DEF content
<1> QED
  BY <1>4, <1>5, <1>6, <1>7 DEF AnswerTo

LEMMA ReadDenotes ==
    ASSUME NEW a, NEW i, sent[i].by \in People, NEW w, ChatRef(w, a, i), NEW s, AuthorRef(s, i),
           NEW r, r.kind = "read", r.chatId = w, r.senderId = s, r.messageId = i
    PROVE  AnswerTo(r, a, i)
<1> DEFINE c == Jid(w.user, w.server)
           j == FormatRecipient(s)
           content == [chat |-> c, sender |-> j, ids |-> <<i>>, type |-> r.receiptType]
<1>1. Outgoing(a, r) = content
  BY ChatRefFacts DEF Outgoing, ReadReceipt
<1>2. IsChatOf(c, a, i) /\ IsAuthor(j, i)
  BY AuthorRefFacts DEF ChatRef
<1> HIDE DEF c, j
<1>3. content.ids = <<i>> /\ content.chat = c /\ content.sender = j
  OBVIOUS
<1> HIDE DEF content
<1>4. What(r) = "receipt"
  BY DEF What, PatchKinds
<1>5. Denotes("receipt", content, a, i)
  BY <1>2, <1>3 DEF Denotes
<1>6. RequestOK(r)
  BY ChatRequestOK DEF ChatKinds
<1> QED
  BY <1>1, <1>4, <1>5, <1>6 DEF AnswerTo

\* A client stars its own messages by its phone number.
LEMMA StarDenotes ==
    ASSUME NEW a, NEW i, sent[i].by \in People, NEW w, ChatRef(w, a, i), NEW s, AuthorRef(s, i),
           sent[i].by = a => s.server # "lid",
           NEW r, r.kind = "star", r.chatId = w, r.senderId = s, r.messageId = i
    PROVE  AnswerTo(r, a, i)
<1> PICK j : j = FormatRecipient(s)
  OBVIOUS
<1> PICK content : content = Outgoing(a, r)
  OBVIOUS
<1>1. /\ j \in {Jid(sent[i].by, "pn"), Jid(sent[i].by, "lid")} /\ IsAuthor(j, i)
      /\ s.server # "lid" => j = Jid(sent[i].by, "pn")
  BY AuthorRefFacts
<1>2. SameUser(j, Jid(a, "pn")) <=> sent[i].by = a
  BY <1>1 DEF SameUser, Jid
<1>3. /\ content.chat = w /\ content.id = i
      /\ content.sender = (IF ParseJID(w).server = "group" THEN j ELSE EmptyJID)
      /\ content.fromMe = SameUser(j, Jid(a, "pn"))
  BY StarIs
<1>4. IsChatOf(ParseJID(w), a, i) /\ (InGroup(i) => ParseJID(w).server = "group")
  BY ChatRefFacts DEF ChatRef, Written
<1>5. What(r) = "patch"
  BY DEF What, PatchKinds
<1>6. Denotes("patch", content, a, i)
  <2>1. content.fromMe <=> sent[i].by = a
    BY <1>2, <1>3
  <2>2. InGroup(i) => IsAuthor(content.sender, i)
    BY <1>1, <1>3, <1>4
  <2> QED
    BY <1>3, <1>4, <2>1, <2>2 DEF Denotes
<1>7. RequestOK(r)
  BY ChatRequestOK DEF ChatKinds
<1> QED
  BY <1>5, <1>6, <1>7 DEF AnswerTo

LEMMA DeleteForMeDenotes ==
    ASSUME NEW a, NEW i, sent[i].by \in People, NEW w, ChatRef(w, a, i), NEW s, AuthorRef(s, i),
           NEW r, r.kind = "deleteForMe", r.chatId = w, r.senderId = s, r.messageId = i,
           Flag(r, "isFromMe") <=> sent[i].by = a
    PROVE  AnswerTo(r, a, i)
<1> PICK content : content = Outgoing(a, r)
  OBVIOUS
<1>1. IsAuthor(FormatRecipient(s), i)
  BY AuthorRefFacts
<1>2. /\ content.chat = w /\ content.id = i
      /\ content.sender = (IF NeedsSender(r) THEN FormatRecipient(s) ELSE EmptyJID)
      /\ content.fromMe = Flag(r, "isFromMe")
  BY DeleteForMeIs
<1>3. IsChatOf(ParseJID(w), a, i) /\ (InGroup(i) => ParseJID(w).server = "group")
  BY ChatRefFacts DEF ChatRef, Written
<1>4. What(r) = "patch"
  BY DEF What, PatchKinds
<1>5. Denotes("patch", content, a, i)
  <2>1. content.fromMe <=> sent[i].by = a
    BY <1>2
  <2>2. InGroup(i) /\ ~content.fromMe => IsAuthor(content.sender, i)
    BY <1>1, <1>2, <1>3 DEF NeedsSender
  <2> QED
    BY <1>2, <1>3, <2>1, <2>2 DEF Denotes
<1>6. RequestOK(r)
  BY ChatRequestOK DEF ChatKinds
<1> QED
  BY <1>4, <1>5, <1>6 DEF AnswerTo

\* A text in reply carries the message it replies to.
LEMMA ReplyDenotes ==
    ASSUME NEW a, NEW i, sent[i].by \in People, NEW w, ChatRef(w, a, i), NEW s, AuthorRef(s, i),
           s.server # NoServer, NEW r, r.kind = "text", r.to = w, Has(r, "replyTo"),
           r.replyTo = i, Has(r, "replyToSenderId"), r.replyToSenderId = s
    PROVE  AnswerTo(r, a, i)
<1> PICK chat : chat = FormatRecipient(w)
  OBVIOUS
<1> DEFINE info  == BuildContextInfo(chat, r)
           reply == [stanzaId |-> r.replyTo, quoted |-> Nothing, participant |-> s]
<1>1. info.stanzaId = i /\ info.participant = s /\ "stanzaId" \in DOMAIN info
  <2>1. PICK x, y, z : info = reply @@ x @@ y @@ z
    BY DEF BuildContextInfo, If
  <2>2. reply.stanzaId = i /\ reply.participant = s /\ {"stanzaId", "participant"} \subseteq DOMAIN reply
    OBVIOUS
  <2> HIDE DEF info, reply
  <2> QED
    BY <2>1, <2>2, MergeAt
<1>2. info # Nothing
  BY <1>1, Parts
<1> HIDE DEF info
<1> DEFINE context == [context |-> info]
           text    == [text |-> r.text]
           part    == text @@ context
           content == [extendedText |-> part]
<1>3. Outgoing(a, r) = content
  <2>1. Contextual(chat, r) = context
    BY <1>2 DEF Contextual, If, info
  <2>2. context # Nothing
    <3>1. "context" \in DOMAIN context
      OBVIOUS
    <3> HIDE DEF context
    <3> QED
      BY <3>1, Parts
  <2> QED
    BY <2>1, <2>2 DEF Outgoing, SendText, Text
<1>4. part.context = info
  BY MergeAt
<1> HIDE DEF part
<1>5. content.extendedText = part /\ ~Has(content, "reaction") /\ ~Has(content, "pin")
      /\ ~Has(content, "protocol")
  BY DEF Has
<1> HIDE DEF content
<1>6. IsAuthor(ParseText(s), i)
  BY AuthorRefFacts
<1>7. What(r) = "message"
  BY DEF What, PatchKinds
<1>8. Denotes("message", content, a, i)
  BY <1>1, <1>4, <1>5, <1>6 DEF Denotes
<1>9. RequestOK(r)
  BY ChatRefFacts DEF RequestOK, WrittenTo, SendKinds
<1> QED
  BY <1>3, <1>7, <1>8, <1>9 DEF AnswerTo

\* A reference that a client may have is to the message, its chat and its author.
RefOK(a, ref) ==
    /\ ref.of \in DOMAIN sent
    /\ ChatRef(ref.chat, a, ref.of)
    /\ \A s \in ref.senders : AuthorRef(s, ref.of)
    /\ ref.mine <=> sent[ref.of].by = a

LEMMA WrittenChat ==
    ASSUME NEW j, NEW a, NEW i, IsChatOf(j, a, i)
    PROVE  ChatRef(AsWritten(j), a, i)
<1> DEFINE w == AsWritten(j)
<1>1. w = Written(j.user, j.server) /\ w.user = j.user /\ w.server = j.server
  BY DEF AsWritten, Written
<1> HIDE DEF w
<1>2. IsChatOf(Jid(j.user, j.server), a, i)
  <2>1. CASE InGroup(i)
    BY <2>1 DEF IsChatOf, GroupJID, Jid
  <2>2. CASE ~InGroup(i)
    BY <2>2 DEF IsChatOf, Jid
  <2> QED
    BY <2>1, <2>2
<1>3. ChatRef(w, a, i)
  BY <1>1, <1>2 DEF ChatRef
<1> QED
  BY <1>3 DEF w

LEMMA ReadOK ==
    ASSUME IInv, NEW a \in Accounts, NEW ref \in Read(a)
    PROVE  RefOK(a, ref)
<1>1. PICK i \in DOMAIN published[a] :
        /\ published[a][i] # <<>> /\ published[a][i][1].eventType = "message" /\ ~IsStatus(i)
        /\ ref = Reference(i, AsWritten(published[a][i][1].data.chatId),
               LET s == published[a][i][1].data.sender
               IN  {AsWritten(s.id)} \cup (IF s.lid = NoUser THEN {} ELSE {Written(s.lid, "lid")}),
               published[a][i][1].data.sender.isMe)
  BY DEF Read
<1> PICK d : d = published[a][i][1].data
  OBVIOUS
<1> DEFINE senders == {AsWritten(d.sender.id)}
                      \cup (IF d.sender.lid = NoUser THEN {} ELSE {Written(d.sender.lid, "lid")})
<1>2. ref = Reference(i, AsWritten(d.chatId), senders, d.sender.isMe)
  BY <1>1
<1>3. i \in DOMAIN sent /\ TellsOrigin(d, a, i)
  BY <1>1 DEF IInv, PublishedInv, EventTellsOrigin
<1>4. ASSUME NEW s \in senders
      PROVE  AuthorRef(s, i)
  BY <1>3 DEF TellsOrigin, IsAuthor, AuthorRef, AsWritten
<1> HIDE DEF senders
<1>5. ref.of = i /\ ref.chat = AsWritten(d.chatId) /\ ref.senders = senders
  BY <1>2 DEF Reference
<1>6. ref.mine = d.sender.isMe
  BY <1>2 DEF Reference
<1>7. ChatRef(ref.chat, a, i)
  BY <1>1, <1>3, <1>5, WrittenChat DEF TellsOrigin
<1>8. ref.mine <=> sent[i].by = a
  BY <1>3, <1>6 DEF TellsOrigin
<1> QED
  BY <1>3, <1>4, <1>5, <1>7, <1>8 DEF RefOK

LEMMA WroteOK ==
    ASSUME IInv, NEW a \in Accounts, NEW ref \in Wrote(a)
    PROVE  RefOK(a, ref)
<1>1. PICK q \in {p \in {answered[n] : n \in DOMAIN answered} :
                     p.by = a /\ p.status = 200 /\ sent[p.out].what = "message"} :
        ref = Reference(q.out, AsWritten(sent[q.out].to),
                        {Written(a, "pn"), Written(a, NoServer)}, TRUE)
  BY DEF Wrote
<1> PICK i : i = q.out
  OBVIOUS
<1>2. OwnSent(a, i)
  <2>1. PICK n \in DOMAIN answered : q = answered[n]
    BY <1>1
  <2>2. AnswerOK(q)
    BY <2>1 DEF IInv, AnsweredInv
  <2> QED
    BY <1>1, <2>2 DEF AnswerOK
<1> PICK m : m = sent[i]
  OBVIOUS
<1>3. i \in DOMAIN sent /\ m.via = "api" /\ m.by = a /\ SentOK(m)
  BY <1>2 DEF OwnSent, IInv, SentInv
<1>4. IsChat(m.to) /\ m.to = Jid(m.to.user, m.to.server)
  <2>1. IsChat(m.to) /\ m.to = Target(m.r)
    BY <1>3 DEF SentOK
  <2>2. \E u, s : Target(m.r) = Jid(u, s)
    BY DEF Target, FormatRecipient, ParseJID
  <2> QED
    BY <2>1, <2>2 DEF Jid
<1>5. IsChatOf(m.to, a, i)
  BY <1>3, <1>4 DEF IsChatOf, InGroup, IsChat, GroupJID
<1> DEFINE senders == {Written(a, "pn"), Written(a, NoServer)}
<1>6. ref = Reference(i, AsWritten(m.to), senders, TRUE)
  BY <1>1
<1>7. \A s \in senders : AuthorRef(s, i)
  BY <1>3 DEF AuthorRef
<1> HIDE DEF senders
<1>8. ref.of = i /\ ref.chat = AsWritten(m.to) /\ ref.senders = senders /\ ref.mine
  BY <1>6 DEF Reference
<1>9. ChatRef(ref.chat, a, i)
  BY <1>5, <1>8, WrittenChat
<1> QED
  BY <1>3, <1>7, <1>8, <1>9 DEF RefOK

\* The fields of an answer.
LEMMA ToFields ==
    ASSUME NEW i, NEW w, NEW x, {"messageId", "to"} \cap DOMAIN x = {},
           NEW r, r = [messageId |-> i] @@ [to |-> w] @@ x
    PROVE  r.messageId = i /\ r.to = w /\ \A f \in DOMAIN x : f \in DOMAIN r /\ r[f] = x[f]
<1> DEFINE id == [messageId |-> i]
           to == [to |-> w]
<1>1. DOMAIN id = {"messageId"} /\ id.messageId = i /\ DOMAIN to = {"to"} /\ to.to = w
  OBVIOUS
<1> HIDE DEF id, to
<1> PICK y : y = id @@ to
  OBVIOUS
<1>2. DOMAIN y = {"messageId", "to"} /\ y.messageId = i /\ y.to = w
  BY <1>1, Merge, MergeAt
<1>3. r = y @@ x
  BY DEF id, to
<1> QED
  BY <1>2, <1>3, MergeAt

LEMMA AboutFields ==
    ASSUME NEW i, NEW w, NEW x, {"messageId", "chatId"} \cap DOMAIN x = {},
           NEW r, r = [messageId |-> i] @@ [chatId |-> w] @@ x
    PROVE  r.messageId = i /\ r.chatId = w /\ \A f \in DOMAIN x : f \in DOMAIN r /\ r[f] = x[f]
<1> DEFINE id == [messageId |-> i]
           chat == [chatId |-> w]
<1>1. DOMAIN id = {"messageId"} /\ id.messageId = i /\ DOMAIN chat = {"chatId"} /\ chat.chatId = w
  OBVIOUS
<1> HIDE DEF id, chat
<1> PICK y : y = id @@ chat
  OBVIOUS
<1>2. DOMAIN y = {"messageId", "chatId"} /\ y.messageId = i /\ y.chatId = w
  <2>1. DOMAIN y = {"messageId"} \cup {"chatId"}
    BY <1>1, Merge, MergeAt
  <2>2. y.messageId = i /\ y.chatId = w
    BY <1>1, MergeAt
  <2> QED
    BY <2>1, <2>2
<1>3. r = y @@ x
  BY DEF id, chat
<1> QED
  BY <1>2, <1>3, MergeAt

\* A reply is to a message there is, with an address of its author.
ReplySound(r) ==
    Has(r, "replyTo") =>
      /\ r.replyTo \in DOMAIN sent /\ sent[r.replyTo].by \in People
      /\ Has(r, "replyToSenderId")
      /\ \E server \in {"pn", "lid"} : r.replyToSenderId = Written(sent[r.replyTo].by, server)

\* Only a reply names the message it replies to.
LEMMA ToNoReply ==
    ASSUME NEW i, NEW w, NEW x, "replyTo" \notin DOMAIN x,
           NEW r, r = [messageId |-> i] @@ [to |-> w] @@ x
    PROVE  ReplySound(r)
<1> DEFINE id == [messageId |-> i]
           to == [to |-> w]
           y  == id @@ to
<1>1. DOMAIN id = {"messageId"} /\ DOMAIN to = {"to"}
  OBVIOUS
<1> HIDE DEF id, to
<1>2. "replyTo" \notin DOMAIN y
  BY <1>1, MergeAt
<1> HIDE DEF y
<1>3. "replyTo" \notin DOMAIN (y @@ x)
  BY <1>2, MergeAt
<1>4. r = y @@ x
  BY DEF y, id, to
<1> QED
  BY <1>3, <1>4 DEF ReplySound, Has

LEMMA AboutNoReply ==
    ASSUME NEW i, NEW w, NEW x, "replyTo" \notin DOMAIN x,
           NEW r, r = [messageId |-> i] @@ [chatId |-> w] @@ x
    PROVE  ReplySound(r)
<1> DEFINE id == [messageId |-> i]
           to == [chatId |-> w]
           y  == id @@ to
<1>1. DOMAIN id = {"messageId"} /\ DOMAIN to = {"chatId"}
  OBVIOUS
<1> HIDE DEF id, to
<1>2. "replyTo" \notin DOMAIN y
  BY <1>1, MergeAt
<1> HIDE DEF y
<1>3. "replyTo" \notin DOMAIN (y @@ x)
  BY <1>2, MergeAt
<1>4. r = y @@ x
  BY DEF y, id, to
<1> QED
  BY <1>3, <1>4 DEF ReplySound, Has

\* What may be done with a message is about this message.
LEMMA AnswersSound ==
    ASSUME IInv, NEW a \in Accounts, NEW ref, RefOK(a, ref), NEW r \in Answers(ref)
    PROVE  AnswerTo(r, a, ref.of) /\ ReplySound(r)
<1> DEFINE i == ref.of
           w == ref.chat
<1>1. /\ ChatRef(w, a, i) /\ (ref.mine <=> sent[i].by = a)
      /\ sent[i].by \in People
  BY DEF RefOK, IInv, SentInv, SentOK
<1> DEFINE id   == [messageId |-> i]
           chat == [chatId |-> w]
           to   == [to |-> w]
           reaction(s) == [kind |-> "reaction", senderId |-> s, reaction |-> "e"]
           delete(s)   == [kind |-> "delete", senderId |-> s]
           pin(s)      == [kind |-> "pin", senderId |-> s, pinned |-> TRUE, pinExpiration |-> "7d"]
           forMe(s)    == [kind |-> "deleteForMe", senderId |-> s, isFromMe |-> ref.mine]
           text(s)     == [kind |-> "text", text |-> "re", replyTo |-> i, replyToSenderId |-> s]
           star(s)     == [kind |-> "star", senderId |-> s, starred |-> TRUE]
           read(s)     == [kind |-> "read", senderId |-> s, receiptType |-> "read"]
           edit        == [kind |-> "edit", text |-> "new"]
<1>2. \/ \E s \in ref.senders :
           \/ r = id @@ to @@ reaction(s)
           \/ r = id @@ chat @@ delete(s)
           \/ r = id @@ chat @@ pin(s)
           \/ r = id @@ chat @@ forMe(s)
           \/ s.server # NoServer /\ r = to @@ text(s)
           \/ ~(ref.mine /\ s.server = "lid") /\ r = id @@ chat @@ star(s)
           \/ ~ref.mine /\ r = id @@ chat @@ read(s)
      \/ ref.mine /\ r = id @@ to @@ edit
  <2> DEFINE A(s) == {id @@ to @@ reaction(s), id @@ chat @@ delete(s), id @@ chat @@ pin(s),
                      id @@ chat @@ forMe(s)}
             B(s) == IF s.server = NoServer THEN {} ELSE {to @@ text(s)}
             C(s) == IF ref.mine /\ s.server = "lid" THEN {} ELSE {id @@ chat @@ star(s)}
             D(s) == IF ref.mine THEN {} ELSE {id @@ chat @@ read(s)}
             E    == IF ref.mine THEN {id @@ to @@ edit} ELSE {}
  <2>1. r \in (UNION {A(s) \cup B(s) \cup C(s) \cup D(s) : s \in ref.senders}) \cup E
    BY DEF Answers
  <2> HIDE DEF id, to, chat, reaction, delete, pin, forMe, text, star, read, edit
  <2>2. r \in E => ref.mine /\ r = id @@ to @@ edit
    OBVIOUS
  <2> HIDE DEF A, B, C, D, E
  <2>3. CASE r \notin E
    <3>1. PICK s \in ref.senders : r \in A(s) \cup B(s) \cup C(s) \cup D(s)
      <4>1. r \in UNION {A(s) \cup B(s) \cup C(s) \cup D(s) : s \in ref.senders}
        BY <2>1, <2>3
      <4> QED
        BY <4>1
    <3>2. r \in A(s) => \/ r = id @@ to @@ reaction(s)
                        \/ r = id @@ chat @@ delete(s)
                        \/ r = id @@ chat @@ pin(s)
                        \/ r = id @@ chat @@ forMe(s)
      BY DEF A
    <3>3. r \in B(s) => s.server # NoServer /\ r = to @@ text(s)
      BY DEF B
    <3>4. r \in C(s) => ~(ref.mine /\ s.server = "lid") /\ r = id @@ chat @@ star(s)
      BY DEF C
    <3>5. r \in D(s) => ~ref.mine /\ r = id @@ chat @@ read(s)
      BY DEF D
    <3> QED
      BY <3>1, <3>2, <3>3, <3>4, <3>5
  <2> QED
    BY <2>2, <2>3
<1> HIDE DEF reaction, delete, pin, forMe, text, star, read, edit, i, w
<1>3. CASE ref.mine /\ r = id @@ to @@ edit
  <2>1. edit.kind = "edit" /\ DOMAIN edit = {"kind", "text"}
    BY DEF edit
  <2>2. r.messageId = i /\ r.to = w /\ r.kind = "edit"
    BY <1>3, <2>1, ToFields
  <2>3. ReplySound(r)
    BY <1>3, <2>1, ToNoReply
  <2> QED
    BY <2>3, <1>1, <1>3, <2>2, EditDenotes DEF i
<1>4. ASSUME NEW s \in ref.senders, r = id @@ to @@ reaction(s)
      PROVE  AnswerTo(r, a, i) /\ ReplySound(r)
  <2>1. /\ reaction(s).kind = "reaction" /\ reaction(s).senderId = s
        /\ DOMAIN reaction(s) = {"kind", "senderId", "reaction"}
    BY DEF reaction
  <2>2. r.messageId = i /\ r.to = w /\ r.kind = "reaction" /\ Has(r, "senderId") /\ r.senderId = s
    BY <1>4, <2>1, ToFields DEF Has
  <2>3. ReplySound(r)
    BY <1>4, <2>1, ToNoReply
  <2> QED
    BY <2>3, <1>1, <2>2, ReactionDenotes DEF RefOK, i
<1>5. ASSUME NEW s \in ref.senders, r = id @@ chat @@ delete(s)
      PROVE  AnswerTo(r, a, i) /\ ReplySound(r)
  <2>1. delete(s).kind = "delete" /\ delete(s).senderId = s /\ DOMAIN delete(s) = {"kind", "senderId"}
    BY DEF delete
  <2>2. r.messageId = i /\ r.chatId = w /\ r.kind = "delete" /\ r.senderId = s
    BY <1>5, <2>1, AboutFields
  <2>3. ReplySound(r)
    BY <1>5, <2>1, AboutNoReply
  <2> QED
    BY <2>3, <1>1, <2>2, DeleteDenotes DEF RefOK, i
<1>6. ASSUME NEW s \in ref.senders, r = id @@ chat @@ pin(s)
      PROVE  AnswerTo(r, a, i) /\ ReplySound(r)
  <2>1. /\ pin(s).kind = "pin" /\ pin(s).senderId = s
        /\ DOMAIN pin(s) = {"kind", "senderId", "pinned", "pinExpiration"}
    BY DEF pin
  <2>2. r.messageId = i /\ r.chatId = w /\ r.kind = "pin" /\ r.senderId = s
    BY <1>6, <2>1, AboutFields
  <2>3. ReplySound(r)
    BY <1>6, <2>1, AboutNoReply
  <2> QED
    BY <2>3, <1>1, <2>2, PinDenotes DEF RefOK, i
<1>7. ASSUME NEW s \in ref.senders, r = id @@ chat @@ forMe(s)
      PROVE  AnswerTo(r, a, i) /\ ReplySound(r)
  <2>1. /\ forMe(s).kind = "deleteForMe" /\ forMe(s).senderId = s
        /\ DOMAIN forMe(s) = {"kind", "senderId", "isFromMe"}
    BY DEF forMe
  <2>2. forMe(s).isFromMe = ref.mine
    BY DEF forMe
  <2>3. r.messageId = i /\ r.chatId = w /\ r.kind = "deleteForMe" /\ r.senderId = s
    BY <1>7, <2>1, AboutFields
  <2>4. "isFromMe" \in DOMAIN r /\ r.isFromMe = forMe(s).isFromMe
    BY <1>7, <2>1, AboutFields
  <2>5. Flag(r, "isFromMe") <=> sent[i].by = a
    BY <1>1, <2>2, <2>4 DEF Flag, Has
  <2>6. ReplySound(r)
    BY <1>7, <2>1, AboutNoReply
  <2> QED
    BY <2>6, <1>1, <2>3, <2>5, DeleteForMeDenotes DEF RefOK, i
<1>8. ASSUME NEW s \in ref.senders, s.server # NoServer, r = to @@ text(s)
      PROVE  AnswerTo(r, a, i) /\ ReplySound(r)
  <2>1. /\ text(s).kind = "text" /\ text(s).replyTo = i /\ text(s).replyToSenderId = s
        /\ DOMAIN text(s) = {"kind", "text", "replyTo", "replyToSenderId"}
    BY DEF text
  <2>2. DOMAIN to = {"to"} /\ to.to = w
    OBVIOUS
  <2> HIDE DEF to
  <2>3. /\ r.to = w /\ r.kind = "text" /\ Has(r, "replyTo") /\ r.replyTo = i
        /\ Has(r, "replyToSenderId") /\ r.replyToSenderId = s
    BY <1>8, <2>1, <2>2, MergeAt DEF Has
  <2>4. ReplySound(r)
    <3>1. PICK server \in {NoServer, "pn", "lid"} : s = Written(sent[i].by, server)
      BY DEF RefOK, AuthorRef, i
    <3>2. server \in {"pn", "lid"}
      BY <1>8, <3>1 DEF Written
    <3>3. i \in DOMAIN sent
      BY DEF RefOK, i
    <3> QED
      BY <1>1, <2>3, <3>1, <3>2, <3>3 DEF ReplySound
  <2> QED
    BY <1>1, <1>8, <2>3, <2>4, ReplyDenotes DEF RefOK, i
<1>9. ASSUME NEW s \in ref.senders, ~(ref.mine /\ s.server = "lid"), r = id @@ chat @@ star(s)
      PROVE  AnswerTo(r, a, i) /\ ReplySound(r)
  <2>1. /\ star(s).kind = "star" /\ star(s).senderId = s
        /\ DOMAIN star(s) = {"kind", "senderId", "starred"}
    BY DEF star
  <2>2. r.messageId = i /\ r.chatId = w /\ r.kind = "star" /\ r.senderId = s
    BY <1>9, <2>1, AboutFields
  <2>3. ReplySound(r)
    BY <1>9, <2>1, AboutNoReply
  <2> QED
    BY <2>3, <1>1, <1>9, <2>2, StarDenotes DEF RefOK, i
<1>10. ASSUME NEW s \in ref.senders, ~ref.mine, r = id @@ chat @@ read(s)
       PROVE  AnswerTo(r, a, i) /\ ReplySound(r)
  <2>1. /\ read(s).kind = "read" /\ read(s).senderId = s
        /\ DOMAIN read(s) = {"kind", "senderId", "receiptType"}
    BY DEF read
  <2>2. r.messageId = i /\ r.chatId = w /\ r.kind = "read" /\ r.senderId = s
    BY <1>10, <2>1, AboutFields
  <2>3. ReplySound(r)
    BY <1>10, <2>1, AboutNoReply
  <2> QED
    BY <2>3, <1>1, <2>2, ReadDenotes DEF RefOK, i
<1> HIDE DEF id, chat, to
<1> QED
  BY <1>2, <1>3, <1>4, <1>5, <1>6, <1>7, <1>8, <1>9, <1>10 DEF i

LEMMA AsksSound ==
    ASSUME IInv, NEW a \in Accounts, NEW q \in Asks(a)
    PROVE  RequestOK(q.r) /\ Refers(a, q.r, q.about) /\ ReplySound(q.r)
<1>1. CASE \E r \in FirstRequests[a] : q = [r |-> r, about |-> NoId]
  <2>1. PICK r \in FirstRequests[a] : q = [r |-> r, about |-> NoId]
    BY <1>1
  <2>2. q.r = r /\ q.about = NoId
    BY <2>1
  <2>3. RequestOK(r)
    BY RequestsAssumption DEF RequestOK
  <2>4. ReplySound(r)
    BY RequestsAssumption DEF ReplySound
  <2> QED
    BY <2>2, <2>3, <2>4 DEF Refers
<1>2. CASE \E ref \in Read(a) \cup Wrote(a) : \E r \in Answers(ref) : q = [r |-> r, about |-> ref.of]
  <2> PICK ref \in Read(a) \cup Wrote(a) : \E r \in Answers(ref) : q = [r |-> r, about |-> ref.of]
    BY <1>2
  <2>1. PICK r \in Answers(ref) : q = [r |-> r, about |-> ref.of]
    OBVIOUS
  <2>2. q.r = r /\ q.about = ref.of
    BY <2>1
  <2>3. RefOK(a, ref)
    BY ReadOK, WroteOK
  <2>4. AnswerTo(r, a, ref.of) /\ ReplySound(r)
    BY <2>3, AnswersSound
  <2> QED
    BY <2>2, <2>3, <2>4 DEF AnswerTo, Refers, RefOK
<1> QED
  BY <1>1, <1>2 DEF Asks

LEMMA SubmitStep ==
    ASSUME IInv, NEW a \in Accounts, Submit(a)
    PROVE  IInv'
<1>1. sent' = sent /\ known' = known /\ published' = published
  BY DEF Submit
<1>2. SentInv' /\ Grown
  BY <1>1, SentUnchanged DEF IInv
<1>3. PICK q \in Asks(a) :
        IF ~Valid(q.r) THEN Finish(a, q, "invalid", NoId)
        ELSE /\ Goto(a, q, IF q.r.kind \in MediaKinds THEN "resolve" ELSE "send")
             /\ UNCHANGED answered
  BY DEF Submit
<1>4. RequestOK(q.r) /\ Refers(a, q.r, q.about)
  BY AsksSound
<1>5. CASE Valid(q.r)
  <2>1. PICK pc \in {"resolve", "send"} : Goto(a, q, pc)
    BY <1>3, <1>5
  <2>2. RequestInv'
    BY <1>2, <1>4, <2>1, GotoFacts DEF IInv
  <2>3. AnsweredInv'
    BY <1>2, <1>3, <1>5, AnswersUnchanged DEF IInv
  <2> QED
    BY <1>1, <1>2, <2>2, <2>3, PublishedUnchanged, KnownUnchanged DEF IInv
<1>6. CASE ~Valid(q.r)
  <2>1. ErrorOK(a, q, "invalid", NoId)'
    BY DEF ErrorOK
  <2>2. RequestInv' /\ AnsweredInv'
    BY <1>2, <1>3, <1>6, <2>1, FinishFacts DEF IInv
  <2> QED
    BY <1>1, <1>2, <2>2, PublishedUnchanged, KnownUnchanged DEF IInv
<1> QED
  BY <1>5, <1>6

-----------------------------------------------------------------------------
(* A reference reaches what it refers to: the theorems.                    *)

LEMMA InitInv == Init => IInv
<1> SUFFICES ASSUME Init
             PROVE  IInv
  OBVIOUS
<1>1. <<>> \in Seq({}) /\ DOMAIN <<>> = {}
  OBVIOUS
<1>2. SentInv /\ AnsweredInv
  BY <1>1 DEF Init, SentInv, AnsweredInv, IsSeq
<1>3. RequestInv
  BY DEF Init, RequestInv
<1>4. PublishedInv
  BY Parts DEF Init, PublishedInv
<1>5. KnownInv
  BY ExchangeAssumption DEF Init, KnownInv
<1> QED
  BY <1>2, <1>3, <1>4, <1>5 DEF IInv

LEMMA NextInv == IInv /\ [Next]_vars => IInv'
<1> SUFFICES ASSUME IInv, [Next]_vars
             PROVE  IInv'
  OBVIOUS
<1>1. CASE PhoneSends
  BY <1>1, PhoneSendsStep
<1>2. ASSUME NEW a \in Accounts,
             Submit(a) \/ ResolveData(a) \/ UploadMedia(a) \/ Send(a) \/ Acknowledge(a) \/ Notice(a)
      PROVE  IInv'
  BY <1>2, SubmitStep, ResolveDataStep, UploadMediaStep, SendStep, AcknowledgeStep, NoticeStep
<1>3. ASSUME NEW a \in Accounts, NEW i \in DOMAIN sent, Deliver(a, i)
      PROVE  IInv'
  BY <1>3, DeliverStep
<1>4. CASE UNCHANGED vars
  <2>1. /\ known' = known /\ request' = request /\ sent' = sent /\ published' = published
        /\ answered' = answered
    BY <1>4 DEF vars
  <2>2. SentInv' /\ Grown
    BY <2>1, SentUnchanged DEF IInv
  <2> QED
    BY <2>1, <2>2, RequestsUnchanged, AnswersUnchanged, PublishedUnchanged, KnownUnchanged DEF IInv
<1> QED
  BY <1>1, <1>2, <1>3, <1>4 DEF Next

\* The invariant holds whatever accounts, people, requests, messages and notices
\* there are.
THEOREM SpecIInv == Spec => []IInv
BY InitInv, NextInv, PTL DEF Spec

\* A client that is told that its request was at fault can send it again: nothing
\* has left; a client that is told of success has sent it (handler.go:95-130).
THEOREM SpecStatusTellsTruth == Spec => []StatusTellsTruth
<1>1. IInv => StatusTellsTruth
  <2> SUFFICES ASSUME IInv, NEW n \in DOMAIN answered, NEW q, q = answered[n]
               PROVE  /\ q.status = 200 => q.out \in DOMAIN sent /\ sent[q.out].by = q.by
                      /\ q.status \in 400..498 /\ ~q.cut /\ q.kind \notin PatchKinds => q.out = NoId
    BY DEF StatusTellsTruth
  <2>1. AnswerOK(q)
    BY DEF IInv, AnsweredInv
  <2> QED
    BY <2>1 DEF AnswerOK, OwnSent
<1> QED
  BY <1>1, SpecIInv, PTL

\* What a client takes from an event and passes to another operation refers to the
\* message of the event, its chat and its author (message.go:315).
THEOREM SpecAnswersReach == Spec => []AnswersReach
<1>1. IInv => AnswersReach
  <2> SUFFICES ASSUME IInv, NEW n \in DOMAIN sent, NEW m, m = sent[n],
                      m.via = "api", m.about # NoId
               PROVE  Denotes(m.what, m.content, m.by, m.about)
    BY DEF AnswersReach
  <2>1. SentOK(m) /\ Refers(m.by, m.r, m.about)
    BY DEF IInv, SentInv
  <2> QED
    BY <2>1 DEF SentOK, Refers
<1> QED
  BY <1>1, SpecIInv, PTL

LEMMA NamedSettled ==
    ASSUME NEW a, NEW e, NEW knows, NamedEvent(e, knows), known'[a] = knows
    PROVE  Settled(e, a)
BY NamedIds DEF Settled, Named

LEMMA NamedOne ==
    ASSUME NEW s, NEW knows, NamedEvents(s, knows)
    PROVE  /\ s # <<>> => NamedEvent(s[1], knows)
           /\ \A n \in DOMAIN s : NamedEvent(s[n], knows)
<1>1. CASE s = <<>>
  BY <1>1
<1>2. CASE \E e : s = <<e>> /\ NamedEvent(e, knows)
  <2>1. PICK e : s = <<e>> /\ NamedEvent(e, knows)
    BY <1>2
  <2>2. DOMAIN s = {1} /\ s[1] = e
    BY <2>1
  <2> QED
    BY <2>1, <2>2
<1> QED
  BY <1>1, <1>2 DEF NamedEvents

\* What a step tells to an account.
ToldWell(a) ==
    /\ \A i \in DOMAIN published'[a] \ DOMAIN published[a] :
         published'[a][i] # <<>> =>
           /\ Settled(published'[a][i][1], a)
           /\ published'[a][i][1].eventType = "message" /\ Direct(i) /\ sent[i].by # a =>
                published'[a][i][1].data.chatId = published'[a][i][1].data.sender.id
    /\ noticed'.by = a =>
         \A n \in DOMAIN noticed'.events : Settled(noticed'.events[n], a)

LEMMA NobodyNoticed ==
    ASSUME noticed' = NoNotice, NEW a \in Accounts
    PROVE  noticed'.by # a
<1>1. NoNotice.by = NoUser
  BY DEF NoNotice
<1> QED
  BY <1>1, ExchangeAssumption

LEMMA SilentStep ==
    ASSUME published' = published, noticed' = NoNotice, NEW a \in Accounts
    PROVE  ToldWell(a)
BY NobodyNoticed DEF ToldWell

LEMMA DeliverTells ==
    ASSUME IInv, NEW b \in Accounts, NEW i \in DOMAIN sent, Deliver(b, i), NEW a \in Accounts
    PROVE  ToldWell(a)
<1>1. noticed' = NoNotice /\ i \notin DOMAIN published[b]
  BY DEF Deliver
<1>2. noticed'.by # a
  BY <1>1, NobodyNoticed
<1>3. PICK knows, s :
             /\ ArrivesAs(s, b, i, knows) /\ known' = [known EXCEPT ![b] = knows]
             /\ published' = [published EXCEPT ![b] = @ @@ (i :> s)]
  BY DeliverFacts
<1>4. DOMAIN published = Accounts /\ DOMAIN known = Accounts
  BY DEF IInv, PublishedInv, KnownInv
<1>5. CASE a # b
  <2>1. published'[a] = published[a]
    BY <1>3, <1>4, <1>5
  <2> QED
    BY <1>2, <2>1 DEF ToldWell
<1>6. CASE a = b
  <2> PICK f : f = published[a]
    OBVIOUS
  <2> DEFINE told == f @@ (i :> s)
  <2>1. DOMAIN told = DOMAIN f \cup {i} /\ told[i] = s
    <3>1. i \notin DOMAIN f
      BY <1>1, <1>6
    <3> QED
      BY <3>1 DEF @@, :>
  <2>2. published'[a] = told /\ known'[a] = knows
    BY <1>3, <1>4, <1>6
  <2> HIDE DEF told
  <2>3. s # <<>> => Settled(s[1], a)
    BY <1>3, <2>2, NamedOne, NamedSettled DEF ArrivesAs
  <2>4. \A n \in DOMAIN published'[a] \ DOMAIN published[a] : n = i /\ published'[a][n] = s
    BY <2>1, <2>2
  <2> QED
    BY <1>2, <1>3, <1>6, <2>3, <2>4 DEF ToldWell, ArrivesAs
<1> QED
  BY <1>5, <1>6

LEMMA NoticeTells ==
    ASSUME IInv, NEW b \in Accounts, Notice(b), NEW a \in Accounts
    PROVE  ToldWell(a)
<1>1. published' = published /\ known' = known
  BY DEF Notice
<1> PICK knows : knows = known[b]
  OBVIOUS
<1>2. PICK evt \in Notices :
        noticed' = [by |-> b, events |-> Project(evt, Jid(b, "pn"), knows)]
  BY DEF Notice
<1> DEFINE s == Project(evt, Jid(b, "pn"), knows)
<1>3. NamedEvents(s, knows)
  <2>1. NoUser \notin knows
    BY ExchangeAssumption DEF IInv, KnownInv
  <2> QED
    BY <2>1, NoticeNamed
<1>4. noticed'.by = b /\ noticed'.events = s
  BY <1>2
<1> HIDE DEF s
<1>5. \A n \in DOMAIN s : NamedEvent(s[n], knows)
  BY <1>3, NamedOne
<1>6. a = b => \A n \in DOMAIN s : Settled(s[n], a)
  BY <1>1, <1>5, NamedSettled
<1> QED
  BY <1>1, <1>4, <1>6 DEF ToldWell

LEMMA NextTells ==
    ASSUME IInv, Next, NEW a \in Accounts
    PROVE  ToldWell(a)
<1>1. CASE PhoneSends
  BY <1>1, SilentStep DEF PhoneSends
<1>2. ASSUME NEW b \in Accounts,
             Submit(b) \/ ResolveData(b) \/ UploadMedia(b) \/ Send(b) \/ Acknowledge(b)
      PROVE  ToldWell(a)
  <2>1. published' = published /\ noticed' = NoNotice
    BY <1>2 DEF Submit, ResolveData, UploadMedia, Send, Acknowledge
  <2> QED
    BY <2>1, SilentStep
<1>3. ASSUME NEW b \in Accounts, NEW i \in DOMAIN sent, Deliver(b, i)
      PROVE  ToldWell(a)
  BY <1>3, DeliverTells
<1>4. ASSUME NEW b \in Accounts, Notice(b)
      PROVE  ToldWell(a)
  BY <1>4, NoticeTells
<1> QED
  BY <1>1, <1>2, <1>3, <1>4 DEF Next

\* From the moment a LID can be resolved, no event names the person or the chat by
\* it; a direct message names chat and sender alike (utils.go:15, resolve.go:19).
THEOREM SpecOneChatPerPerson == Spec => OneChatPerPerson
<1>1. IInv /\ [Next]_vars =>
        [ \A a \in Accounts :
          /\ \A i \in DOMAIN published'[a] \ DOMAIN published[a] :
               published'[a][i] # <<>> =>
                 LET e == published'[a][i][1]
                 IN  /\ Settled(e, a)
                     /\ e.eventType = "message" /\ Direct(i) /\ sent[i].by # a =>
                          e.data.chatId = e.data.sender.id
          /\ noticed'.by = a =>
               \A n \in DOMAIN noticed'.events : Settled(noticed'.events[n], a)
        ]_vars
  <2> SUFFICES ASSUME IInv, Next
               PROVE  \A a \in Accounts :
                        /\ \A i \in DOMAIN published'[a] \ DOMAIN published[a] :
                             published'[a][i] # <<>> =>
                               LET e == published'[a][i][1]
                               IN  /\ Settled(e, a)
                                   /\ e.eventType = "message" /\ Direct(i) /\ sent[i].by # a =>
                                        e.data.chatId = e.data.sender.id
                        /\ noticed'.by = a =>
                             \A n \in DOMAIN noticed'.events : Settled(noticed'.events[n], a)
    OBVIOUS
  <2>1. \A a \in Accounts : ToldWell(a)
    BY NextTells
  <2> QED
    BY <2>1 DEF ToldWell
<1> QED
  BY <1>1, SpecIInv, PTL DEF Spec, OneChatPerPerson

-----------------------------------------------------------------------------
(* The shape of what is published.                                         *)

WellShaped(s) == \A n \in DOMAIN s : WellFormed(s[n])

\* The fields of an event of each type.
LEMMA TypesOfEvents ==
    \A t : /\ t \in DOMAIN MessageFields => t \in DOMAIN EventFields /\ EventFields[t] = MessageFields[t]
           /\ t \in DOMAIN ChatFields => t \in DOMAIN EventFields /\ EventFields[t] = ChatFields[t]
           /\ t \in DOMAIN GroupFields => t \in DOMAIN EventFields /\ EventFields[t] = GroupFields[t]
           /\ t \in DOMAIN OtherFields => t \in DOMAIN EventFields /\ EventFields[t] = OtherFields[t]
<1> DEFINE f == MessageFields @@ ChatFields
           g == f @@ GroupFields
<1>1. /\ DOMAIN MessageFields = {"message", "message_read", "message_delete", "message_star"}
      /\ DOMAIN ChatFields = {"chat_setting", "chat_presence", "chat_push_name", "chat_status",
                              "chat_picture"}
      /\ DOMAIN GroupFields = {"group"}
      /\ DOMAIN OtherFields = {"newsletter", "contact", "user_presence", "call_offer",
                               "call_terminate", "call_accept", "logged_in", "logged_out",
                               "login_error"}
  BY DEF MessageFields, ChatFields, GroupFields, OtherFields
<1>2. EventFields = g @@ OtherFields
  BY DEF EventFields
<1>3. DOMAIN f = DOMAIN MessageFields \cup DOMAIN ChatFields
      /\ DOMAIN g = DOMAIN f \cup DOMAIN GroupFields
  BY Merge
<1>4. \A t : /\ t \in DOMAIN MessageFields => f[t] = MessageFields[t]
             /\ t \in DOMAIN ChatFields => f[t] = ChatFields[t]
  BY <1>1, MergeAt
<1> HIDE DEF f
<1>5. \A t : /\ t \in DOMAIN f => g[t] = f[t]
             /\ t \in DOMAIN GroupFields => g[t] = GroupFields[t]
  BY <1>1, <1>3, MergeAt
<1> HIDE DEF g
<1>6. \A t : /\ t \in DOMAIN g => t \in DOMAIN EventFields /\ EventFields[t] = g[t]
             /\ t \in DOMAIN OtherFields => t \in DOMAIN EventFields /\ EventFields[t] = OtherFields[t]
  BY <1>1, <1>2, <1>3, MergeAt
<1> HIDE DEF EventFields
<1> QED
  BY <1>3, <1>4, <1>5, <1>6

\* The fields of the events whose data is put together.
LEMMA SomeFields ==
    /\ {"message_delete", "message_star", "message_read"} \subseteq DOMAIN MessageFields
    /\ MessageFields["message_delete"] = {"id", "chatId", "sender", "isDeletedForAll",
                                          "isDeletedForMe", "isStatus"}
    /\ MessageFields["message_star"] = {"id", "chatId", "sender", "isStarred"}
    /\ {"chat_setting", "chat_push_name", "chat_status"} \subseteq DOMAIN ChatFields
    /\ ChatFields["chat_setting"] = {"id", "settingType", "mute", "pin", "archive", "read",
                                     "ephemeral"}
    /\ ChatFields["chat_push_name"] = {"user", "pushName"}
    /\ ChatFields["chat_status"] = {"user", "status"}
    /\ {"newsletter", "user_presence"} \subseteq DOMAIN OtherFields
    /\ OtherFields["newsletter"] = {"id", "action", "name", "role", "mute"}
    /\ OtherFields["user_presence"] = {"user", "status", "lastSeen"}
BY DEF MessageFields, ChatFields, OtherFields

LEMMA DiscardedShape == WellShaped(Discarded)
BY DEF WellShaped, Discarded

LEMMA PublishedShape ==
    ASSUME NEW type, type \in DOMAIN EventFields, NEW d, DOMAIN d \subseteq EventFields[type]
    PROVE  WellShaped(Published(type, d))
<1> DEFINE e == [eventType |-> type, data |-> d]
<1>1. e.eventType = type /\ e.data = d
  OBVIOUS
<1>2. Published(type, d) = <<e>>
  BY DEF Published
<1> HIDE DEF e
<1>3. WellFormed(e)
  BY <1>1 DEF WellFormed
<1> QED
  BY <1>2, <1>3 DEF WellShaped

\* What is made of parts has their fields.
LEMMA MergeWithin ==
    ASSUME NEW S, NEW f, NEW g, DOMAIN f \subseteq S, DOMAIN g \subseteq S
    PROVE  DOMAIN (f @@ g) \subseteq S
BY Merge

LEMMA IfWithin ==
    ASSUME NEW S, NEW f, DOMAIN f \subseteq S, NEW c
    PROVE  DOMAIN If(c, f) \subseteq S
BY Parts

LEMMA OriginWithin ==
    \A info, knows : DOMAIN Origin(info, knows) = {"chatId", "sender"}
BY DEF Origin

LEMMA StatusWithin == \A chat : DOMAIN Status(chat) \subseteq {"isStatus"}
BY Parts DEF Status

LEMMA MessageShape ==
    ASSUME NEW knows, NoUser \notin knows, NEW evt
    PROVE  WellShaped(ProjectMessage(evt, knows))
<1> DEFINE info    == evt.info
           P       == Payload(evt.content, knows)
           shape   == [id |-> info.id, isGroup |-> info.isGroup,
                       type |-> IF info.type # "" THEN info.type ELSE "unknown"]
           origin  == Origin(info, knows)
           status  == Status(info.chat)
           result  == P @@ shape @@ origin @@ status
           setting == evt.content.protocol
           M       == ProjectMessage(evt, knows)
<1>1. \/ M = Discarded
      \/ M = ProjectMessageDeleteForAll(evt, knows)
      \/ M = ProjectMessageEphemeralSetting(evt, knows)
      \/ M = Published("message", result)
  <2> DEFINE kind == Kind(evt.content)
             c1   == info.category = "peer" \/ info.id = NoId
             c2   == kind = "protocol" /\ setting.type = "revoke"
             c3   == kind = "protocol" /\ setting.type = "ephemeral"
             c4   == kind = "senderKey" \/ ~HasContent(result)
  <2>1. M = IF c1 THEN Discarded
            ELSE CASE c2 -> ProjectMessageDeleteForAll(evt, knows)
                   [] c3 -> ProjectMessageEphemeralSetting(evt, knows)
                   [] OTHER -> IF c4 THEN Discarded ELSE Published("message", result)
    BY DEF ProjectMessage
  <2> HIDE DEF M, c1, c2, c3, c4, result
  <2> QED
    BY <2>1
<1> HIDE DEF M
<1>2. CASE M = Discarded
  BY <1>2, DiscardedShape DEF M
<1>3. CASE M = ProjectMessageDeleteForAll(evt, knows)
  <2> DEFINE d == [id |-> setting.key.id, isDeletedForAll |-> TRUE]
  <2>1. \/ M = Discarded
        \/ M = Published("message_delete", d @@ origin @@ status)
    BY <1>3 DEF ProjectMessageDeleteForAll
  <2>2. DOMAIN d = {"id", "isDeletedForAll"}
    OBVIOUS
  <2>3. DOMAIN origin = {"chatId", "sender"} /\ DOMAIN status \subseteq {"isStatus"}
    BY OriginWithin, StatusWithin
  <2> HIDE DEF d, origin, status
  <2>4. "message_delete" \in DOMAIN MessageFields /\ DOMAIN (d @@ origin @@ status) \subseteq MessageFields["message_delete"]
    <3> DEFINE F == MessageFields["message_delete"]
    <3>1. "message_delete" \in DOMAIN MessageFields
      BY SomeFields
    <3>2. DOMAIN d \subseteq F /\ DOMAIN origin \subseteq F /\ DOMAIN status \subseteq F
      BY <2>2, <2>3, SomeFields
    <3> HIDE DEF F
    <3>3. DOMAIN (d @@ origin @@ status) \subseteq F
      BY <3>2, MergeWithin
    <3> QED
      BY <3>1, <3>3 DEF F
  <2> QED
    BY <2>1, <2>4, DiscardedShape, PublishedShape, TypesOfEvents DEF M
<1>4. CASE M = ProjectMessageEphemeralSetting(evt, knows)
  <2> DEFINE value == ExpirationString(IF Has(setting, "expiration") THEN setting.expiration ELSE 0)
             who   == Sender(info, knows)
             d     == [id |-> ProjectChatID(info.chat, knows), settingType |-> "ephemeral",
                       ephemeral |-> [expiration |-> value, sender |-> who]]
  <2>1. M = Published("chat_setting", d)
    BY <1>4 DEF ProjectMessageEphemeralSetting
  <2>2. DOMAIN d = {"id", "settingType", "ephemeral"}
    OBVIOUS
  <2> HIDE DEF d
  <2>3. "chat_setting" \in DOMAIN ChatFields /\ DOMAIN d \subseteq ChatFields["chat_setting"]
    BY <2>2 DEF ChatFields
  <2> QED
    BY <2>1, <2>3, PublishedShape, TypesOfEvents DEF M
<1>5. CASE M = Published("message", result)
  <2>1. DOMAIN P \subseteq PlainPayload \cup {"mentions", "replyTo"}
    BY PayloadFacts DEF PayloadOK
  <2>2. DOMAIN shape = {"id", "isGroup", "type"}
    OBVIOUS
  <2>3. DOMAIN origin = {"chatId", "sender"} /\ DOMAIN status \subseteq {"isStatus"}
    BY OriginWithin, StatusWithin
  <2> HIDE DEF P, shape, origin, status
  <2> DEFINE F == MessageFields["message"]
  <2>4. /\ "message" \in DOMAIN MessageFields
        /\ DOMAIN P \subseteq F /\ DOMAIN shape \subseteq F
        /\ DOMAIN origin \subseteq F /\ DOMAIN status \subseteq F
    BY <2>1, <2>2, <2>3 DEF MessageFields, PlainPayload
  <2> HIDE DEF F
  <2>5. DOMAIN result \subseteq F
    BY <2>4, MergeWithin
  <2> HIDE DEF result
  <2> QED
    BY <1>5, <2>4, <2>5, PublishedShape, TypesOfEvents DEF M, F, result
<1> QED
  BY <1>1, <1>2, <1>3, <1>4, <1>5 DEF M

LEMMA ReceiptShape ==
    ASSUME NEW knows, NEW evt
    PROVE  WellShaped(ProjectReceipt(evt, knows))
<1> DEFINE shape  == [isGroup |-> evt.info.isGroup, receiptType |-> evt.type]
           origin == Origin(evt.info, knows)
           by     == [messageSender |-> ResolveSender(evt.messageSender, FALSE, EmptyJID, knows)]
           c1     == evt.messageSender.user # NoUser
           ids    == [messageIds |-> evt.messageIds]
           c2     == evt.messageIds # <<>>
           d      == shape @@ origin @@ If(c1, by) @@ If(c2, ids)
           F      == MessageFields["message_read"]
<1>1. \/ ProjectReceipt(evt, knows) = Discarded
      \/ ProjectReceipt(evt, knows) = Published("message_read", d)
  BY DEF ProjectReceipt
<1>2. DOMAIN shape = {"isGroup", "receiptType"} /\ DOMAIN by = {"messageSender"}
      /\ DOMAIN ids = {"messageIds"}
  OBVIOUS
<1>3. DOMAIN origin = {"chatId", "sender"}
  BY OriginWithin
<1> HIDE DEF shape, origin, by, c1, ids, c2
<1>4. /\ "message_read" \in DOMAIN MessageFields
      /\ DOMAIN shape \subseteq F /\ DOMAIN origin \subseteq F
      /\ DOMAIN by \subseteq F /\ DOMAIN ids \subseteq F
  BY <1>2, <1>3 DEF MessageFields
<1> HIDE DEF F
<1>5. DOMAIN d \subseteq F
  BY <1>4, IfWithin, MergeWithin
<1> HIDE DEF d
<1> QED
  BY <1>1, <1>4, <1>5, DiscardedShape, PublishedShape, TypesOfEvents DEF F

LEMMA PatchShape ==
    ASSUME NEW knows, NEW evt
    PROVE  WellShaped(ProjectMessageDeleteForMe(evt, knows)) /\ WellShaped(ProjectStar(evt, knows))
<1> DEFINE origin == OriginAlone(evt.info, knows)
           status == Status(evt.info.chat)
<1>1. DOMAIN origin = {"chatId", "sender"} /\ DOMAIN status \subseteq {"isStatus"}
  BY OriginWithin, StatusWithin DEF OriginAlone
<1>2. WellShaped(ProjectMessageDeleteForMe(evt, knows))
  <2> DEFINE d == [id |-> evt.id, isDeletedForMe |-> TRUE]
  <2>1. ProjectMessageDeleteForMe(evt, knows) = Published("message_delete", d @@ origin @@ status)
    BY DEF ProjectMessageDeleteForMe
  <2>2. DOMAIN d = {"id", "isDeletedForMe"}
    OBVIOUS
  <2> HIDE DEF d, origin, status
  <2>3. "message_delete" \in DOMAIN MessageFields /\ DOMAIN (d @@ origin @@ status) \subseteq MessageFields["message_delete"]
    <3> DEFINE F == MessageFields["message_delete"]
    <3>1. "message_delete" \in DOMAIN MessageFields
      BY SomeFields
    <3>2. DOMAIN d \subseteq F /\ DOMAIN origin \subseteq F /\ DOMAIN status \subseteq F
      BY <1>1, <2>2, SomeFields
    <3> HIDE DEF F
    <3>3. DOMAIN (d @@ origin @@ status) \subseteq F
      BY <3>2, MergeWithin
    <3> QED
      BY <3>1, <3>3 DEF F
  <2> QED
    BY <2>1, <2>3, PublishedShape, TypesOfEvents
<1>3. WellShaped(ProjectStar(evt, knows))
  <2> DEFINE d == [id |-> evt.id, isStarred |-> evt.starred]
  <2>1. ProjectStar(evt, knows) = Published("message_star", d @@ origin)
    BY DEF ProjectStar
  <2>2. DOMAIN d = {"id", "isStarred"}
    OBVIOUS
  <2> HIDE DEF d, origin
  <2>3. "message_star" \in DOMAIN MessageFields /\ DOMAIN (d @@ origin) \subseteq MessageFields["message_star"]
    <3> DEFINE F == MessageFields["message_star"]
    <3>1. "message_star" \in DOMAIN MessageFields
      BY SomeFields
    <3>2. DOMAIN d \subseteq F /\ DOMAIN origin \subseteq F
      BY <1>1, <2>2, SomeFields
    <3> HIDE DEF F
    <3>3. DOMAIN (d @@ origin) \subseteq F
      BY <3>2, MergeWithin
    <3> QED
      BY <3>1, <3>3 DEF F
  <2> QED
    BY <2>1, <2>3, PublishedShape, TypesOfEvents
<1> QED
  BY <1>2, <1>3

\* A setting of a chat.
LEMMA SettingShape ==
    ASSUME NEW evt, NEW type \in {"mute", "pin", "archive", "read"}, NEW value, NEW knows
    PROVE  WellShaped(ChatSetting(evt, type, value, knows))
<1> DEFINE f == [id |-> ProjectChatID(evt.jid, knows), settingType |-> type]
           g == type :> value
<1>1. \/ ChatSetting(evt, type, value, knows) = Discarded
      \/ ChatSetting(evt, type, value, knows) = Published("chat_setting", f @@ g)
  BY DEF ChatSetting
<1>2. DOMAIN f = {"id", "settingType"} /\ DOMAIN g = {type}
  BY DEF :>
<1> HIDE DEF f, g
<1>3. "chat_setting" \in DOMAIN ChatFields /\ DOMAIN (f @@ g) \subseteq ChatFields["chat_setting"]
  <2> DEFINE F == ChatFields["chat_setting"]
  <2>1. "chat_setting" \in DOMAIN ChatFields
    BY SomeFields
  <2>2. DOMAIN f \subseteq F /\ DOMAIN g \subseteq F
    BY <1>2, SomeFields
  <2> HIDE DEF F
  <2>3. DOMAIN (f @@ g) \subseteq F
    BY <2>2, MergeWithin
  <2> QED
    BY <2>1, <2>3 DEF F
<1> QED
  BY <1>1, <1>3, DiscardedShape, PublishedShape, TypesOfEvents

LEMMA SettingsShape ==
    ASSUME NEW evt, NEW knows
    PROVE  /\ WellShaped(ProjectMute(evt, knows)) /\ WellShaped(ProjectPin(evt, knows))
           /\ WellShaped(ProjectArchive(evt, knows)) /\ WellShaped(ProjectMarkChatAsRead(evt, knows))
BY SettingShape DEF ProjectMute, ProjectPin, ProjectArchive, ProjectMarkChatAsRead

\* What is told of a person.
LEMMA PersonShape ==
    ASSUME NEW evt, NEW knows
    PROVE  WellShaped(ProjectPushName(evt, knows)) /\ WellShaped(ProjectUserAbout(evt, knows))
<1> DEFINE u == [user |-> Person(evt.jid, knows)]
           n == [pushName |-> evt.name]
           s == [status |-> evt.status]
<1>1. DOMAIN u = {"user"} /\ DOMAIN n = {"pushName"} /\ DOMAIN s = {"status"}
  OBVIOUS
<1>2. /\ ProjectPushName(evt, knows) \in {Discarded, Published("chat_push_name", u @@ n)}
      /\ ProjectUserAbout(evt, knows) \in {Discarded, Published("chat_status", u @@ s)}
  BY DEF ProjectPushName, ProjectUserAbout, AboutPerson
<1> HIDE DEF u, n, s
<1>3. /\ {"chat_push_name", "chat_status"} \subseteq DOMAIN ChatFields
      /\ DOMAIN (u @@ n) \subseteq ChatFields["chat_push_name"]
      /\ DOMAIN (u @@ s) \subseteq ChatFields["chat_status"]
  BY <1>1, MergeWithin, SomeFields
<1>4. WellShaped(Published("chat_push_name", u @@ n)) /\ WellShaped(Published("chat_status", u @@ s))
  BY <1>3, PublishedShape, TypesOfEvents
<1> QED
  BY <1>2, <1>4, DiscardedShape

LEMMA PresenceShape ==
    ASSUME NEW evt, NEW own, NEW knows
    PROVE  /\ WellShaped(ProjectChatPresence(evt, knows)) /\ WellShaped(ProjectPicture(evt, own, knows))
           /\ WellShaped(ProjectPresence(evt, knows)) /\ WellShaped(ProjectContact(evt, knows))
<1>1. WellShaped(ProjectChatPresence(evt, knows))
  <2> DEFINE d == [id     |-> ProjectChatID(evt.info.chat, knows),
                   sender |-> Sender(evt.info, knows),
                   state  |-> CASE evt.state = "composing" /\ evt.audio -> "recording"
                                [] evt.state = "composing" /\ ~evt.audio -> "typing"
                                [] OTHER -> "paused"]
  <2>1. ProjectChatPresence(evt, knows) = Published("chat_presence", d)
    BY DEF ProjectChatPresence
  <2>2. DOMAIN d = {"id", "sender", "state"}
    OBVIOUS
  <2> HIDE DEF d
  <2>3. "chat_presence" \in DOMAIN ChatFields /\ DOMAIN d \subseteq ChatFields["chat_presence"]
    BY <2>2 DEF ChatFields
  <2> QED
    BY <2>1, <2>3, PublishedShape, TypesOfEvents
<1>2. WellShaped(ProjectPicture(evt, own, knows))
  <2> DEFINE mine == own.user # NoUser /\ evt.author.user = own.user /\ evt.author.server = own.server
             d == [id        |-> ProjectChatID(evt.jid, knows),
                   sender    |-> ResolveSender(evt.author, mine, EmptyJID, knows),
                   pictureId |-> evt.pictureId]
  <2>1. \/ ProjectPicture(evt, own, knows) = Discarded
        \/ ProjectPicture(evt, own, knows) = Published("chat_picture", d)
    BY DEF ProjectPicture
  <2>2. DOMAIN d = {"id", "sender", "pictureId"}
    OBVIOUS
  <2> HIDE DEF d
  <2>3. "chat_picture" \in DOMAIN ChatFields /\ DOMAIN d \subseteq ChatFields["chat_picture"]
    BY <2>2 DEF ChatFields
  <2> QED
    BY <2>1, <2>3, DiscardedShape, PublishedShape, TypesOfEvents
<1>3. WellShaped(ProjectPresence(evt, knows))
  <2> DEFINE f == [user   |-> Person(evt.jid, knows),
                   status |-> IF evt.unavailable THEN "unavailable" ELSE "available"]
             g == Copy(evt, {"lastSeen"})
  <2>1. ProjectPresence(evt, knows) = Published("user_presence", f @@ g)
    BY DEF ProjectPresence
  <2>2. DOMAIN f = {"user", "status"} /\ DOMAIN g \subseteq {"lastSeen"}
    BY Parts
  <2> HIDE DEF f, g
  <2>3. "user_presence" \in DOMAIN OtherFields /\ DOMAIN (f @@ g) \subseteq OtherFields["user_presence"]
    <3> DEFINE F == OtherFields["user_presence"]
    <3>1. "user_presence" \in DOMAIN OtherFields
      BY SomeFields
    <3>2. DOMAIN f \subseteq F /\ DOMAIN g \subseteq F
      BY <2>2, SomeFields
    <3> HIDE DEF F
    <3>3. DOMAIN (f @@ g) \subseteq F
      BY <3>2, MergeWithin
    <3> QED
      BY <3>1, <3>3 DEF F
  <2> QED
    BY <2>1, <2>3, PublishedShape, TypesOfEvents
<1>4. WellShaped(ProjectContact(evt, knows))
  <2> DEFINE d == [contact |-> Person(evt.jid, knows), fullName |-> evt.fullName,
                   inPhoneAddressBook |-> evt.saved]
  <2>1. \/ ProjectContact(evt, knows) = Discarded
        \/ ProjectContact(evt, knows) = Published("contact", d)
    BY DEF ProjectContact
  <2>2. DOMAIN d = {"contact", "fullName", "inPhoneAddressBook"}
    OBVIOUS
  <2> HIDE DEF d
  <2>3. "contact" \in DOMAIN OtherFields /\ DOMAIN d \subseteq OtherFields["contact"]
    BY <2>2 DEF OtherFields
  <2> QED
    BY <2>1, <2>3, DiscardedShape, PublishedShape, TypesOfEvents
<1> QED
  BY <1>1, <1>2, <1>3, <1>4

LEMMA GroupShape ==
    ASSUME NEW evt, NEW own, NEW knows
    PROVE  WellShaped(ProjectGroupInfo(evt, knows)) /\ WellShaped(ProjectJoinedGroup(evt, own, knows))
<1> DEFINE F == GroupFields["group"]
<1>1. /\ "group" \in DOMAIN GroupFields
      /\ {"id", "sender", "groupType", "isCommunity", "communityId", "isAnnouncementGroup"} \subseteq F
      /\ MemberFields \subseteq F /\ PlainFields \subseteq F
  BY DEF GroupFields
<1>2. {"joinReason", "join"} \subseteq F
  BY <1>1 DEF MemberFields, PlainFields
<1> HIDE DEF F
<1>3. ASSUME NEW d, DOMAIN d \subseteq F
      PROVE  WellShaped(Published("group", d))
  BY <1>1, <1>3, PublishedShape, TypesOfEvents DEF F
<1>4. WellShaped(ProjectGroupInfo(evt, knows))
  <2> DEFINE t == [id          |-> ProjectChatID(evt.jid, knows),
                   settingType |-> "ephemeral",
                   ephemeral   |-> [expiration |-> ExpirationString(evt.changes.ephemeral),
                                    sender     |-> Author(evt.by, knows)]]
             f == [id |-> ProjectChatID(evt.jid, knows), sender |-> Author(evt.by, knows)]
             x == [n \in DOMAIN evt.changes \cap PlainFields  |-> evt.changes[n]]
             y == [n \in DOMAIN evt.changes \cap MemberFields |-> ResolveMembers(evt.changes[n], knows)]
  <2>1. \/ ProjectGroupInfo(evt, knows) = Discarded
        \/ ProjectGroupInfo(evt, knows) = Published("chat_setting", t)
        \/ ProjectGroupInfo(evt, knows) = Published("group", f @@ x @@ y)
        \/ ProjectGroupInfo(evt, knows) = Published("group", f @@ (x @@ y))
    BY DEF ProjectGroupInfo, ProjectGroupEphemeral, Changes
  <2>2. /\ DOMAIN t = {"id", "settingType", "ephemeral"} /\ DOMAIN f = {"id", "sender"}
        /\ DOMAIN x \subseteq PlainFields /\ DOMAIN y \subseteq MemberFields
    OBVIOUS
  <2> HIDE DEF t, f, x, y
  <2>3. DOMAIN f \subseteq F /\ DOMAIN x \subseteq F /\ DOMAIN y \subseteq F
    BY <1>1, <2>2
  <2>4. DOMAIN (f @@ x @@ y) \subseteq F /\ DOMAIN (f @@ (x @@ y)) \subseteq F
    BY <2>3, MergeWithin
  <2>5. "chat_setting" \in DOMAIN ChatFields /\ DOMAIN t \subseteq ChatFields["chat_setting"]
    BY <2>2 DEF ChatFields
  <2>6. WellShaped(Published("chat_setting", t))
    BY <2>5, PublishedShape, TypesOfEvents
  <2> QED
    BY <1>3, <2>1, <2>4, <2>6, DiscardedShape
<1>5. WellShaped(ProjectJoinedGroup(evt, own, knows))
  <2> DEFINE f  == [id |-> ProjectChatID(evt.jid, knows)]
             by == If(ResolveSenderJID(evt.by.sender, evt.by.senderPN) # EmptyJID,
                      [sender |-> Author(evt.by, knows)])
             x  == Copy(evt, {"joinReason", "groupType"})
             me == If(own.user # NoUser, [join |-> <<Resolve(own, Jid(own.user, "lid"), knows)>>])
             c  == If(evt.isParent, [isCommunity |-> TRUE])
             p  == If(evt.parent # EmptyJID, [communityId |-> evt.parent])
             n  == If(evt.isDefaultSubGroup, [isAnnouncementGroup |-> TRUE])
             d  == f @@ by @@ x @@ me @@ c @@ p @@ n
  <2>1. \/ ProjectJoinedGroup(evt, own, knows) = Discarded
        \/ ProjectJoinedGroup(evt, own, knows) = Published("group", d)
    BY DEF ProjectJoinedGroup
  <2>2. DOMAIN f = {"id"}
    OBVIOUS
  <2>3. DOMAIN by \subseteq {"sender"}
    <3> DEFINE g == [sender |-> Author(evt.by, knows)]
    <3>1. DOMAIN g = {"sender"}
      OBVIOUS
    <3> HIDE DEF g
    <3>2. by = If(ResolveSenderJID(evt.by.sender, evt.by.senderPN) # EmptyJID, g)
      BY DEF g
    <3> QED
      BY <3>1, <3>2, Parts
  <2>4. DOMAIN x \subseteq {"joinReason", "groupType"}
    BY Parts
  <2>5. DOMAIN me \subseteq {"join"}
    <3> DEFINE g == [join |-> <<Resolve(own, Jid(own.user, "lid"), knows)>>]
    <3>1. DOMAIN g = {"join"}
      OBVIOUS
    <3> HIDE DEF g
    <3>2. me = If(own.user # NoUser, g)
      BY DEF g
    <3> QED
      BY <3>1, <3>2, Parts
  <2>6. DOMAIN c \subseteq {"isCommunity"} /\ DOMAIN n \subseteq {"isAnnouncementGroup"}
    BY Parts
  <2>7. DOMAIN p \subseteq {"communityId"}
    BY Parts
  <2> HIDE DEF f, by, x, me, c, p, n
  <2>8. /\ DOMAIN f \subseteq F /\ DOMAIN by \subseteq F /\ DOMAIN x \subseteq F /\ DOMAIN me \subseteq F
        /\ DOMAIN c \subseteq F /\ DOMAIN p \subseteq F /\ DOMAIN n \subseteq F
    BY <1>1, <1>2, <2>2, <2>3, <2>4, <2>5, <2>6, <2>7
  <2>9. DOMAIN d \subseteq F
    BY <2>8, MergeWithin
  <2> HIDE DEF d
  <2> QED
    BY <1>3, <2>1, <2>9, DiscardedShape
<1> QED
  BY <1>4, <1>5

LEMMA CallShape ==
    ASSUME NEW evt, NEW knows
    PROVE  /\ WellShaped(ProjectCallOffer(evt, knows)) /\ WellShaped(ProjectCallTerminated(evt, knows))
           /\ WellShaped(ProjectCallAccepted(evt, knows))
<1>1. WellShaped(ProjectCallOffer(evt, knows))
  <2> DEFINE caller  == Person(evt.creator, knows)
             isGroup == evt.group # EmptyJID
             chat    == IF isGroup THEN ProjectChatID(evt.group, knows) ELSE caller.id
             d == [id |-> evt.id, caller |-> caller, isGroup |-> isGroup, isVideo |-> evt.video,
                   chatId |-> chat]
  <2>1. ProjectCallOffer(evt, knows) = Published("call_offer", d)
    BY DEF ProjectCallOffer
  <2>2. DOMAIN d = {"id", "caller", "isGroup", "isVideo", "chatId"}
    OBVIOUS
  <2> HIDE DEF d
  <2>3. "call_offer" \in DOMAIN OtherFields /\ DOMAIN d \subseteq OtherFields["call_offer"]
    BY <2>2 DEF OtherFields
  <2> QED
    BY <2>1, <2>3, PublishedShape, TypesOfEvents
<1>2. WellShaped(ProjectCallTerminated(evt, knows))
  <2> DEFINE why == CASE evt.reason = "rejected_elsewhere" -> "rejected"
                      [] evt.reason \in {"accepted_elsewhere", "group_call_ended"} -> "ended"
                      [] OTHER -> "unknown"
             d == [id |-> evt.id, caller |-> Person(evt.creator, knows), reason |-> why]
  <2>1. ProjectCallTerminated(evt, knows) = Published("call_terminate", d)
    BY DEF ProjectCallTerminated
  <2>2. DOMAIN d = {"id", "caller", "reason"}
    OBVIOUS
  <2> HIDE DEF d
  <2>3. "call_terminate" \in DOMAIN OtherFields /\ DOMAIN d \subseteq OtherFields["call_terminate"]
    BY <2>2 DEF OtherFields
  <2> QED
    BY <2>1, <2>3, PublishedShape, TypesOfEvents
<1>3. WellShaped(ProjectCallAccepted(evt, knows))
  <2> DEFINE d == [id |-> evt.id, caller |-> Person(evt.creator, knows)]
  <2>1. ProjectCallAccepted(evt, knows) = Published("call_accept", d)
    BY DEF ProjectCallAccepted
  <2>2. DOMAIN d = {"id", "caller"}
    OBVIOUS
  <2> HIDE DEF d
  <2>3. "call_accept" \in DOMAIN OtherFields /\ DOMAIN d \subseteq OtherFields["call_accept"]
    BY <2>2 DEF OtherFields
  <2> QED
    BY <2>1, <2>3, PublishedShape, TypesOfEvents
<1> QED
  BY <1>1, <1>2, <1>3

LEMMA OtherShape ==
    ASSUME NEW evt, NEW action
    PROVE  /\ WellShaped(ProjectNewsletter(evt, action)) /\ WellShaped(ProjectLoggedOut(evt))
           /\ WellShaped(ProjectPairSuccess(evt)) /\ WellShaped(ProjectPairError(evt))
<1>1. WellShaped(ProjectNewsletter(evt, action))
  <2> DEFINE f == [id |-> evt.jid, action |-> action]
             g == Copy(evt, {"name", "role", "mute"})
  <2>1. ProjectNewsletter(evt, action) = Published("newsletter", f @@ g)
    BY DEF ProjectNewsletter
  <2>2. DOMAIN f = {"id", "action"} /\ DOMAIN g \subseteq {"name", "role", "mute"}
    BY Parts
  <2> HIDE DEF f, g
  <2>3. "newsletter" \in DOMAIN OtherFields /\ DOMAIN (f @@ g) \subseteq OtherFields["newsletter"]
    <3> DEFINE F == OtherFields["newsletter"]
    <3>1. "newsletter" \in DOMAIN OtherFields
      BY SomeFields
    <3>2. DOMAIN f \subseteq F /\ DOMAIN g \subseteq F
      BY <2>2, SomeFields
    <3> HIDE DEF F
    <3>3. DOMAIN (f @@ g) \subseteq F
      BY <3>2, MergeWithin
    <3> QED
      BY <3>1, <3>3 DEF F
  <2> QED
    BY <2>1, <2>3, PublishedShape, TypesOfEvents
<1> DEFINE x == [reason |-> evt.reason]
           y == [deviceId |-> evt.jid]
           z == [id |-> evt.jid, error |-> evt.error]
<1>2. /\ ProjectLoggedOut(evt) = Published("logged_out", x)
      /\ ProjectPairSuccess(evt) = Published("logged_in", y)
      /\ ProjectPairError(evt) = Published("login_error", z)
  BY DEF ProjectLoggedOut, ProjectPairSuccess, ProjectPairError
<1>3. DOMAIN x = {"reason"} /\ DOMAIN y = {"deviceId"} /\ DOMAIN z = {"id", "error"}
  OBVIOUS
<1> HIDE DEF x, y, z
<1>4. /\ {"logged_out", "logged_in", "login_error"} \subseteq DOMAIN OtherFields
      /\ DOMAIN x \subseteq OtherFields["logged_out"] /\ DOMAIN y \subseteq OtherFields["logged_in"]
      /\ DOMAIN z \subseteq OtherFields["login_error"]
  BY <1>3 DEF OtherFields
<1>5. /\ WellShaped(Published("logged_out", x)) /\ WellShaped(Published("logged_in", y))
      /\ WellShaped(Published("login_error", z))
  BY <1>4, PublishedShape, TypesOfEvents
<1> QED
  BY <1>1, <1>2, <1>5

\* Whatever event comes, what is published of it has the shape of its type.
LEMMA ProjectShape ==
    ASSUME NEW evt, NEW own, NEW knows, NoUser \notin knows
    PROVE  WellShaped(Project(evt, own, knows))
<1> DEFINE P == Project(evt, own, knows)
<1>1. \/ P \in {ProjectMessage(evt, knows), ProjectReceipt(evt, knows),
                ProjectMessageDeleteForMe(evt, knows), ProjectStar(evt, knows)}
      \/ P \in {ProjectPairSuccess(evt), ProjectPairError(evt), ProjectLoggedOut(evt)}
      \/ P \in {ProjectMute(evt, knows), ProjectPin(evt, knows), ProjectArchive(evt, knows),
                ProjectMarkChatAsRead(evt, knows)}
      \/ P \in {ProjectChatPresence(evt, knows), ProjectPicture(evt, own, knows),
                ProjectPresence(evt, knows), ProjectContact(evt, knows)}
      \/ P \in {ProjectPushName(evt, knows), ProjectUserAbout(evt, knows)}
      \/ P \in {ProjectGroupInfo(evt, knows), ProjectJoinedGroup(evt, own, knows)}
      \/ P \in {ProjectNewsletter(evt, "join"), ProjectNewsletter(evt, "leave"),
                ProjectNewsletter(evt, "mute")}
      \/ P \in {ProjectCallOffer(evt, knows), ProjectCallTerminated(evt, knows),
                ProjectCallAccepted(evt, knows)}
      \/ P = Discarded
  <2> PICK is : is = evt.is
    OBVIOUS
  <2> QED
    BY DEF Project, ProjectBusinessName
<1> HIDE DEF P
<1>2. WellShaped(P)
  BY <1>1, MessageShape, ReceiptShape, PatchShape, SettingsShape, PersonShape, PresenceShape,
     GroupShape, CallShape, OtherShape, DiscardedShape
<1> QED
  BY <1>2 DEF P

-----------------------------------------------------------------------------
(* From a request to the event.                                            *)

\* Two functions are the same as far as the fields S go.
Alike(d, p, S) == \A f \in S : /\ f \in DOMAIN d <=> f \in DOMAIN p
                               /\ f \in DOMAIN p => d[f] = p[f]

LEMMA AlikeLeft ==
    ASSUME NEW S, NEW f, NEW g, DOMAIN g \cap S = {}
    PROVE  Alike(f @@ g, f, S)
BY MergeAt DEF Alike

LEMMA AlikeRight ==
    ASSUME NEW S, NEW f, NEW g, DOMAIN f \cap S = {}
    PROVE  Alike(f @@ g, g, S)
BY MergeAt DEF Alike

LEMMA AlikeTrans ==
    ASSUME NEW S, NEW f, NEW g, NEW h, Alike(f, g, S), Alike(g, h, S)
    PROVE  Alike(f, h, S)
BY DEF Alike

LEMMA AlikeGet ==
    ASSUME NEW S, NEW d, NEW p, Alike(d, p, S), NEW f \in S
    PROVE  (Has(d, f) <=> Has(p, f)) /\ Get(d, f) = Get(p, f) /\ (Flag(d, f) <=> Flag(p, f))
BY DEF Alike, Has, Get, Flag

\* Four parts put together, the first ones first.
Joins(all, p, q, s, t) ==
    /\ DOMAIN all = DOMAIN p \cup DOMAIN q \cup DOMAIN s \cup DOMAIN t
    /\ \A f \in DOMAIN p : all[f] = p[f]
    /\ \A f \in DOMAIN q \ DOMAIN p : all[f] = q[f]
    /\ \A f \in DOMAIN s \ (DOMAIN p \cup DOMAIN q) : all[f] = s[f]
    /\ \A f \in DOMAIN t \ (DOMAIN p \cup DOMAIN q \cup DOMAIN s) : all[f] = t[f]

LEMMA Merge4 ==
    ASSUME NEW p, NEW q, NEW s, NEW t
    PROVE  Joins(p @@ q @@ s @@ t, p, q, s, t)
<1> DEFINE pq == p @@ q
           pqs == pq @@ s
           x == pqs @@ t
<1>1. /\ DOMAIN pq = DOMAIN p \cup DOMAIN q
      /\ \A f \in DOMAIN p : pq[f] = p[f]
      /\ \A f \in DOMAIN q \ DOMAIN p : pq[f] = q[f]
  BY ONLY Merge
<1> HIDE DEF pq
<1>2. /\ DOMAIN pqs = DOMAIN pq \cup DOMAIN s
      /\ \A f \in DOMAIN pq : pqs[f] = pq[f]
      /\ \A f \in DOMAIN s \ DOMAIN pq : pqs[f] = s[f]
  BY ONLY Merge
<1> HIDE DEF pqs
<1>3. /\ DOMAIN x = DOMAIN pqs \cup DOMAIN t
      /\ \A f \in DOMAIN pqs : x[f] = pqs[f]
      /\ \A f \in DOMAIN t \ DOMAIN pqs : x[f] = t[f]
  BY ONLY Merge
<1> HIDE DEF x
<1>4. Joins(x, p, q, s, t)
  BY ONLY <1>1, <1>2, <1>3 DEF Joins
<1> QED
  BY <1>4 DEF x, pqs, pq

\* An optional part.
LEMMA IfIs ==
    ASSUME NEW c, NEW d
    PROVE  /\ c => If(c, d) = d
           /\ ~c => DOMAIN If(c, d) = {}
BY Parts DEF If

\* A copy has the fields that are not empty.
LEMMA CopyIs ==
    ASSUME NEW part, NEW fields
    PROVE  /\ DOMAIN Copy(part, fields) = {f \in fields : Get(part, f) # ""}
           /\ \A f \in fields : /\ Get(Copy(part, fields), f) = Get(part, f)
                                /\ Get(part, f) # "" => Copy(part, fields)[f] = part[f]
<1>1. DOMAIN Copy(part, fields) = {f \in fields : Get(part, f) # ""}
  BY DEF Copy
<1>2. \A f \in DOMAIN Copy(part, fields) : Copy(part, fields)[f] = part[f]
  BY DEF Copy
<1> QED
  BY <1>1, <1>2 DEF Get, Has

-----------------------------------------------------------------------------
(* The context of a message.                                               *)

OptionFields == {"isForwarded", "ephemeralExpiration", "mentions", "replyTo"}

\* The options of a request, as they are sent.
LEMMA ContextIs ==
    ASSUME NEW chat, NEW r, NEW ctx, ctx = BuildContextInfo(chat, r)
    PROVE  /\ \A f \in {"stanzaId", "quoted", "participant"} : f \in DOMAIN ctx <=> Has(r, "replyTo")
           /\ Has(r, "replyTo") =>
                /\ ctx.stanzaId = r.replyTo /\ ctx.quoted = Nothing
                /\ Has(r, "replyToSenderId") => ctx.participant = r.replyToSenderId
           /\ Has(r, "mentions") /\ DOMAIN r.mentions # {} =>
                /\ Has(ctx, "mentioned") /\ ctx.mentioned # <<>>
                /\ ctx.mentioned = [i \in DOMAIN r.mentions |-> FormatRecipient(r.mentions[i])]
           /\ Flag(ctx, "forwarded") <=> Flag(r, "isForwarded")
           /\ ParseEphemeralExpiration(Get(r, "ephemeralExpiration")) > 0 =>
                /\ Has(ctx, "expiration")
                /\ ctx.expiration = ParseEphemeralExpiration(Get(r, "ephemeralExpiration"))
           /\ ~Has(ctx, "ad")
<1> DEFINE named    == IF Has(r, "mentions") THEN r.mentions ELSE <<>>
           mentions == [i \in DOMAIN named |-> FormatRecipient(named[i])]
           seconds  == ParseEphemeralExpiration(Get(r, "ephemeralExpiration"))
           x == [stanzaId    |-> r.replyTo,
                 quoted      |-> Nothing,
                 participant |-> IF Has(r, "replyToSenderId") THEN r.replyToSenderId
                                 ELSE AsWritten(chat)]
           y == [mentioned |-> mentions]
           z == [forwarded |-> TRUE]
           w == [expiration |-> seconds]
           c1 == Has(r, "replyTo")
           c2 == mentions # <<>>
           c3 == Flag(r, "isForwarded")
           c4 == seconds > 0
<1>1. ctx = If(c1, x) @@ If(c2, y) @@ If(c3, z) @@ If(c4, w)
  BY DEF BuildContextInfo
<1>2. /\ DOMAIN x = {"stanzaId", "quoted", "participant"}
      /\ x.stanzaId = r.replyTo /\ x.quoted = Nothing
      /\ Has(r, "replyToSenderId") => x.participant = r.replyToSenderId
      /\ DOMAIN y = {"mentioned"} /\ y.mentioned = mentions
      /\ DOMAIN z = {"forwarded"} /\ z.forwarded = TRUE
      /\ DOMAIN w = {"expiration"} /\ w.expiration = seconds
  OBVIOUS
<1>3. Has(r, "mentions") /\ DOMAIN r.mentions # {} =>
        c2 /\ mentions = [i \in DOMAIN r.mentions |-> FormatRecipient(r.mentions[i])]
  OBVIOUS
<1> HIDE DEF x, y, z, w, c1, c2, c3, c4, seconds, mentions
<1> DEFINE p == If(c1, x)
           q == If(c2, y)
           s == If(c3, z)
           t == If(c4, w)
<1>4. /\ c1 => p = x
      /\ c2 => q = y
      /\ c3 => s = z
      /\ c4 => t = w
      /\ ~c1 => DOMAIN p = {}
      /\ ~c2 => DOMAIN q = {}
      /\ ~c3 => DOMAIN s = {}
      /\ ~c4 => DOMAIN t = {}
  BY IfIs
<1>5. ctx = p @@ q @@ s @@ t
  BY <1>1
<1> HIDE DEF p, q, s, t
<1>6. /\ DOMAIN p \subseteq {"stanzaId", "quoted", "participant"} /\ DOMAIN q \subseteq {"mentioned"}
      /\ DOMAIN s \subseteq {"forwarded"} /\ DOMAIN t \subseteq {"expiration"}
  BY <1>2, <1>4
<1>7. /\ DOMAIN ctx = DOMAIN p \cup DOMAIN q \cup DOMAIN s \cup DOMAIN t
      /\ \A f \in DOMAIN p : ctx[f] = p[f]
      /\ \A f \in DOMAIN q \ DOMAIN p : ctx[f] = q[f]
      /\ \A f \in DOMAIN s \ (DOMAIN p \cup DOMAIN q) : ctx[f] = s[f]
      /\ \A f \in DOMAIN t \ (DOMAIN p \cup DOMAIN q \cup DOMAIN s) : ctx[f] = t[f]
  <2>1. Joins(ctx, p, q, s, t)
    BY <1>5, Merge4
  <2> QED
    BY ONLY <2>1 DEF Joins
<1>10. \A f \in DOMAIN p : f \in DOMAIN ctx /\ ctx[f] = p[f]
  BY ONLY <1>7
<1>11. \A f \in DOMAIN q : f \in DOMAIN ctx /\ ctx[f] = q[f]
  BY ONLY <1>6, <1>7
<1>12. \A f \in DOMAIN s : f \in DOMAIN ctx /\ ctx[f] = s[f]
  BY ONLY <1>6, <1>7
<1>13. \A f \in DOMAIN t : f \in DOMAIN ctx /\ ctx[f] = t[f]
  BY ONLY <1>6, <1>7
<1>14. DOMAIN ctx = DOMAIN p \cup DOMAIN q \cup DOMAIN s \cup DOMAIN t
  BY ONLY <1>7
<1>15. \A f \in {"stanzaId", "quoted", "participant"} : f \in DOMAIN ctx <=> c1
  BY <1>2, <1>4, <1>6, <1>14
<1>16. c1 => ctx.stanzaId = r.replyTo /\ ctx.quoted = Nothing
             /\ (Has(r, "replyToSenderId") => ctx.participant = r.replyToSenderId)
  BY <1>2, <1>4, <1>10
<1>17. c2 => "mentioned" \in DOMAIN ctx /\ ctx.mentioned = mentions
  BY <1>2, <1>4, <1>11
<1>18. Flag(ctx, "forwarded") <=> c3
  <2>1. CASE c3
    BY <1>2, <1>4, <1>12, <2>1 DEF Flag, Has
  <2>2. CASE ~c3
    BY <1>4, <1>6, <1>14, <2>2 DEF Flag, Has
  <2> QED
    BY <2>1, <2>2
<1>19. c4 => "expiration" \in DOMAIN ctx /\ ctx.expiration = seconds
  BY <1>2, <1>4, <1>13
<1>20. "ad" \notin DOMAIN ctx
  BY <1>6, <1>14
<1>21. Has(r, "mentions") /\ DOMAIN r.mentions # {} =>
                /\ Has(ctx, "mentioned") /\ ctx.mentioned # <<>>
                /\ ctx.mentioned = [i \in DOMAIN r.mentions |-> FormatRecipient(r.mentions[i])]
  BY <1>3, <1>17 DEF c2, Has
<1> QED
  BY <1>15, <1>16, <1>18, <1>19, <1>20, <1>21 DEF c1, c3, c4, seconds, Has

\* What is told of the context of a message that is no ad.
LEMMA ContextTold ==
    ASSUME NEW ctx, ~Has(ctx, "ad"), NEW knows, NEW C, C = ContextInfo(ctx, knows)
    PROVE  /\ DOMAIN C \subseteq OptionFields
           /\ Has(C, "isForwarded") <=> Flag(ctx, "forwarded")
           /\ Has(ctx, "mentioned") /\ ctx.mentioned # <<>> =>
                Has(C, "mentions") /\ C.mentions = ResolveMentions(ctx.mentioned, knows)
           /\ Has(ctx, "expiration") =>
                Has(C, "ephemeralExpiration") /\ C.ephemeralExpiration = ExpirationString(ctx.expiration)
           /\ Has(ctx, "stanzaId") /\ Has(ctx, "participant") =>
                /\ Has(C, "replyTo") /\ C.replyTo.id = ctx.stanzaId
                /\ C.replyTo.sender = ResolveSender(ParseText(ctx.participant), FALSE, EmptyJID, knows)
<1> DEFINE c1 == Flag(ctx, "forwarded")
           c2 == Has(ctx, "mentioned") /\ ctx.mentioned # <<>>
           c3 == Has(ctx, "stanzaId") \/ Has(ctx, "participant")
           c4 == Has(ctx, "expiration")
           who   == ResolveSender(ParseText(ctx.participant), FALSE, EmptyJID, knows)
           quoted == IF Has(ctx, "quoted") THEN Copy(ctx.quoted, {"text"}) ELSE Nothing
           reply == If(Has(ctx, "stanzaId"), [id |-> ctx.stanzaId])
                    @@ If(Has(ctx, "participant"), [sender |-> who])
                    @@ If(c1, [isForwarded |-> TRUE])
                    @@ quoted
           x == [isForwarded |-> TRUE]
           y == [mentions |-> ResolveMentions(ctx.mentioned, knows)]
           z == [replyTo |-> reply]
           w == [ephemeralExpiration |-> ExpirationString(ctx.expiration)]
<1>1. C = If(c1, x) @@ If(c2, y) @@ If(c3, z) @@ If(c4, w) @@ AdReferral(ctx)
  BY DEF ContextInfo, ReplyTo
<1>2. DOMAIN AdReferral(ctx) = {}
  BY Parts DEF AdReferral
<1>3. /\ DOMAIN x = {"isForwarded"} /\ DOMAIN y = {"mentions"}
      /\ y.mentions = ResolveMentions(ctx.mentioned, knows)
      /\ DOMAIN w = {"ephemeralExpiration"}
      /\ w.ephemeralExpiration = ExpirationString(ctx.expiration)
  OBVIOUS
<1>4. DOMAIN z = {"replyTo"} /\ z.replyTo = reply
  BY ONLY TRUE
<1>5. Has(ctx, "stanzaId") /\ Has(ctx, "participant") =>
        reply.id = ctx.stanzaId /\ reply.sender = who
  <2> HAVE Has(ctx, "stanzaId") /\ Has(ctx, "participant")
  <2> DEFINE i == [id |-> ctx.stanzaId]
             s == [sender |-> who]
             f == If(c1, [isForwarded |-> TRUE])
  <2>1. reply = i @@ s @@ f @@ quoted
    BY DEF If
  <2>2. DOMAIN i = {"id"} /\ i.id = ctx.stanzaId /\ DOMAIN s = {"sender"} /\ s.sender = who
    OBVIOUS
  <2> HIDE DEF i, s, f, quoted, reply
  <2>3. reply.id = ctx.stanzaId /\ reply.sender = who
    <3>1. Joins(reply, i, s, f, quoted)
      BY <2>1, Merge4
    <3> QED
      BY ONLY <2>2, <3>1 DEF Joins
  <2> QED
    BY <2>3
<1> HIDE DEF x, y, z, w, c1, c2, c3, c4, reply
<1> DEFINE p == If(c1, x)
           q == If(c2, y)
           s == If(c3, z)
           t == If(c4, w)
           all == p @@ q @@ s @@ t
           ad == AdReferral(ctx)
<1>6. /\ c1 => p = x
      /\ c2 => q = y
      /\ c3 => s = z
      /\ c4 => t = w
      /\ ~c1 => DOMAIN p = {}
      /\ ~c2 => DOMAIN q = {}
      /\ ~c3 => DOMAIN s = {}
      /\ ~c4 => DOMAIN t = {}
  BY IfIs
<1>7. C = all @@ ad
  BY <1>1
<1> HIDE DEF p, q, s, t
<1>8. /\ DOMAIN all = DOMAIN p \cup DOMAIN q \cup DOMAIN s \cup DOMAIN t
      /\ \A f \in DOMAIN p : all[f] = p[f]
      /\ \A f \in DOMAIN q \ DOMAIN p : all[f] = q[f]
      /\ \A f \in DOMAIN s \ (DOMAIN p \cup DOMAIN q) : all[f] = s[f]
      /\ \A f \in DOMAIN t \ (DOMAIN p \cup DOMAIN q \cup DOMAIN s) : all[f] = t[f]
  <2>1. Joins(all, p, q, s, t)
    BY Merge4
  <2> HIDE DEF all
  <2> QED
    BY ONLY <2>1 DEF Joins
<1> HIDE DEF all, ad
<1>9. DOMAIN C = DOMAIN all /\ \A f \in DOMAIN all : C[f] = all[f]
  <2> DEFINE x1 == all @@ ad
  <2>1. /\ DOMAIN x1 = DOMAIN all \cup DOMAIN ad
        /\ \A f \in DOMAIN all : x1[f] = all[f]
    BY ONLY Merge
  <2>2. C = x1 /\ DOMAIN ad = {}
    BY <1>2, <1>7 DEF ad
  <2> HIDE DEF x1
  <2> QED
    BY ONLY <2>1, <2>2
<1>10. /\ DOMAIN p \subseteq {"isForwarded"} /\ DOMAIN q \subseteq {"mentions"}
       /\ DOMAIN s \subseteq {"replyTo"} /\ DOMAIN t \subseteq {"ephemeralExpiration"}
  BY <1>3, <1>4, <1>6
<1>11. DOMAIN C \subseteq OptionFields
  BY <1>8, <1>9, <1>10 DEF OptionFields
<1>12. "isForwarded" \in DOMAIN C <=> c1
  BY <1>3, <1>6, <1>8, <1>9, <1>10
<1>13. c2 => "mentions" \in DOMAIN C /\ C.mentions = y.mentions
  BY <1>3, <1>6, <1>8, <1>9, <1>10
<1>14. c4 => "ephemeralExpiration" \in DOMAIN C /\ C.ephemeralExpiration = w.ephemeralExpiration
  BY <1>3, <1>6, <1>8, <1>9, <1>10
<1>15. c3 => "replyTo" \in DOMAIN C /\ C.replyTo = reply
  BY <1>4, <1>6, <1>8, <1>9, <1>10
<1> QED
  BY <1>3, <1>5, <1>11, <1>12, <1>13, <1>14, <1>15 DEF c1, c2, c3, c4, Has

\* Days are told apart by their seconds.
LEMMA DaysDiffer ==
    /\ 0 < Days(1) /\ Days(1) < Days(7) /\ Days(7) < Days(30) /\ Days(30) < Days(90)
    /\ Days(7) < Days(90)
    /\ Days(1) \in Nat /\ Days(7) \in Nat /\ Days(30) \in Nat /\ Days(90) \in Nat
<1>1. 60 * 60 > 0
  OBVIOUS
<1> PICK h \in Nat : h = Hour /\ h > 0
  BY <1>1 DEF Hour
<1>2. \A n : Days(n) = n * 24 * h
  BY DEF Days
<1> HIDE DEF Days
<1>3. /\ 0 < 1 * 24 * h /\ 1 * 24 * h < 7 * 24 * h
      /\ 7 * 24 * h < 30 * 24 * h /\ 30 * 24 * h < 90 * 24 * h /\ 7 * 24 * h < 90 * 24 * h
  BY SMT
<1>4. /\ 1 * 24 * h \in Nat /\ 7 * 24 * h \in Nat
      /\ 30 * 24 * h \in Nat /\ 90 * 24 * h \in Nat
  BY SMT
<1> QED
  BY <1>2, <1>3, <1>4

\* The timers one may choose.
LEMMA Timers ==
    ASSUME NEW text, text \in Expirations, text \notin {"", "off"}
    PROVE  /\ ParseEphemeralExpiration(text) > 0
           /\ ExpirationString(ParseEphemeralExpiration(text)) = text
<1> DEFINE d1 == Days(1)
           d7 == Days(7)
           d90 == Days(90)
<1>0. \A x : ParseEphemeralExpiration(x) =
         CASE x = "24h" -> d1 [] x = "7d" -> d7 [] x = "90d" -> d90 [] OTHER -> 0
  BY DEF ParseEphemeralExpiration
<1>5. \A x : ExpirationString(x) =
         CASE x = d1 -> "24h" [] x = d7 -> "7d" [] x = d90 -> "90d" [] OTHER -> "off"
  BY DEF ExpirationString
<1>1. d1 \in Nat /\ d7 \in Nat /\ d90 \in Nat /\ 0 < d1 /\ d1 < d7 /\ d7 < d90
  BY DaysDiffer
<1> HIDE DEF d1, d7, d90
<1>2. CASE text = "24h"
  BY <1>0, <1>1, <1>5, <1>2
<1>3. CASE text = "7d"
  BY <1>0, <1>1, <1>5, <1>3
<1>4. CASE text = "90d"
  BY <1>0, <1>1, <1>5, <1>4
<1> QED
  BY <1>2, <1>3, <1>4 DEF Expirations

\* A part that carries the context that a request asks for, if that holds anything.
InContext(part, chat, r) ==
    /\ Has(part, "context") <=> BuildContextInfo(chat, r) # Nothing
    /\ Has(part, "context") => part.context = BuildContextInfo(chat, r)

LEMMA MentionsTold ==
    ASSUME NEW named, NEW knows, NEW told,
           told = ResolveMentions([i \in DOMAIN named |-> FormatRecipient(named[i])], knows)
    PROVE  /\ DOMAIN told = DOMAIN named
           /\ \A n \in DOMAIN named : told[n].user = named[n].user
<1> DEFINE jids == [i \in DOMAIN named |-> FormatRecipient(named[i])]
<1>1. DOMAIN jids = DOMAIN named /\ \A n \in DOMAIN named : jids[n].user = named[n].user
  BY DEF FormatRecipient, Jid
<1>2. told = ResolveMentions(jids, knows)
  OBVIOUS
<1> HIDE DEF jids
<1>3. DOMAIN told = DOMAIN jids /\ \A n \in DOMAIN jids : told[n] = ResolveMention(jids[n], knows)
  BY <1>2 DEF ResolveMentions
<1>4. \A j : ResolveMention(j, knows).user = j.user
  BY DEF ResolveMention, GetPNForLID, Jid
<1> QED
  BY <1>1, <1>3, <1>4

LEMMA ReplyTold ==
    ASSUME NEW r, ReplySound(r), Has(r, "replyTo"), NEW knows
    PROVE  ResolveSender(ParseText(r.replyToSenderId), FALSE, EmptyJID, knows).id.user
              = sent[r.replyTo].by
<1> PICK u : u = sent[r.replyTo].by
  OBVIOUS
<1>1. u \in People /\ u # NoUser
  BY ExchangeAssumption DEF ReplySound
<1>2. PICK server \in {"pn", "lid"} : r.replyToSenderId = Written(u, server)
  BY DEF ReplySound
<1> PICK j : j = ParseText(r.replyToSenderId)
  OBVIOUS
<1>3. j = Jid(u, server)
  <2> DEFINE w == Written(u, server)
  <2>1. w.user = u /\ w.server = server /\ w.plus = FALSE
    BY DEF Written
  <2>2. j = ParseText(w) /\ server # NoServer
    BY <1>2 DEF NoServer
  <2> HIDE DEF w
  <2>3. ParseText(w) = ParseJID(w)
    BY <2>1, <2>2 DEF ParseText, ParsesAsJID
  <2> QED
    BY <2>1, <2>2, <2>3 DEF ParseJID
<1>4. IsJID(j) /\ j.user = u /\ j.server = server
  BY <1>3 DEF Jid, IsJID
<1> PICK s : s = ResolveSender(j, FALSE, EmptyJID, knows)
  OBVIOUS
<1>5. s.id \in {Jid(u, "pn"), Jid(u, "lid")}
  BY <1>1, <1>4, SenderIs
<1>6. \A x : Jid(u, x).user = u
  BY DEF Jid
<1>7. s.id.user = u
  BY <1>5, <1>6
<1> QED
  BY <1>7

\* The options of a request are in what is told of its context.
LEMMA OptionsTold ==
    ASSUME NEW r, Valid(r), ReplySound(r), NEW chat, NEW part, InContext(part, chat, r), NEW knows
    PROVE  /\ DOMAIN Context(part, knows) \subseteq OptionFields
           /\ TellsOptions(Context(part, knows), r)
<1> PICK ctx : ctx = BuildContextInfo(chat, r)
  OBVIOUS
<1> PICK D : D = Context(part, knows)
  OBVIOUS
<1> DEFINE timer   == Get(r, "ephemeralExpiration")
           seconds == ParseEphemeralExpiration(timer)
           named   == Has(r, "mentions") /\ DOMAIN r.mentions # {}
           jids    == [i \in DOMAIN r.mentions |-> FormatRecipient(r.mentions[i])]
           who     == ResolveSender(ParseText(r.replyToSenderId), FALSE, EmptyJID, knows)
<1>1. /\ \A f \in {"stanzaId", "quoted", "participant"} : f \in DOMAIN ctx <=> Has(r, "replyTo")
      /\ Has(r, "replyTo") =>
           /\ ctx.stanzaId = r.replyTo
           /\ Has(r, "replyToSenderId") => ctx.participant = r.replyToSenderId
      /\ named => Has(ctx, "mentioned") /\ ctx.mentioned # <<>> /\ ctx.mentioned = jids
      /\ Flag(ctx, "forwarded") <=> Flag(r, "isForwarded")
      /\ seconds > 0 => Has(ctx, "expiration") /\ ctx.expiration = seconds
      /\ ~Has(ctx, "ad")
  BY ContextIs
<1>2. timer \notin {"", "off"} => seconds > 0 /\ ExpirationString(seconds) = timer
  BY Timers DEF Valid
<1>3. Has(r, "replyTo") =>
        Has(r, "replyToSenderId") /\ who.id.user = sent[r.replyTo].by
  BY ReplyTold DEF ReplySound
<1> HIDE DEF timer, seconds, named, jids, who
<1>4. CASE ctx = Nothing
  <2>1. DOMAIN ctx = {} /\ DOMAIN D = {}
    BY <1>4, Parts DEF InContext, Context
  <2>2. ~Has(r, "replyTo") /\ ~named /\ ~Flag(r, "isForwarded") /\ ~(seconds > 0)
    BY <1>1, <2>1 DEF Has, Flag
  <2>3. TellsOptions(D, r)
    BY <1>2, <2>1, <2>2 DEF TellsOptions, Has, named, timer
  <2> QED
    BY <2>1, <2>3
<1>5. CASE ctx # Nothing
  <2>1. D = ContextInfo(ctx, knows)
    BY <1>5 DEF InContext, Context
  <2>2. /\ DOMAIN D \subseteq OptionFields
        /\ Has(D, "isForwarded") <=> Flag(ctx, "forwarded")
        /\ Has(ctx, "mentioned") /\ ctx.mentioned # <<>> =>
             Has(D, "mentions") /\ D.mentions = ResolveMentions(ctx.mentioned, knows)
        /\ Has(ctx, "expiration") =>
             Has(D, "ephemeralExpiration") /\ D.ephemeralExpiration = ExpirationString(ctx.expiration)
        /\ Has(ctx, "stanzaId") /\ Has(ctx, "participant") =>
             /\ Has(D, "replyTo") /\ D.replyTo.id = ctx.stanzaId
             /\ D.replyTo.sender = ResolveSender(ParseText(ctx.participant), FALSE, EmptyJID, knows)
    BY <1>1, <2>1, ContextTold
  <2>3. Flag(r, "isForwarded") <=> Has(D, "isForwarded")
    BY <1>1, <2>2
  <2>4. timer \notin {"", "off"} => Get(D, "ephemeralExpiration") = timer
    BY <1>1, <1>2, <2>2 DEF Get
  <2>5. named => /\ Has(D, "mentions") /\ DOMAIN D.mentions = DOMAIN r.mentions
                 /\ \A n \in DOMAIN r.mentions : D.mentions[n].user = r.mentions[n].user
    <3> HAVE named
    <3>1. Has(D, "mentions") /\ D.mentions = ResolveMentions(jids, knows)
      BY <1>1, <2>2
    <3> QED
      BY <3>1, MentionsTold DEF jids
  <2>6. Has(r, "replyTo") => /\ Has(D, "replyTo") /\ D.replyTo.id = r.replyTo
                             /\ D.replyTo.sender.id.user = sent[r.replyTo].by
    <3> HAVE Has(r, "replyTo")
    <3>1. Has(ctx, "stanzaId") /\ Has(ctx, "participant") /\ ctx.stanzaId = r.replyTo
          /\ ctx.participant = r.replyToSenderId
      BY <1>1, <1>3 DEF Has
    <3> QED
      BY <1>3, <2>2, <3>1 DEF who
  <2>7. timer \notin {"", "off"} => Get(D, "ephemeralExpiration") = r.ephemeralExpiration
    BY <2>4 DEF timer, Get
  <2>8. TellsOptions(D, r)
    BY <2>3, <2>5, <2>6, <2>7 DEF TellsOptions, named, timer
  <2> QED
    BY <2>2, <2>8
<1> QED
  BY <1>4, <1>5

-----------------------------------------------------------------------------
(* What is told of the content.                                            *)

ContentKinds == {"conversation", "image", "video", "audio", "document", "sticker", "reaction",
                 "contact", "contacts", "extendedText", "pin", "protocol", "senderKey"}

\* Every kind has one place in the order.
LEMMA Order ==
    /\ \A k \in ContentKinds : \E n \in DOMAIN ContentOrder : ContentOrder[n] = k
    /\ \A n \in DOMAIN ContentOrder : ContentOrder[n] \in ContentKinds
    /\ \A i, j \in DOMAIN ContentOrder : ContentOrder[i] = ContentOrder[j] => i = j
    /\ \A i \in DOMAIN ContentOrder : i <= i
<1>1. DOMAIN ContentOrder = {1, 2, 3, 4, 5, 6, 7, 8, 9, 10, 11, 12, 13}
  BY DEF ContentOrder
<1>2. /\ ContentOrder[1] = "conversation" /\ ContentOrder[2] = "image"
      /\ ContentOrder[3] = "video" /\ ContentOrder[4] = "audio"
      /\ ContentOrder[5] = "document" /\ ContentOrder[6] = "sticker"
      /\ ContentOrder[7] = "reaction" /\ ContentOrder[8] = "contact"
      /\ ContentOrder[9] = "contacts" /\ ContentOrder[10] = "extendedText"
      /\ ContentOrder[11] = "pin" /\ ContentOrder[12] = "protocol"
      /\ ContentOrder[13] = "senderKey"
  BY DEF ContentOrder
<1> HIDE DEF ContentOrder
<1>3. \A k \in ContentKinds : \E n \in DOMAIN ContentOrder : ContentOrder[n] = k
  BY <1>1, <1>2 DEF ContentKinds
<1>4. \A n \in DOMAIN ContentOrder : ContentOrder[n] \in ContentKinds
  BY <1>1, <1>2 DEF ContentKinds
<1>5. \A i, j \in DOMAIN ContentOrder : ContentOrder[i] = ContentOrder[j] => i = j
  BY <1>1, <1>2
<1>6. \A i \in DOMAIN ContentOrder : i <= i
  BY <1>1
<1> QED
  BY <1>3, <1>4, <1>5, <1>6

LEMMA KindIs ==
    ASSUME NEW content, NEW k \in ContentKinds, DOMAIN content \cap ContentKinds = {k},
           k = "conversation" => content.conversation # ""
    PROVE  Kind(content) = k
<1> DEFINE present == {i \in DOMAIN ContentOrder :
                         /\ Has(content, ContentOrder[i])
                         /\ ContentOrder[i] = "conversation" => content.conversation # ""}
<1>1. PICK n \in DOMAIN ContentOrder : ContentOrder[n] = k
  BY Order
<1>2. present = {n}
  <2>1. n \in present
    BY <1>1 DEF Has
  <2>2. ASSUME NEW i \in present
        PROVE  i = n
    <3>1. ContentOrder[i] \in DOMAIN content \cap ContentKinds
      BY Order DEF Has
    <3>2. ContentOrder[i] = k /\ i \in DOMAIN ContentOrder
      BY <3>1
    <3> QED
      BY <1>1, <3>2, Order
  <2> HIDE DEF present
  <2> QED
    BY <2>1, <2>2
<1>3. n <= n
  BY Order
<1>4. Kind(content) = IF present = {} THEN "none"
                      ELSE ContentOrder[CHOOSE i \in present : \A j \in present : i <= j]
  BY DEF Kind
<1> HIDE DEF present
<1>5. (CHOOSE i \in present : \A j \in present : i <= j) = n
  BY <1>2, <1>3
<1> QED
  BY <1>1, <1>2, <1>4, <1>5

LEMMA KindNone ==
    ASSUME NEW content, DOMAIN content \cap ContentKinds = {}
    PROVE  Kind(content) = "none"
<1> DEFINE present == {i \in DOMAIN ContentOrder :
                         /\ Has(content, ContentOrder[i])
                         /\ ContentOrder[i] = "conversation" => content.conversation # ""}
<1>1. present = {}
  BY Order DEF Has
<1> QED
  BY <1>1 DEF Kind

Envelope(d) == [eventType |-> "message", data |-> d]

\* The fields of an event that Tells looks at.
TellFields == ContentFields \cup OptionFields \cup {"viewOnce"}

\* The part that tells of a request is there.
Holds(d, r) ==
    /\ r.kind = "link" /\ Get(r, "title") # "" => Has(d, "extendedText")
    /\ r.kind \in MediaKinds => Has(d, "media")
    /\ r.kind = "contact"  => Has(d, "contact")
    /\ r.kind = "reaction" => Has(d, "reaction")
    /\ r.kind = "edit"     => Has(d, "edit")
    /\ r.kind = "pin"      => Has(d, "pin")

LEMMA OptionsAlike ==
    ASSUME NEW d, NEW p, Alike(d, p, OptionFields), NEW r, TellsOptions(p, r)
    PROVE  TellsOptions(d, r)
<1>1. \A f \in OptionFields : /\ Has(d, f) <=> Has(p, f)
                              /\ Get(d, f) = Get(p, f)
                              /\ Has(p, f) => d[f] = p[f]
  BY AlikeGet DEF Alike, Has
<1>2. (Has(d, "isForwarded") <=> Has(p, "isForwarded"))
      /\ Get(d, "ephemeralExpiration") = Get(p, "ephemeralExpiration")
      /\ (Has(p, "mentions") => Has(d, "mentions") /\ d.mentions = p.mentions)
      /\ (Has(p, "replyTo") => Has(d, "replyTo") /\ d.replyTo = p.replyTo)
  BY <1>1 DEF OptionFields
<1> QED
  BY <1>2 DEF TellsOptions

NewKinds == MediaKinds \cup {"text", "link", "contact", "reaction", "edit", "pin"}

LEMMA TellsAlike ==
    ASSUME NEW d, NEW p, Alike(d, p, TellFields), NEW r, r.kind \in NewKinds,
           Tells(Envelope(p), r), Holds(p, r)
    PROVE  Tells(Envelope(d), r)
<1> DEFINE e == Envelope(d)
           x == Envelope(p)
<1>1. e.data = d /\ x.data = p
  BY DEF Envelope
<1>2. \A f \in TellFields : /\ Has(d, f) <=> Has(p, f)
                            /\ Get(d, f) = Get(p, f)
                            /\ (Flag(d, f) <=> Flag(p, f))
                            /\ Has(p, f) => d[f] = p[f]
  BY AlikeGet DEF Alike, Has
<1>3. /\ Get(d, "text") = Get(p, "text")
      /\ Has(p, "extendedText") => d.extendedText = p.extendedText
      /\ Has(p, "media") => d.media = p.media
      /\ Flag(d, "viewOnce") <=> Flag(p, "viewOnce")
      /\ Has(p, "contact") => d.contact = p.contact
      /\ Has(p, "reaction") => d.reaction = p.reaction
      /\ Has(p, "edit") => d.edit = p.edit
      /\ Has(p, "pin") => d.pin = p.pin
  BY <1>2 DEF TellFields, ContentFields
<1>4. TellsOptions(p, r) => TellsOptions(d, r)
  <2>1. Alike(d, p, OptionFields)
    BY DEF Alike, TellFields
  <2> QED
    BY <2>1, OptionsAlike
<1> HIDE DEF e, x
<1>5. Tells(x, r)
  BY DEF x
<1>6. CASE r.kind = "text"
  <2>1. Tells(e, r)
    BY <1>1, <1>3, <1>4, <1>5, <1>6 DEF Tells, MediaKinds
  <2> QED
    BY <2>1 DEF e
<1>7. CASE r.kind = "link"
  <2>1. Tells(e, r)
    BY <1>1, <1>3, <1>4, <1>5, <1>7 DEF Tells, MediaKinds, Holds
  <2> QED
    BY <2>1 DEF e
<1>8. CASE r.kind \in MediaKinds
  <2>0. Flag(d, "viewOnce") = Flag(p, "viewOnce")
    <3>1. Flag(d, "viewOnce") \in BOOLEAN /\ Flag(p, "viewOnce") \in BOOLEAN
      BY DEF Flag
    <3> QED
      BY <1>3, <3>1
  <2>1. d.media = p.media
    BY <1>3, <1>8 DEF Holds
  <2> HIDE DEF Flag
  <2>2. Tells(e, r)
    BY <1>1, <1>4, <1>5, <1>8, <2>0, <2>1 DEF Tells, MediaKinds
  <2> QED
    BY <2>2 DEF e
<1>9. CASE r.kind = "contact"
  <2>1. Tells(e, r)
    BY <1>1, <1>3, <1>5, <1>9 DEF Tells, MediaKinds, Holds
  <2> QED
    BY <2>1 DEF e
<1>10. CASE r.kind = "reaction"
  <2>1. Tells(e, r)
    BY <1>1, <1>3, <1>5, <1>10 DEF Tells, MediaKinds, Holds
  <2> QED
    BY <2>1 DEF e
<1>11. CASE r.kind = "edit"
  <2>1. Tells(e, r)
    BY <1>1, <1>3, <1>5, <1>11 DEF Tells, MediaKinds, Holds
  <2> QED
    BY <2>1 DEF e
<1>12. CASE r.kind = "pin"
  <2>1. Tells(e, r)
    BY <1>1, <1>3, <1>5, <1>12 DEF Tells, MediaKinds, Holds
  <2> QED
    BY <2>1 DEF e
<1> QED
  BY <1>6, <1>7, <1>8, <1>9, <1>10, <1>11, <1>12 DEF NewKinds

\* A part that is made of a context and of other fields.
LEMMA ContextualIs ==
    ASSUME NEW chat, NEW r, NEW part, Alike(part, Contextual(chat, r), {"context"})
    PROVE  InContext(part, chat, r)
<1> DEFINE info == BuildContextInfo(chat, r)
           c    == [context |-> info]
<1>1. Contextual(chat, r) = If(info # Nothing, c)
  BY DEF Contextual
<1>2. DOMAIN c = {"context"} /\ c.context = info
  OBVIOUS
<1> HIDE DEF c, info
<1>3. CASE info = Nothing
  <2>1. DOMAIN Contextual(chat, r) = {}
    BY <1>1, <1>3, IfIs
  <2> QED
    BY <1>3, <2>1 DEF Alike, InContext, Has, info
<1>4. CASE info # Nothing
  <2>1. Contextual(chat, r) = c
    BY <1>1, <1>4, IfIs
  <2>2. "context" \in DOMAIN part /\ part.context = info
    BY <1>2, <2>1 DEF Alike
  <2> QED
    BY <1>4, <2>2 DEF InContext, Has, info
<1> QED
  BY <1>3, <1>4

LEMMA ContextualDomain == \A chat, r : DOMAIN Contextual(chat, r) \subseteq {"context"}
<1>1. ASSUME NEW chat, NEW r
      PROVE  DOMAIN Contextual(chat, r) \subseteq {"context"}
  <2> DEFINE info == BuildContextInfo(chat, r)
             c    == [context |-> info]
  <2>1. Contextual(chat, r) = If(info # Nothing, c)
    BY DEF Contextual
  <2>2. DOMAIN c = {"context"}
    OBVIOUS
  <2> HIDE DEF c, info
  <2> QED
    BY <2>1, <2>2, Parts
<1> QED
  BY <1>1

\* A text alone is a conversation.
LEMMA TextIs ==
    ASSUME NEW chat, NEW r, NEW content, content = Text(chat, r)
    PROVE  \/ /\ DOMAIN content = {"conversation"} /\ content.conversation = r.text
              /\ InContext(Nothing, chat, r)
           \/ /\ DOMAIN content = {"extendedText"}
              /\ \A m \in {content.extendedText} :
                   /\ DOMAIN m \subseteq {"text", "context"} /\ Has(m, "text") /\ m.text = r.text
                   /\ InContext(m, chat, r)
<1> PICK context : context = Contextual(chat, r)
  OBVIOUS
<1>1. CASE context = Nothing
  <2>1. Alike(Nothing, context, {"context"})
    BY <1>1 DEF Alike
  <2>2. InContext(Nothing, chat, r)
    BY <2>1, ContextualIs
  <2>3. content = [conversation |-> r.text]
    BY <1>1 DEF Text
  <2>4. DOMAIN content = {"conversation"} /\ content.conversation = r.text
    BY <2>3
  <2> QED
    BY <2>2, <2>4
<1>2. CASE context # Nothing
  <2> DEFINE t == [text |-> r.text]
             m == t @@ context
  <2>1. content = [extendedText |-> m]
    BY <1>2 DEF Text
  <2>2. DOMAIN t = {"text"} /\ t.text = r.text
    OBVIOUS
  <2> HIDE DEF t
  <2>3. DOMAIN context \subseteq {"context"}
    BY ContextualDomain
  <2>4. DOMAIN m \subseteq {"text", "context"} /\ "text" \in DOMAIN m /\ m.text = r.text
    BY <2>2, <2>3, MergeAt
  <2>5. DOMAIN t \cap {"context"} = {}
    BY <2>2
  <2>6. Alike(m, context, {"context"})
    BY <2>5, AlikeRight
  <2> HIDE DEF m
  <2>7. InContext(m, chat, r)
    BY <2>6, ContextualIs
  <2>8. DOMAIN content = {"extendedText"} /\ content.extendedText = m
    BY <2>1
  <2> QED
    BY <2>4, <2>7, <2>8 DEF Has
<1> QED
  BY <1>1, <1>2

\* The payload of an extended text m.
TellsExtended(P, m, r) ==
    /\ Has(P, "text") /\ P.text = Get(m, "text") /\ TellsOptions(P, r)
    /\ Get(m, "title") # "" =>
         /\ Has(P, "extendedText") /\ P.extendedText.title = Get(m, "title")
         /\ Get(m, "matchedText") # "" => P.extendedText.matchedText = Get(m, "matchedText")

LEMMA ExtendedTold ==
    ASSUME NEW r, Valid(r), ReplySound(r), NEW chat, NEW m, InContext(m, chat, r),
           NEW knows, Get(m, "text") # ""
    PROVE  TellsExtended(ExtendedTextPayload(m, knows), m, r)
<1> PICK P : P = ExtendedTextPayload(m, knows)
  OBVIOUS
<1> DEFINE rich  == {"description", "title", "jpegThumbnail"}
           x == [type |-> "text", text |-> Get(m, "text")]
           shown == Copy(m, rich \cup {"matchedText"})
           c == \E f \in rich : Get(m, f) # ""
           y == [extendedText |-> shown]
           p == TextPayload(Get(m, "text"))
           q == If(c, y)
           s == Context(m, knows)
           pq == p @@ q
<1>1. P = pq @@ s
  BY DEF ExtendedTextPayload
<1>2. p = x
  BY IfIs DEF TextPayload
<1>3. DOMAIN x = {"type", "text"} /\ x.text = Get(m, "text")
  OBVIOUS
<1>4. DOMAIN y = {"extendedText"} /\ y.extendedText = shown
  OBVIOUS
<1>5. DOMAIN s \subseteq OptionFields /\ TellsOptions(s, r)
  BY OptionsTold
<1>6. Get(m, "title") # "" => c
  OBVIOUS
<1>7. Get(m, "title") # "" =>
        /\ shown.title = Get(m, "title")
        /\ Get(m, "matchedText") # "" => shown.matchedText = Get(m, "matchedText")
  <2>1. \A f \in rich \cup {"matchedText"} : Get(m, f) # "" => shown[f] = m[f] /\ m[f] = Get(m, f)
    BY CopyIs DEF Get
  <2> HIDE DEF shown
  <2> QED
    BY <2>1
<1> HIDE DEF x, y, shown, c, p, s
<1>8. (c => q = y) /\ DOMAIN q \subseteq {"extendedText"}
  BY <1>4, IfIs
<1> HIDE DEF q
<1>9. /\ DOMAIN pq \subseteq {"type", "text", "extendedText"}
      /\ "text" \in DOMAIN pq /\ pq.text = Get(m, "text")
      /\ c => "extendedText" \in DOMAIN pq /\ pq.extendedText = shown
  <2>1. /\ DOMAIN pq = DOMAIN p \cup DOMAIN q
        /\ \A f \in DOMAIN p : pq[f] = p[f]
        /\ \A f \in DOMAIN q \ DOMAIN p : pq[f] = q[f]
    BY ONLY Merge
  <2> HIDE DEF pq
  <2> QED
    BY <1>2, <1>3, <1>4, <1>8, <2>1
<1> HIDE DEF pq
<1>10. /\ "text" \in DOMAIN P /\ P.text = pq.text
       /\ "extendedText" \in DOMAIN pq => "extendedText" \in DOMAIN P /\ P.extendedText = pq.extendedText
  <2> DEFINE all == pq @@ s
  <2>1. /\ DOMAIN all = DOMAIN pq \cup DOMAIN s
        /\ \A f \in DOMAIN pq : all[f] = pq[f]
    BY ONLY Merge
  <2>2. P = all
    BY <1>1
  <2> HIDE DEF all
  <2> QED
    BY <1>9, <2>1, <2>2
<1>11. DOMAIN pq \cap OptionFields = {}
  BY <1>9 DEF OptionFields
<1>12. Alike(P, s, OptionFields)
  BY <1>1, <1>11, AlikeRight
<1>13. TellsOptions(P, r)
  BY <1>5, <1>12, OptionsAlike
<1> QED
  BY <1>6, <1>7, <1>9, <1>10, <1>13 DEF Has, TellsExtended

\* A content that is shown as a message.
Shows(content, r, knows) ==
    /\ Kind(content) # "senderKey"
    /\ Kind(content) = "protocol" => content.protocol.type = "edit"
    /\ HasContent(Payload(content, knows))
    /\ Tells(Envelope(Payload(content, knows)), r) /\ Holds(Payload(content, knows), r)

LEMMA EnvelopeIs == \A d : Envelope(d).eventType = "message" /\ Envelope(d).data = d
BY DEF Envelope

LEMMA TextTold ==
    ASSUME NEW r, Valid(r), ReplySound(r), r.kind = "text", NEW knows
    PROVE  Shows(SendText(r), r, knows)
<1> PICK content : content = SendText(r)
  OBVIOUS
<1> PICK chat : chat = FormatRecipient(r.to)
  OBVIOUS
<1> PICK P : P = Payload(content, knows)
  OBVIOUS
<1>1. Get(r, "text") # "" /\ Get(r, "text") = r.text
  BY DEF Valid, Get
<1>2. ASSUME Has(P, "text"), P.text = r.text, TellsOptions(P, r)
      PROVE  HasContent(P) /\ Tells(Envelope(P), r) /\ Holds(P, r)
  <2>1. HasContent(P)
    BY <1>2 DEF HasContent, ContentFields
  <2>2. Get(P, "text") = Get(r, "text")
    BY <1>1, <1>2 DEF Get
  <2>3. Tells(Envelope(P), r)
    BY <1>2, <2>2, EnvelopeIs DEF Tells, MediaKinds
  <2>4. Holds(P, r)
    BY DEF Holds, MediaKinds
  <2> QED
    BY <2>1, <2>3, <2>4
<1>3. CASE DOMAIN content = {"conversation"} /\ content.conversation = r.text /\ InContext(Nothing, chat, r)
  <2>1. DOMAIN content \cap ContentKinds = {"conversation"} /\ "conversation" \in ContentKinds
    BY <1>3 DEF ContentKinds
  <2>2. Kind(content) = "conversation"
    BY <1>1, <1>3, <2>1, KindIs
  <2>3. P = TextPayload(r.text)
    BY <1>3, <2>2 DEF Payload
  <2> DEFINE x == [type |-> "text", text |-> r.text]
  <2>4. P = x
    BY <1>1, <2>3, IfIs DEF TextPayload
  <2>5. DOMAIN x = {"type", "text"} /\ x.text = r.text
    OBVIOUS
  <2> HIDE DEF x
  <2>6. DOMAIN Nothing = {} /\ DOMAIN Context(Nothing, knows) = {}
    BY Parts DEF Context, Has
  <2>7. TellsOptions(Context(Nothing, knows), r)
    BY <1>3, OptionsTold
  <2>8. Alike(P, Context(Nothing, knows), OptionFields)
    BY <2>4, <2>5, <2>6 DEF Alike, OptionFields
  <2>9. TellsOptions(P, r)
    BY <2>7, <2>8, OptionsAlike
  <2> QED
    BY <1>2, <2>2, <2>4, <2>5, <2>9 DEF Shows, Has
<1>4. CASE DOMAIN content = {"extendedText"}
           /\ \A m \in {content.extendedText} :
                /\ DOMAIN m \subseteq {"text", "context"} /\ Has(m, "text") /\ m.text = r.text
                /\ InContext(m, chat, r)
  <2> PICK m : m = content.extendedText
    OBVIOUS
  <2>1. DOMAIN content \cap ContentKinds = {"extendedText"} /\ "extendedText" \in ContentKinds
    BY <1>4 DEF ContentKinds
  <2>2. Kind(content) = "extendedText"
    BY <2>1, KindIs
  <2>3. P = ExtendedTextPayload(m, knows)
    BY <2>2 DEF Payload
  <2>4. Get(m, "text") = r.text /\ InContext(m, chat, r)
    BY <1>4 DEF Get
  <2>5. Get(m, "text") # ""
    BY <1>1, <2>4
  <2>6. TellsExtended(ExtendedTextPayload(m, knows), m, r)
    BY <2>4, <2>5, ExtendedTold
  <2>7. Has(P, "text") /\ P.text = r.text /\ TellsOptions(P, r)
    BY <2>3, <2>4, <2>6 DEF TellsExtended
  <2> QED
    BY <1>2, <2>2, <2>7 DEF Shows
<1> QED
  BY <1>3, <1>4, TextIs DEF SendText

\* Three parts put together.
Joins3(all, p, q, s) ==
    /\ DOMAIN all = DOMAIN p \cup DOMAIN q \cup DOMAIN s
    /\ \A f \in DOMAIN p : all[f] = p[f]
    /\ \A f \in DOMAIN q \ DOMAIN p : all[f] = q[f]
    /\ \A f \in DOMAIN s \ (DOMAIN p \cup DOMAIN q) : all[f] = s[f]

LEMMA Merge3 ==
    ASSUME NEW p, NEW q, NEW s
    PROVE  Joins3(p @@ q @@ s, p, q, s)
<1> DEFINE pq == p @@ q
           x == pq @@ s
<1>1. /\ DOMAIN pq = DOMAIN p \cup DOMAIN q
      /\ \A f \in DOMAIN p : pq[f] = p[f]
      /\ \A f \in DOMAIN q \ DOMAIN p : pq[f] = q[f]
  BY ONLY Merge
<1> HIDE DEF pq
<1>2. /\ DOMAIN x = DOMAIN pq \cup DOMAIN s
      /\ \A f \in DOMAIN pq : x[f] = pq[f]
      /\ \A f \in DOMAIN s \ DOMAIN pq : x[f] = s[f]
  BY ONLY Merge
<1> HIDE DEF x
<1>3. Joins3(x, p, q, s)
  BY ONLY <1>1, <1>2 DEF Joins3
<1> QED
  BY <1>3 DEF x, pq

LEMMA LinkTold ==
    ASSUME NEW r, Valid(r), ReplySound(r), r.kind = "link", NEW knows
    PROVE  Shows(SendLink(r), r, knows)
<1> DEFINE chat == FormatRecipient(r.to)
           x == [text |-> r.text, matchedText |-> r.url]
           y == Copy(r, {"title", "description", "jpegThumbnail"})
           z == Contextual(chat, r)
           m == x @@ y @@ z
           content == [extendedText |-> m]
           P == Payload(content, knows)
<1>1. SendLink(r) = content
  BY DEF SendLink
<1>2. /\ Get(r, "text") # "" /\ Get(r, "text") = r.text
      /\ Get(r, "url") # "" /\ Get(r, "url") = r.url
      /\ Get(r, "title") # "" => Get(r, "title") = r.title
  BY DEF Valid, Get
<1>3. DOMAIN x = {"text", "matchedText"} /\ x.text = r.text /\ x.matchedText = r.url
  OBVIOUS
<1>4. /\ DOMAIN y \subseteq {"title", "description", "jpegThumbnail"}
      /\ Get(y, "title") = Get(r, "title")
  <2>1. DOMAIN y \subseteq {"title", "description", "jpegThumbnail"}
    BY Parts
  <2>2. Get(y, "title") = Get(r, "title")
    BY CopyIs
  <2> QED
    BY <2>1, <2>2
<1>5. DOMAIN z \subseteq {"context"}
  BY ContextualDomain
<1>6. Joins3(m, x, y, z)
  BY Merge3
<1> HIDE DEF x, y, m
<1>7. Get(m, "text") = r.text /\ Get(m, "matchedText") = r.url /\ Get(m, "title") = Get(r, "title")
  <2> HIDE DEF z
  <2> QED
    BY <1>3, <1>4, <1>5, <1>6 DEF Joins3, Get, Has
<1>8. InContext(m, chat, r)
  <2>1. Alike(m, Contextual(chat, r), {"context"})
    BY <1>3, <1>4, <1>6 DEF Alike, Joins3
  <2> QED
    BY <2>1, ContextualIs
<1> HIDE DEF z, chat
<1>9. DOMAIN content = {"extendedText"} /\ content.extendedText = m
  OBVIOUS
<1> HIDE DEF content
<1>10. DOMAIN content \cap ContentKinds = {"extendedText"} /\ "extendedText" \in ContentKinds
  BY <1>9 DEF ContentKinds
<1>11. Kind(content) = "extendedText"
  BY <1>10, KindIs
<1>12. P = ExtendedTextPayload(m, knows)
  BY <1>9, <1>11 DEF Payload
<1>13. Get(m, "text") # ""
  BY <1>2, <1>7
<1>14. TellsExtended(ExtendedTextPayload(m, knows), m, r)
  BY <1>8, <1>13, ExtendedTold
<1> HIDE DEF P
<1>15. /\ Has(P, "text") /\ P.text = r.text /\ TellsOptions(P, r)
       /\ Get(r, "title") # "" =>
            /\ Has(P, "extendedText") /\ P.extendedText.title = r.title
            /\ P.extendedText.matchedText = r.url
  BY <1>2, <1>7, <1>12, <1>14 DEF TellsExtended
<1>16. HasContent(P)
  BY <1>15 DEF HasContent, ContentFields
<1>17. Get(P, "text") = Get(r, "text")
  BY <1>2, <1>15 DEF Get
<1>18. Tells(Envelope(P), r)
  BY <1>15, <1>17, EnvelopeIs DEF Tells, MediaKinds
<1>19. Holds(P, r)
  BY <1>15 DEF Holds, MediaKinds
<1> QED
  BY <1>1, <1>11, <1>16, <1>18, <1>19 DEF Shows, P

\* A card is shown if it has a vCard.
LEMMA ContactTold ==
    ASSUME NEW r, r.kind = "contact", NEW knows
    PROVE  /\ Kind(SendContact(r)) = "contact"
           /\ Get(r, "vcard") # "" => Shows(SendContact(r), r, knows)
           /\ Get(r, "vcard") = "" => ~HasContent(Payload(SendContact(r), knows))
<1> DEFINE chat == FormatRecipient(r.to)
           y == Copy(r, {"displayName", "vcard"})
           z == Contextual(chat, r)
           m == y @@ z
           content == [contact |-> m]
           P == Payload(content, knows)
           t == [type |-> "contact"]
           v == [contact |-> m.vcard]
           c == Get(m, "vcard") # ""
           If1 == If(c, v)
<1>1. SendContact(r) = content
  BY DEF SendContact
<1>2. DOMAIN content = {"contact"} /\ content.contact = m
  BY ONLY TRUE
<1>3. Get(m, "vcard") = Get(r, "vcard")
  <2>1. Get(y, "vcard") = Get(r, "vcard")
    BY CopyIs
  <2>2. DOMAIN z \subseteq {"context"}
    BY ContextualDomain
  <2> HIDE DEF y, z
  <2>3. DOMAIN z \cap {"vcard"} = {}
    BY <2>2
  <2>4. Alike(m, y, {"vcard"})
    BY <2>3, AlikeLeft
  <2> HIDE DEF m
  <2> QED
    BY <2>1, <2>4, AlikeGet
<1>4. DOMAIN t = {"type"} /\ DOMAIN v = {"contact"} /\ v.contact = m.vcard
  OBVIOUS
<1> HIDE DEF m, content
<1>5. DOMAIN content \cap ContentKinds = {"contact"} /\ "contact" \in ContentKinds
  BY <1>2 DEF ContentKinds
<1>6. Kind(content) = "contact"
  BY <1>5, KindIs
<1>7. P = t @@ If1
  BY <1>2, <1>6 DEF Payload, ContactPayload
<1> HIDE DEF P, t, v, If1
<1>8. Get(r, "vcard") # "" => Shows(content, r, knows)
  <2> HAVE Get(r, "vcard") # ""
  <2>1. If1 = v
    BY <1>3, IfIs DEF If1
  <2>2. "contact" \in DOMAIN P /\ P.contact = v.contact
    BY <1>4, <1>7, <2>1, MergeAt
  <2>3. P.contact = r.vcard
    BY <1>3, <1>4, <2>2 DEF Get
  <2>4. HasContent(P)
    BY <2>2 DEF HasContent, ContentFields, Has
  <2>5. Tells(Envelope(P), r)
    BY <2>3, EnvelopeIs DEF Tells, MediaKinds
  <2>6. Holds(P, r)
    BY <2>2 DEF Holds, MediaKinds, Has
  <2> QED
    BY <1>6, <2>4, <2>5, <2>6 DEF Shows, P
<1>9. Get(r, "vcard") = "" => ~HasContent(P)
  <2> HAVE Get(r, "vcard") = ""
  <2>1. DOMAIN If1 = {}
    BY <1>3, IfIs DEF If1
  <2>2. DOMAIN P = DOMAIN t \cup DOMAIN If1
    BY <1>7, Merge
  <2>3. DOMAIN P = {"type"}
    BY <1>4, <2>1, <2>2
  <2> QED
    BY <2>3 DEF HasContent, ContentFields, Has
<1> QED
  BY <1>1, <1>6, <1>8, <1>9 DEF P

\* The key of a message refers to its ID.
LEMMA KeyId ==
    ASSUME NEW me, NEW chat, NEW sender, NEW id
    PROVE  BuildMessageKey(me, chat, sender, id).id = id
<1> DEFINE x(mine) == [remote |-> chat, id |-> id, fromMe |-> mine]
<1>1. PICK y, mine : BuildMessageKey(me, chat, sender, id) = x(mine) @@ y
  BY DEF BuildMessageKey
<1>2. "id" \in DOMAIN x(mine) /\ x(mine).id = id
  OBVIOUS
<1> HIDE DEF x
<1> QED
  BY <1>1, <1>2, MergeAt

LEMMA ReactionTold ==
    ASSUME NEW r, r.kind = "reaction", NEW me, NEW knows
    PROVE  Shows(SendReaction(me, r), r, knows)
<1> DEFINE key == BuildMessageKey(me, FormatRecipient(r.to),
                      IF Has(r, "senderId") THEN FormatRecipient(r.senderId) ELSE EmptyJID,
                      r.messageId)
           m == [key |-> key, text |-> r.reaction]
           content == [reaction |-> m]
           P == Payload(content, knows)
<1>1. SendReaction(me, r) = content
  BY DEF SendReaction, BuildReaction
<1>2. key.id = r.messageId
  BY KeyId
<1> HIDE DEF key
<1>3. DOMAIN m = {"key", "text"} /\ m.key = key /\ m.text = r.reaction
  OBVIOUS
<1> HIDE DEF m
<1>4. DOMAIN content = {"reaction"} /\ content.reaction = m
  OBVIOUS
<1> HIDE DEF content
<1>5. DOMAIN content \cap ContentKinds = {"reaction"} /\ "reaction" \in ContentKinds
  BY <1>4 DEF ContentKinds
<1>6. Kind(content) = "reaction"
  BY <1>5, KindIs
<1>7. P = ReactionPayload(m)
  BY <1>4, <1>6 DEF Payload
<1> DEFINE told == [messageId |-> r.messageId, emoji |-> r.reaction]
           x == [type |-> "reaction", reaction |-> told]
<1>8. ReactionPayload(m) = x
  BY <1>2, <1>3 DEF ReactionPayload, Has, Get
<1> HIDE DEF told
<1>9. "reaction" \in DOMAIN x /\ x.reaction = told
  OBVIOUS
<1> HIDE DEF x, P
<1>10. "reaction" \in DOMAIN P /\ P.reaction = told
  BY <1>7, <1>8, <1>9
<1>11. HasContent(P)
  BY <1>10 DEF HasContent, ContentFields, Has
<1>12. Tells(Envelope(P), r)
  BY <1>10, EnvelopeIs DEF Tells, MediaKinds, told
<1>13. Holds(P, r)
  BY <1>10 DEF Holds, MediaKinds, Has
<1> QED
  BY <1>1, <1>6, <1>11, <1>12, <1>13 DEF Shows, P

LEMMA PinTold ==
    ASSUME NEW r, r.kind = "pin", NEW me, NEW knows
    PROVE  Shows(PinMessage(me, r), r, knows)
<1> DEFINE key == BuildMessageKey(me, ParseJID(r.chatId), FormatRecipient(r.senderId), r.messageId)
           m == [key |-> key, pinned |-> r.pinned]
           d1  == Days(1)
           d7  == Days(7)
           d30 == Days(30)
           want == Get(r, "pinExpiration")
           seconds == IF ~r.pinned THEN 0
                      ELSE CASE want = "24h" -> d1
                             [] want = "7d"  -> d7
                             [] want = "30d" -> d30
                             [] OTHER -> 0
           timer == CASE seconds = d1  -> "24h"
                      [] seconds = d7  -> "7d"
                      [] seconds = d30 -> "30d"
                      [] OTHER -> "off"
           content == [pin |-> m, addOnSeconds |-> seconds]
           P == Payload(content, knows)
<1>1. PinMessage(me, r) = content
  BY DEF PinMessage
<1>2. key.id = r.messageId
  BY KeyId
<1> HIDE DEF key
<1>3. DOMAIN m = {"key", "pinned"} /\ m.key = key /\ m.pinned = r.pinned
  OBVIOUS
<1>4. r.pinned /\ want \in {"24h", "7d", "30d"} => timer = want
  <2>1. d1 \in Nat /\ d7 \in Nat /\ d30 \in Nat /\ 0 < d1 /\ d1 < d7 /\ d7 < d30
    BY DaysDiffer
  <2> HIDE DEF d1, d7, d30, want
  <2> HAVE r.pinned /\ want \in {"24h", "7d", "30d"}
  <2>2. CASE want = "24h"
    BY <2>1, <2>2
  <2>3. CASE want = "7d"
    BY <2>1, <2>3
  <2>4. CASE want = "30d"
    BY <2>1, <2>4
  <2> QED
    BY <2>2, <2>3, <2>4
<1> HIDE DEF m
<1> DEFINE told == [messageId |-> m.key.id, pinned |-> m.pinned, expiration |-> timer]
           x == [type |-> "pinInChat", pin |-> told]
<1>5. PinPayload(m, seconds) = x
  <2> HIDE DEF seconds
  <2> QED
    BY <1>3 DEF PinPayload, If, Has
<1> HIDE DEF seconds
<1>6. DOMAIN content = {"pin", "addOnSeconds"} /\ content.pin = m /\ content.addOnSeconds = seconds
  OBVIOUS
<1> HIDE DEF content
<1>7. DOMAIN content \cap ContentKinds = {"pin"} /\ "pin" \in ContentKinds
  BY <1>6 DEF ContentKinds
<1>8. Kind(content) = "pin"
  BY <1>7, KindIs
<1>9. P = PinPayload(m, seconds)
  BY <1>6, <1>8 DEF Payload, Has
<1> HIDE DEF timer
<1>10. told.messageId = r.messageId /\ told.pinned = r.pinned /\ told.expiration = timer
  BY <1>2, <1>3
<1> HIDE DEF told
<1>11. "pin" \in DOMAIN x /\ x.pin = told
  OBVIOUS
<1> HIDE DEF x, P
<1>12. "pin" \in DOMAIN P /\ P.pin = told
  BY <1>5, <1>9, <1>11
<1>13. HasContent(P)
  BY <1>12 DEF HasContent, ContentFields, Has
<1>14. want \in {"24h", "7d", "30d"} => want = r.pinExpiration
  BY DEF Get
<1>15. Tells(Envelope(P), r)
  <2>1. /\ P.pin.messageId = r.messageId /\ P.pin.pinned = r.pinned
        /\ r.pinned /\ want \in {"24h", "7d", "30d"} => P.pin.expiration = r.pinExpiration
    BY <1>4, <1>10, <1>12, <1>14
  <2> QED
    BY <2>1, EnvelopeIs DEF Tells, MediaKinds
<1>16. Holds(P, r)
  BY <1>12 DEF Holds, MediaKinds, Has
<1> QED
  BY <1>1, <1>8, <1>13, <1>15, <1>16 DEF Shows, P

LEMMA EditTold ==
    ASSUME NEW r, Valid(r), r.kind = "edit", NEW knows
    PROVE  Shows(EditMessage(r), r, knows)
<1> DEFINE key  == [remote |-> Jid(r.to.user, r.to.server), fromMe |-> TRUE, id |-> r.messageId]
           chat == FormatRecipient(r.to)
           new  == Text(chat, r)
           m    == [type |-> "edit", key |-> key, edited |-> new]
           content == [protocol |-> m]
           P == Payload(content, knows)
<1>1. EditMessage(r) = content
  BY DEF EditMessage
<1>2. key.id = r.messageId
  OBVIOUS
<1>3. Get(r, "text") # "" /\ Get(r, "text") = r.text
  BY DEF Valid, Get
<1>4. \/ DOMAIN new = {"conversation"} /\ new.conversation = r.text
      \/ /\ DOMAIN new = {"extendedText"}
         /\ Has(new.extendedText, "text") /\ new.extendedText.text = r.text
  BY TextIs
<1> HIDE DEF key, new
<1>5. DOMAIN m = {"type", "key", "edited"} /\ m.type = "edit" /\ m.key = key /\ m.edited = new
  OBVIOUS
<1> HIDE DEF m
<1>6. DOMAIN content = {"protocol"} /\ content.protocol = m
  OBVIOUS
<1> HIDE DEF content
<1>7. DOMAIN content \cap ContentKinds = {"protocol"} /\ "protocol" \in ContentKinds
  BY <1>6 DEF ContentKinds
<1>8. Kind(content) = "protocol"
  BY <1>7, KindIs
<1>9. P = EditPayload(m)
  BY <1>5, <1>6, <1>8 DEF Payload
<1> DEFINE text == IF Get(new, "conversation") # "" THEN new.conversation
                   ELSE IF Has(new, "extendedText") THEN Get(new.extendedText, "text") ELSE ""
           orig == [originalMessageId |-> m.key.id]
           x == [type |-> "text", text |-> text]
           y == [isEdit |-> TRUE, edit |-> orig]
<1>10. text = r.text /\ text # ""
  BY <1>3, <1>4 DEF Get, Has
<1>11. P = TextPayload(text) @@ y
  BY <1>5, <1>9 DEF EditPayload, Has, If
<1>12. TextPayload(text) = x
  BY <1>10, IfIs DEF TextPayload
<1> HIDE DEF text
<1>13. DOMAIN x = {"type", "text"} /\ x.text = text
  OBVIOUS
<1>14. orig.originalMessageId = r.messageId
  BY <1>2, <1>5
<1> HIDE DEF orig
<1>15. DOMAIN y = {"isEdit", "edit"} /\ y.edit = orig
  OBVIOUS
<1> HIDE DEF x, y, P
<1>16. /\ "text" \in DOMAIN P /\ P.text = text
       /\ "edit" \in DOMAIN P /\ P.edit = orig
  <2> DEFINE all == x @@ y
  <2>1. /\ DOMAIN all = DOMAIN x \cup DOMAIN y
        /\ \A f \in DOMAIN x : all[f] = x[f]
        /\ \A f \in DOMAIN y \ DOMAIN x : all[f] = y[f]
    BY ONLY Merge
  <2>2. P = all
    BY <1>11, <1>12
  <2> HIDE DEF all
  <2> QED
    BY <1>13, <1>15, <2>1, <2>2
<1>17. HasContent(P)
  BY <1>16 DEF HasContent, ContentFields, Has
<1>18. Get(P, "text") = Get(r, "text")
  BY <1>3, <1>10, <1>16 DEF Get, Has
<1>19. Tells(Envelope(P), r)
  BY <1>14, <1>16, <1>18, EnvelopeIs DEF Tells, MediaKinds
<1>20. Holds(P, r)
  BY <1>16 DEF Holds, MediaKinds, Has
<1> QED
  BY <1>1, <1>5, <1>6, <1>8, <1>17, <1>19, <1>20 DEF Shows, P

\* Nothing is told of a place.
LEMMA LocationTold ==
    ASSUME NEW r, NEW knows
    PROVE  Kind(SendLocation(r)) = "none" /\ ~HasContent(Payload(SendLocation(r), knows))
<1> PICK m : SendLocation(r) = [location |-> m]
  BY DEF SendLocation
<1> DEFINE content == [location |-> m]
<1>1. DOMAIN content = {"location"}
  OBVIOUS
<1> HIDE DEF content
<1>2. DOMAIN content \cap ContentKinds = {}
  BY <1>1 DEF ContentKinds
<1>3. Kind(content) = "none"
  BY <1>2, KindNone
<1>4. Payload(content, knows) = Nothing
  BY <1>3 DEF Payload
<1>5. ~HasContent(Nothing)
  BY Parts DEF HasContent, Has
<1> QED
  BY <1>3, <1>4, <1>5 DEF content

\* A revoke names the message.
LEMMA DeleteIs ==
    ASSUME NEW me, NEW r, NEW content, content = DeleteMessage(me, r)
    PROVE  /\ Kind(content) = "protocol" /\ content.protocol.type = "revoke"
           /\ Has(content.protocol, "key") /\ content.protocol.key.id = r.messageId
<1> DEFINE key == BuildMessageKey(me, ParseJID(r.chatId), FormatRecipient(r.senderId), r.messageId)
           m == [type |-> "revoke", key |-> key]
           c == [protocol |-> m]
<1>1. content = c
  BY DEF DeleteMessage, BuildRevoke
<1>2. key.id = r.messageId
  BY KeyId
<1> HIDE DEF key
<1>3. "key" \in DOMAIN m /\ m.key = key /\ m.type = "revoke"
  OBVIOUS
<1> HIDE DEF m
<1>4. DOMAIN c = {"protocol"} /\ c.protocol = m
  OBVIOUS
<1> HIDE DEF c
<1>5. DOMAIN c \cap ContentKinds = {"protocol"} /\ "protocol" \in ContentKinds
  BY <1>4 DEF ContentKinds
<1>6. Kind(c) = "protocol"
  BY <1>5, KindIs
<1> QED
  BY <1>1, <1>2, <1>3, <1>4, <1>6 DEF Has

-----------------------------------------------------------------------------
(* Files.                                                                  *)

\* A part with the file of a request, and its context.
FileSound(part, class, r) ==
    /\ Has(part, "file") /\ part.file = Upload(File(r), class)
    /\ InContext(part, FormatRecipient(r.to), r)

FileFields == {"file", "fileLength", "mimeType", "context"}

LEMMA FilePartIs ==
    ASSUME NEW r, NEW class, NEW mime
    PROVE  /\ FileSound(FilePart(r, class, mime), class, r)
           /\ DOMAIN FilePart(r, class, mime) \subseteq FileFields
<1> DEFINE chat == FormatRecipient(r.to)
           up   == Upload(File(r), class)
           x    == [file |-> up, fileLength |-> "size", mimeType |-> mime]
           z    == Contextual(chat, r)
           F    == x @@ z
<1>1. FilePart(r, class, mime) = F
  BY DEF FilePart
<1> HIDE DEF up
<1>2. DOMAIN x = {"file", "fileLength", "mimeType"} /\ x.file = up
  OBVIOUS
<1> HIDE DEF x
<1>3. DOMAIN z \subseteq {"context"}
  BY ContextualDomain
<1>4. DOMAIN x \cap {"context"} = {}
  BY <1>2
<1>5. Alike(F, z, {"context"})
  BY <1>4, AlikeRight
<1>6. InContext(F, chat, r)
  BY <1>5, ContextualIs
<1> HIDE DEF z, chat
<1>7. DOMAIN F \subseteq FileFields /\ "file" \in DOMAIN F /\ F.file = up
  BY <1>2, <1>3, MergeAt DEF FileFields
<1> HIDE DEF F
<1> QED
  BY <1>1, <1>6, <1>7 DEF FileSound, Has, chat, up

LEMMA FileAlike ==
    ASSUME NEW r, NEW class, NEW F, FileSound(F, class, r), NEW part, Alike(part, F, FileFields)
    PROVE  FileSound(part, class, r)
<1>1. /\ Has(part, "file") /\ part.file = F.file
      /\ Has(part, "context") <=> Has(F, "context")
      /\ Has(F, "context") => part.context = F.context
  BY DEF Alike, FileFields, FileSound, Has
<1> QED
  BY <1>1 DEF FileSound, InContext

\* The payload of a file.
FileTold(P, type, class, shown, part, r) ==
    /\ DOMAIN P \subseteq {"type", "media"} \cup OptionFields
    /\ Has(P, "media") /\ P.media.mediaType = type
    /\ P.media.id.file = Upload(File(r), class)
    /\ \A f \in shown : f \notin {"mediaType", "id"} => Get(P.media, f) = Get(part, f)
    /\ TellsOptions(P, r)

LEMMA MediaTold ==
    ASSUME NEW r, Valid(r), ReplySound(r), NEW class, NEW part, FileSound(part, class, r),
           NEW type, NEW name, NEW shown, NEW knows
    PROVE  FileTold(MediaPayload(type, name, shown, part, knows), type, class, shown, part, r)
<1> DEFINE id   == [class |-> type, file |-> part.file, name |-> name]
           head == [mediaType |-> type, id |-> id]
           copy == Copy(part, shown)
           m    == head @@ copy
           x    == [type |-> "media", media |-> m]
           s    == Context(part, knows)
           P    == x @@ s
<1>1. MediaPayload(type, name, shown, part, knows) = P
  BY DEF MediaPayload
<1>2. id.file = Upload(File(r), class)
  BY DEF FileSound
<1> HIDE DEF id
<1>3. DOMAIN head = {"mediaType", "id"} /\ head.mediaType = type /\ head.id = id
  OBVIOUS
<1>4. /\ DOMAIN copy = {f \in shown : Get(part, f) # ""}
      /\ \A f \in shown : Get(copy, f) = Get(part, f)
  BY CopyIs
<1> HIDE DEF head, copy
<1>5. /\ m.mediaType = type /\ m.id = id
      /\ \A f \in shown : f \notin {"mediaType", "id"} => Get(m, f) = Get(part, f)
  <2>1. /\ DOMAIN m = DOMAIN head \cup DOMAIN copy
        /\ \A f \in DOMAIN head : m[f] = head[f]
        /\ \A f \in DOMAIN copy \ DOMAIN head : m[f] = copy[f]
    BY ONLY Merge
  <2> HIDE DEF m
  <2>2. ASSUME NEW f \in shown, f \notin {"mediaType", "id"}
        PROVE  Get(m, f) = Get(part, f)
    <3>1. f \in DOMAIN m <=> f \in DOMAIN copy
      BY <1>3, <2>1, <2>2
    <3>2. f \in DOMAIN copy => m[f] = copy[f]
      BY <1>3, <2>1, <2>2
    <3>3. Get(m, f) = Get(copy, f)
      BY <3>1, <3>2 DEF Get, Has
    <3> QED
      BY <1>4, <3>3
  <2>3. m.mediaType = type /\ m.id = id
    BY <1>3, <2>1
  <2> QED
    BY <2>2, <2>3
<1> HIDE DEF m
<1>6. DOMAIN x = {"type", "media"} /\ x.media = m
  OBVIOUS
<1> HIDE DEF x
<1>7. DOMAIN s \subseteq OptionFields /\ TellsOptions(s, r)
  BY OptionsTold DEF FileSound
<1> HIDE DEF s
<1>8. DOMAIN P \subseteq {"type", "media"} \cup OptionFields /\ "media" \in DOMAIN P /\ P.media = m
  BY <1>6, <1>7, MergeAt
<1>9. DOMAIN x \cap OptionFields = {}
  BY <1>6 DEF OptionFields
<1>10. Alike(P, s, OptionFields)
  BY <1>9, AlikeRight
<1> HIDE DEF P
<1>11. TellsOptions(P, r)
  BY <1>7, <1>10, OptionsAlike
<1> QED
  BY <1>1, <1>2, <1>5, <1>8, <1>11 DEF FileTold, Has

\* What is to be seen once is told to be so.
LEMMA OnceTold ==
    ASSUME NEW r, NEW P, DOMAIN P \subseteq {"type", "media"} \cup OptionFields,
           NEW part, Flag(part, "viewOnce") = Flag(r, "viewOnce"),
           NEW D, D = P @@ ViewOnce(part)
    PROVE  /\ Alike(D, P, {"media"} \cup OptionFields)
           /\ Flag(D, "viewOnce") = Flag(r, "viewOnce")
<1> DEFINE x == [viewOnce |-> TRUE]
           c == Flag(part, "viewOnce")
           z == If(c, x)
<1>1. D = P @@ z
  BY DEF ViewOnce
<1>2. DOMAIN x = {"viewOnce"} /\ x.viewOnce = TRUE
  OBVIOUS
<1> HIDE DEF x
<1>3. /\ c => z = x
      /\ ~c => DOMAIN z = {}
  BY IfIs
<1>4. c \in BOOLEAN /\ Flag(D, "viewOnce") \in BOOLEAN /\ c = Flag(r, "viewOnce")
  BY DEF Flag
<1> HIDE DEF c, z
<1> DEFINE all == P @@ z
<1>0. /\ DOMAIN D = DOMAIN P \cup DOMAIN z
      /\ \A f \in DOMAIN P : D[f] = P[f]
      /\ \A f \in DOMAIN z \ DOMAIN P : D[f] = z[f]
  <2>1. /\ DOMAIN all = DOMAIN P \cup DOMAIN z
        /\ \A f \in DOMAIN P : all[f] = P[f]
        /\ \A f \in DOMAIN z \ DOMAIN P : all[f] = z[f]
    BY ONLY Merge
  <2>2. D = all
    BY <1>1
  <2> HIDE DEF all
  <2> QED
    BY <2>1, <2>2
<1>5. "viewOnce" \notin DOMAIN P
  BY DEF OptionFields
<1>6. DOMAIN z \subseteq {"viewOnce"}
  BY <1>2, <1>3
<1>7. DOMAIN z \cap ({"media"} \cup OptionFields) = {}
  BY <1>6 DEF OptionFields
<1>8. Alike(D, P, {"media"} \cup OptionFields)
  BY <1>0, <1>7 DEF Alike
<1>9. Flag(D, "viewOnce") <=> c
  <2>1. "viewOnce" \in DOMAIN D <=> "viewOnce" \in DOMAIN z
    BY <1>0, <1>5
  <2>2. CASE c
    <3>1. z = x /\ "viewOnce" \in DOMAIN z
      BY <1>2, <1>3, <2>2
    <3>2. D["viewOnce"] = z["viewOnce"]
      BY <1>0, <1>5, <3>1
    <3> QED
      BY <1>2, <2>1, <2>2, <3>1, <3>2 DEF Flag, Has
  <2>3. CASE ~c
    BY <1>3, <2>1, <2>3 DEF Flag, Has
  <2> QED
    BY <2>2, <2>3
<1>10. Flag(D, "viewOnce") = Flag(r, "viewOnce")
  BY <1>4, <1>9
<1> QED
  BY <1>8, <1>10

\* A message with a file is shown.
LEMMA FileShows ==
    ASSUME NEW r, r.kind \in MediaKinds, NEW content, Kind(content) \notin {"senderKey", "protocol"},
           NEW knows, NEW D, D = Payload(content, knows),
           Has(D, "media"), D.media.mediaType = r.kind,
           D.media.id.file = Upload(File(r), DownloadClass(r.kind)),
           r.kind \in {"image", "video", "document"} => Get(D.media, "caption") = Get(r, "caption"),
           r.kind \in {"image", "video"} => Flag(D, "viewOnce") = Flag(r, "viewOnce"),
           r.kind = "document" => D.media.filename = r.filename,
           TellsOptions(D, r)
    PROVE  Shows(content, r, knows)
<1>1. HasContent(D)
  BY DEF HasContent, ContentFields
<1>2. Tells(Envelope(D), r)
  <2> PICK e : e = Envelope(D)
    OBVIOUS
  <2>1. e.data = D
    BY EnvelopeIs
  <2>2. r.kind \notin {"delete", "text", "link", "contact", "reaction", "edit", "pin"}
    BY DEF MediaKinds
  <2>3. Tells(e, r)
    BY <2>1, <2>2 DEF Tells
  <2> QED
    BY <2>3
<1>3. Holds(D, r)
  BY DEF Holds, MediaKinds
<1> QED
  BY <1>1, <1>2, <1>3 DEF Shows

\* The fields of a part that is put together of a file and of others.
PartOf(part, F, y, z) ==
    /\ Alike(part, F, FileFields)
    /\ \A f : f \notin FileFields =>
         /\ f \in DOMAIN part <=> f \in DOMAIN y \/ f \in DOMAIN z
         /\ f \in DOMAIN y => part[f] = y[f]
         /\ f \in DOMAIN z /\ f \notin DOMAIN y => part[f] = z[f]

LEMMA PartAlike ==
    ASSUME NEW F, DOMAIN F \subseteq FileFields, NEW y, NEW z,
           (DOMAIN y \cup DOMAIN z) \cap FileFields = {}
    PROVE  PartOf(F @@ y @@ z, F, y, z)
<1> DEFINE part == F @@ y @@ z
<1>1. Joins3(part, F, y, z)
  BY Merge3
<1> HIDE DEF part
<1>2. Alike(part, F, FileFields)
  BY <1>1 DEF Joins3, Alike
<1>3. PartOf(part, F, y, z)
  BY <1>1, <1>2 DEF Joins3, PartOf
<1> QED
  BY <1>3 DEF part

\* A picture or a film: class names both, and the field of the message.
LEMMA PictureTold ==
    ASSUME NEW r, Valid(r), ReplySound(r), NEW class \in {"image", "video"}, r.kind = class,
           NEW part, part = FilePart(r, class, Get(r, "mimeType")) @@ Captioned(r) @@ Once(r),
           NEW content, Kind(content) = class, NEW shown, "caption" \in shown, NEW knows,
           Payload(content, knows) = MediaPayload(class, "", shown, part, knows) @@ ViewOnce(part)
    PROVE  Shows(content, r, knows)
<1> DEFINE y == Captioned(r)
           z == Once(r)
<1> PICK F : F = FilePart(r, class, Get(r, "mimeType"))
  OBVIOUS
<1> PICK P : P = MediaPayload(class, "", shown, part, knows)
  OBVIOUS
<1> PICK D : D = Payload(content, knows)
  OBVIOUS
<1>1. FileSound(F, class, r) /\ DOMAIN F \subseteq FileFields
  BY FilePartIs
<1>2. DOMAIN y \subseteq {"caption"} /\ Get(y, "caption") = Get(r, "caption")
  BY CopyIs, Parts DEF Captioned
<1>3. DOMAIN z = {"viewOnce"} /\ z.viewOnce = Flag(r, "viewOnce")
  BY DEF Once
<1>4. part = F @@ y @@ z
  OBVIOUS
<1> HIDE DEF y, z
<1>5. (DOMAIN y \cup DOMAIN z) \cap FileFields = {}
  BY <1>2, <1>3 DEF FileFields
<1>6. PartOf(part, F, y, z)
  <2>1. PartOf(F @@ y @@ z, F, y, z)
    BY <1>1, <1>5, PartAlike
  <2> QED
    BY <1>4, <2>1
<1>7. /\ Alike(part, F, FileFields)
      /\ "caption" \in DOMAIN part <=> "caption" \in DOMAIN y \/ "caption" \in DOMAIN z
      /\ "caption" \in DOMAIN y => part["caption"] = y["caption"]
      /\ "viewOnce" \in DOMAIN part <=> "viewOnce" \in DOMAIN y \/ "viewOnce" \in DOMAIN z
      /\ "viewOnce" \in DOMAIN z /\ "viewOnce" \notin DOMAIN y => part["viewOnce"] = z["viewOnce"]
  BY ONLY <1>6 DEF PartOf, FileFields
<1>8. Get(part, "caption") = Get(r, "caption")
  <2>1. "caption" \in DOMAIN part <=> "caption" \in DOMAIN y
    BY ONLY <1>3, <1>7
  <2>2. Get(part, "caption") = Get(y, "caption")
    BY ONLY <1>7, <2>1 DEF Get, Has
  <2> QED
    BY <1>2, <2>2
<1>9. Flag(part, "viewOnce") = Flag(r, "viewOnce")
  <2>1. "viewOnce" \in DOMAIN part /\ part["viewOnce"] = z["viewOnce"]
    BY ONLY <1>2, <1>3, <1>7
  <2>2. Flag(r, "viewOnce") \in BOOLEAN
    BY DEF Flag
  <2>3. Flag(part, "viewOnce") = part.viewOnce
    BY <1>3, <2>1, <2>2 DEF Flag, Has
  <2> QED
    BY <1>3, <2>1, <2>3
<1>10. FileSound(part, class, r)
  BY <1>1, <1>7, FileAlike
<1>11. FileTold(P, class, class, shown, part, r)
  BY <1>10, MediaTold
<1>12. /\ Alike(D, P, {"media"} \cup OptionFields)
       /\ Flag(D, "viewOnce") = Flag(r, "viewOnce")
  <2>1. D = P @@ ViewOnce(part)
    OBVIOUS
  <2>2. DOMAIN P \subseteq {"type", "media"} \cup OptionFields
    BY <1>11 DEF FileTold
  <2> QED
    BY ONLY <1>9, <2>1, <2>2, OnceTold
<1>13. Has(D, "media") /\ D.media = P.media
  BY <1>11, <1>12 DEF Alike, FileTold, Has
<1>14. TellsOptions(D, r)
  <2>1. Alike(D, P, OptionFields) /\ TellsOptions(P, r)
    BY <1>11, <1>12 DEF Alike, FileTold
  <2> QED
    BY <2>1, OptionsAlike
<1>15. /\ D.media.mediaType = r.kind /\ D.media.id.file = Upload(File(r), class)
       /\ Get(D.media, "caption") = Get(r, "caption")
  BY <1>8, <1>11, <1>13 DEF FileTold
<1>16. DownloadClass(r.kind) = class
  BY DEF DownloadClass
<1>17. r.kind \in MediaKinds /\ r.kind # "document" /\ Kind(content) \notin {"senderKey", "protocol"}
  BY DEF MediaKinds
<1> QED
  BY <1>12, <1>13, <1>14, <1>15, <1>16, <1>17, FileShows

\* A file that is told without a caption, or with one and a name.
LEMMA PlainFileTold ==
    ASSUME NEW r, Valid(r), ReplySound(r), r.kind \in {"audio", "voice", "document", "sticker"},
           NEW part, FileSound(part, DownloadClass(r.kind), r),
           NEW content, Kind(content) \notin {"senderKey", "protocol"}, NEW name, NEW shown, NEW knows,
           Payload(content, knows) = MediaPayload(r.kind, name, shown, part, knows),
           r.kind = "document" => /\ {"caption", "filename"} \subseteq shown
                                  /\ Get(part, "caption") = Get(r, "caption")
                                  /\ Get(part, "filename") = r.filename
    PROVE  Shows(content, r, knows)
<1> PICK D : D = Payload(content, knows)
  OBVIOUS
<1>1. FileTold(MediaPayload(r.kind, name, shown, part, knows), r.kind, DownloadClass(r.kind),
               shown, part, r)
  BY MediaTold
<1>2. /\ Has(D, "media") /\ D.media.mediaType = r.kind
      /\ D.media.id.file = Upload(File(r), DownloadClass(r.kind))
      /\ \A f \in shown : f \notin {"mediaType", "id"} => Get(D.media, f) = Get(part, f)
      /\ TellsOptions(D, r)
  BY <1>1 DEF FileTold
<1>3. r.kind = "document" => /\ Get(D.media, "caption") = Get(r, "caption")
                             /\ D.media.filename = r.filename
  <2> HAVE r.kind = "document"
  <2>1. Get(D.media, "caption") = Get(r, "caption") /\ Get(D.media, "filename") = r.filename
    BY <1>2
  <2>2. r.filename # ""
    BY DEF Valid, Get
  <2> QED
    BY <2>1, <2>2 DEF Get
<1>4. r.kind \in MediaKinds /\ r.kind \notin {"image", "video"}
  BY DEF MediaKinds
<1> QED
  BY <1>2, <1>3, <1>4, FileShows

LEMMA ImageTold ==
    ASSUME NEW r, Valid(r), ReplySound(r), r.kind = "image", NEW knows
    PROVE  Shows(SendImage(r), r, knows)
<1> DEFINE part    == FilePart(r, "image", Get(r, "mimeType")) @@ Captioned(r) @@ Once(r)
           shown   == {"mimeType", "fileLength", "caption", "height", "width", "jpegThumbnail"}
           content == [image |-> part]
<1>1. SendImage(r) = content
  BY DEF SendImage
<1> PICK p : p = part
  OBVIOUS
<1> HIDE DEF part
<1>2. DOMAIN content = {"image"} /\ content.image = p
  OBVIOUS
<1> HIDE DEF content
<1>3. DOMAIN content \cap ContentKinds = {"image"} /\ "image" \in ContentKinds
  BY <1>2 DEF ContentKinds
<1>4. Kind(content) = "image"
  BY <1>3, KindIs
<1>5. Payload(content, knows) = MediaPayload("image", "", shown, p, knows) @@ ViewOnce(p)
  BY <1>2, <1>4 DEF Payload, ImagePayload
<1>6. "caption" \in shown
  OBVIOUS
<1> HIDE DEF shown
<1>7. p = FilePart(r, "image", Get(r, "mimeType")) @@ Captioned(r) @@ Once(r)
  BY DEF part
<1>8. Shows(content, r, knows)
  BY <1>4, <1>5, <1>6, <1>7, PictureTold
<1> QED
  BY <1>1, <1>8

LEMMA VideoTold ==
    ASSUME NEW r, Valid(r), ReplySound(r), r.kind = "video", NEW knows
    PROVE  Shows(SendVideo(r), r, knows)
<1> DEFINE part    == FilePart(r, "video", Get(r, "mimeType")) @@ Captioned(r) @@ Once(r)
           shown   == {"mimeType", "fileLength", "caption", "height", "width", "jpegThumbnail", "duration"}
           content == [video |-> part]
<1>1. SendVideo(r) = content
  BY DEF SendVideo
<1> PICK p : p = part
  OBVIOUS
<1> HIDE DEF part
<1>2. DOMAIN content = {"video"} /\ content.video = p
  OBVIOUS
<1> HIDE DEF content
<1>3. DOMAIN content \cap ContentKinds = {"video"} /\ "video" \in ContentKinds
  BY <1>2 DEF ContentKinds
<1>4. Kind(content) = "video"
  BY <1>3, KindIs
<1>5. Payload(content, knows) = MediaPayload("video", "", shown, p, knows) @@ ViewOnce(p)
  BY <1>2, <1>4 DEF Payload, VideoPayload
<1>6. "caption" \in shown
  OBVIOUS
<1> HIDE DEF shown
<1>7. p = FilePart(r, "video", Get(r, "mimeType")) @@ Captioned(r) @@ Once(r)
  BY DEF part
<1>8. Shows(content, r, knows)
  BY <1>4, <1>5, <1>6, <1>7, PictureTold
<1> QED
  BY <1>1, <1>8

LEMMA AudioTold ==
    ASSUME NEW r, Valid(r), ReplySound(r), r.kind = "audio", NEW knows
    PROVE  Shows(SendAudio(r), r, knows)
<1> DEFINE F       == FilePart(r, "audio", Get(r, "mimeType"))
           z       == Once(r)
           part    == F @@ z
           shown   == {"mimeType", "fileLength", "duration"}
           content == [audio |-> part]
<1>1. SendAudio(r) = content
  BY DEF SendAudio
<1>2. FileSound(F, "audio", r) /\ DOMAIN F \subseteq FileFields
  BY FilePartIs
<1>4. DOMAIN z = {"viewOnce"}
  BY DEF Once
<1> HIDE DEF F, z
<1>5. DOMAIN z \cap FileFields = {}
  BY <1>4 DEF FileFields
<1>6. Alike(part, F, FileFields)
  BY <1>5, AlikeLeft
<1>7. ~Flag(part, "ptt")
  <2>1. "ptt" \notin DOMAIN F /\ "ptt" \notin DOMAIN z
    BY <1>2, <1>4 DEF FileFields
  <2> QED
    BY <2>1, MergeAt DEF Flag, Has
<1>8. DownloadClass("audio") = "audio"
  BY DEF DownloadClass
<1>9. FileSound(part, DownloadClass(r.kind), r)
  BY <1>2, <1>6, <1>8, FileAlike
<1> PICK p : p = part
  OBVIOUS
<1> HIDE DEF part
<1>10. DOMAIN content = {"audio"} /\ content.audio = p
  OBVIOUS
<1> HIDE DEF content
<1>11. DOMAIN content \cap ContentKinds = {"audio"} /\ "audio" \in ContentKinds
  BY <1>10 DEF ContentKinds
<1>12. Kind(content) = "audio"
  BY <1>11, KindIs
<1>13. Payload(content, knows) = MediaPayload("audio", "", shown, p, knows)
  BY <1>7, <1>10, <1>12 DEF Payload, AudioPayload
<1> HIDE DEF shown
<1>15. Shows(content, r, knows)
  BY <1>9, <1>12, <1>13, PlainFileTold
<1> QED
  BY <1>1, <1>15

LEMMA VoiceTold ==
    ASSUME NEW r, Valid(r), ReplySound(r), r.kind = "voice", NEW knows
    PROVE  Shows(SendVoice(r), r, knows)
<1> DEFINE F       == FilePart(r, "audio", "audio/ogg")
           y       == [ptt |-> TRUE]
           z       == Once(r)
           part    == F @@ y @@ z
           shown   == {"mimeType", "fileLength", "duration"}
           content == [audio |-> part]
<1>1. SendVoice(r) = content
  BY DEF SendVoice
<1>2. FileSound(F, "audio", r) /\ DOMAIN F \subseteq FileFields
  BY FilePartIs
<1>3. DOMAIN y = {"ptt"} /\ y.ptt = TRUE
  OBVIOUS
<1>4. DOMAIN z = {"viewOnce"}
  BY DEF Once
<1> HIDE DEF F, y, z
<1>5. (DOMAIN y \cup DOMAIN z) \cap FileFields = {}
  BY <1>3, <1>4 DEF FileFields
<1>0. PartOf(part, F, y, z)
  BY <1>2, <1>5, PartAlike
<1> HIDE DEF part
<1>6. Alike(part, F, FileFields)
  BY <1>0 DEF PartOf
<1>7. Flag(part, "ptt")
  <2>1. "ptt" \in DOMAIN part /\ part["ptt"] = y["ptt"]
    BY <1>0, <1>3 DEF PartOf, FileFields
  <2> QED
    BY <1>3, <2>1 DEF Flag, Has
<1>8. DownloadClass("voice") = "audio"
  BY DEF DownloadClass
<1>9. FileSound(part, DownloadClass(r.kind), r)
  BY <1>2, <1>6, <1>8, FileAlike
<1> PICK p : p = part
  OBVIOUS
<1> HIDE DEF part
<1>10. DOMAIN content = {"audio"} /\ content.audio = p
  OBVIOUS
<1> HIDE DEF content
<1>11. DOMAIN content \cap ContentKinds = {"audio"} /\ "audio" \in ContentKinds
  BY <1>10 DEF ContentKinds
<1>12. Kind(content) = "audio"
  BY <1>11, KindIs
<1>13. Payload(content, knows) = MediaPayload("voice", "", shown, p, knows)
  BY <1>7, <1>10, <1>12 DEF Payload, AudioPayload
<1> HIDE DEF shown
<1>15. Shows(content, r, knows)
  BY <1>9, <1>12, <1>13, PlainFileTold
<1> QED
  BY <1>1, <1>15

LEMMA DocumentTold ==
    ASSUME NEW r, Valid(r), ReplySound(r), r.kind = "document", NEW knows
    PROVE  Shows(SendDocument(r), r, knows)
<1> DEFINE F       == FilePart(r, "document", "by extension")
           y       == Captioned(r)
           z       == [title |-> r.filename, filename |-> r.filename]
           part    == F @@ y @@ z
           shown   == {"mimeType", "fileLength", "filename", "pageCount", "caption", "jpegThumbnail", "title"}
           content == [document |-> part]
<1>1. SendDocument(r) = content
  BY DEF SendDocument
<1>2. FileSound(F, "document", r) /\ DOMAIN F \subseteq FileFields
  BY FilePartIs
<1>3. DOMAIN y \subseteq {"caption"} /\ Get(y, "caption") = Get(r, "caption")
  BY CopyIs, Parts DEF Captioned
<1>4. DOMAIN z = {"title", "filename"} /\ z.filename = r.filename
  OBVIOUS
<1> HIDE DEF F, y, z
<1>5. (DOMAIN y \cup DOMAIN z) \cap FileFields = {}
  BY <1>3, <1>4 DEF FileFields
<1>0. PartOf(part, F, y, z)
  BY <1>2, <1>5, PartAlike
<1> HIDE DEF part
<1>6. Alike(part, F, FileFields)
  BY <1>0 DEF PartOf
<1>7. Get(part, "caption") = Get(r, "caption") /\ Get(part, "filename") = r.filename
  <2>1. /\ "caption" \in DOMAIN part <=> "caption" \in DOMAIN y \/ "caption" \in DOMAIN z
        /\ "caption" \in DOMAIN y => part["caption"] = y["caption"]
        /\ "filename" \in DOMAIN part <=> "filename" \in DOMAIN y \/ "filename" \in DOMAIN z
        /\ "filename" \in DOMAIN z /\ "filename" \notin DOMAIN y => part["filename"] = z["filename"]
    BY ONLY <1>0 DEF PartOf, FileFields
  <2>2. "caption" \in DOMAIN part <=> "caption" \in DOMAIN y
    BY ONLY <1>4, <2>1
  <2>3. Get(part, "caption") = Get(y, "caption")
    BY ONLY <2>1, <2>2 DEF Get, Has
  <2>4. "filename" \in DOMAIN part /\ part["filename"] = z["filename"]
    BY ONLY <1>3, <1>4, <2>1
  <2> QED
    BY <1>3, <1>4, <2>3, <2>4 DEF Get, Has
<1>8. DownloadClass("document") = "document"
  BY DEF DownloadClass
<1>9. FileSound(part, DownloadClass(r.kind), r)
  BY <1>2, <1>6, <1>8, FileAlike
<1> PICK p : p = part
  OBVIOUS
<1> HIDE DEF part
<1>10. DOMAIN content = {"document"} /\ content.document = p
  OBVIOUS
<1> HIDE DEF content
<1>11. DOMAIN content \cap ContentKinds = {"document"} /\ "document" \in ContentKinds
  BY <1>10 DEF ContentKinds
<1>12. Kind(content) = "document"
  BY <1>11, KindIs
<1>13. Payload(content, knows) = MediaPayload("document", Get(p, "filename"), shown, p, knows)
  BY <1>10, <1>12 DEF Payload, DocumentPayload
<1>14. {"caption", "filename"} \subseteq shown
  OBVIOUS
<1> HIDE DEF shown
<1>15. Shows(content, r, knows)
  BY <1>7, <1>9, <1>12, <1>13, <1>14, PlainFileTold
<1> QED
  BY <1>1, <1>15

LEMMA StickerTold ==
    ASSUME NEW r, Valid(r), ReplySound(r), r.kind = "sticker", NEW knows
    PROVE  Shows(SendSticker(r), r, knows)
<1> DEFINE F       == FilePart(r, "image", "image/webp")
           z       == [animated |-> Flag(r, "isAnimated")]
           part    == F @@ z
           shown   == {"mimeType", "fileLength", "height", "width"}
           content == [sticker |-> part]
<1>1. SendSticker(r) = content
  BY DEF SendSticker
<1>2. FileSound(F, "image", r) /\ DOMAIN F \subseteq FileFields
  BY FilePartIs
<1>4. DOMAIN z = {"animated"}
  OBVIOUS
<1> HIDE DEF F, z
<1>5. DOMAIN z \cap FileFields = {}
  BY <1>4 DEF FileFields
<1>6. Alike(part, F, FileFields)
  BY <1>5, AlikeLeft
<1>8. DownloadClass("sticker") = "image"
  BY DEF DownloadClass
<1>9. FileSound(part, DownloadClass(r.kind), r)
  BY <1>2, <1>6, <1>8, FileAlike
<1> PICK p : p = part
  OBVIOUS
<1> HIDE DEF part
<1>10. DOMAIN content = {"sticker"} /\ content.sticker = p
  OBVIOUS
<1> HIDE DEF content
<1>11. DOMAIN content \cap ContentKinds = {"sticker"} /\ "sticker" \in ContentKinds
  BY <1>10 DEF ContentKinds
<1>12. Kind(content) = "sticker"
  BY <1>11, KindIs
<1>13. Payload(content, knows) = MediaPayload("sticker", "", shown, p, knows)
  BY <1>10, <1>12 DEF Payload, StickerPayload
<1> HIDE DEF shown
<1>15. Shows(content, r, knows)
  BY <1>9, <1>12, <1>13, PlainFileTold
<1> QED
  BY <1>1, <1>15

-----------------------------------------------------------------------------
(* What is told of a message that was sent.                                *)

LEMMA OutgoingShown ==
    ASSUME NEW r, Valid(r), ReplySound(r), r.kind \in NewKinds,
           r.kind = "contact" => Get(r, "vcard") # "", NEW me, NEW knows
    PROVE  Shows(Outgoing(me, r), r, knows)
<1>1. CASE r.kind = "text"
  BY <1>1, TextTold DEF Outgoing
<1>2. CASE r.kind = "link"
  BY <1>2, LinkTold DEF Outgoing
<1>3. CASE r.kind = "image"
  BY <1>3, ImageTold DEF Outgoing
<1>4. CASE r.kind = "video"
  BY <1>4, VideoTold DEF Outgoing
<1>5. CASE r.kind = "audio"
  BY <1>5, AudioTold DEF Outgoing
<1>6. CASE r.kind = "voice"
  BY <1>6, VoiceTold DEF Outgoing
<1>7. CASE r.kind = "document"
  BY <1>7, DocumentTold DEF Outgoing
<1>8. CASE r.kind = "sticker"
  BY <1>8, StickerTold DEF Outgoing
<1>9. CASE r.kind = "contact"
  BY <1>9, ContactTold DEF Outgoing
<1>10. CASE r.kind = "reaction"
  BY <1>10, ReactionTold DEF Outgoing
<1>11. CASE r.kind = "edit"
  BY <1>11, EditTold DEF Outgoing
<1>12. CASE r.kind = "pin"
  BY <1>12, PinTold DEF Outgoing
<1> QED
  BY <1>1, <1>2, <1>3, <1>4, <1>5, <1>6, <1>7, <1>8, <1>9, <1>10, <1>11, <1>12
     DEF NewKinds, MediaKinds

\* What an event tells of a message, besides its content, hides none of it.
LEMMA ResultAlike ==
    ASSUME NEW knows, NoUser \notin knows, NEW info, IsJID(info.chat), IsJID(info.sender),
           NEW P, NEW type
    PROVE  Alike(P @@ [id |-> info.id, isGroup |-> info.isGroup, type |-> type]
                   @@ Origin(info, knows) @@ Status(info.chat), P, TellFields)
<1> DEFINE shape  == [id |-> info.id, isGroup |-> info.isGroup, type |-> type]
           origin == Origin(info, knows)
           status == Status(info.chat)
           result == P @@ shape @@ origin @@ status
<1>1. DOMAIN shape = {"id", "isGroup", "type"}
  OBVIOUS
<1>2. DOMAIN origin = {"chatId", "sender"} /\ DOMAIN status \subseteq {"isStatus"}
  BY OriginNamed, StatusNamed
<1> HIDE DEF shape, origin, status
<1>3. Joins(result, P, shape, origin, status)
  BY Merge4
<1> HIDE DEF result
<1>4. TellFields \cap (DOMAIN shape \cup DOMAIN origin \cup DOMAIN status) = {}
  BY <1>1, <1>2 DEF TellFields, ContentFields, OptionFields
<1>5. Alike(result, P, TellFields)
  BY <1>3, <1>4 DEF Joins, Alike
<1> QED
  BY <1>5 DEF result, shape, origin, status

Told(s, r) == IF Shown(r) THEN s # <<>> /\ Tells(s[1], r) ELSE s = <<>>

LEMMA MessageTold ==
    ASSUME NEW evt, NEW knows, NoUser \notin knows, IsJID(evt.info.chat), IsJID(evt.info.sender),
           evt.info.id # NoId, evt.info.category = "", NEW me,
           NEW r, Valid(r), ReplySound(r), RequestOK(r), What(r) = "message",
           evt.content = Outgoing(me, r)
    PROVE  Told(ProjectMessage(evt, knows), r)
<1> DEFINE info    == evt.info
           P       == Payload(evt.content, knows)
           type    == IF info.type # "" THEN info.type ELSE "unknown"
           result  == P @@ [id |-> info.id, isGroup |-> info.isGroup, type |-> type]
                        @@ Origin(info, knows) @@ Status(info.chat)
           M       == ProjectMessage(evt, knows)
           kind    == Kind(evt.content)
           c2      == kind = "protocol" /\ evt.content.protocol.type = "revoke"
           c3      == kind = "protocol" /\ evt.content.protocol.type = "ephemeral"
           c4      == kind = "senderKey" \/ ~HasContent(result)
<1>1. M = CASE c2 -> ProjectMessageDeleteForAll(evt, knows)
            [] c3 -> ProjectMessageEphemeralSetting(evt, knows)
            [] OTHER -> IF c4 THEN Discarded ELSE Published("message", result)
  BY DEF ProjectMessage
<1>2. Alike(result, P, TellFields)
  <2> HIDE DEF P, type
  <2> QED
    BY ResultAlike
<1>3. HasContent(result) <=> HasContent(P)
  <2> HIDE DEF P, result
  <2> QED
    BY <1>2 DEF Alike, TellFields, HasContent, Has
<1>4. Published("message", result) = <<Envelope(result)>>
  <2> HIDE DEF result
  <2> QED
    BY DEF Published, Envelope
<1> HIDE DEF P, result, M, type
<1>5. r.kind \in NewKinds \cup {"location", "delete"}
  BY DEF What, RequestOK, PatchKinds, NewKinds, SendKinds, ChatKinds
<1>6. CASE r.kind \in NewKinds /\ (r.kind = "contact" => Get(r, "vcard") # "")
  <2>1. Shows(evt.content, r, knows)
    BY <1>6, OutgoingShown
  <2>2. ~c2 /\ ~c3 /\ kind # "senderKey" /\ HasContent(P)
        /\ Tells(Envelope(P), r) /\ Holds(P, r)
    BY <2>1 DEF Shows, P
  <2>3. M = <<Envelope(result)>>
    <3> HIDE DEF c2, c3, kind
    <3> QED
      BY <1>1, <1>3, <1>4, <2>2
  <2>4. Tells(Envelope(result), r)
    BY <1>2, <1>6, <2>2, TellsAlike
  <2> PICK e : e = Envelope(result)
    OBVIOUS
  <2>5. M # <<>> /\ M[1] = e
    BY <2>3
  <2>6. Shown(r)
    BY <1>6 DEF Shown, NewKinds, MediaKinds
  <2>7. Told(M, r)
    BY <2>4, <2>5, <2>6 DEF Told
  <2> QED
    BY <2>7 DEF M
<1>7. CASE r.kind = "contact" /\ Get(r, "vcard") = ""
  <2>1. evt.content = SendContact(r)
    BY <1>7 DEF Outgoing
  <2>2. kind = "contact" /\ ~HasContent(P)
    BY <1>7, <2>1, ContactTold DEF P
  <2>3. ~c2 /\ ~c3 /\ c4
    BY <1>3, <2>2
  <2>4. M = <<>>
    <3> HIDE DEF c2, c3, c4
    <3> QED
      BY <1>1, <2>3 DEF Discarded
  <2>5. ~Shown(r)
    BY <1>7 DEF Shown
  <2> QED
    BY <2>4, <2>5 DEF Told, M
<1>8. CASE r.kind = "location"
  <2>1. evt.content = SendLocation(r)
    BY <1>8 DEF Outgoing
  <2>2. kind = "none" /\ ~HasContent(P)
    BY <2>1, LocationTold DEF P
  <2>3. ~c2 /\ ~c3 /\ c4
    BY <1>3, <2>2
  <2>4. M = <<>>
    <3> HIDE DEF c2, c3, c4
    <3> QED
      BY <1>1, <2>3 DEF Discarded
  <2>5. ~Shown(r)
    BY <1>8 DEF Shown
  <2> QED
    BY <2>4, <2>5 DEF Told, M
<1>9. CASE r.kind = "delete"
  <2>1. evt.content = DeleteMessage(me, r)
    BY <1>9 DEF Outgoing
  <2> PICK content : content = DeleteMessage(me, r)
    OBVIOUS
  <2> PICK revoke : revoke = content.protocol
    OBVIOUS
  <2>0. /\ Kind(content) = "protocol" /\ revoke.type = "revoke"
        /\ Has(revoke, "key") /\ revoke.key.id = r.messageId
    BY DeleteIs
  <2>2. /\ kind = "protocol" /\ revoke.type = "revoke" /\ revoke = evt.content.protocol
        /\ Has(revoke, "key") /\ revoke.key.id = r.messageId
    BY <2>0, <2>1
  <2>3. c2 /\ ~c3
    BY <2>2
  <2>4. M = ProjectMessageDeleteForAll(evt, knows)
    <3> HIDE DEF c2, c3, c4
    <3> QED
      BY <1>1, <2>3
  <2> DEFINE d == [id |-> revoke.key.id, isDeletedForAll |-> TRUE]
             o == Origin(info, knows)
             t == Status(info.chat)
             x == d @@ o
             y == x @@ t
             e == [eventType |-> "message_delete", data |-> y]
  <2>5. M = <<e>>
    BY <2>2, <2>4 DEF ProjectMessageDeleteForAll, Published
  <2>6. "id" \in DOMAIN d /\ d.id = r.messageId
    BY <2>2
  <2> HIDE DEF d, o, t
  <2>7. "id" \in DOMAIN x /\ x.id = r.messageId
    <3>1. DOMAIN x = DOMAIN d \cup DOMAIN o /\ \A f \in DOMAIN d : x[f] = d[f]
      BY ONLY Merge
    <3> HIDE DEF x
    <3> QED
      BY <2>6, <3>1
  <2> HIDE DEF x
  <2>8. y.id = r.messageId
    <3>1. \A f \in DOMAIN x : y[f] = x[f]
      BY ONLY Merge
    <3> HIDE DEF y
    <3> QED
      BY <2>7, <3>1
  <2> HIDE DEF y
  <2>9. e.eventType = "message_delete" /\ e.data = y
    OBVIOUS
  <2> HIDE DEF e
  <2>10. Tells(e, r)
    BY <1>9, <2>8, <2>9 DEF Tells, MediaKinds
  <2>11. M # <<>> /\ M[1] = e
    BY <2>5
  <2>12. Shown(r)
    BY <1>9 DEF Shown
  <2>13. Told(M, r)
    BY <2>10, <2>11, <2>12 DEF Told
  <2> QED
    BY <2>13 DEF M
<1> QED
  BY <1>5, <1>6, <1>7, <1>8, <1>9

-----------------------------------------------------------------------------
(* What is sent is published: the invariant.                               *)

\* A request that was accepted.
Sound(r) == Valid(r) /\ ReplySound(r)

\* Every request under way, and every request that left, was accepted.
SoundInv ==
    /\ \A a \in Accounts : \A q \in {request[a]} : q # Idle => Sound(q.r)
    /\ \A n \in DOMAIN sent : \A m \in {sent[n]} : m.via = "api" => Sound(m.r) /\ m.category = ""

\* What is published of a message tells of the request.
ToldWhole(s, i) ==
    /\ WellShaped(s)
    /\ sent[i].via = "api" /\ sent[i].what = "message" => Told(s, sent[i].r)

ToldInv ==
    /\ \A a \in Accounts : \A i \in DOMAIN published[a] : \A s \in {published[a][i]} : ToldWhole(s, i)
    /\ \A events \in {noticed.events} : WellShaped(events)

KnownType == known \in [Accounts -> SUBSET People]

WholeInv == SoundInv /\ ToldInv /\ KnownType

LEMMA SoundStable ==
    ASSUME Grown, NEW r, Sound(r)
    PROVE  Sound(r)'
BY DEF Grown, Sound, ReplySound

LEMMA OptionsStable ==
    ASSUME Grown, NEW r, ReplySound(r), NEW d, TellsOptions(d, r)
    PROVE  TellsOptions(d, r)'
<1>1. Has(r, "replyTo") => sent'[r.replyTo] = sent[r.replyTo]
  BY DEF Grown, ReplySound
<1> QED
  BY <1>1 DEF TellsOptions

LEMMA TellsStable ==
    ASSUME Grown, NEW r, ReplySound(r), r.kind \in NewKinds \cup {"delete"}, NEW e, Tells(e, r)
    PROVE  Tells(e, r)'
<1> PICK d : d = e.data
  OBVIOUS
<1>1. TellsOptions(d, r) => TellsOptions(d, r)'
  BY OptionsStable
<1>2. CASE r.kind \in {"text", "link"}
  BY <1>1, <1>2 DEF Tells, MediaKinds
<1>3. CASE r.kind \in MediaKinds
  BY <1>1, <1>3 DEF Tells, MediaKinds
<1>4. CASE r.kind = "delete"
  BY <1>4 DEF Tells, MediaKinds
<1>5. CASE r.kind = "contact"
  BY <1>5 DEF Tells, MediaKinds
<1>6. CASE r.kind = "reaction"
  BY <1>6 DEF Tells, MediaKinds
<1>7. CASE r.kind = "edit"
  BY <1>7 DEF Tells, MediaKinds
<1>8. CASE r.kind = "pin"
  BY <1>8 DEF Tells, MediaKinds
<1> QED
  BY <1>2, <1>3, <1>4, <1>5, <1>6, <1>7, <1>8 DEF NewKinds

LEMMA ToldStable ==
    ASSUME Grown, NEW r, ReplySound(r), RequestOK(r), What(r) = "message", NEW s, Told(s, r)
    PROVE  Told(s, r)'
<1> PICK e : e = s[1]
  OBVIOUS
<1>1. r.kind \in NewKinds \cup {"location", "delete"}
  BY DEF What, RequestOK, PatchKinds, NewKinds, SendKinds, ChatKinds
<1>2. CASE Shown(r)
  <2>1. Tells(e, r)
    BY <1>2 DEF Told
  <2>2. r.kind # "location"
    BY <1>2 DEF Shown
  <2>3. Tells(e, r)'
    BY <1>1, <2>1, <2>2, TellsStable
  <2> QED
    BY <1>2, <2>3 DEF Told
<1>3. CASE ~Shown(r)
  BY <1>3 DEF Told
<1> QED
  BY <1>2, <1>3

\* What has been published stays as it is told.
LEMMA WholeStable ==
    ASSUME SentInv, SoundInv, Grown, NEW i \in DOMAIN sent, NEW s, ToldWhole(s, i)
    PROVE  ToldWhole(s, i)'
<1> PICK m : m = sent[i]
  OBVIOUS
<1>1. sent'[i] = m
  BY DEF Grown
<1>2. CASE m.via = "api" /\ m.what = "message"
  <2>1. ReplySound(m.r) /\ RequestOK(m.r) /\ What(m.r) = "message"
    <3>1. ReplySound(m.r)
      BY <1>2 DEF SoundInv, Sound
    <3>2. SentOK(m)
      BY DEF SentInv
    <3> QED
      BY <1>2, <3>1, <3>2 DEF SentOK
  <2>2. Told(s, m.r)'
    BY <1>2, <2>1, ToldStable DEF ToldWhole
  <2> QED
    BY <1>1, <2>2 DEF ToldWhole
<1>3. CASE ~(m.via = "api" /\ m.what = "message")
  BY <1>1, <1>3 DEF ToldWhole
<1> QED
  BY <1>2, <1>3

\* A request that goes on is the one that was there.
Carried == \A b \in Accounts : request'[b] # Idle => request[b] # Idle /\ request'[b].r = request[b].r

LEMMA CarriedOn ==
    ASSUME RequestInv, NEW a \in Accounts, NEW p, request' = [request EXCEPT ![a] = p],
           p # Idle => request[a] # Idle /\ p.r = request[a].r
    PROVE  Carried
BY DEF Carried, RequestInv

LEMMA FinishCarries ==
    ASSUME RequestInv, NEW a \in Accounts, NEW q, NEW err, NEW out, Finish(a, q, err, out)
    PROVE  Carried
BY CarriedOn DEF Finish

LEMMA GotoCarries ==
    ASSUME RequestInv, NEW a \in Accounts, NEW q, q = request[a], q # Idle, NEW pc, Goto(a, q, pc)
    PROVE  Carried
<1> DEFINE p == [pc |-> pc, r |-> q.r, about |-> q.about, out |-> NoId]
<1>1. request' = [request EXCEPT ![a] = p]
  BY DEF Goto
<1>2. p.r = q.r
  OBVIOUS
<1> HIDE DEF p
<1> QED
  BY <1>1, <1>2, CarriedOn

LEMMA RequestsSound ==
    ASSUME SoundInv, Grown, Carried, NEW a \in Accounts, NEW q, q = request'[a], q # Idle
    PROVE  Sound(q.r)'
<1>1. Sound(q.r)
  BY DEF SoundInv, Carried
<1> QED
  BY <1>1, SoundStable

\* What has been sent stays sound.
LEMMA SentSound ==
    ASSUME SentInv, SoundInv, Grown, NEW m, sent' = sent \/ sent' = Append(sent, m),
           m.via = "api" => Sound(m.r) /\ m.category = "",
           NEW n \in DOMAIN sent', NEW p, p = sent'[n], p.via = "api"
    PROVE  Sound(p.r)' /\ p.category = ""
<1>1. CASE n \in DOMAIN sent
  <2>1. p = sent[n]
    BY <1>1 DEF Grown
  <2>2. Sound(p.r) /\ p.category = ""
    BY <1>1, <2>1 DEF SoundInv
  <2> QED
    BY <2>2, SoundStable
<1>2. CASE n \notin DOMAIN sent
  <2>1. sent' = Append(sent, m)
    BY <1>2
  <2>2. /\ DOMAIN sent' = DOMAIN sent \cup {Len(sent) + 1}
        /\ sent'[Len(sent) + 1] = m
    BY <2>1, AppendFacts DEF SentInv
  <2>3. p = m
    BY <1>2, <2>2
  <2> QED
    BY <2>3, SoundStable
<1> QED
  BY <1>1, <1>2

\* Nothing is published.
LEMMA ToldUnchanged ==
    ASSUME IInv, WholeInv, Grown, known' = known, published' = published,
           noticed' = noticed \/ noticed' = NoNotice
    PROVE  ToldInv' /\ KnownType'
<1>1. KnownType'
  BY DEF WholeInv, KnownType
<1>2. ASSUME NEW a \in Accounts, NEW i \in DOMAIN published'[a], NEW s, s = published'[a][i]
      PROVE  ToldWhole(s, i)'
  <2>1. i \in DOMAIN sent
    BY <1>2 DEF IInv, PublishedInv
  <2>2. ToldWhole(s, i)
    BY <1>2 DEF WholeInv, ToldInv
  <2> QED
    BY <2>1, <2>2, WholeStable DEF IInv, WholeInv
<1>3. WellShaped(noticed'.events)
  <2>1. CASE noticed' = noticed
    BY <2>1 DEF WholeInv, ToldInv
  <2>2. CASE noticed' = NoNotice
    BY <2>2 DEF NoNotice, WellShaped
  <2> QED
    BY <2>1, <2>2
<1>4. ToldInv'
  BY <1>2, <1>3 DEF ToldInv
<1> QED
  BY <1>1, <1>4

\* The steps of a handler.
LEMMA HandlerKeeps ==
    ASSUME IInv, WholeInv, Grown, Carried, known' = known, published' = published,
           noticed' = noticed \/ noticed' = NoNotice,
           NEW m, sent' = sent \/ sent' = Append(sent, m),
           m.via = "api" => Sound(m.r) /\ m.category = ""
    PROVE  WholeInv'
<1>1. ToldInv' /\ KnownType'
  BY ToldUnchanged
<1>2. ASSUME NEW a \in Accounts, NEW q, q = request'[a], q # Idle
      PROVE  Sound(q.r)'
  BY <1>2, RequestsSound DEF WholeInv
<1>3. ASSUME NEW n \in DOMAIN sent', NEW p, p = sent'[n], p.via = "api"
      PROVE  Sound(p.r)' /\ p.category = ""
  BY <1>3, SentSound DEF IInv, WholeInv
<1>4. SoundInv'
  BY <1>2, <1>3 DEF SoundInv
<1> QED
  BY <1>1, <1>4 DEF WholeInv

-----------------------------------------------------------------------------
(* The actions.                                                            *)

\* The steps in which nothing is sent.
LEMMA QuietSound ==
    ASSUME SentInv, SoundInv, sent' = sent, NEW n \in DOMAIN sent', NEW p, p = sent'[n], p.via = "api"
    PROVE  Sound(p.r)' /\ p.category = ""
<1>1. Grown
  BY DEF Grown
<1>2. Sound(p.r) /\ p.category = ""
  BY DEF SoundInv
<1> QED
  BY <1>1, <1>2, SoundStable

LEMMA QuietKeeps ==
    ASSUME IInv, WholeInv, Carried, sent' = sent, known' = known, published' = published,
           noticed' = NoNotice
    PROVE  WholeInv'
<1>1. Grown
  BY DEF Grown
<1>2. ToldInv' /\ KnownType'
  BY <1>1, ToldUnchanged
<1>3. ASSUME NEW a \in Accounts, NEW q, q = request'[a], q # Idle
      PROVE  Sound(q.r)'
  BY <1>1, <1>3, RequestsSound DEF WholeInv
<1>4. ASSUME NEW n \in DOMAIN sent', NEW p, p = sent'[n], p.via = "api"
      PROVE  Sound(p.r)' /\ p.category = ""
  BY <1>4, QuietSound DEF IInv, WholeInv
<1>5. SoundInv'
  BY <1>3, <1>4 DEF SoundInv
<1> QED
  BY <1>2, <1>5 DEF WholeInv

LEMMA SubmitWhole ==
    ASSUME IInv, WholeInv, NEW a \in Accounts, Submit(a)
    PROVE  WholeInv'
<1>1. sent' = sent /\ known' = known /\ published' = published /\ noticed' = NoNotice
  BY DEF Submit
<1>2. Grown
  BY <1>1 DEF Grown
<1>3. PICK q \in Asks(a) :
        IF ~Valid(q.r) THEN Finish(a, q, "invalid", NoId)
        ELSE /\ Goto(a, q, IF q.r.kind \in MediaKinds THEN "resolve" ELSE "send")
             /\ UNCHANGED answered
  BY DEF Submit
<1>4. ReplySound(q.r)
  BY AsksSound
<1>5. CASE ~Valid(q.r)
  <2>1. Carried
    BY <1>3, <1>5, FinishCarries DEF IInv
  <2> QED
    BY <1>1, <2>1, QuietKeeps
<1>6. CASE Valid(q.r)
  <2>1. ToldInv' /\ KnownType'
    BY <1>1, <1>2, ToldUnchanged
  <2>2. PICK pc : Goto(a, q, pc)
    BY <1>3, <1>6
  <2> DEFINE p == [pc |-> pc, r |-> q.r, about |-> q.about, out |-> NoId]
  <2>3. request' = [request EXCEPT ![a] = p]
    BY <2>2 DEF Goto
  <2>4. p.r = q.r
    OBVIOUS
  <2> HIDE DEF p
  <2>5. ASSUME NEW b \in Accounts, NEW o, o = request'[b], o # Idle
        PROVE  Sound(o.r)'
    <3>1. Sound(o.r)
      <4>1. CASE b = a
        <5>1. o = p
          BY <2>3, <2>5, <4>1 DEF IInv, RequestInv
        <5> QED
          BY <1>4, <1>6, <2>4, <5>1 DEF Sound
      <4>2. CASE b # a
        <5>1. o = request[b]
          BY <2>3, <2>5, <4>2 DEF IInv, RequestInv
        <5> QED
          BY <2>5, <5>1 DEF WholeInv, SoundInv
      <4> QED
        BY <4>1, <4>2
    <3> QED
      BY <1>2, <3>1, SoundStable
  <2>6. ASSUME NEW n \in DOMAIN sent', NEW o, o = sent'[n], o.via = "api"
        PROVE  Sound(o.r)' /\ o.category = ""
    BY <1>1, <2>6, QuietSound DEF IInv, WholeInv
  <2>7. SoundInv'
    BY <2>5, <2>6 DEF SoundInv
  <2> QED
    BY <2>1, <2>7 DEF WholeInv
<1> QED
  BY <1>5, <1>6

LEMMA ResolveDataWhole ==
    ASSUME IInv, WholeInv, NEW a \in Accounts, ResolveData(a)
    PROVE  WholeInv'
<1>1. sent' = sent /\ known' = known /\ published' = published /\ noticed' = NoNotice
  BY DEF ResolveData
<1> PICK q : q = request[a]
  OBVIOUS
<1>2. q # Idle
  BY DEF ResolveData, Idle
<1>3. Goto(a, q, "upload") \/ \E err : Finish(a, q, err, NoId)
  BY DEF ResolveData
<1>4. Carried
  BY <1>2, <1>3, GotoCarries, FinishCarries DEF IInv
<1> QED
  BY <1>1, <1>4, QuietKeeps

LEMMA UploadMediaWhole ==
    ASSUME IInv, WholeInv, NEW a \in Accounts, UploadMedia(a)
    PROVE  WholeInv'
<1>1. sent' = sent /\ known' = known /\ published' = published /\ noticed' = NoNotice
  BY DEF UploadMedia
<1> PICK q : q = request[a]
  OBVIOUS
<1>2. q # Idle
  BY DEF UploadMedia, Idle
<1>3. Goto(a, q, "send") \/ Finish(a, q, "other", NoId)
  BY DEF UploadMedia
<1>4. Carried
  BY <1>2, <1>3, GotoCarries, FinishCarries DEF IInv
<1> QED
  BY <1>1, <1>4, QuietKeeps

LEMMA AcknowledgeWhole ==
    ASSUME IInv, WholeInv, NEW a \in Accounts, Acknowledge(a)
    PROVE  WholeInv'
<1>1. sent' = sent /\ known' = known /\ published' = published /\ noticed' = NoNotice
  BY DEF Acknowledge
<1> PICK q : q = request[a]
  OBVIOUS
<1>2. \E err : Finish(a, q, err, q.out)
  BY DEF Acknowledge
<1>3. Carried
  BY <1>2, FinishCarries DEF IInv
<1> QED
  BY <1>1, <1>3, QuietKeeps

LEMMA SendWhole ==
    ASSUME IInv, WholeInv, NEW a \in Accounts, Send(a)
    PROVE  WholeInv'
<1>1. known' = known /\ published' = published /\ noticed' = NoNotice
  BY DEF Send
<1> PICK q : q = request[a]
  OBVIOUS
<1> PICK k : k = Len(sent) + 1
  OBVIOUS
<1>2. q # Idle /\ q = request[a] /\ q.pc = "send"
  BY DEF Send, Idle
<1>3. UnderWay(a, q)
  BY <1>2 DEF IInv, RequestInv
<1> PICK m : m = [what |-> What(q.r), via |-> "api", by |-> a, to |-> Target(q.r),
                  category |-> "", content |-> Outgoing(a, q.r), r |-> q.r,
                  about |-> q.about]
  OBVIOUS
<1>4. m.r = q.r /\ m.category = ""
  OBVIOUS
<1>5. Sound(m.r)
  BY <1>2, <1>4 DEF WholeInv, SoundInv
<1>6. /\ sent' = sent \/ sent' = Append(sent, m)
      /\ \/ \E err, out : Finish(a, q, err, out)
         \/ Waits(a, k)
         \/ request' = [request EXCEPT ![a].pc = "ack"]
  BY SendCases DEF Leaves
<1>7. Grown
  BY <1>6, SentGrows DEF IInv, SentInv
<1>8. Carried
  <2>1. CASE \E err, out : Finish(a, q, err, out)
    BY <2>1, FinishCarries DEF IInv
  <2>2. CASE Waits(a, k)
    <3> DEFINE p == [pc |-> "ack", r |-> q.r, about |-> q.about, out |-> k]
    <3>1. request' = [request EXCEPT ![a] = p]
      BY <1>2, <1>3, <2>2, AckSent DEF IInv, RequestInv
    <3>2. p.r = q.r
      OBVIOUS
    <3> HIDE DEF p
    <3> QED
      BY <1>2, <3>1, <3>2, CarriedOn DEF IInv
  <2>3. CASE request' = [request EXCEPT ![a].pc = "ack"]
    <3> DEFINE p == [pc |-> "ack", r |-> q.r, about |-> q.about, out |-> NoId]
    <3>1. request' = [request EXCEPT ![a] = p]
      BY <1>2, <1>3, <2>3, AckLost DEF IInv, RequestInv
    <3>2. p.r = q.r
      OBVIOUS
    <3> HIDE DEF p
    <3> QED
      BY <1>2, <3>1, <3>2, CarriedOn DEF IInv
  <2> QED
    BY <1>6, <2>1, <2>2, <2>3
<1> QED
  BY <1>1, <1>4, <1>5, <1>6, <1>7, <1>8, HandlerKeeps

LEMMA PhoneSendsWhole ==
    ASSUME IInv, WholeInv, PhoneSends
    PROVE  WholeInv'
<1>1. /\ known' = known /\ request' = request /\ published' = published /\ noticed' = NoNotice
      /\ \E f \in FromPhones :
           sent' = Append(sent, [what |-> "message", via |-> "phone", by |-> f.author, to |-> f.to,
                                 category |-> f.category, content |-> f.content,
                                 r |-> [kind |-> "none"], about |-> NoId])
  BY DEF PhoneSends
<1>2. PICK m : sent' = Append(sent, m) /\ m.via = "phone"
  BY <1>1
<1>3. Grown
  BY <1>2, SentGrows DEF IInv, SentInv
<1>4. Carried
  BY <1>1 DEF Carried
<1> QED
  BY <1>1, <1>2, <1>3, <1>4, HandlerKeeps

\* What comes in is told as it was asked.
LEMMA DeliverWhole ==
    ASSUME IInv, SoundInv, NEW a \in Accounts, NEW i \in DOMAIN sent, NEW m, m = sent[i],
           m.via = "api", m.what = "message", NEW server \in {"pn", "lid"}, NEW alt \in BOOLEAN,
           NEW knows, NoUser \notin knows, NEW own,
           NEW s, s = Project(Raw(a, i, server, alt), own, knows)
    PROVE  Told(s, m.r)
<1> PICK info : info = Info(a, i, server, alt)
  OBVIOUS
<1> DEFINE evt == [is |-> "Message", info |-> info, content |-> m.content]
<1>1. SentOK(m)
  BY DEF IInv, SentInv
<1>2. IsJID(info.chat) /\ IsJID(info.sender)
  BY <1>1, InfoFacts
<1>3. Sound(m.r) /\ m.category = ""
  BY DEF SoundInv
<1>4. info.id = i /\ info.category = m.category
  BY DEF Info
<1>5. info.id # NoId
  <2>1. DOMAIN sent = 1..Len(sent)
    BY AppendFacts DEF IInv, SentInv
  <2> QED
    BY <1>4, <2>1 DEF NoId
<1>6. evt.is = "Message" /\ evt.info = info /\ evt.content = m.content
  OBVIOUS
<1>7. Raw(a, i, server, alt) = evt
  BY DEF Raw
<1> HIDE DEF evt
<1>8. s = ProjectMessage(evt, knows)
  BY <1>6, <1>7 DEF Project
<1>9. RequestOK(m.r) /\ What(m.r) = "message" /\ m.content = Outgoing(m.by, m.r)
  BY <1>1 DEF SentOK
<1>10. Told(ProjectMessage(evt, knows), m.r)
  BY <1>2, <1>3, <1>4, <1>5, <1>6, <1>9, MessageTold DEF Sound
<1> QED
  BY <1>8, <1>10

LEMMA DeliverKeeps ==
    ASSUME IInv, WholeInv, NEW a \in Accounts, NEW i \in DOMAIN sent, Deliver(a, i)
    PROVE  WholeInv'
<1>1. request' = request /\ sent' = sent /\ noticed' = NoNotice /\ i \notin DOMAIN published[a]
  BY DEF Deliver
<1>2. Grown /\ Carried
  BY <1>1 DEF Grown, Carried
<1>3. PICK knows, s :
        /\ \E server \in {"pn", "lid"}, alt \in BOOLEAN :
             s = Project(Raw(a, i, server, alt), Jid(a, "pn"), knows)
        /\ known[a] \subseteq knows /\ knows \subseteq People /\ ArrivesAs(s, a, i, knows)
        /\ known' = [known EXCEPT ![a] = knows]
        /\ published' = [published EXCEPT ![a] = @ @@ (i :> s)]
  BY DeliverFacts
<1>4. PICK server \in {"pn", "lid"}, alt \in BOOLEAN :
        s = Project(Raw(a, i, server, alt), Jid(a, "pn"), knows)
  BY <1>3
<1>5. NoUser \notin knows
  BY <1>3, ExchangeAssumption
<1>6. ToldWhole(s, i)
  <2>1. WellShaped(s)
    BY <1>4, <1>5, ProjectShape
  <2>2. ASSUME sent[i].via = "api", sent[i].what = "message"
        PROVE  Told(s, sent[i].r)
    BY <1>4, <1>5, <2>2, DeliverWhole DEF WholeInv
  <2> QED
    BY <2>1, <2>2 DEF ToldWhole
<1>7. KnownType'
  BY <1>3 DEF WholeInv, KnownType
<1>8. ASSUME NEW b \in Accounts, NEW n \in DOMAIN published'[b], NEW e, e = published'[b][n]
      PROVE  ToldWhole(e, n)'
  <2> PICK f : f = published[a]
    OBVIOUS
  <2> DEFINE told == f @@ (i :> s)
  <2>1. /\ DOMAIN told = DOMAIN f \cup {i} /\ told[i] = s
        /\ \A x \in DOMAIN f : told[x] = f[x]
    <3>1. i \notin DOMAIN f
      BY <1>1
    <3> QED
      BY <3>1 DEF @@, :>
  <2>2. published' = [published EXCEPT ![a] = told] /\ DOMAIN published = Accounts
    BY <1>3 DEF IInv, PublishedInv
  <2> HIDE DEF told
  <2>3. n \in DOMAIN sent
    BY <1>8, <2>1, <2>2 DEF IInv, PublishedInv
  <2>4. ToldWhole(e, n)
    <3>1. CASE b = a /\ n = i
      <4>1. e = s
        BY <1>8, <2>1, <2>2, <3>1
      <4> QED
        BY <1>6, <3>1, <4>1
    <3>2. CASE ~(b = a /\ n = i)
      <4>1. n \in DOMAIN published[b] /\ e = published[b][n]
        BY <1>8, <2>1, <2>2, <3>2
      <4> QED
        BY <4>1 DEF WholeInv, ToldInv
    <3> QED
      BY <3>1, <3>2
  <2> QED
    BY <1>2, <2>3, <2>4, WholeStable DEF IInv, WholeInv
<1>9. WellShaped(noticed'.events)
  BY <1>1 DEF NoNotice, WellShaped
<1>10. ToldInv'
  BY <1>8, <1>9 DEF ToldInv
<1>11. SoundInv'
  <2>1. ASSUME NEW b \in Accounts, NEW q, q = request'[b], q # Idle
        PROVE  Sound(q.r)'
    BY <1>2, <2>1, RequestsSound DEF WholeInv
  <2>2. ASSUME NEW n \in DOMAIN sent', NEW p, p = sent'[n], p.via = "api"
        PROVE  Sound(p.r)' /\ p.category = ""
    BY <1>1, <2>2, QuietSound DEF IInv, WholeInv
  <2> QED
    BY <2>1, <2>2 DEF SoundInv
<1> QED
  BY <1>7, <1>10, <1>11 DEF WholeInv

LEMMA NoticeWhole ==
    ASSUME IInv, WholeInv, NEW a \in Accounts, Notice(a)
    PROVE  WholeInv'
<1>1. request' = request /\ sent' = sent /\ known' = known /\ published' = published
  BY DEF Notice
<1>2. Grown /\ Carried
  BY <1>1 DEF Grown, Carried
<1> PICK knows : knows = known[a]
  OBVIOUS
<1>3. PICK evt \in Notices :
        noticed' = [by |-> a, events |-> Project(evt, Jid(a, "pn"), knows)]
  BY DEF Notice
<1> PICK s : s = Project(evt, Jid(a, "pn"), knows)
  OBVIOUS
<1>4. NoUser \notin knows
  BY ExchangeAssumption DEF IInv, KnownInv
<1>5. WellShaped(noticed'.events)
  <2>1. noticed'.events = s
    BY <1>3
  <2> QED
    BY <1>4, <2>1, ProjectShape
<1>6. ASSUME NEW b \in Accounts, NEW n \in DOMAIN published'[b], NEW e, e = published'[b][n]
      PROVE  ToldWhole(e, n)'
  <2>1. n \in DOMAIN sent
    BY <1>1, <1>6 DEF IInv, PublishedInv
  <2>2. ToldWhole(e, n)
    BY <1>1, <1>6 DEF WholeInv, ToldInv
  <2> QED
    BY <1>2, <2>1, <2>2, WholeStable DEF IInv, WholeInv
<1>7. ToldInv'
  BY <1>5, <1>6 DEF ToldInv
<1>8. SoundInv'
  <2>1. ASSUME NEW b \in Accounts, NEW q, q = request'[b], q # Idle
        PROVE  Sound(q.r)'
    BY <1>2, <2>1, RequestsSound DEF WholeInv
  <2>2. ASSUME NEW n \in DOMAIN sent', NEW p, p = sent'[n], p.via = "api"
        PROVE  Sound(p.r)' /\ p.category = ""
    BY <1>1, <2>2, QuietSound DEF IInv, WholeInv
  <2> QED
    BY <2>1, <2>2 DEF SoundInv
<1>9. KnownType'
  BY <1>1 DEF WholeInv, KnownType
<1> QED
  BY <1>7, <1>8, <1>9 DEF WholeInv

-----------------------------------------------------------------------------
(* What is sent is published: the theorem.                                 *)

LEMMA InitWhole == Init => WholeInv
<1> SUFFICES ASSUME Init
             PROVE  WholeInv
  OBVIOUS
<1>1. SoundInv
  BY DEF Init, SoundInv
<1>2. ToldInv
  BY Parts DEF Init, ToldInv, NoNotice, WellShaped
<1>3. KnownType
  BY ExchangeAssumption DEF Init, KnownType
<1> QED
  BY <1>1, <1>2, <1>3 DEF WholeInv

LEMMA NextWhole == IInv /\ WholeInv /\ [Next]_vars => WholeInv'
<1> SUFFICES ASSUME IInv, WholeInv, [Next]_vars
             PROVE  WholeInv'
  OBVIOUS
<1>1. CASE PhoneSends
  BY <1>1, PhoneSendsWhole
<1>2. ASSUME NEW a \in Accounts,
             Submit(a) \/ ResolveData(a) \/ UploadMedia(a) \/ Send(a) \/ Acknowledge(a) \/ Notice(a)
      PROVE  WholeInv'
  BY <1>2, SubmitWhole, ResolveDataWhole, UploadMediaWhole, SendWhole, AcknowledgeWhole, NoticeWhole
<1>3. ASSUME NEW a \in Accounts, NEW i \in DOMAIN sent, Deliver(a, i)
      PROVE  WholeInv'
  BY <1>3, DeliverKeeps
<1>4. CASE UNCHANGED vars
  <2>1. /\ known' = known /\ request' = request /\ sent' = sent /\ published' = published
        /\ noticed' = noticed
    BY <1>4 DEF vars
  <2>2. Grown /\ Carried
    BY <2>1 DEF Grown, Carried
  <2>3. ToldInv' /\ KnownType'
    BY <2>1, <2>2, ToldUnchanged
  <2>4. ASSUME NEW b \in Accounts, NEW q, q = request'[b], q # Idle
        PROVE  Sound(q.r)'
    BY <2>2, <2>4, RequestsSound DEF WholeInv
  <2>5. ASSUME NEW n \in DOMAIN sent', NEW p, p = sent'[n], p.via = "api"
        PROVE  Sound(p.r)' /\ p.category = ""
    BY <2>1, <2>5, QuietSound DEF IInv, WholeInv
  <2>6. SoundInv'
    BY <2>4, <2>5 DEF SoundInv
  <2> QED
    BY <2>3, <2>6 DEF WholeInv
<1> QED
  BY <1>1, <1>2, <1>3, <1>4 DEF Next

LEMMA WholeTypes == IInv /\ WholeInv => TypeOK
<1> SUFFICES ASSUME IInv, WholeInv
             PROVE  TypeOK
  OBVIOUS
<1>1. known \in [Accounts -> SUBSET People]
  BY DEF WholeInv, KnownType
<1>2. ASSUME NEW a \in Accounts
      PROVE  request[a].pc \in {"idle", "resolve", "upload", "send", "ack"}
  <2> PICK q : q = request[a]
    OBVIOUS
  <2>1. q = Idle \/ UnderWay(a, q)
    BY DEF IInv, RequestInv
  <2>2. q.pc \in {"idle", "resolve", "upload", "send", "ack"}
    BY <2>1 DEF UnderWay, Idle
  <2> QED
    BY <2>2
<1>3. ASSUME NEW a \in Accounts
      PROVE  DOMAIN published[a] \subseteq DOMAIN sent
  BY DEF IInv, PublishedInv
<1>4. ASSUME NEW a \in Accounts, NEW i \in DOMAIN published[a], NEW n \in DOMAIN published[a][i]
      PROVE  WellFormed(published[a][i][n])
  BY DEF WholeInv, ToldInv, ToldWhole, WellShaped
<1>5. \A n \in DOMAIN noticed.events : WellFormed(noticed.events[n])
  BY DEF WholeInv, ToldInv, WellShaped
<1> QED
  BY <1>1, <1>2, <1>3, <1>4, <1>5 DEF TypeOK

\* What one client asks the gateway to send is what the gateway tells the other:
\* kind, content, options and the key of the file, and every event has the shape of
\* its type (message.go:75-640, projectors in events/).
THEOREM SpecSentIsPublished == Spec => []SentIsPublished
<1>1. IInv /\ WholeInv => SentIsPublished
  <2> SUFFICES ASSUME IInv, WholeInv
               PROVE  SentIsPublished
    OBVIOUS
  <2>1. TypeOK
    BY WholeTypes
  <2>2. ASSUME NEW a \in Accounts, NEW i \in DOMAIN published[a],
               sent[i].via = "api", sent[i].what = "message"
        PROVE  IF Shown(sent[i].r)
               THEN published[a][i] # <<>> /\ Tells(published[a][i][1], sent[i].r)
               ELSE published[a][i] = <<>>
    <3>1. ToldWhole(published[a][i], i)
      BY DEF WholeInv, ToldInv
    <3> QED
      BY <2>2, <3>1 DEF ToldWhole, Told
  <2> QED
    BY <2>1, <2>2 DEF SentIsPublished
<1> QED
  BY <1>1, SpecIInv, InitWhole, NextWhole, PTL DEF Spec
=============================================================================

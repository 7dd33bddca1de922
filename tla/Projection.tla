----------------------------- MODULE Projection -----------------------------
(***************************************************************************)
(* What the gateway tells of a message: the projectors of                  *)
(* event/projector_message.go.  Each takes an event of whatsmeow and gives *)
(* the event to publish, or none, as a sequence of at most one.            *)
(*                                                                         *)
(* A message is the parts it carries: a function from the names of the set *)
(* fields of waE2E.Message to what they hold.  A part is a function from   *)
(* the fields that are set; so is what is published, where fields that are *)
(* empty are left out of the JSON.  Texts, times, bytes and sizes are      *)
(* tokens, "" the empty one; durations are seconds.                        *)
(***************************************************************************)
EXTENDS Identity

\* The two operators of the module TLC, defined here for the proofs: a function
\* of one value, and two functions merged, where the first one counts.
d :> e == [x \in {d} |-> e]
f @@ g == [x \in DOMAIN f \cup DOMAIN g |-> IF x \in DOMAIN f THEN f[x] ELSE g[x]]

NoId    == 0                    \* the empty string, as a message ID
Nothing == [f \in {} |-> ""]    \* no field is set

Has(part, f)       == f \in DOMAIN part
Get(part, f)       == IF Has(part, f) THEN part[f] ELSE ""
Flag(part, f)      == Has(part, f) /\ part[f]
If(cond, fields)   == IF cond THEN fields ELSE Nothing
Copy(part, fields) == [f \in {g \in fields : Get(part, g) # ""} |-> part[f]]

\* Project's envelope, or nothing to publish.
Published(type, data) == <<[eventType |-> type, data |-> data]>>
Discarded             == <<>>

Hour == 60 * 60
Days(n) == n * 24 * Hour

\* GetEphemeralExpirationString.
ExpirationString(secs) ==
    CASE secs = Days(1) -> "24h" [] secs = Days(7) -> "7d" [] secs = Days(90) -> "90d"
      [] OTHER -> "off"

-----------------------------------------------------------------------------
(* Parts that several kinds of message carry. *)

\* projectAdReferral: a card is an ad only if it says where it comes from.
AdReferral(ctx) ==
    IF ~Has(ctx, "ad") THEN Nothing
    ELSE LET ad == ctx.ad
             told == {"ctwaClid", "sourceId", "sourceUrl", "sourceType"}
             source == IF Get(ctx, "entryPointSource") # ""
                       THEN Get(ctx, "entryPointSource") ELSE Get(ctx, "conversionSource")
         IN  If(Flag(ad, "attribution") \/ \E f \in told : Get(ad, f) # "",
                [adReferral |->
                    Copy(ad, told \cup {"sourceApp", "title", "body", "thumbnailUrl", "mediaType"})
                    @@ Copy([conversionSource |-> source], {"conversionSource"})
                    @@ If(Flag(ad, "attribution"), [showAdAttribution |-> TRUE])])

ReplyTo(ctx, known) ==
    LET named  == Has(ctx, "participant")
        quoted == IF Has(ctx, "quoted") THEN Copy(ctx.quoted, {"text"}) ELSE Nothing
    IN  If(Has(ctx, "stanzaId") \/ named,
           [replyTo |->
               If(Has(ctx, "stanzaId"), [id |-> ctx.stanzaId])
               @@ If(named, [sender |->
                    ResolveSender(ParseText(ctx.participant), FALSE, EmptyJID, known)])
               @@ If(Flag(ctx, "forwarded"), [isForwarded |-> TRUE])
               @@ quoted])

\* Mutation: the expiration of a message is not told.
ContextInfoForever(ctx, known) ==
    If(Flag(ctx, "forwarded"), [isForwarded |-> TRUE])
    @@ If(Has(ctx, "mentioned") /\ ctx.mentioned # <<>>,
          [mentions |-> ResolveMentions(ctx.mentioned, known)])
    @@ ReplyTo(ctx, known)

\* projectContextInfo.
ContextInfo(ctx, known) ==
    If(Flag(ctx, "forwarded"), [isForwarded |-> TRUE])
    @@ If(Has(ctx, "mentioned") /\ ctx.mentioned # <<>>,
          [mentions |-> ResolveMentions(ctx.mentioned, known)])
    @@ ReplyTo(ctx, known)
    @@ If(Has(ctx, "expiration"),
          [ephemeralExpiration |-> ExpirationString(ctx.expiration)])
    @@ AdReferral(ctx)

Context(part, known) == IF Has(part, "context") THEN ContextInfo(part.context, known) ELSE Nothing

\* What every sub-projector of a file does: what it shows of the file, and a
\* media ID for its download.
MediaPayload(class, name, shown, part, known) ==
    [type  |-> "media",
     media |-> [mediaType |-> class,
                id |-> [class |-> class, file |-> part.file, name |-> name]]
               @@ Copy(part, shown)]
    @@ Context(part, known)
ViewOnce(part) == If(Flag(part, "viewOnce"), [viewOnce |-> TRUE])

ImagePayload(m, known) ==
    MediaPayload("image", "", {"mimeType", "fileLength", "caption", "height", "width",
                               "jpegThumbnail"}, m, known) @@ ViewOnce(m)

VideoPayload(m, known) ==
    MediaPayload("video", "", {"mimeType", "fileLength", "caption", "height", "width",
                               "jpegThumbnail", "duration"}, m, known) @@ ViewOnce(m)

AudioPayload(m, known) ==
    MediaPayload(IF Flag(m, "ptt") THEN "voice" ELSE "audio", "",
                 {"mimeType", "fileLength", "duration"}, m, known)

DocumentPayload(m, known) ==
    MediaPayload("document", Get(m, "filename"),
                 {"mimeType", "fileLength", "filename", "pageCount", "caption",
                  "jpegThumbnail", "title"}, m, known)

StickerPayload(m, known) ==
    MediaPayload("sticker", "", {"mimeType", "fileLength", "height", "width"}, m, known)

-----------------------------------------------------------------------------
(* The other kinds. *)

ReactionPayload(m) ==
    [type     |-> "reaction",
     reaction |-> [messageId |-> IF Has(m, "key") THEN m.key.id ELSE NoId,
                   emoji     |-> Get(m, "text")]]

ContactPayload(m) ==
    [type |-> "contact"] @@ If(Get(m, "vcard") # "", [contact |-> m.vcard])

ContactArrayPayload(m) ==
    LET cards == SelectSeq(m.contacts, LAMBDA c : c # "")
    IN  [type |-> "contactArray"] @@ If(cards # <<>>, [contactArray |-> cards])

TextPayload(text) == If(text # "", [type |-> "text", text |-> text])

\* projectExtendedTextMessage: a matched text alone shows nothing.
ExtendedTextPayload(m, known) ==
    LET rich == {"description", "title", "jpegThumbnail"}
    IN  TextPayload(Get(m, "text"))
        @@ If(\E f \in rich : Get(m, f) # "",
              [extendedText |-> Copy(m, rich \cup {"matchedText"})])
        @@ Context(m, known)

\* projectEditMessage: the new text of a message that has one.
EditPayload(m) ==
    LET new  == IF Has(m, "edited") THEN m.edited ELSE Nothing
        text == IF Get(new, "conversation") # "" THEN new.conversation
                ELSE IF Has(new, "extendedText") THEN Get(new.extendedText, "text") ELSE ""
    IN  TextPayload(text)
        @@ [isEdit |-> TRUE,
            edit   |-> If(Has(m, "key"), [originalMessageId |-> m.key.id])]

\* projectPinInChatMessage; the duration is that of the context of the message.
PinPayload(m, seconds) ==
    If(Has(m, "key"),
       [type |-> "pinInChat",
        pin  |-> [messageId  |-> m.key.id,
                  pinned     |-> m.pinned,
                  expiration |-> CASE seconds = Days(1)  -> "24h"
                                   [] seconds = Days(7)  -> "7d"
                                   [] seconds = Days(30) -> "30d"
                                   [] OTHER -> "off"]])

-----------------------------------------------------------------------------
(* The message as a whole. *)

\* The first of these that is set says what the message is.
ContentOrder == <<"conversation", "image", "video", "audio", "document", "sticker", "reaction",
                  "contact", "contacts", "extendedText", "pin", "protocol", "senderKey">>

Kind(content) ==
    LET present == {i \in DOMAIN ContentOrder :
                      /\ Has(content, ContentOrder[i])
                      /\ ContentOrder[i] = "conversation" => content.conversation # ""}
    IN  IF present = {} THEN "none"
        ELSE ContentOrder[CHOOSE i \in present : \A j \in present : i <= j]

Payload(content, known) ==
    LET kind == Kind(content)
    IN  CASE kind = "conversation" -> TextPayload(content.conversation)
          [] kind = "image"        -> ImagePayload(content.image, known)
          [] kind = "video"        -> VideoPayload(content.video, known)
          [] kind = "audio"        -> AudioPayload(content.audio, known)
          [] kind = "document"     -> DocumentPayload(content.document, known)
          [] kind = "sticker"      -> StickerPayload(content.sticker, known)
          [] kind = "reaction"     -> ReactionPayload(content.reaction)
          [] kind = "contact"      -> ContactPayload(content.contact)
          [] kind = "contacts"     -> ContactArrayPayload(content.contacts)
          [] kind = "extendedText" -> ExtendedTextPayload(content.extendedText, known)
          [] kind = "pin"          ->
                PinPayload(content.pin, IF Has(content, "addOnSeconds")
                                        THEN content.addOnSeconds ELSE 0)
          [] kind = "protocol" /\ content.protocol.type = "edit" ->
                EditPayload(content.protocol)
          [] OTHER -> Nothing

\* hasContent.
ContentFields == {"text", "media", "reaction", "contact", "contactArray", "extendedText",
                  "pin", "edit"}
HasContent(result) == \E f \in ContentFields : Has(result, f)

\* The sender of a message, the chat, and whether it is a status.
Sender(info, known)   == ResolveSender(info.sender, info.fromMe, info.senderAlt, known)
Status(chat)          == If(chat.server = "status", [isStatus |-> TRUE])
Origin(info, known)   == [chatId |-> ProjectChatID(info.chat, known),
                          sender |-> Sender(info, known)]
OriginAlone(info, known) == Origin([info EXCEPT !.senderAlt = EmptyJID], known)

\* A revoke without a key ID is a nil dereference; whatsmeow recovers it.
ProjectMessageDeleteForAll(evt, known) ==
    LET revoke == evt.content.protocol
    IN  IF ~Has(revoke, "key") THEN Discarded
        ELSE Published("message_delete",
                [id |-> revoke.key.id, isDeletedForAll |-> TRUE]
                @@ Origin(evt.info, known) @@ Status(evt.info.chat))

ProjectMessageEphemeralSetting(evt, known) ==
    LET setting == evt.content.protocol
    IN  Published("chat_setting",
            [id          |-> ProjectChatID(evt.info.chat, known),
             settingType |-> "ephemeral",
             ephemeral   |-> [expiration |-> ExpirationString(IF Has(setting, "expiration")
                                                             THEN setting.expiration ELSE 0),
                              sender |-> Sender(evt.info, known)]])

\* ProjectMessage.
ProjectMessage(evt, known) ==
    LET info == evt.info
        kind == Kind(evt.content)
        Protocol(type) == kind = "protocol" /\ evt.content.protocol.type = type
        result == Payload(evt.content, known)
                  @@ [id |-> info.id, isGroup |-> info.isGroup,
                      type |-> IF info.type # "" THEN info.type ELSE "unknown"]
                  @@ Origin(info, known) @@ Status(info.chat)
    IN  IF info.category = "peer" \/ info.id = NoId THEN Discarded
        ELSE CASE Protocol("revoke")    -> ProjectMessageDeleteForAll(evt, known)
               [] Protocol("ephemeral") -> ProjectMessageEphemeralSetting(evt, known)
               [] OTHER -> IF kind = "senderKey" \/ ~HasContent(result) THEN Discarded
                           ELSE Published("message", result)

-----------------------------------------------------------------------------
(* Receipts, and what the devices of an account tell each other. *)

\* mapReceiptType leaves the types the code acts on apart.
ReceiptTypes == {"delivered", "read", "played", "readSelf", "sender", "retry", "serverError",
                 "inactive", "peerMsg", "historySync"}

ProjectReceipt(evt, known) ==
    IF evt.type = "peerMsg" THEN Discarded
    ELSE Published("message_read",
            [isGroup |-> evt.info.isGroup, receiptType |-> evt.type]
            @@ Origin(evt.info, known)
            @@ If(evt.messageSender.user # NoUser,
                  [messageSender |-> ResolveSender(evt.messageSender, FALSE, EmptyJID, known)])
            @@ If(evt.messageIds # <<>>, [messageIds |-> evt.messageIds]))

\* No alternative address comes with these two.
ProjectMessageDeleteForMe(evt, known) ==
    Published("message_delete",
        [id |-> evt.id, isDeletedForMe |-> TRUE]
        @@ OriginAlone(evt.info, known) @@ Status(evt.info.chat))

ProjectStar(evt, known) ==
    Published("message_star",
        [id |-> evt.id, isStarred |-> evt.starred] @@ OriginAlone(evt.info, known))
=============================================================================

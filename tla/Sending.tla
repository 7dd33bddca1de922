------------------------------- MODULE Sending -------------------------------
(***************************************************************************)
(* From a request of the message API to what whatsmeow is asked to send:   *)
(* handler/message.go and whatsapp/message.go, without their waiting and   *)
(* their errors, which are steps of the module Exchange.                   *)
(*                                                                         *)
(* A request is a function from the fields the client wrote; a message is  *)
(* as in Projection.                                                       *)
(***************************************************************************)
EXTENDS Projection

-----------------------------------------------------------------------------
(* Requests. *)

MediaKinds  == {"image", "video", "audio", "voice", "document", "sticker"}
\* To the people of a chat, to the other devices of the account, a receipt.
SendKinds   == MediaKinds \cup {"text", "link", "contact", "location", "reaction", "edit"}
ChatKinds   == {"delete", "pin", "star", "deleteForMe", "read"}
PatchKinds  == {"star", "deleteForMe"}

WrittenField(r, f) == IF Has(r, f) THEN r[f] ELSE Unwritten
Expirations        == {"", "off", "24h", "7d", "90d"}
OptionalWritten(r, f) == Has(r, f) => Recipient(r[f])

\* Decode: the tags of the request types.
Valid(r) ==
    /\ r.kind \in SendKinds => Recipient(WrittenField(r, "to"))
    /\ r.kind \in ChatKinds => Recipient(WrittenField(r, "chatId"))
    /\ r.kind \in {"delete", "pin", "star", "read"} => Recipient(WrittenField(r, "senderId"))
    /\ OptionalWritten(r, "senderId")
    /\ OptionalWritten(r, "replyToSenderId")
    /\ Get(r, "ephemeralExpiration") \in Expirations
    /\ r.kind \in {"text", "link", "edit"} => Get(r, "text") # ""
    /\ r.kind = "link" => Get(r, "url") # ""
    /\ r.kind = "document" => Get(r, "filename") # ""
    /\ r.kind = "contact" => Get(r, "displayName") # "" \/ Get(r, "vcard") # ""
    /\ r.kind = "location" => r.onEarth
    /\ r.kind = "read" => r.receiptType \in {"delivered", "sender", "read", "played"}

\* resolveData: inline data or a URL, one of them; inline data may be no base64.
OneSource(r) == (Get(r, "data") # "") # (Get(r, "dataUrl") # "")
Decodes(r)   == Get(r, "data") # "garbled"
File(r)      == IF Get(r, "data") # "" THEN r.data ELSE r.dataUrl

-----------------------------------------------------------------------------
(* What whatsmeow builds, as the code calls it. *)

\* Two users are one if both are phone numbers, or both LIDs.
SameUser(j, k) == j.user = k.user /\ j.server = k.server
Own(me, j)     == SameUser(j, Jid(me, "pn")) \/ SameUser(j, Jid(me, "lid"))

\* BuildMessageKey: without a sender a message is one's own.
BuildMessageKey(me, chat, sender, id) ==
    LET mine == sender = EmptyJID \/ Own(me, sender)
    IN  [remote |-> chat, id |-> id, fromMe |-> mine]
        @@ If(~mine /\ chat.server \notin {"pn", "lid"}, [participant |-> sender])

BuildReaction(me, chat, sender, id, text) ==
    [reaction |-> [key |-> BuildMessageKey(me, chat, sender, id), text |-> text]]

BuildRevoke(me, chat, sender, id) ==
    [protocol |-> [type |-> "revoke", key |-> BuildMessageKey(me, chat, sender, id)]]

\* Upload: the class decides the key a download needs.
Upload(file, class) == [bytes |-> file, class |-> class]

\* The class of the download of a media type (buildDownloadableMessage).
DownloadClass(mediaType) ==
    CASE mediaType \in {"image", "sticker"} -> "image"
      [] mediaType \in {"audio", "voice"}   -> "audio"
      [] OTHER -> mediaType

-----------------------------------------------------------------------------
(* The context of a message. *)

\* parseEphemeralExpiration.
ParseEphemeralExpiration(text) ==
    CASE text = "24h" -> Days(1) [] text = "7d" -> Days(7) [] text = "90d" -> Days(90)
      [] OTHER -> 0

\* buildContextInfo: who is answered is passed on as it was written, and is
\* the chat when the client does not say.
BuildContextInfo(chat, r) ==
    LET named    == IF Has(r, "mentions") THEN r.mentions ELSE <<>>
        mentions == [i \in DOMAIN named |-> FormatRecipient(named[i])]
        seconds  == ParseEphemeralExpiration(Get(r, "ephemeralExpiration"))
    IN  If(Has(r, "replyTo"),
           [stanzaId    |-> r.replyTo,
            quoted      |-> Nothing,
            participant |-> IF Has(r, "replyToSenderId") THEN r.replyToSenderId
                            ELSE AsWritten(chat)])
        @@ If(mentions # <<>>, [mentioned |-> mentions])
        @@ If(Flag(r, "isForwarded"), [forwarded |-> TRUE])
        @@ If(seconds > 0, [expiration |-> seconds])

\* A context that holds nothing is left out.
Contextual(chat, r) ==
    LET info == BuildContextInfo(chat, r)
    IN  If(info # Nothing, [context |-> info])

\* A text alone is a conversation, a text with a context an extended text.
Text(chat, r) ==
    LET context == Contextual(chat, r)
    IN  IF context = Nothing THEN [conversation |-> r.text]
        ELSE [extendedText |-> [text |-> r.text] @@ context]

-----------------------------------------------------------------------------
(* One operator per method of MessageService. *)

SendText(r)  == Text(FormatRecipient(r.to), r)

SendLink(r) ==
    [extendedText |-> [text |-> r.text, matchedText |-> r.url]
                      @@ Copy(r, {"title", "description", "jpegThumbnail"})
                      @@ Contextual(FormatRecipient(r.to), r)]

\* The fields that all files have.
FilePart(r, class, mimeType) ==
    [file |-> Upload(File(r), class), fileLength |-> "size", mimeType |-> mimeType]
    @@ Contextual(FormatRecipient(r.to), r)
Captioned(r) == Copy(r, {"caption"})
Once(r)      == [viewOnce |-> Flag(r, "viewOnce")]

SendImage(r) == [image |-> FilePart(r, "image", Get(r, "mimeType")) @@ Captioned(r) @@ Once(r)]
SendVideo(r) == [video |-> FilePart(r, "video", Get(r, "mimeType")) @@ Captioned(r) @@ Once(r)]
SendAudio(r) == [audio |-> FilePart(r, "audio", Get(r, "mimeType")) @@ Once(r)]

SendVoice(r) ==
    [audio |-> FilePart(r, "audio", "audio/ogg") @@ [ptt |-> TRUE] @@ Once(r)]

\* The MIME type follows the extension; there is no flag for one view.
SendDocument(r) ==
    [document |-> FilePart(r, "document", "by extension") @@ Captioned(r)
                  @@ [title |-> r.filename, filename |-> r.filename]]

SendSticker(r) ==
    [sticker |-> FilePart(r, "image", "image/webp") @@ [animated |-> Flag(r, "isAnimated")]]

SendContact(r) ==
    [contact |-> Copy(r, {"displayName", "vcard"}) @@ Contextual(FormatRecipient(r.to), r)]

SendLocation(r) ==
    [location |-> Copy(r, {"name", "address", "url"})
                  @@ Contextual(FormatRecipient(r.to), [f \in DOMAIN r \cap {"ephemeralExpiration"} |-> r[f]])]

\* Mutation: the sender of the message is left out of the key.
SendReactionUnsigned(me, r) ==
    BuildReaction(me, FormatRecipient(r.to), EmptyJID, r.messageId, r.reaction)

SendReaction(me, r) ==
    BuildReaction(me, FormatRecipient(r.to),
                  IF Has(r, "senderId") THEN FormatRecipient(r.senderId) ELSE EmptyJID,
                  r.messageId, r.reaction)

\* EditMessage: RemoteJID is `to' as it was written.
EditMessage(r) ==
    [protocol |-> [type   |-> "edit",
                   key    |-> [remote |-> Jid(r.to.user, r.to.server), fromMe |-> TRUE,
                               id |-> r.messageId],
                   edited |-> Text(FormatRecipient(r.to), r)]]

DeleteMessage(me, r) ==
    BuildRevoke(me, ParseJID(r.chatId), FormatRecipient(r.senderId), r.messageId)

\* PinMessage: a duration nobody offers is none.
PinMessage(me, r) ==
    [pin |-> [key    |-> BuildMessageKey(me, ParseJID(r.chatId), FormatRecipient(r.senderId),
                                         r.messageId),
              pinned |-> r.pinned],
     addOnSeconds |-> IF ~r.pinned THEN 0
                      ELSE CASE Get(r, "pinExpiration") = "24h" -> Days(1)
                             [] Get(r, "pinExpiration") = "7d"  -> Days(7)
                             [] Get(r, "pinExpiration") = "30d" -> Days(30)
                             [] OTHER -> 0]

\* MarkAsRead.
ReadReceipt(r) ==
    [chat |-> ParseJID(r.chatId), sender |-> FormatRecipient(r.senderId),
     ids |-> <<r.messageId>>, type |-> r.receiptType]

-----------------------------------------------------------------------------
(* Patches of the app state, which the account's own devices apply.  The   *)
(* sender is "0", no JID, where the chat says who it is.                   *)

Patch(r, sender, fromMe) ==
    [chat |-> r.chatId, id |-> r.messageId, sender |-> sender, fromMe |-> fromMe]

\* buildStar.
BuildStar(r, sender, isMe) == [patch |-> "star", starred |-> r.starred] @@ Patch(r, sender, isMe)

\* Only the phone number makes a sender the account itself.
StarMessage(me, r) ==
    LET sender == FormatRecipient(r.senderId)
        isMe   == SameUser(sender, Jid(me, "pn"))
    IN  BuildStar(r, IF ParseJID(r.chatId).server = "group" THEN sender ELSE EmptyJID, isMe)

\* buildDeleteForMe.
BuildDeleteForMe(r, sender) ==
    [patch |-> "deleteForMe"] @@ Patch(r, sender, Flag(r, "isFromMe"))

NeedsSender(r) == ParseJID(r.chatId).server = "group" /\ ~Flag(r, "isFromMe")

\* DeleteMessageForMe.
DeleteMessageForMe(r) ==
    BuildDeleteForMe(r, IF NeedsSender(r) THEN FormatRecipient(r.senderId) ELSE EmptyJID)

-----------------------------------------------------------------------------
(* All of them. *)

\* Where a request goes to.
Target(r) == IF r.kind \in SendKinds THEN FormatRecipient(r.to) ELSE ParseJID(r.chatId)

\* The refusals of the service before it sends anything.
Refused(r) ==
    \/ r.kind \in ChatKinds /\ ~ParsesAsJID(r.chatId)
    \/ r.kind = "deleteForMe" /\ NeedsSender(r) /\ ~Has(r, "senderId")
    \/ r.kind = "link" /\ Get(r, "jpegThumbnail") = "garbled"

Outgoing(me, r) ==
    CASE r.kind = "text"     -> SendText(r)
      [] r.kind = "link"     -> SendLink(r)
      [] r.kind = "image"    -> SendImage(r)
      [] r.kind = "video"    -> SendVideo(r)
      [] r.kind = "audio"    -> SendAudio(r)
      [] r.kind = "voice"    -> SendVoice(r)
      [] r.kind = "document" -> SendDocument(r)
      [] r.kind = "sticker"  -> SendSticker(r)
      [] r.kind = "contact"  -> SendContact(r)
      [] r.kind = "location" -> SendLocation(r)
      [] r.kind = "reaction" -> SendReaction(me, r)
      [] r.kind = "edit"     -> EditMessage(r)
      [] r.kind = "delete"   -> DeleteMessage(me, r)
      [] r.kind = "pin"      -> PinMessage(me, r)
      [] r.kind = "read"     -> ReadReceipt(r)
      [] r.kind = "star"     -> StarMessage(me, r)
      [] r.kind = "deleteForMe" -> DeleteMessageForMe(r)
=============================================================================

---------------------------- MODULE AccountEvents ----------------------------
(***************************************************************************)
(* Everything else the gateway publishes: the projectors of chats, groups, *)
(* calls, newsletters, contacts and sessions, and Project, which picks the *)
(* projector of an event.  An event of whatsmeow is a record with its type *)
(* in `is' (see Raw); an optional field is one that may be missing.        *)
(***************************************************************************)
EXTENDS Projection

-----------------------------------------------------------------------------
(* Chat settings, told only when they change, not when they are synced. *)

ChatSetting(evt, type, value, known) ==
    IF evt.fromFullSync THEN Discarded
    ELSE Published("chat_setting",
            [id |-> ProjectChatID(evt.jid, known), settingType |-> type] @@ (type :> value))

ProjectMute(evt, known) ==
    ChatSetting(evt, "mute",
        [isMuted |-> evt.muted] @@ If(evt.muteEnd > 0, [muteEndTime |-> evt.muteEnd]), known)

ProjectPin(evt, known)            == ChatSetting(evt, "pin", [isPinned |-> evt.pinned], known)
ProjectArchive(evt, known)        == ChatSetting(evt, "archive", [isArchived |-> evt.archived], known)
ProjectMarkChatAsRead(evt, known) == ChatSetting(evt, "read", [isRead |-> evt.read], known)

-----------------------------------------------------------------------------
(* Chats and people. *)

ProjectChatPresence(evt, known) ==
    Published("chat_presence",
        [id     |-> ProjectChatID(evt.info.chat, known),
         sender |-> Sender(evt.info, known),
         state  |-> CASE evt.state = "composing" /\ evt.audio -> "recording"
                      [] evt.state = "composing" /\ ~evt.audio -> "typing"
                      [] OTHER -> "paused"])

Person(j, known) == Resolve(j, EmptyJID, known)

\* An address that is empty resolves to an empty ID.
AboutPerson(type, j, data, known) ==
    IF j = EmptyJID THEN Discarded
    ELSE Published(type, [user |-> Person(j, known)] @@ data)

ProjectPushName(evt, known)  == AboutPerson("chat_push_name", evt.jid, [pushName |-> evt.name], known)
ProjectUserAbout(evt, known) == AboutPerson("chat_status", evt.jid, [status |-> evt.status], known)
ProjectBusinessName(evt)     == Discarded

\* own is Store.ID, without a user when nobody is logged in.
ProjectPicture(evt, own, known) ==
    IF evt.jid = EmptyJID THEN Discarded
    ELSE Published("chat_picture",
            [id        |-> ProjectChatID(evt.jid, known),
             sender    |-> ResolveSender(evt.author,
                              own.user # NoUser /\ evt.author.user = own.user
                                                /\ evt.author.server = own.server,
                              EmptyJID, known),
             pictureId |-> evt.pictureId])

ProjectPresence(evt, known) ==
    Published("user_presence",
        [user   |-> Person(evt.jid, known),
         status |-> IF evt.unavailable THEN "unavailable" ELSE "available"]
        @@ Copy(evt, {"lastSeen"}))

\* ProjectContact.
ProjectContact(evt, known) ==
    IF evt.fromFullSync THEN Discarded
    ELSE Published("contact",
            [contact |-> Person(evt.jid, known), fullName |-> evt.fullName,
             inPhoneAddressBook |-> evt.saved])

-----------------------------------------------------------------------------
(* Groups. *)

\* resolveSenderJID; evt.by is Sender and SenderPN, each EmptyJID when nil.
ResolveSenderJID(first, second) == IF first # EmptyJID THEN first ELSE second

Author(by, known) ==
    ResolveSender(ResolveSenderJID(by.sender, by.senderPN), FALSE,
                  ResolveSenderJID(by.senderPN, by.sender), known)

\* projectGroupEphemeral.
ProjectGroupEphemeral(evt, known) ==
    Published("chat_setting",
        [id          |-> ProjectChatID(evt.jid, known),
         settingType |-> "ephemeral",
         ephemeral   |-> [expiration |-> ExpirationString(evt.changes.ephemeral),
                          sender     |-> Author(evt.by, known)]])

\* Mutation: people who are demoted are not told.
MemberFieldsShort == {"leave", "join", "promote"}

MemberFields == {"leave", "join", "promote", "demote"}
PlainFields  == {"description", "name", "locked", "announce", "membershipApproval", "delete",
                 "suspended", "link", "unlink", "joinReason"}

\* The changes of a notification that are told as they are, and the members
\* it names, resolved.
Changes(changes, known) ==
    [f \in DOMAIN changes \cap PlainFields  |-> changes[f]]
    @@ [f \in DOMAIN changes \cap MemberFields |-> ResolveMembers(changes[f], known)]

\* ProjectGroupInfo: a change of the timer hides all others.
ProjectGroupInfo(evt, known) ==
    IF evt.jid = EmptyJID THEN Discarded
    ELSE IF Has(evt.changes, "ephemeral") THEN ProjectGroupEphemeral(evt, known)
    ELSE Published("group",
            [id |-> ProjectChatID(evt.jid, known), sender |-> Author(evt.by, known)]
            @@ Changes(evt.changes, known))

\* ProjectJoinedGroup: the account itself has joined.
ProjectJoinedGroup(evt, own, known) ==
    IF evt.jid = EmptyJID THEN Discarded
    ELSE Published("group",
            [id |-> ProjectChatID(evt.jid, known)]
            @@ If(ResolveSenderJID(evt.by.sender, evt.by.senderPN) # EmptyJID,
                  [sender |-> Author(evt.by, known)])
            @@ Copy(evt, {"joinReason", "groupType"})
            @@ If(own.user # NoUser, [join |-> <<Resolve(own, Jid(own.user, "lid"), known)>>])
            @@ If(evt.isParent, [isCommunity |-> TRUE])
            @@ If(evt.parent # EmptyJID, [communityId |-> evt.parent])
            @@ If(evt.isDefaultSubGroup, [isAnnouncementGroup |-> TRUE]))

-----------------------------------------------------------------------------
(* Calls, newsletters and sessions. *)

\* ProjectCallOffer: a call in a group belongs to the group's chat.
ProjectCallOffer(evt, known) ==
    LET caller  == Person(evt.creator, known)
        isGroup == evt.group # EmptyJID
    IN  Published("call_offer",
            [id |-> evt.id, caller |-> caller, isGroup |-> isGroup, isVideo |-> evt.video,
             chatId |-> IF isGroup THEN ProjectChatID(evt.group, known) ELSE caller.id])

ProjectCallTerminated(evt, known) ==
    Published("call_terminate",
        [id     |-> evt.id, caller |-> Person(evt.creator, known),
         reason |-> CASE evt.reason = "rejected_elsewhere" -> "rejected"
                      [] evt.reason \in {"accepted_elsewhere", "group_call_ended"} -> "ended"
                      [] OTHER -> "unknown"])

ProjectCallAccepted(evt, known) ==
    Published("call_accept", [id |-> evt.id, caller |-> Person(evt.creator, known)])

\* Join, leave and mute.
ProjectNewsletter(evt, action) ==
    Published("newsletter",
        [id |-> evt.jid, action |-> action] @@ Copy(evt, {"name", "role", "mute"}))

ProjectLoggedOut(evt)   == Published("logged_out", [reason |-> evt.reason])
ProjectPairSuccess(evt) == Published("logged_in", [deviceId |-> evt.jid])
ProjectPairError(evt)   == Published("login_error", [id |-> evt.jid, error |-> evt.error])

-----------------------------------------------------------------------------
(* Project; history sync events are told by the module HistorySync. *)
Project(evt, own, known) ==
    CASE evt.is = "Message"              -> ProjectMessage(evt, known)
      [] evt.is = "Receipt"              -> ProjectReceipt(evt, known)
      [] evt.is = "DeleteForMe"          -> ProjectMessageDeleteForMe(evt, known)
      [] evt.is = "Star"                 -> ProjectStar(evt, known)
      [] evt.is = "PairSuccess"          -> ProjectPairSuccess(evt)
      [] evt.is = "PairError"            -> ProjectPairError(evt)
      [] evt.is = "LoggedOut"            -> ProjectLoggedOut(evt)
      [] evt.is = "Mute"                 -> ProjectMute(evt, known)
      [] evt.is = "Pin"                  -> ProjectPin(evt, known)
      [] evt.is = "Archive"              -> ProjectArchive(evt, known)
      [] evt.is = "MarkChatAsRead"       -> ProjectMarkChatAsRead(evt, known)
      [] evt.is = "ChatPresence"         -> ProjectChatPresence(evt, known)
      [] evt.is = "PushName"             -> ProjectPushName(evt, known)
      [] evt.is = "BusinessName"         -> ProjectBusinessName(evt)
      [] evt.is = "Picture"              -> ProjectPicture(evt, own, known)
      [] evt.is = "Presence"             -> ProjectPresence(evt, known)
      [] evt.is = "UserAbout"            -> ProjectUserAbout(evt, known)
      [] evt.is = "GroupInfo"            -> ProjectGroupInfo(evt, known)
      [] evt.is = "JoinedGroup"          -> ProjectJoinedGroup(evt, own, known)
      [] evt.is = "NewsletterJoin"       -> ProjectNewsletter(evt, "join")
      [] evt.is = "NewsletterLeave"      -> ProjectNewsletter(evt, "leave")
      [] evt.is = "NewsletterMuteChange" -> ProjectNewsletter(evt, "mute")
      [] evt.is = "Contact"              -> ProjectContact(evt, known)
      [] evt.is = "CallOffer"            -> ProjectCallOffer(evt, known)
      [] evt.is = "CallTerminate"        -> ProjectCallTerminated(evt, known)
      [] evt.is = "CallAccept"           -> ProjectCallAccepted(evt, known)
      [] OTHER                           -> Discarded

-----------------------------------------------------------------------------
(* The types of eventData: the JSON fields that an event may have. *)

MessageFields ==
    [message |-> {"id", "chatId", "sender", "isGroup", "type", "text", "media", "reaction",
                  "replyTo", "adReferral", "contact", "contactArray", "extendedText", "pin",
                  "edit", "mentions", "isEdit", "isForwarded", "viewOnce", "isStatus",
                  "ephemeralExpiration"},
     message_read   |-> {"chatId", "sender", "messageSender", "isGroup", "messageIds", "receiptType"},
     message_delete |-> {"id", "chatId", "sender", "isDeletedForAll", "isDeletedForMe", "isStatus"},
     message_star   |-> {"id", "chatId", "sender", "isStarred"}]

ChatFields ==
    [chat_setting   |-> {"id", "settingType", "mute", "pin", "archive", "read", "ephemeral"},
     chat_presence  |-> {"id", "sender", "state"},
     chat_push_name |-> {"user", "pushName"},
     chat_status    |-> {"user", "status"},
     chat_picture   |-> {"id", "sender", "pictureId"}]

GroupFields ==
    [group |-> {"id", "sender", "groupType", "isCommunity", "communityId", "isAnnouncementGroup"}
               \cup MemberFields \cup PlainFields]

OtherFields ==
    [newsletter     |-> {"id", "action", "name", "role", "mute"},
     contact        |-> {"contact", "fullName", "inPhoneAddressBook"},
     user_presence  |-> {"user", "status", "lastSeen"},
     call_offer     |-> {"id", "caller", "chatId", "isGroup", "isVideo"},
     call_terminate |-> {"id", "caller", "reason"},
     call_accept    |-> {"id", "caller"},
     logged_in      |-> {"deviceId"},
     logged_out     |-> {"reason"},
     login_error    |-> {"id", "error"}]

EventFields == MessageFields @@ ChatFields @@ GroupFields @@ OtherFields

\* What is published has the shape of its type.
WellFormed(e) == e.eventType \in DOMAIN EventFields /\ DOMAIN e.data \subseteq EventFields[e.eventType]
=============================================================================

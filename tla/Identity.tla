------------------------------ MODULE Identity ------------------------------
(***************************************************************************)
(* Who is who.  WhatsApp addresses a person by phone number (server "pn")  *)
(* or by a LID (server "lid"); the two belong together by a table that a   *)
(* client learns piece by piece (whatsmeow's LID store).  This module is   *)
(* what the code makes of an address: internal/identity, the helpers of    *)
(* event/resolve.go and utils.go, and the parsing of what an API client    *)
(* writes (whatsapp/jid.go, validate.go).                                  *)
(*                                                                         *)
(* A person has one name, the user of both addresses; `known' is the set   *)
(* of persons whose two addresses the LID store relates.  The text of a    *)
(* JID is the JID.                                                         *)
(***************************************************************************)
EXTENDS Naturals, Sequences

CONSTANTS
    NoUser,  \* the empty string, as the user of a JID
    Stray    \* a user nobody has: what is not digits, a `+' before them included

NoServer == ""
Servers  == {NoServer, "pn", "lid", "group", "newsletter", "status", "digits"}

\* types.JID, and NewJID.
Jid(u, s) == [user |-> u, server |-> s, device |-> 0]
EmptyJID  == Jid(NoUser, NoServer)

\* cleanJID and CleanJID.
CleanJID(j) == [j EXCEPT !.device = 0]

\* The LID store of whatsmeow.
GetPNForLID(j, known) == IF j.user \in known THEN j.user ELSE NoUser
GetLIDForPN(j, known) == IF j.user \in known THEN j.user ELSE NoUser

\* categorize: the first address of a kind that has a user counts.
Categorize(sides, j) ==
    IF j.server \in {"pn", "lid"} /\ sides[j.server] = NoUser
    THEN [sides EXCEPT ![j.server] = j.user]
    ELSE sides

Sides(j, alt, known) ==
    LET told == Categorize(Categorize([pn |-> NoUser, lid |-> NoUser], j), alt)
    IN  [pn  |-> IF told.pn = NoUser /\ told.lid # NoUser
                 THEN GetPNForLID(Jid(told.lid, "lid"), known) ELSE told.pn,
         lid |-> IF told.lid = NoUser /\ told.pn # NoUser
                 THEN GetLIDForPN(Jid(told.pn, "pn"), known) ELSE told.lid]

\* identity.Resolve: an ID is a phone number if there is one.
Resolve(j, alt, known) ==
    LET s == Sides(j, alt, known)
    IN  [id     |-> CASE s.pn # NoUser  -> Jid(s.pn, "pn")
                      [] s.pn = NoUser /\ s.lid # NoUser -> Jid(s.lid, "lid")
                      [] OTHER -> CleanJID(j),
         lid    |-> s.lid,
         phone  |-> s.pn,
         device |-> j.device]

\* identity.ResolveSender; the Sender embeds the Identity.
ResolveSender(j, isMe, alt, known) ==
    LET who == Resolve(j, alt, known)
    IN  [id |-> who.id, lid |-> who.lid, phone |-> who.phone,
         device |-> who.device, isMe |-> isMe]

\* Mutation: the address of a chat is taken as it comes.
ChatIDAsAddressed(j, known) == CleanJID(j)

\* projectChatID.
ProjectChatID(j, known) ==
    IF j.server = "lid" /\ GetPNForLID(j, known) # NoUser
    THEN Jid(GetPNForLID(j, known), "pn")
    ELSE CleanJID(j)

ResolveMention(j, known) ==
    IF j.server = "lid" /\ GetPNForLID(j, known) # NoUser
    THEN Jid(GetPNForLID(j, known), "pn")
    ELSE j

\* resolveMentions.
ResolveMentions(jids, known) == [i \in DOMAIN jids |-> ResolveMention(jids[i], known)]

\* resolveMembers.
ResolveMembers(jids, known) == [i \in DOMAIN jids |-> Resolve(jids[i], EmptyJID, known)]

(***************************************************************************)
(* What an API client writes: digits, or digits and a server, with or      *)
(* without a leading `+'.                                                  *)
(***************************************************************************)
Written(u, s)  == [user |-> u, server |-> s, plus |-> FALSE]
Unwritten      == Written(NoUser, NoServer)
AsWritten(j)   == Written(j.user, j.server)

\* validate.Recipient: digits, a server if there is an `@'.
Recipient(w) == w.user \notin {NoUser, Stray}

\* FormatRecipient: a `+' goes, a number gets the server of persons.
FormatRecipient(w) == Jid(w.user, IF w.server = NoServer THEN "pn" ELSE w.server)

\* parseJID refuses a text without a server and keeps a `+'.
ParsesAsJID(w) == w.server # NoServer
ParseJID(w)    == Jid(IF w.plus THEN Stray ELSE w.user, w.server)

\* types.ParseJID on a text that was sent as it was written: without an `@'
\* there is no user, and the digits are the server.
ParseText(w) == IF ParsesAsJID(w) THEN ParseJID(w) ELSE Jid(NoUser, "digits")
=============================================================================

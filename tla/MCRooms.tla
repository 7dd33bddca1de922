------------------------------- MODULE MCRooms -------------------------------
(***************************************************************************)
(* The account is Alice's.  Bob and she run a group that names people by   *)
(* phone number; a community with its announcement group names them by     *)
(* LID; a fourth group may be made.                                        *)
(***************************************************************************)
EXTENDS Rooms

CONSTANTS alice, bob, carol

MCPeople == {alice, bob, carol}
MCContacts == {bob}
MCGroups == {"team", "village", "news", "new"}
MCMode   == [g \in MCGroups |-> IF g = "team" THEN "pn" ELSE "lid"]

Bare(role) ==
    [exists |-> TRUE, name |-> "n", description |-> "", locked |-> "off", announce |-> "off",
     membershipApproval |-> "off", memberAddMode |-> "all", ephemeral |-> 0,
     parent |-> NoGroup, isParent |-> FALSE, isDefault |-> FALSE, role |-> role]

MCFounded ==
    [g \in MCGroups |->
       CASE g = "team"    -> Bare(alice :> "admin" @@ bob :> "admin")
         [] g = "village" -> [Bare(alice :> "admin") EXCEPT !.isParent = TRUE]
         [] g = "news"    -> [Bare(alice :> "admin" @@ bob :> "member")
                                EXCEPT !.parent = "village", !.isDefault = TRUE]
         [] OTHER         -> [Bare(Nothing) EXCEPT !.exists = FALSE]]

Team    == Written("team", "group")
Village == Written("village", "group")
New     == Written("new", "group")
Both    == <<Written(bob, NoServer), Written(carol, "lid")>>

Op(op, id) == [op |-> op, id |-> id]

MCRequests ==
    {Op("set", Team) @@ [field |-> "name", value |-> "x"],
     Op("set", Team) @@ [field |-> "ephemeral", value |-> "7d"],
     Op("set", Team) @@ [field |-> "memberAddMode", value |-> "admins"],
     Op("set", Village) @@ [field |-> "locked", value |-> "on"],
     Op("set", Village) @@ [field |-> "announce", value |-> "on"],
     Op("participants", Team) @@ [action |-> "add", participants |-> Both],
     Op("participants", Team) @@ [action |-> "demote", participants |-> Both],
     Op("participants", Team) @@ [action |-> "promote", participants |-> Both],
     Op("participants", Team) @@ [action |-> "remove", participants |-> Both],
     Op("communityParticipants", Village) @@ [action |-> "add", participants |-> Both],
     Op("requests", Team) @@ [action |-> "approve", participants |-> <<Written(carol, "pn")>>],
     [op |-> "create", participants |-> Both],
     [op |-> "createCommunity", participants |-> <<>>],
     Op("createCommunityGroup", Village) @@ [participants |-> Both],
     Op("link", Village) @@ [group |-> Team],
     Op("unlink", Village) @@ [group |-> Team],
     Op("leave", Team), Op("join", Team)}
    \cup
    {[patch |-> "Pin", id |-> Written(bob, "pn"), value |-> "on"],
     [patch |-> "Pin", id |-> Written(bob, "pn"), value |-> "off"],
     [patch |-> "Mute", id |-> Written(bob, "pn"), value |-> "8h"],
     [patch |-> "Mute", id |-> Written(bob, "pn"), value |-> "always"],
     [patch |-> "Mute", id |-> Written(bob, "pn"), value |-> "off"],
     [patch |-> "Archive", id |-> Written(bob, "pn"), value |-> "on"],
     [patch |-> "ClearChat", id |-> Written(bob, "pn"), value |-> "on"],
     [patch |-> "DeleteChat", id |-> Written(bob, "pn"), value |-> "on"]}

Change(by, g, how, people) ==
    [by |-> by, ask |-> [do |-> "members", group |-> g, how |-> how, people |-> people]]

MCOthers ==
    {Change(bob, "team", "add", <<Jid(alice, "pn"), Jid(carol, "pn")>>),
     Change(bob, "team", "remove", <<Jid(alice, "pn"), Jid(carol, "pn")>>),
     Change(bob, "team", "demote", <<Jid(alice, "pn")>>),
     Change(bob, "news", "remove", <<Jid(carol, "lid")>>),
     [by |-> bob, ask |-> [do |-> "set", group |-> "team", field |-> "description", value |-> "y"]],
     [by |-> bob, ask |-> [do |-> "leave", group |-> "news"]],
     [by |-> carol, ask |-> [do |-> "join", group |-> "news"]]}
    \cup
    {[patch |-> "Pin", jid |-> Jid(bob, s), value |-> "on"] : s \in {"pn", "lid"}}
    \cup
    {[patch |-> "Mute", jid |-> Jid(bob, s), value |-> v] : s \in {"pn", "lid"}, v \in {"forever", "1w"}}
    \cup
    {[patch |-> "Archive", jid |-> Jid(bob, "lid"), value |-> "on"],
     [patch |-> "MarkChatAsRead", jid |-> Jid(bob, "lid"), value |-> "on"],
     [patch |-> "DeleteChat", jid |-> Jid(bob, "lid"), value |-> "on"]}
=============================================================================

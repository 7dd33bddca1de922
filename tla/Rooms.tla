-------------------------------- MODULE Rooms --------------------------------
(***************************************************************************)
(* Groups, communities and the settings of chats.  The gateway keeps next  *)
(* to nothing of them: it passes requests on (whatsapp/group.go,           *)
(* community.go, chat.go), answers with what WhatsApp or the store of      *)
(* whatsmeow tell it, and publishes what changes.  An API client that      *)
(* wants to know a group reads it once and follows the events; this module *)
(* is one account, its client, and the people and phones that change the   *)
(* same groups and chats meanwhile.                                        *)
(***************************************************************************)
EXTENDS AccountEvents, FiniteSets

Seqs == INSTANCE SequencesExt

CONSTANTS
    Me,            \* the person of the account
    People,        \* everybody, Me included
    Contacts,      \* people the account chats with
    Groups,        \* users of the JIDs of groups
    Mode,          \* the server by which a group names its members
    Founded,       \* what WhatsApp knows of each group at the start
    Requests,      \* what the client may ask for
    Others,        \* what others do: [by, ask], and [jid, patch] for chats
    MixedChanges,  \* whether WhatsApp tells of a timer together with other changes
    MaxTime,       \* bound: the last moment
    MaxSteps       \* bound: how many requests and doings of others there are

ASSUME RoomsAssumption ==
    /\ Me \in People /\ Contacts \subseteq People
    /\ IsFiniteSet(People) /\ {NoUser, Stray} \cap People = {}
    /\ Mode \in [Groups -> {"pn", "lid"}]
    /\ MixedChanges \in BOOLEAN
    /\ MaxTime \in Nat /\ MaxSteps \in Nat

\* What may be set of a group, and what there is of it.
Settable == {"name", "description", "locked", "announce", "membershipApproval",
             "memberAddMode", "ephemeral"}
Record   == Settable \cup {"exists", "parent", "isParent", "isDefault", "role"}

ASSUME FoundedAssumption ==
    /\ Founded = [g \in Groups |-> Founded[g]]
    /\ \A g \in Groups :
         /\ Founded[g] = [f \in Record |-> Founded[g][f]]
         /\ \E people \in SUBSET People :
              /\ Founded[g].role \in [people -> {"admin", "member"}]
              /\ ~Founded[g].exists => people = {}

VARIABLES
    group,     \* WhatsApp: what there is of each group
    pending,   \* events on their way to the account, in the order of WhatsApp
    view,      \* the client: what it takes each group to be
    request,   \* a request that is not finished
    known,     \* people whose two addresses the LID store relates
    settings,  \* whatsmeow's chat settings, for each JID that has some
    rows,      \* the chat table
    told,      \* the client: for each chat, the settings events told
    now,       \* the time, up to MaxTime
    steps      \* how many requests and doings of others there have been

groupVars == <<group, pending, view, request>>
chatVars  == <<settings, rows, told>>
vars      == <<groupVars, chatVars, known, now, steps>>

NoGroup == "none"
Unread  == [read |-> FALSE]
Idle    == [pc |-> "idle"]

GroupJID(g)   == Jid(g, "group")
Members(g)    == DOMAIN group[g].role
IsAdmin(g, p) == p \in Members(g) /\ group[g].role[p] = "admin"

-----------------------------------------------------------------------------
(* Requests of the API.  What is asked of WhatsApp is a record with what to *)
(* do in `do'.                                                              *)

FormatRecipients(ws) == [i \in DOMAIN ws |-> FormatRecipient(ws[i])]

\* One operator for the setters of groups and communities: they differ in the
\* field alone.  A timer is written as a text (SetEphemeralExpiration).
Seconds(text) == CASE text = "24h" -> Days(1) [] text = "7d" -> Days(7)
                   [] text = "90d" -> Days(90) [] OTHER -> 0

SetGroup(r) ==
    [do |-> "set", group |-> ParseJID(r.id).user, field |-> r.field,
     value |-> IF r.field = "ephemeral" THEN Seconds(r.value) ELSE r.value]

UpdateGroupParticipants(r) ==
    [do |-> "members", group |-> ParseJID(r.id).user, how |-> r.action,
     people |-> FormatRecipients(r.participants)]

\* Approving is adding, as far as the group goes.
UpdateGroupRequestParticipants(r) ==
    [do |-> "members", group |-> ParseJID(r.id).user,
     how |-> IF r.action = "approve" THEN "add" ELSE "reject",
     people |-> FormatRecipients(r.participants)]

CreateGroup(r) ==
    [do |-> "create", parent |-> NoGroup, isParent |-> FALSE,
     people |-> FormatRecipients(r.participants)]
CreateCommunity(r) ==
    [do |-> "create", parent |-> NoGroup, isParent |-> TRUE,
     people |-> FormatRecipients(r.participants)]
CreateCommunityGroup(r) ==
    [do |-> "create", parent |-> ParseJID(r.id).user, isParent |-> FALSE,
     people |-> FormatRecipients(r.participants)]

LinkGroupToCommunity(r) ==
    [do |-> "link", group |-> ParseJID(r.group).user, parent |-> ParseJID(r.id).user]
UnlinkGroupFromCommunity(r) ==
    [do |-> "unlink", group |-> ParseJID(r.group).user, parent |-> ParseJID(r.id).user]

LeaveGroup(r) == [do |-> "leave", group |-> ParseJID(r.id).user]
JoinGroup(r)  == [do |-> "join", group |-> ParseJID(r.id).user]

\* getDefaultSubGroupJID: the members of a community are those of its
\* announcement group.
DefaultSubGroups(c) ==
    {g \in Groups : group[g].exists /\ group[g].parent = c /\ group[g].isDefault}

\* The requests of groups and communities that need no look at the community.
Asked(r) ==
    CASE r.op = "set"                  -> SetGroup(r)
      [] r.op = "participants"         -> UpdateGroupParticipants(r)
      [] r.op = "requests"             -> UpdateGroupRequestParticipants(r)
      [] r.op = "create"               -> CreateGroup(r)
      [] r.op = "createCommunity"      -> CreateCommunity(r)
      [] r.op = "createCommunityGroup" -> CreateCommunityGroup(r)
      [] r.op = "link"                 -> LinkGroupToCommunity(r)
      [] r.op = "unlink"               -> UnlinkGroupFromCommunity(r)
      [] r.op = "leave"                -> LeaveGroup(r)
      [] r.op = "join"                 -> JoinGroup(r)

\* Decode and the refusals of the services.  The chat or group of the URL is
\* not validated, but parsed.
ValidRequest(r) ==
    /\ Has(r, "id") => ParsesAsJID(r.id)
    /\ Has(r, "group") => ParsesAsJID(r.group)
    /\ r.op \in {"participants", "requests", "create"} => r.participants # <<>>
    /\ r.op = "participants" => r.action \in {"add", "remove", "promote", "demote"}
    /\ r.op = "requests" => r.action \in {"approve", "reject"}
    /\ r.op = "set" /\ r.field = "name" => r.value # ""

\* What is asked is about groups there are, and about what can be set.
Askable(ask) ==
    CASE ask.do = "set"                           -> ask.group \in Groups /\ ask.field \in Settable
      [] ask.do \in {"members", "leave", "join"} -> ask.group \in Groups
      [] ask.do \in {"link", "unlink"}           -> {ask.group, ask.parent} \subseteq Groups
      [] OTHER                                    -> ask.do = "create"

\* Patches, the mutes of the API (MuteRequest) and that of the phone; a patch
\* of the app state names no device.
Patches == {"Mute", "Pin", "Archive", "MarkChatAsRead", "ClearChat", "DeleteChat"}
Mutes   == {"8h", "1w", "always", "off"}

ASSUME AsksAssumption ==
    /\ \A r \in Requests :
         IF Has(r, "patch") THEN r.patch \in Patches /\ (r.patch = "Mute" => r.value \in Mutes)
         ELSE r.op # "communityParticipants" => Askable(Asked(r))
    /\ \A o \in Others :
         IF Has(o, "patch")
         THEN /\ o.patch \in Patches /\ (o.patch = "Mute" => o.value \in Mutes \cup {"forever"})
              /\ o.jid = Jid(o.jid.user, o.jid.server)
         ELSE o.by \in People /\ Askable(o.ask)

-----------------------------------------------------------------------------
(* WhatsApp. *)

\* The people named, by either address, who are in a set.
Named(ask, set) == {p \in set : \E i \in DOMAIN ask.people : ask.people[i].user = p}

\* Members as a notification names them.
AsMembers(g, set) == Seqs!SetToSeq({Jid(p, Mode[g]) : p \in set})

\* Who did something, and perhaps the phone number.
By(g, p) ==
    {[sender |-> Jid(p, Mode[g]), senderPN |-> pn] :
       pn \in IF Mode[g] = "lid" THEN {Jid(p, "pn"), EmptyJID} ELSE {EmptyJID}}

InfoEvent(g, by, changes) ==
    [is |-> "GroupInfo", jid |-> GroupJID(g), by |-> by, changes |-> changes]

JoinedEvent(g, by) ==
    [is |-> "JoinedGroup", jid |-> GroupJID(g), by |-> by,
     isParent |-> group'[g].isParent, isDefaultSubGroup |-> group'[g].isDefault,
     parent |-> IF group'[g].parent = NoGroup THEN EmptyJID ELSE GroupJID(group'[g].parent)]

\* A change may be told together with the one before, if both are by the same
\* person and of different things.
Mixes(last, evt) ==
    LET both == DOMAIN last.changes \cup DOMAIN evt.changes
    IN  /\ last.is = "GroupInfo" /\ last.jid = evt.jid /\ last.by = evt.by
        /\ DOMAIN last.changes \cap DOMAIN evt.changes = {}
        /\ Cardinality(both \cap MemberFields) <= 1
        /\ "ephemeral" \in both => MixedChanges

Notify(evt) ==
    \/ pending' = Append(pending, evt)
    \/ /\ evt.is = "GroupInfo" /\ pending # <<>>
       /\ Mixes(pending[Len(pending)], evt)
       /\ pending' = [pending EXCEPT ![Len(pending)].changes = @ @@ evt.changes]

\* A group tells its members; what hides in `g' is of no concern to others.
Tell(g, by, changes) ==
    IF Me \in Members(g) THEN \E b \in By(g, by) : Notify(InfoEvent(g, b, changes))
    ELSE UNCHANGED pending

SetField(by, ask) ==
    /\ ask.do = "set" /\ IsAdmin(ask.group, by)
    /\ group[ask.group][ask.field] # ask.value
    /\ group' = [group EXCEPT ![ask.group][ask.field] = ask.value]
    /\ Tell(ask.group, by, If(ask.field # "memberAddMode", ask.field :> ask.value))

Rename(how) == CASE how = "add" -> "join" [] how = "remove" -> "leave" [] OTHER -> how

\* WhatsApp may do it for some only of the people named.
ChangeMembers(by, ask) ==
    LET g == ask.group
        fit == CASE ask.how = "add"     -> People \ Members(g)
                 [] ask.how = "remove"  -> Members(g) \ {by}
                 [] ask.how = "promote" -> {p \in Members(g) : ~IsAdmin(g, p)}
                 [] ask.how = "demote"  -> {p \in Members(g) : IsAdmin(g, p)}
                 [] OTHER -> {}
    IN  /\ ask.do = "members" /\ IsAdmin(g, by)
        /\ \E done \in SUBSET Named(ask, fit) :
             /\ done # {}
             /\ group' = [group EXCEPT ![g].role =
                  CASE ask.how = "remove" -> [p \in DOMAIN @ \ done |-> @[p]]
                    [] OTHER -> [p \in done |-> IF ask.how = "promote" THEN "admin" ELSE "member"] @@ @]
             /\ IF ask.how = "add" /\ Me \in done
                THEN \E b \in By(g, by) : Notify(JoinedEvent(g, b))
                ELSE Tell(g, by, Rename(ask.how) :> AsMembers(g, done))

Leave(by, ask) ==
    LET g == ask.group
    IN  /\ ask.do = "leave" /\ by \in Members(g)
        /\ group' = [group EXCEPT ![g].role = [p \in DOMAIN @ \ {by} |-> @[p]]]
        /\ Tell(g, by, "leave" :> AsMembers(g, {by}))

\* With an invite, by link or message.
Join(by, ask) ==
    LET g == ask.group
    IN  /\ ask.do = "join" /\ group[g].exists /\ by \notin Members(g)
        /\ group' = [group EXCEPT ![g].role = (by :> "member") @@ @]
        /\ IF by = Me THEN \E b \in By(g, by) : Notify(JoinedEvent(g, b))
           ELSE Tell(g, by, [join |-> AsMembers(g, {by}), joinReason |-> "invite"])

Create(by, ask) ==
    \E g \in {h \in Groups : ~group[h].exists} :
      /\ ask.do = "create"
      /\ group' = [group EXCEPT
           ![g].exists = TRUE, ![g].isParent = ask.isParent, ![g].parent = ask.parent,
           ![g].role = (by :> "admin") @@ [p \in Named(ask, People) |-> "member"]]
      /\ IF Me \in {by} \cup Named(ask, People)
         THEN \E b \in By(g, by) : Notify(JoinedEvent(g, b))
         ELSE UNCHANGED pending

\* The community is told.
Link(by, ask) ==
    /\ ask.do \in {"link", "unlink"} /\ IsAdmin(ask.parent, by) /\ IsAdmin(ask.group, by)
    /\ group[ask.group].parent = IF ask.do = "link" THEN NoGroup ELSE ask.parent
    /\ group' = [group EXCEPT ![ask.group].parent = IF ask.do = "link" THEN ask.parent ELSE NoGroup]
    /\ Tell(ask.parent, by, ask.do :> ask.group)

WhatsApp(by, ask) ==
    /\ \/ SetField(by, ask) \/ ChangeMembers(by, ask) \/ Leave(by, ask)
       \/ Join(by, ask) \/ Create(by, ask) \/ Link(by, ask)
    /\ UNCHANGED <<view, known, chatVars, now>>

-----------------------------------------------------------------------------
(* The client and the groups. *)

\* GroupParticipant: members by both addresses, as far as WhatsApp tells.
InfoMember(p, g, phones, knows) ==
    LET alt == IF Mode[g] = "lid" /\ p \in phones THEN Jid(p, "pn") ELSE EmptyJID
    IN  [who |-> Resolve(Jid(p, Mode[g]), alt, knows), admin |-> IsAdmin(g, p)]

\* toCommunityInfoResponse.
CommunityFields == {"name", "description", "locked"}
CommunityInfoResponse(g, phones, knows) ==
    [read |-> TRUE, members |-> {InfoMember(p, g, phones, knows) : p \in Members(g)}]
    @@ [f \in CommunityFields |-> group[g][f]]

\* toGroupInfoResponse.
GroupFieldsShown == CommunityFields \cup {"announce", "membershipApproval"}
GroupInfoResponse(g, phones, knows) ==
    CommunityInfoResponse(g, phones, knows)
    @@ [f \in GroupFieldsShown |-> group[g][f]]
    @@ [ephemeral |-> ExpirationString(group[g].ephemeral)]

\* An identity is that of a member if one of the two addresses is.
SamePerson(x, y) ==
    (x.phone # NoUser /\ x.phone = y.phone) \/ (x.lid # NoUser /\ x.lid = y.lid)

\* What a client makes of an event about a group it has read: the value of a
\* setting; who came, went, and became or no longer is an admin.
Among(m, ids) == \E i \in DOMAIN ids : SamePerson(m.who, ids[i])

Follow(v, d) ==
    LET MembersOf(f) == IF Has(d, f) THEN d[f] ELSE <<>>
        stay   == {m \in v.members : ~Among(m, MembersOf("leave"))}
        came   == {[who |-> MembersOf("join")[i], admin |-> FALSE] : i \in DOMAIN MembersOf("join")}
        new    == {m \in came : ~\E n \in stay : SamePerson(n.who, m.who)}
        Role(m) == CASE Among(m, MembersOf("promote")) -> TRUE
                     [] Among(m, MembersOf("demote"))  -> FALSE
                     [] OTHER -> m.admin
    IN  [f \in DOMAIN v |->
           IF f = "members" THEN {[m EXCEPT !.admin = Role(m)] : m \in stay \cup new}
           ELSE IF Has(d, f) THEN d[f] ELSE v[f]]

HasJoined(ids) == \E i \in DOMAIN ids : ids[i].phone = Me

\* That the account itself has joined says nothing about the others: the group
\* has to be read again.
Fold(v, e) ==
    IF ~v.read THEN v
    ELSE CASE e.eventType = "chat_setting" ->
                [f \in DOMAIN v |-> IF f = "ephemeral" THEN e.data.ephemeral.expiration ELSE v[f]]
           [] e.eventType = "group" /\ Has(e.data, "join") /\ HasJoined(e.data.join) -> Unread
           [] OTHER -> Follow(v, e.data)

-----------------------------------------------------------------------------
(* Actions about groups.  Bound: a behaviour is about groups or about      *)
(* chats, which have nothing in common but `known'.                        *)

AboutGroups == settings = Nothing /\ rows = {}
AboutChats  == group = Founded /\ \A g \in Groups : ~view[g].read

\* A request about a group or a community that WhatsApp grants; one that is
\* refused or fails changes nothing.
RequestGroup ==
    /\ AboutGroups /\ steps < MaxSteps /\ request = Idle
    /\ \E r \in Requests :
         /\ ~Has(r, "patch") /\ r.op # "communityParticipants" /\ ValidRequest(r)
         /\ \E ask \in {Asked(r)} : WhatsApp(Me, ask)
    /\ steps' = steps + 1
    /\ UNCHANGED request

\* UpdateCommunityParticipants finds the announcement group first.
CommunityLookup ==
    /\ AboutGroups /\ steps < MaxSteps /\ request = Idle
    /\ \E r \in Requests :
         /\ ~Has(r, "patch") /\ r.op = "communityParticipants" /\ ValidRequest(r)
         /\ \E g \in DefaultSubGroups(ParseJID(r.id).user) :
              request' = [pc |-> "update", ask |-> [UpdateGroupParticipants(r) EXCEPT !.group = g]]
    /\ steps' = steps + 1
    /\ UNCHANGED <<group, pending, view, known, chatVars, now>>

CommunityUpdate ==
    /\ request.pc = "update"
    /\ \/ \E ask \in {request.ask} : WhatsApp(Me, ask)
       \/ UNCHANGED <<group, pending, view, known, chatVars, now>>
    /\ request' = Idle
    /\ UNCHANGED steps

OthersDo ==
    /\ AboutGroups /\ steps < MaxSteps
    /\ \E o \in Others : ~Has(o, "patch") /\ \E ask \in {o.ask} : WhatsApp(o.by, ask)
    /\ steps' = steps + 1
    /\ UNCHANGED request

\* GetGroupInfo, or GetCommunityInfo for a community; WhatsApp tells the phone numbers of some
\* members, which whatsmeow remembers.  Bound: the client cares for one group.
ReadGroup(g) ==
    /\ AboutGroups /\ Me \in Members(g) /\ \A h \in Groups : ~view[h].read
    /\ \E phones \in {{}, Members(g)} :
         /\ known' = IF Mode[g] = "lid" THEN known \cup phones ELSE known
         /\ \/ view' = [view EXCEPT ![g] = GroupInfoResponse(g, phones, known')]
            \/ /\ group[g].isParent
               /\ view' = [view EXCEPT ![g] = CommunityInfoResponse(g, phones, known')]
    /\ UNCHANGED <<group, pending, request, chatVars, now, steps>>

\* The event handler: an event comes, is projected, and the client follows.
Deliver ==
    /\ pending # <<>>
    /\ \E evt \in {Head(pending)} : \E events \in {Project(evt, Jid(Me, "pn"), known)} :
         IF events = <<>> THEN UNCHANGED view
         ELSE \E e \in {events[1]} : view' = [view EXCEPT ![evt.jid.user] = Fold(@, e)]
    /\ pending' = Tail(pending)
    /\ UNCHANGED <<group, request, known, chatVars, now, steps>>

-----------------------------------------------------------------------------
(* The settings of chats: patches of the app state, which an API client or *)
(* the phone sends and whatsmeow applies, and the answers about a chat.    *)

Forever    == MaxTime + 9
NoSettings == [mutedUntil |-> 0, pinned |-> FALSE, archived |-> FALSE]
Found(jid) == jid \in DOMAIN settings
Stored(jid) == IF Found(jid) THEN settings[jid] ELSE NoSettings

\* When a mute ends: MuteChat for the texts of the API; the phone's "always"
\* has no end.
MuteEnd(value) ==
    CASE value = "8h" -> now + 1 [] value = "1w" -> now + 2 [] value = "always" -> Forever
      [] OTHER -> 0

\* The event of whatsmeow for a patch.
PatchEvent(jid, patch, value) ==
    [is |-> patch, jid |-> jid, fromFullSync |-> FALSE]
    @@ CASE patch = "Mute"           -> [muted |-> value # "off", muteEnd |-> MuteEnd(value)]
         [] patch = "Pin"            -> [pinned |-> value = "on"]
         [] patch = "Archive"        -> [archived |-> value = "on"]
         [] patch = "MarkChatAsRead" -> [read |-> value = "on"]
         [] OTHER                    -> Nothing

\* What whatsmeow stores of it.
Applied(jid, patch, value) ==
    LET old == Stored(jid)
    IN  CASE patch = "Mute"    -> (jid :> [old EXCEPT !.mutedUntil =
                                       IF value = "forever" THEN Forever ELSE MuteEnd(value)]) @@ settings
          [] patch = "Pin"     -> (jid :> [old EXCEPT !.pinned = value = "on"]) @@ settings
          [] patch = "Archive" -> (jid :> [old EXCEPT !.archived = value = "on"]) @@ settings
          [] OTHER -> settings

\* The event handler deletes the row of a chat that was deleted.
ResolveLID(jid) == ResolveMention(jid, known)

\* What the client has been told after it, as the one element of a set.
Told(jid, patch, value) ==
    {IF events = <<>> THEN told
     ELSE LET d   == events[1].data
              one == d.settingType :> d[d.settingType]
          IN  (d.id :> (one @@ IF d.id \in DOMAIN told THEN told[d.id] ELSE Nothing)) @@ told
       : events \in {Project(evt, Jid(Me, "pn"), known) : evt \in {PatchEvent(jid, patch, value)}}}

Patch(jid, patch, value) ==
    /\ settings' = Applied(jid, patch, value)
    /\ told' \in Told(jid, patch, value)
    /\ rows' = IF patch = "DeleteChat" THEN rows \ {ResolveLID(jid)} ELSE rows

\* Mutation: the settings of a chat are those of the JID it goes by.
GetChatSettingsByName(jid) == [found |-> Found(jid)] @@ Stored(jid)

\* getChatSettings: or those of the other JID.
GetChatSettings(jid) ==
    LET alt == CASE jid.server = "pn"  -> Jid(GetLIDForPN(jid, known), "lid")
                 [] jid.server = "lid" -> Jid(GetPNForLID(jid, known), "pn")
                 [] OTHER -> EmptyJID
        own == IF Found(jid) \/ alt.user = NoUser THEN jid ELSE alt
    IN  [found |-> Found(own)] @@ Stored(own)

\* What GetChatInfo answers for a chat that has a row.
ChatInfo(id) ==
    LET s == GetChatSettings(id)
    IN  [id |-> id, lid |-> IF id.server = "pn" THEN GetLIDForPN(id, known) ELSE NoUser,
         isPinned   |-> s.found /\ s.pinned,
         isArchived |-> s.found /\ s.archived,
         isMuted    |-> s.found /\ s.mutedUntil # 0 /\ s.mutedUntil > now]

ListChats == {ChatInfo(id) : id \in rows}

-----------------------------------------------------------------------------
(* Actions about chats. *)

\* MuteChat, PinChat, ArchiveChat, MarkChatAsRead, ClearChat and DeleteChat:
\* the patch is sent on a context of its own and comes back as an event.
RequestChat ==
    /\ AboutChats /\ steps < MaxSteps /\ request = Idle
    /\ \E r \in Requests :
         /\ Has(r, "patch") /\ ParsesAsJID(r.id)
         /\ \E jid \in {ParseJID(r.id)} : Patch(jid, r.patch, r.value)
    /\ steps' = steps + 1
    /\ UNCHANGED <<groupVars, known, now>>

PhonePatches ==
    /\ AboutChats /\ steps < MaxSteps
    /\ \E o \in Others : Has(o, "patch") /\ Patch(o.jid, o.patch, o.value)
    /\ steps' = steps + 1
    /\ UNCHANGED <<groupVars, known, now>>

\* A message makes a row, unless the LID it comes from is nobody's phone yet.
MessageComes(p) ==
    /\ AboutChats /\ Jid(p, "pn") \notin rows
    /\ \E server \in {"pn", "lid"}, alt \in BOOLEAN :
         LET knows == IF alt THEN known \cup {p} ELSE known
             chat  == ResolveMention(Jid(p, server), knows)
         IN  /\ known' = knows
             /\ rows' = IF chat.server = "lid" THEN rows ELSE rows \cup {chat}
    /\ UNCHANGED <<groupVars, settings, told, now, steps>>

TimePasses ==
    /\ AboutChats /\ now < MaxTime /\ now' = now + 1
    /\ UNCHANGED <<groupVars, chatVars, known, steps>>

-----------------------------------------------------------------------------
Init ==
    /\ group = Founded /\ pending = <<>> /\ request = Idle
    /\ view = [g \in Groups |-> Unread]
    /\ known = {Me}
    /\ settings = Nothing /\ rows = {} /\ told = Nothing
    /\ now = 0 /\ steps = 0

Next ==
    \/ RequestGroup \/ CommunityLookup \/ CommunityUpdate \/ OthersDo \/ Deliver
    \/ RequestChat \/ PhonePatches \/ TimePasses
    \/ \E g \in Groups : ReadGroup(g)
    \/ \E p \in Contacts : MessageComes(p)

Spec == Init /\ [][Next]_vars

-----------------------------------------------------------------------------
(* Properties. *)

\* Types: what a client has of a group has the fields of a group.
TypeOK ==
    /\ known \subseteq People
    /\ \A g \in Groups : view[g].read => DOMAIN view[g] \subseteq DOMAIN group[g] \cup {"read", "members"}
    /\ rows \subseteq {Jid(p, "pn") : p \in People}

\* The one entry of a client for a person says what the person is.
Shows(v, g) ==
    /\ \A f \in DOMAIN v \cap GroupFieldsShown : v[f] = group[g][f]
    /\ "ephemeral" \in DOMAIN v => v.ephemeral = ExpirationString(group[g].ephemeral)
    /\ \A p \in People :
         {m.admin : m \in {n \in v.members : p \in {n.who.phone, n.who.lid}}}
           = IF p \in Members(g) THEN {IsAdmin(g, p)} ELSE {}
    /\ Cardinality(v.members) = Cardinality(Members(g))

\* A client that reads a group once, at any time, and then follows the events
\* knows the group when all of them have come: its settings, its members and
\* who is an admin, although changes that were on their way when it read are
\* told again, and whoever makes them.
MembershipFollows ==
    /\ TypeOK
    /\ pending = <<>> =>
         \A g \in Groups : view[g].read /\ Me \in Members(g) => Shows(view[g], g)

\* What the events told of a chat.
ToldMuted(d) == d.isMuted /\ (Has(d, "muteEndTime") => d.muteEndTime > now)

\* whatsmeow has the settings of a chat under one of its two JIDs.
OneForm(id) == Cardinality({jid \in DOMAIN settings : jid.user = id.user}) = 1

\* The two ways to learn of the settings of a chat agree: what the answer to
\* GET says is what the events have told, under the ID the answer has, whether
\* the phone names the chat by phone number or by LID, and when mutes end.
SettingsAgree ==
    \A info \in ListChats : info.id \in DOMAIN told /\ OneForm(info.id) =>
      LET d == told[info.id]
      IN  /\ Has(d, "pin") => info.isPinned = d.pin.isPinned
          /\ Has(d, "archive") => info.isArchived = d.archive.isArchived
          /\ Has(d, "mute") => info.isMuted = ToldMuted(d.mute)
=============================================================================

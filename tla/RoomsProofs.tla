---------------------------- MODULE RoomsProofs ----------------------------
(***************************************************************************)
(* What a client of Rooms may rely on, for any people, groups, requests,   *)
(* doings of others and any number of them.                                *)
(*                                                                         *)
(* Chats: what was told of a chat has come from the settings it has        *)
(* (ChatInv), by whichever of its two addresses a patch came.  Events name *)
(* the chat by the phone number once it is known, and getChatSettings      *)
(* tries the other address if one has none, so the invariant speaks of the *)
(* address that alone has settings (Sole).                                 *)
(*                                                                         *)
(* Groups: each person has a path of roles along the events that are on    *)
(* their way.  One leads from what the person was to what it is (Tracked), *)
(* one from what the client takes it to be to what it is (Followed); a     *)
(* change appends to both, a read starts the second anew (PathRead), and a *)
(* delivery takes the first step of both, which the client follows         *)
(* (FollowKeeps).  A setting is that of the last event that is about it,   *)
(* or the one the client has.  When nothing is on its way, what the client *)
(* has is what there is (GroupShown).                                      *)
(***************************************************************************)
EXTENDS Rooms, FiniteSetTheorems, SequenceTheorems, TLAPS

\* The settings of a group that an answer shows.
Fields == GroupFieldsShown \cup {"ephemeral"}
ShownAs(f, x) == IF f = "ephemeral" THEN ExpirationString(x) ELSE x

\* What a notification says of a person.
Names(changes, f, j) == f \in DOMAIN changes /\ \E i \in DOMAIN changes[f] : changes[f][i] = j
Mention(evt, g, p) ==
    LET Says(f) == Names(evt.changes, f, Jid(p, Mode[g]))
    IN  CASE evt.jid # GroupJID(g)    -> "nothing"
          [] evt.jid = GroupJID(g) /\ evt.is = "JoinedGroup" -> "again"
          [] evt.jid = GroupJID(g) /\ evt.is = "GroupInfo" ->
               (CASE Says("leave")   -> "leave"
                 [] Says("join")    -> "join"
                 [] Says("promote") -> "promote"
                 [] Says("demote")  -> "demote"
                 [] OTHER           -> "nothing")
          [] OTHER -> "nothing"

Roles    == {"none", "member", "admin"}
Mentions == {"nothing", "leave", "join", "promote", "demote", "again"}

\* What happened to a person whose role was x and became y, and what the
\* client makes of it.
Happens ==
    {t \in Mentions \X Roles \X Roles :
       CASE t[1] = "again"   -> TRUE
         [] t[1] = "nothing" -> t[2] = t[3]
         [] t[1] = "leave"   -> t[2] # "none" /\ t[3] = "none"
         [] t[1] = "join"    -> t[2] = "none" /\ t[3] = "member"
         [] t[1] = "promote" -> t[2] # "none" /\ t[3] = "admin"
         [] t[1] = "demote"  -> t[2] # "none" /\ t[3] = "member"}
Follows ==
    {t \in Mentions \X Roles \X Roles :
       CASE t[1] = "again"   -> TRUE
         [] t[1] = "nothing" -> t[2] = t[3]
         [] t[1] = "leave"   -> t[3] = "none"
         [] t[1] = "join"    -> t[3] = IF t[2] = "none" THEN "member" ELSE t[2]
         [] t[1] = "promote" -> t[3] = IF t[2] = "none" THEN "none" ELSE "admin"
         [] t[1] = "demote"  -> t[3] = IF t[2] = "none" THEN "none" ELSE "member"}

\* The roles of a person after each of the events of a queue.
Path(rel, q, g, p, path) ==
    /\ path \in [0..Len(q) -> Roles]
    /\ \A n \in 1..Len(q) : <<Mention(q[n], g, p), path[n - 1], path[n]>> \in rel

RoleOf(g, p) == IF p \in Members(g) THEN group[g].role[p] ELSE "none"

\* An identity of a person, in a group.
Is(who, p, g) ==
    /\ {who.phone, who.lid} \subseteq {p, NoUser}
    /\ IF Mode[g] = "pn" THEN who.phone = p ELSE who.lid = p
RoleIn(v, g, p) ==
    CASE \E m \in v.members : Is(m.who, p, g) /\ m.admin -> "admin"
      [] \E m \in v.members : Is(m.who, p, g) /\ ~m.admin -> "member"
      [] OTHER -> "none"

\* Where the events on their way lead: from what people were to what they are,
\* and from what the client takes them to be to what they are.
Tracked(g, p) ==
    \E path \in [0..Len(pending) -> Roles] :
        /\ Path(Happens, pending, g, p, path)
        /\ Me \in Members(g) => path[Len(pending)] = RoleOf(g, p)
Followed(g, p) ==
    \E path \in [0..Len(pending) -> Roles] :
        /\ Path(Follows, pending, g, p, path)
        /\ path[0] = RoleIn(view[g], g, p)
        /\ Me \in Members(g) => path[Len(pending)] = RoleOf(g, p)

\* Events that tell of a setting.
Touches(evt, g, f) ==
    evt.jid = GroupJID(g) /\ (evt.is = "GroupInfo" => f \in DOMAIN evt.changes)

SettingTracked(g, f) ==
    \A n \in DOMAIN pending :
        Touches(pending[n], g, f) /\ pending[n].is = "GroupInfo"
          /\ (\A l \in DOMAIN pending : n < l => ~Touches(pending[l], g, f))
        => pending[n].changes[f] = group[g][f]
SettingFollowed(g, f) ==
    (\A n \in DOMAIN pending : ~Touches(pending[n], g, f)) /\ f \in DOMAIN view[g]
        => view[g][f] = ShownAs(f, group[g][f])

GroupOK(g) ==
    /\ group[g] = [f \in Record |-> group[g][f]]
    /\ \E people \in SUBSET People :
         /\ group[g].role \in [people -> {"admin", "member"}]
         /\ ~group[g].exists => people = {}

ViewOK(v, g) ==
    /\ v = [f \in DOMAIN v |-> v[f]]
    /\ {"read", "members"} \subseteq DOMAIN v /\ DOMAIN v \subseteq Fields \cup {"read", "members"}
    /\ \A m \in v.members : \E p \in People : Is(m.who, p, g)
    /\ \A m \in v.members : m = [who |-> m.who, admin |-> m.admin] /\ m.admin \in BOOLEAN
    /\ \A m, n \in v.members : \A p \in People : Is(m.who, p, g) /\ Is(n.who, p, g) => m = n

MembersOK(g, f, jids) ==
    /\ DOMAIN jids = 1..Len(jids)
    /\ \A i \in DOMAIN jids : \E p \in People : jids[i] = Jid(p, Mode[g]) /\ (f = "join" => p # Me)

ChangesOK(g, changes) ==
    /\ changes = [f \in DOMAIN changes |-> changes[f]]
    /\ DOMAIN changes \subseteq Fields \cup MemberFields \cup PlainFields
    /\ "ephemeral" \in DOMAIN changes => DOMAIN changes = {"ephemeral"}
    /\ \A f, h \in DOMAIN changes \cap MemberFields : f = h
    /\ \A f \in DOMAIN changes \cap MemberFields : MembersOK(g, f, changes[f])
EventOf(g, evt) ==
    /\ evt.jid = GroupJID(g)
    /\ \/ evt.is = "JoinedGroup"
       \/ /\ evt.is = "GroupInfo" /\ {"is", "jid", "by", "changes"} \subseteq DOMAIN evt
          /\ ChangesOK(g, evt.changes)
QueueOK ==
    /\ pending \in Seq({pending[n] : n \in DOMAIN pending})
    /\ \A n \in DOMAIN pending : \E g \in Groups : EventOf(g, pending[n])

TrackedOK ==
    \A g \in Groups :
        /\ \A p \in People : Tracked(g, p)
        /\ Me \in Members(g) => \A f \in Fields : SettingTracked(g, f)

ViewsOK ==
    /\ DOMAIN view = Groups
    /\ \A g \in Groups :
         /\ view[g].read \in BOOLEAN
         /\ view[g].read =>
              /\ ViewOK(view[g], g)
              /\ \A p \in People : Followed(g, p)
              /\ Me \in Members(g) => \A f \in Fields : SettingFollowed(g, f)

\* The part that is about groups themselves.
GroupsOK  == DOMAIN group = Groups /\ \A g \in Groups : GroupOK(g)
RequestOK == request = Idle \/ (request.pc = "update" /\ Askable(request.ask))

GroupInv == known \subseteq People /\ GroupsOK /\ QueueOK /\ RequestOK /\ TrackedOK /\ ViewsOK

\* Of the two forms of an address that the settings have, one only.
Sole(p, j) ==
    /\ j \in DOMAIN settings /\ j \in {Jid(p, "pn"), Jid(p, "lid")}
    /\ \A k \in DOMAIN settings : k \in {Jid(p, "pn"), Jid(p, "lid")} => k = j

MuteIs(m, until) ==
    /\ m.isMuted /\ Has(m, "muteEndTime") => until = m.muteEndTime /\ until > 0
    /\ m.isMuted /\ ~Has(m, "muteEndTime") => until = Forever
    /\ ~m.isMuted => until = 0

\* What was told of a chat has come from the settings it has.
Agrees(p, d) ==
    /\ {"pin", "mute", "archive"} \cap DOMAIN d # {} =>
         Jid(p, "pn") \in DOMAIN settings \/ (Jid(p, "lid") \in DOMAIN settings /\ p \in known)
    /\ \A j \in DOMAIN settings : Sole(p, j) =>
         /\ "pin" \in DOMAIN d => d.pin.isPinned = settings[j].pinned
         /\ "archive" \in DOMAIN d => d.archive.isArchived = settings[j].archived
         /\ "mute" \in DOMAIN d => MuteIs(d.mute, settings[j].mutedUntil)

Settings == [mutedUntil: Nat, pinned: BOOLEAN, archived: BOOLEAN]

ChatInv ==
    /\ known \subseteq People /\ now \in 0..MaxTime
    /\ rows \subseteq {Jid(p, "pn") : p \in People}
    /\ settings = [j \in DOMAIN settings |-> settings[j]] /\ IsFiniteSet(DOMAIN settings)
    /\ \A j \in DOMAIN settings : settings[j] \in Settings
    /\ \A p \in People : Jid(p, "pn") \in DOMAIN told => Agrees(p, told[Jid(p, "pn")])

-----------------------------------------------------------------------------
(* Chats. *)

\* What the projectors tell of a patch.
LEMMA PatchProjected ==
    ASSUME NEW jid, NEW value
    PROVE  LET id == ProjectChatID(jid, known)
               Event(patch) == Project(PatchEvent(jid, patch, value), Jid(Me, "pn"), known)
               Tells(type, data) ==
                   Published("chat_setting", [id |-> id, settingType |-> type] @@ (type :> data))
           IN  /\ Event("Pin") = Tells("pin", [isPinned |-> value = "on"])
               /\ Event("Archive") = Tells("archive", [isArchived |-> value = "on"])
               /\ Event("MarkChatAsRead") = Tells("read", [isRead |-> value = "on"])
               /\ Event("Mute") = Tells("mute", [isMuted |-> value # "off"]
                     @@ If(MuteEnd(value) > 0, [muteEndTime |-> MuteEnd(value)]))
<1>. DEFINE E(patch) == PatchEvent(jid, patch, value)
<1>1. /\ E("Pin").is = "Pin" /\ E("Pin").jid = jid /\ E("Pin").fromFullSync = FALSE
      /\ E("Pin").pinned = (value = "on")
  BY DEF PatchEvent, @@
<1>2. /\ E("Archive").is = "Archive" /\ E("Archive").jid = jid /\ E("Archive").fromFullSync = FALSE
      /\ E("Archive").archived = (value = "on")
  BY DEF PatchEvent, @@
<1>3. /\ E("MarkChatAsRead").is = "MarkChatAsRead" /\ E("MarkChatAsRead").jid = jid
      /\ E("MarkChatAsRead").fromFullSync = FALSE /\ E("MarkChatAsRead").read = (value = "on")
  BY DEF PatchEvent, @@
<1>4. /\ E("Mute").is = "Mute" /\ E("Mute").jid = jid /\ E("Mute").fromFullSync = FALSE
      /\ E("Mute").muted = (value # "off") /\ E("Mute").muteEnd = MuteEnd(value)
  BY DEF PatchEvent, @@
<1>. HIDE DEF E
<1>5. /\ Project(E("Pin"), Jid(Me, "pn"), known) = ProjectPin(E("Pin"), known)
      /\ Project(E("Archive"), Jid(Me, "pn"), known) = ProjectArchive(E("Archive"), known)
  BY <1>1, <1>2 DEF Project
<1>6. /\ Project(E("MarkChatAsRead"), Jid(Me, "pn"), known) = ProjectMarkChatAsRead(E("MarkChatAsRead"), known)
      /\ Project(E("Mute"), Jid(Me, "pn"), known) = ProjectMute(E("Mute"), known)
  BY <1>3, <1>4 DEF Project
<1>7. ProjectPin(E("Pin"), known) = Published("chat_setting",
        [id |-> ProjectChatID(jid, known), settingType |-> "pin"] @@ ("pin" :> [isPinned |-> value = "on"]))
  BY <1>1 DEF ProjectPin, ChatSetting
<1>8. ProjectArchive(E("Archive"), known) = Published("chat_setting",
        [id |-> ProjectChatID(jid, known), settingType |-> "archive"]
          @@ ("archive" :> [isArchived |-> value = "on"]))
  BY <1>2 DEF ProjectArchive, ChatSetting
<1>9. ProjectMarkChatAsRead(E("MarkChatAsRead"), known) = Published("chat_setting",
        [id |-> ProjectChatID(jid, known), settingType |-> "read"] @@ ("read" :> [isRead |-> value = "on"]))
  BY <1>3 DEF ProjectMarkChatAsRead, ChatSetting
<1>10. ProjectMute(E("Mute"), known) = Published("chat_setting",
        [id |-> ProjectChatID(jid, known), settingType |-> "mute"]
          @@ ("mute" :> ([isMuted |-> value # "off"]
                          @@ If(MuteEnd(value) > 0, [muteEndTime |-> MuteEnd(value)]))))
  BY <1>4 DEF ProjectMute, ChatSetting
<1>. QED
  BY <1>5, <1>6, <1>7, <1>8, <1>9, <1>10 DEF E
\* What the client was told with one more setting of a chat.
ToldOf(id, type, data) ==
    (id :> ((type :> data) @@ IF id \in DOMAIN told THEN told[id] ELSE Nothing)) @@ told

MuteData(value) ==
    [isMuted |-> value # "off"] @@ If(MuteEnd(value) > 0, [muteEndTime |-> MuteEnd(value)])

ToldWith(new, id, type, data) ==
    LET old == IF id \in DOMAIN told THEN DOMAIN told[id] ELSE {}
    IN  /\ DOMAIN new = DOMAIN told \cup {id}
        /\ \A i \in DOMAIN told \ {id} : new[i] = told[i]
        /\ DOMAIN new[id] = {type} \cup old
        /\ new[id][type] = data
        /\ \A s \in old \ {type} : new[id][s] = told[id][s]

\* The client has the new setting of the chat and what it had of others.
LEMMA ToldOfIs ==
    ASSUME NEW id, NEW type, NEW data
    PROVE  ToldWith(ToldOf(id, type, data), id, type, data)
<1>. DEFINE before == IF id \in DOMAIN told THEN told[id] ELSE Nothing
            d == (type :> data) @@ before
            old == IF id \in DOMAIN told THEN DOMAIN told[id] ELSE {}
<1>1. DOMAIN before = old
  BY DEF Nothing
<1>2. DOMAIN d = {type} \cup old /\ d[type] = data /\ \A s \in old \ {type} : d[s] = told[id][s]
  BY <1>1 DEF @@, :>
<1>. HIDE DEF d
<1>3. ToldOf(id, type, data) = (id :> d) @@ told
  BY DEF ToldOf, d
<1>4. /\ DOMAIN ((id :> d) @@ told) = DOMAIN told \cup {id} /\ ((id :> d) @@ told)[id] = d
      /\ \A i \in DOMAIN told \ {id} : ((id :> d) @@ told)[i] = told[i]
  BY DEF @@, :>
<1>. QED
  BY <1>2, <1>3, <1>4 DEF ToldWith

\* What each patch tells of its chat; clearing and deleting tell no setting.
LEMMA ToldAfter ==
    ASSUME NEW jid, NEW patch \in Patches, NEW value, told' \in Told(jid, patch, value)
    PROVE  LET id == ProjectChatID(jid, known)
           IN  /\ patch = "Pin" => told' = ToldOf(id, "pin", [isPinned |-> value = "on"])
               /\ patch = "Archive" => told' = ToldOf(id, "archive", [isArchived |-> value = "on"])
               /\ patch = "MarkChatAsRead" => told' = ToldOf(id, "read", [isRead |-> value = "on"])
               /\ patch = "Mute" => told' = ToldOf(id, "mute", MuteData(value))
               /\ patch \in {"ClearChat", "DeleteChat"} => told' = told
<1>. DEFINE id == ProjectChatID(jid, known)
            events == Project(PatchEvent(jid, patch, value), Jid(Me, "pn"), known)
            Data(type, data) == [id |-> id, settingType |-> type] @@ (type :> data)
<1>1. told' = IF events = <<>> THEN told
              ELSE LET d   == events[1].data
                       one == d.settingType :> d[d.settingType]
                   IN  (d.id :> (one @@ IF d.id \in DOMAIN told THEN told[d.id] ELSE Nothing)) @@ told
  BY DEF Told
<1>2. ASSUME NEW type \in {"pin", "archive", "read", "mute"}, NEW data,
             events = Published("chat_setting", Data(type, data))
      PROVE  told' = ToldOf(id, type, data)
  <2>1. events # <<>> /\ events[1].data = Data(type, data)
    BY <1>2 DEF Published
  <2>2. /\ Data(type, data).id = id /\ Data(type, data).settingType = type
        /\ Data(type, data)[type] = data
    BY DEF @@, :>
  <2>. HIDE DEF Data, events
  <2>. QED
    BY <1>1, <2>1, <2>2 DEF ToldOf
<1>3. CASE patch = "Pin"
  <2>1. events = Published("chat_setting", Data("pin", [isPinned |-> value = "on"]))
    BY <1>3, PatchProjected
  <2>. QED
    BY <1>2, <1>3, <2>1
<1>4. CASE patch = "Archive"
  <2>1. events = Published("chat_setting", Data("archive", [isArchived |-> value = "on"]))
    BY <1>4, PatchProjected
  <2>. QED
    BY <1>2, <1>4, <2>1
<1>5. CASE patch = "MarkChatAsRead"
  <2>1. events = Published("chat_setting", Data("read", [isRead |-> value = "on"]))
    BY <1>5, PatchProjected
  <2>. QED
    BY <1>2, <1>5, <2>1
<1>6. CASE patch = "Mute"
  <2>1. events = Published("chat_setting", Data("mute", MuteData(value)))
    BY <1>6, PatchProjected DEF MuteData
  <2>. QED
    BY <1>2, <1>6, <2>1
<1>7. CASE patch \in {"ClearChat", "DeleteChat"}
  <2>1. PatchEvent(jid, patch, value).is = patch
    BY <1>7 DEF PatchEvent, @@
  <2>2. events = <<>>
    BY <1>7, <2>1 DEF Project, Discarded
  <2>. QED
    BY <1>1, <1>7, <2>2
<1>. QED
  BY <1>3, <1>4, <1>5, <1>6, <1>7 DEF Patches

\* A mute that is told is the one that is stored.
LEMMA MuteAgrees ==
    ASSUME NEW value \in Mutes \cup {"forever"}, now \in 0..MaxTime
    PROVE  LET until == IF value = "forever" THEN Forever ELSE MuteEnd(value)
           IN  until \in Nat /\ MuteIs(MuteData(value), until)
<1>. DEFINE until == IF value = "forever" THEN Forever ELSE MuteEnd(value)
            m == MuteData(value)
<1>1. MaxTime \in Nat /\ now \in Nat
  BY RoomsAssumption
<1>2. /\ m.isMuted = (value # "off")
      /\ Has(m, "muteEndTime") <=> MuteEnd(value) > 0
      /\ MuteEnd(value) > 0 => m.muteEndTime = MuteEnd(value)
  BY DEF MuteData, @@, If, Nothing, Has
<1>3. /\ value = "off" => MuteEnd(value) = 0
      /\ value = "forever" => MuteEnd(value) = 0
      /\ value \in {"8h", "1w", "always"} => MuteEnd(value) \in Nat /\ MuteEnd(value) > 0
  BY <1>1 DEF MuteEnd, Forever
<1>4. m.isMuted <=> value # "off"
  BY <1>2
<1>. HIDE DEF m
<1>5. CASE value = "off"
  BY <1>3, <1>4, <1>5 DEF MuteIs, m
<1>6. CASE value = "forever"
  BY <1>1, <1>2, <1>3, <1>4, <1>6 DEF MuteIs, Forever, m
<1>7. CASE value \in {"8h", "1w", "always"}
  BY <1>2, <1>3, <1>4, <1>7 DEF MuteIs, m
<1>. QED
  BY <1>5, <1>6, <1>7 DEF Mutes
\* What the app state makes of a patch.
Changed(new, jid, patch, value) ==
    LET old == Stored(jid)
    IN  /\ patch \notin {"Mute", "Pin", "Archive"} => new = settings
        /\ patch \in {"Mute", "Pin", "Archive"} =>
             /\ DOMAIN new = DOMAIN settings \cup {jid}
             /\ \A j \in DOMAIN settings \ {jid} : new[j] = settings[j]
             /\ new[jid] \in Settings
             /\ patch # "Mute" => new[jid].mutedUntil = old.mutedUntil
             /\ patch # "Pin" => new[jid].pinned = old.pinned
             /\ patch # "Archive" => new[jid].archived = old.archived
             /\ patch = "Mute" => MuteIs(MuteData(value), new[jid].mutedUntil)
             /\ patch = "Pin" => new[jid].pinned = (value = "on")
             /\ patch = "Archive" => new[jid].archived = (value = "on")
        /\ new = [j \in DOMAIN new |-> new[j]]

\* The app state after a patch has the setting asked for and the rest as it was.
LEMMA AppliedIs ==
    ASSUME NEW jid, NEW patch \in Patches, NEW value,
           patch = "Mute" => value \in Mutes \cup {"forever"}, ChatInv
    PROVE  Changed(Applied(jid, patch, value), jid, patch, value)
<1>. DEFINE new == Applied(jid, patch, value)
            old == Stored(jid)
            until == IF value = "forever" THEN Forever ELSE MuteEnd(value)
<1>1. old \in Settings
  BY DEF Stored, Found, NoSettings, Settings, ChatInv
<1>2. patch = "Mute" => until \in Nat /\ MuteIs(MuteData(value), until)
  BY MuteAgrees DEF ChatInv
<1>3. ASSUME NEW s \in Settings, new = (jid :> s) @@ settings
      PROVE  /\ DOMAIN new = DOMAIN settings \cup {jid} /\ new[jid] = s
             /\ \A j \in DOMAIN settings \ {jid} : new[j] = settings[j]
             /\ new = [j \in DOMAIN new |-> new[j]]
  <2>. DEFINE merged == (jid :> s) @@ settings
  <2>1. DOMAIN merged = DOMAIN settings \cup {jid} /\ merged[jid] = s
        /\ \A j \in DOMAIN settings \ {jid} : merged[j] = settings[j]
    BY DEF @@, :>
  <2>2. merged = [j \in DOMAIN merged |-> merged[j]]
    BY DEF @@, :>
  <2>. HIDE DEF new, merged
  <2>. QED
    BY <1>3, <2>1, <2>2 DEF merged
<1>. HIDE DEF old, until
<1>4. CASE patch = "Mute"
  <2>. DEFINE s == [old EXCEPT !.mutedUntil = until]
  <2>1. /\ s \in Settings /\ s.mutedUntil = until /\ s.pinned = old.pinned /\ s.archived = old.archived
    BY <1>1, <1>2, <1>4 DEF Settings
  <2>2. new = (jid :> s) @@ settings
    BY <1>4 DEF Applied, old, until
  <2>. HIDE DEF s, new
  <2>. QED
    BY <1>2, <1>3, <1>4, <2>1, <2>2 DEF new, old, Changed
<1>5. CASE patch = "Pin"
  <2>. DEFINE s == [old EXCEPT !.pinned = value = "on"]
  <2>1. /\ s \in Settings /\ s.pinned = (value = "on") /\ s.mutedUntil = old.mutedUntil
        /\ s.archived = old.archived
    BY <1>1 DEF Settings
  <2>2. new = (jid :> s) @@ settings
    BY <1>5 DEF Applied, old
  <2>. HIDE DEF s, new
  <2>. QED
    BY <1>3, <1>5, <2>1, <2>2 DEF new, old, Changed
<1>6. CASE patch = "Archive"
  <2>. DEFINE s == [old EXCEPT !.archived = value = "on"]
  <2>1. /\ s \in Settings /\ s.archived = (value = "on") /\ s.mutedUntil = old.mutedUntil
        /\ s.pinned = old.pinned
    BY <1>1 DEF Settings
  <2>2. new = (jid :> s) @@ settings
    BY <1>6 DEF Applied, old
  <2>. HIDE DEF s, new
  <2>. QED
    BY <1>3, <1>6, <2>1, <2>2 DEF new, old, Changed
<1>7. CASE patch \notin {"Mute", "Pin", "Archive"}
  BY <1>7 DEF Applied, ChatInv, Changed
<1>. QED
  BY <1>4, <1>5, <1>6, <1>7

\* A patch of a chat by either address goes to the chat that events have told.
LEMMA ChatOf ==
    ASSUME NEW p \in People, NEW jid, jid = Jid(jid.user, jid.server)
    PROVE  /\ ProjectChatID(Jid(p, "pn"), known) = Jid(p, "pn")
           /\ ProjectChatID(Jid(p, "lid"), known) = IF p \in known THEN Jid(p, "pn") ELSE Jid(p, "lid")
           /\ ProjectChatID(jid, known) = Jid(p, "pn")
                => jid = Jid(p, "pn") \/ (jid = Jid(p, "lid") /\ p \in known)
<1>1. p # NoUser
  BY RoomsAssumption
<1>2. /\ ProjectChatID(Jid(p, "pn"), known) = Jid(p, "pn")
      /\ ProjectChatID(Jid(p, "lid"), known) = IF p \in known THEN Jid(p, "pn") ELSE Jid(p, "lid")
  BY <1>1 DEF ProjectChatID, GetPNForLID, Jid, CleanJID
<1>3. ASSUME ProjectChatID(jid, known) = Jid(p, "pn")
      PROVE  jid = Jid(p, "pn") \/ (jid = Jid(p, "lid") /\ p \in known)
  <2>1. CASE jid.server = "lid" /\ GetPNForLID(jid, known) # NoUser
    <3>1. GetPNForLID(jid, known) = jid.user /\ jid.user \in known
      BY <2>1 DEF GetPNForLID
    <3>2. Jid(jid.user, "pn") = Jid(p, "pn")
      BY <1>3, <2>1, <3>1 DEF ProjectChatID
    <3>3. jid.user = p
      BY <3>2 DEF Jid
    <3>. QED
      BY <2>1, <3>1, <3>3
  <2>2. CASE ~(jid.server = "lid" /\ GetPNForLID(jid, known) # NoUser)
    <3>1. CleanJID(jid) = Jid(p, "pn")
      BY <1>3, <2>2 DEF ProjectChatID
    <3>2. CleanJID(jid) = jid
      <4>1. CleanJID(Jid(jid.user, jid.server)) = Jid(jid.user, jid.server)
        BY DEF CleanJID, Jid
      <4>. QED
        BY <4>1
    <3>. QED
      BY <3>1, <3>2
  <2>. QED
    BY <2>1, <2>2
<1>. QED
  BY <1>2, <1>3
\* One chat after a patch.
LEMMA PatchAgrees ==
    ASSUME ChatInv, NEW p \in People, NEW jid, jid = Jid(jid.user, jid.server),
           NEW patch \in Patches, NEW value, patch = "Mute" => value \in Mutes \cup {"forever"},
           Patch(jid, patch, value), UNCHANGED known, Jid(p, "pn") \in DOMAIN told'
    PROVE  Agrees(p, told[Jid(p, "pn")])'
<1>. DEFINE P == Jid(p, "pn")
            L == Jid(p, "lid")
            set == {"Mute", "Pin", "Archive"}
            id == ProjectChatID(jid, known)
<1>1. P # L
  BY DEF Jid
<1>2. /\ patch \notin set => settings' = settings
      /\ patch \in set =>
           /\ DOMAIN settings' = DOMAIN settings \cup {jid}
           /\ \A j \in DOMAIN settings \ {jid} : settings'[j] = settings[j]
           /\ patch # "Mute" => settings'[jid].mutedUntil = Stored(jid).mutedUntil
           /\ patch # "Pin" => settings'[jid].pinned = Stored(jid).pinned
           /\ patch # "Archive" => settings'[jid].archived = Stored(jid).archived
           /\ patch = "Mute" => MuteIs(MuteData(value), settings'[jid].mutedUntil)
           /\ patch = "Pin" => settings'[jid].pinned = (value = "on")
           /\ patch = "Archive" => settings'[jid].archived = (value = "on")
  <2>1. Changed(settings', jid, patch, value)
    BY AppliedIs DEF Patch
  <2>. QED
    BY <2>1 DEF Changed
<1>3. /\ patch = "Pin" => told' = ToldOf(id, "pin", [isPinned |-> value = "on"])
      /\ patch = "Archive" => told' = ToldOf(id, "archive", [isArchived |-> value = "on"])
      /\ patch = "MarkChatAsRead" => told' = ToldOf(id, "read", [isRead |-> value = "on"])
      /\ patch = "Mute" => told' = ToldOf(id, "mute", MuteData(value))
      /\ patch \in {"ClearChat", "DeleteChat"} => told' = told
  BY ToldAfter DEF Patch
<1>4. P \in DOMAIN told => Agrees(p, told[P])
  BY DEF ChatInv
<1>5. id = P => jid = P \/ (jid = L /\ p \in known)
  BY ChatOf
<1>6. jid = P => id = P
  BY ChatOf
<1>7. jid = L /\ p \in known => id = P
  BY ChatOf
<1>8. \A j \in DOMAIN settings' : Sole(p, j)' =>
        j \in {P, L} /\ \A k \in DOMAIN settings' : k \in {P, L} => k = j
  BY DEF Sole
<1>9. \A j \in {P, L} : j \in DOMAIN settings /\ (\A k \in DOMAIN settings : k \in {P, L} => k = j)
        => Sole(p, j)
  BY DEF Sole
<1>. HIDE DEF P, L, id
<1>10. CASE P \in DOMAIN told /\ told'[P] = told[P] /\ settings' = settings
  <2>1. PICK d : d = told[P]
    OBVIOUS
  <2>2. Agrees(p, d)
    BY <1>4, <1>10, <2>1
  <2>3. told'[P] = d /\ settings' = settings /\ known' = known
    BY <1>10, <2>1
  <2>4. Agrees(p, d)'
    BY <2>2, <2>3 DEF Agrees, Sole, MuteIs, Forever
  <2>. QED
    BY <2>3, <2>4 DEF P
<1>11. CASE id # P
  <2>1. P \in DOMAIN told /\ told'[P] = told[P]
    <3>1. told' = told \/ \E type, data : told' = ToldOf(id, type, data)
      BY <1>3 DEF Patches
    <3>2. CASE \E type, data : told' = ToldOf(id, type, data)
      <4>1. PICK type, data : told' = ToldOf(id, type, data)
        BY <3>2
      <4>2. DOMAIN told' = DOMAIN told \cup {id} /\ \A i \in DOMAIN told \ {id} : told'[i] = told[i]
        <5>1. ToldWith(told', id, type, data)
          BY <4>1, ToldOfIs
        <5>. QED
          BY <5>1 DEF ToldWith
      <4>. QED
        BY <1>11, <4>2 DEF P
    <3>. QED
      BY <3>1, <3>2 DEF P
  <2>2. CASE jid # L \/ patch \notin set
    <3>1. jid \notin {P, L} \/ settings' = settings
      BY <1>2, <1>6, <1>11, <2>2
    <3>2. CASE settings' = settings
      BY <1>10, <2>1, <3>2
    <3>3. CASE jid \notin {P, L} /\ patch \in set
      <4>1. /\ \A j \in {P, L} : j \in DOMAIN settings' <=> j \in DOMAIN settings
            /\ \A j \in {P, L} : j \in DOMAIN settings => settings'[j] = settings[j]
        BY <1>2, <3>3
      <4>2. \A j \in DOMAIN settings' : Sole(p, j)' => Sole(p, j) /\ settings'[j] = settings[j]
        BY <1>8, <1>9, <4>1
      <4>. QED
        <5>1. PICK d : d = told[P]
          OBVIOUS
        <5>2. Agrees(p, d) /\ told'[P] = d
          BY <1>4, <2>1, <5>1
        <5>3. P \in DOMAIN settings' \/ (L \in DOMAIN settings' /\ p \in known')
              \/ {"pin", "mute", "archive"} \cap DOMAIN d = {}
          BY <4>1, <5>2 DEF Agrees, P, L
        <5>4. ASSUME NEW j \in DOMAIN settings', Sole(p, j)'
              PROVE  /\ "pin" \in DOMAIN d => d.pin.isPinned = settings'[j].pinned
                     /\ "archive" \in DOMAIN d => d.archive.isArchived = settings'[j].archived
                     /\ "mute" \in DOMAIN d => MuteIs(d.mute, settings[j].mutedUntil)'
          <6>1. Sole(p, j) /\ settings'[j] = settings[j]
            BY <4>2, <5>4
          <6>2. j \in DOMAIN settings
            BY <6>1 DEF Sole
          <6>3. MuteIs(d.mute, settings[j].mutedUntil)' = MuteIs(d.mute, settings'[j].mutedUntil)
            BY DEF MuteIs, Forever
          <6>. QED
            BY <5>2, <6>1, <6>2, <6>3 DEF Agrees
        <5>5. Agrees(p, d)'
          BY <5>3, <5>4 DEF Agrees, P, L
        <5>. QED
          BY <5>2, <5>5 DEF P
    <3>. QED
      BY <1>2, <3>1, <3>2, <3>3
  <2>3. CASE jid = L /\ patch \in set
    <3>1. p \notin known
      BY <1>7, <1>11, <2>3
    <3>2. Agrees(p, told[P])
      BY <1>4, <2>1
    <3>3. {"pin", "mute", "archive"} \cap DOMAIN told[P] # {} => P \in DOMAIN settings
      BY <3>1, <3>2 DEF Agrees, P
    <3>4. P \in DOMAIN settings => P \in DOMAIN settings' /\ L \in DOMAIN settings'
      BY <1>2, <2>3
    <3>5. {"pin", "mute", "archive"} \cap DOMAIN told[P] # {} => \A j \in DOMAIN settings' : ~Sole(p, j)'
      BY <1>1, <1>8, <3>3, <3>4 DEF P, L
    <3>. QED
      BY <2>1, <3>3, <3>4, <3>5 DEF Agrees, P
  <2>. QED
    BY <2>2, <2>3
<1>12. CASE id = P
  <2>. DEFINE Sets(type, data) ==
         /\ DOMAIN told'[P] = {type} \cup (IF P \in DOMAIN told THEN DOMAIN told[P] ELSE {})
         /\ told'[P][type] = data
         /\ P \in DOMAIN told => \A s \in DOMAIN told[P] \ {type} : told'[P][s] = told[P][s]
  <2>1. /\ patch = "Pin" => Sets("pin", [isPinned |-> value = "on"])
        /\ patch = "Archive" => Sets("archive", [isArchived |-> value = "on"])
        /\ patch = "MarkChatAsRead" => Sets("read", [isRead |-> value = "on"])
        /\ patch = "Mute" => Sets("mute", MuteData(value))
    <3>1. ASSUME NEW type, NEW data, told' = ToldOf(id, type, data) PROVE Sets(type, data)
      <4>1. ToldWith(told', P, type, data)
        BY <1>12, <3>1, ToldOfIs
      <4>. QED
        BY <4>1 DEF ToldWith
    <3>. HIDE DEF Sets
    <3>. QED
      BY <1>3, <3>1
  <2>2. CASE patch \in {"ClearChat", "DeleteChat"}
    BY <1>2, <1>3, <1>10, <2>2 DEF P
  <2>3. CASE patch = "MarkChatAsRead"
    <3>1. settings' = settings /\ \A s \in {"pin", "mute", "archive"} : s \in DOMAIN told'[P]
            => P \in DOMAIN told /\ s \in DOMAIN told[P] /\ told'[P][s] = told[P][s]
      BY <1>2, <2>1, <2>3
    <3>. HIDE DEF Sets
    <3>2. CASE P \in DOMAIN told
      <4>1. Agrees(p, told[P])
        BY <1>4, <3>2
      <4>2. {"pin", "mute", "archive"} \cap DOMAIN told'[P] # {} =>
               {"pin", "mute", "archive"} \cap DOMAIN told[P] # {}
        BY <3>1
      <4>. QED
        BY <3>1, <4>1, <4>2 DEF Agrees, Sole, P, MuteIs
    <3>3. CASE P \notin DOMAIN told
      BY <3>1, <3>3 DEF Agrees, P
    <3>. QED
      BY <3>2, <3>3
  <2>4. CASE patch \in set
    <3>1. jid \in DOMAIN settings' /\ (jid = P \/ (jid = L /\ p \in known))
      BY <1>2, <1>5, <1>12, <2>4
    <3>2. \A j \in DOMAIN settings' : Sole(p, j)' => j = jid
      BY <1>8, <3>1
    \* What was told before has come from the same address.
    <3>3. ASSUME Sole(p, jid)', NEW s \in {"pin", "mute", "archive"}, P \in DOMAIN told, s \in DOMAIN told[P]
          PROVE  Sole(p, jid) /\ jid \in DOMAIN settings
      <4>1. P \in DOMAIN settings \/ L \in DOMAIN settings
        BY <1>4, <3>3 DEF Agrees, P, L
      <4>2. DOMAIN settings \subseteq DOMAIN settings'
        BY <1>2, <2>4
      <4>3. \A k \in DOMAIN settings : k \in {P, L} => k = jid
        BY <1>8, <3>1, <3>3, <4>2
      <4>. QED
        BY <1>9, <3>1, <4>1, <4>3
    <3>4. jid \in DOMAIN settings => Stored(jid) = settings[jid]
      BY DEF Stored, Found
    <3>5. ASSUME Sole(p, jid)'
          PROVE  LET d == told'[P]
                 IN  /\ "pin" \in DOMAIN d => d.pin.isPinned = settings'[jid].pinned
                     /\ "archive" \in DOMAIN d => d.archive.isArchived = settings'[jid].archived
                     /\ "mute" \in DOMAIN d => MuteIs(d.mute, settings'[jid].mutedUntil)
      <4>1. ASSUME "pin" \in DOMAIN told'[P] PROVE told'[P].pin.isPinned = settings'[jid].pinned
        <5>1. CASE patch = "Pin"
          BY <1>2, <2>1, <5>1
        <5>2. CASE patch # "Pin"
          <6>1. P \in DOMAIN told /\ "pin" \in DOMAIN told[P] /\ told'[P].pin = told[P].pin
            BY <2>1, <2>4, <4>1, <5>2
          <6>2. Sole(p, jid) /\ jid \in DOMAIN settings
            BY <3>3, <3>5, <6>1
          <6>3. told[P].pin.isPinned = settings[jid].pinned
            BY <1>4, <6>1, <6>2 DEF Agrees
          <6>. QED
            BY <1>2, <2>4, <3>4, <5>2, <6>1, <6>2, <6>3
        <5>. QED
          BY <5>1, <5>2
      <4>2. ASSUME "archive" \in DOMAIN told'[P]
            PROVE  told'[P].archive.isArchived = settings'[jid].archived
        <5>1. CASE patch = "Archive"
          BY <1>2, <2>1, <5>1
        <5>2. CASE patch # "Archive"
          <6>1. P \in DOMAIN told /\ "archive" \in DOMAIN told[P] /\ told'[P].archive = told[P].archive
            BY <2>1, <2>4, <4>2, <5>2
          <6>2. Sole(p, jid) /\ jid \in DOMAIN settings
            BY <3>3, <3>5, <6>1
          <6>3. told[P].archive.isArchived = settings[jid].archived
            BY <1>4, <6>1, <6>2 DEF Agrees
          <6>. QED
            BY <1>2, <2>4, <3>4, <5>2, <6>1, <6>2, <6>3
        <5>. QED
          BY <5>1, <5>2
      <4>3. ASSUME "mute" \in DOMAIN told'[P] PROVE MuteIs(told'[P].mute, settings'[jid].mutedUntil)
        <5>1. CASE patch = "Mute"
          BY <1>2, <2>1, <5>1
        <5>2. CASE patch # "Mute"
          <6>1. P \in DOMAIN told /\ "mute" \in DOMAIN told[P] /\ told'[P].mute = told[P].mute
            BY <2>1, <2>4, <4>3, <5>2
          <6>2. Sole(p, jid) /\ jid \in DOMAIN settings
            BY <3>3, <3>5, <6>1
          <6>3. MuteIs(told[P].mute, settings[jid].mutedUntil)
            BY <1>4, <6>1, <6>2 DEF Agrees
          <6>. QED
            BY <1>2, <2>4, <3>4, <5>2, <6>1, <6>2, <6>3
        <5>. QED
          BY <5>1, <5>2
      <4>. QED
        BY <4>1, <4>2, <4>3
    <3>. HIDE DEF Sets
    <3>6. MuteIs(told'[P].mute, settings'[jid].mutedUntil) => MuteIs(told[P].mute, settings[jid].mutedUntil)'
      BY DEF MuteIs, Forever, P
    <3>. QED
      BY <3>1, <3>2, <3>5, <3>6 DEF Agrees, P, L, MuteIs, Forever
  <2>. QED
    BY <2>2, <2>3, <2>4 DEF Patches
<1>. QED
  BY <1>11, <1>12
\* Steps that leave the settings and what was told of them alone.
LEMMA SameChats ==
    ASSUME ChatInv, UNCHANGED <<settings, told>>, known \subseteq known', known' \subseteq People,
           now' \in 0..MaxTime, rows' \subseteq {Jid(p, "pn") : p \in People}
    PROVE  ChatInv'
<1>1. ASSUME NEW p \in People, Jid(p, "pn") \in DOMAIN told'
      PROVE  Agrees(p, told[Jid(p, "pn")])'
  <2>1. PICK d : d = told[Jid(p, "pn")]
    OBVIOUS
  <2>2. Agrees(p, d) /\ told'[Jid(p, "pn")] = d
    BY <1>1, <2>1 DEF ChatInv
  <2>3. Agrees(p, d)'
    BY <2>2 DEF Agrees, Sole, MuteIs, Forever
  <2>. QED
    BY <2>2, <2>3
<1>2. /\ settings = [j \in DOMAIN settings |-> settings[j]] /\ IsFiniteSet(DOMAIN settings)
      /\ \A j \in DOMAIN settings : settings[j] \in Settings
  BY DEF ChatInv
<1>. QED
  BY <1>1, <1>2 DEF ChatInv

\* A patch, the account's or the phone's, keeps the invariant of the chats.
LEMMA PatchStep ==
    ASSUME ChatInv, NEW jid, jid = Jid(jid.user, jid.server),
           NEW patch \in Patches, NEW value, patch = "Mute" => value \in Mutes \cup {"forever"},
           Patch(jid, patch, value), UNCHANGED <<known, now>>
    PROVE  ChatInv'
<1>1. Changed(settings', jid, patch, value)
  BY AppliedIs DEF Patch
<1>2. DOMAIN settings' \in {DOMAIN settings, DOMAIN settings \cup {jid}}
  BY <1>1 DEF Changed
<1>3. IsFiniteSet(DOMAIN settings')
  <2>1. IsFiniteSet(DOMAIN settings)
    BY DEF ChatInv
  <2>2. IsFiniteSet(DOMAIN settings \cup {jid})
    BY <2>1, FS_AddElement
  <2>. QED
    BY <1>2, <2>1, <2>2
<1>4. \A j \in DOMAIN settings' : settings'[j] \in Settings
  <2>1. \A j \in DOMAIN settings : settings[j] \in Settings
    BY DEF ChatInv
  <2>. QED
    BY <1>1, <2>1 DEF Changed
<1>5. settings' = [j \in DOMAIN settings' |-> settings'[j]]
  BY <1>1 DEF Changed
<1>6. rows' \subseteq {Jid(p, "pn") : p \in People}
  BY DEF Patch, ChatInv
<1>7. ASSUME NEW p \in People, Jid(p, "pn") \in DOMAIN told'
      PROVE  Agrees(p, told[Jid(p, "pn")])'
  BY <1>7, PatchAgrees
<1>8. known' \subseteq People /\ now' \in 0..MaxTime
  BY DEF ChatInv
<1>. QED
  BY <1>3, <1>4, <1>5, <1>6, <1>7, <1>8 DEF ChatInv, Settings

\* So does every step; what a message teaches is a second address, no setting.
LEMMA ChatStep ==
    ASSUME ChatInv, [Next]_vars, known' \subseteq People
    PROVE  ChatInv'
<1>1. MaxTime \in Nat /\ now \in 0..MaxTime /\ known \subseteq People
      /\ rows \subseteq {Jid(p, "pn") : p \in People}
  BY RoomsAssumption DEF ChatInv
<1>2. CASE UNCHANGED <<chatVars, now>> /\ known \subseteq known'
  BY <1>1, <1>2, SameChats DEF chatVars
<1>3. CASE RequestChat
  <2>1. PICK r \in Requests : Has(r, "patch") /\ Patch(ParseJID(r.id), r.patch, r.value)
    BY <1>3 DEF RequestChat
  <2>2. r.patch \in Patches /\ (r.patch = "Mute" => r.value \in Mutes)
    BY <2>1, AsksAssumption
  <2>3. PICK jid : jid = ParseJID(r.id)
    OBVIOUS
  <2>4. jid = Jid(jid.user, jid.server)
    BY <2>3 DEF ParseJID, Jid
  <2>5. UNCHANGED <<known, now>> /\ Patch(jid, r.patch, r.value)
    BY <1>3, <2>1, <2>3 DEF RequestChat
  <2>. QED
    BY <2>2, <2>4, <2>5, PatchStep
<1>4. CASE PhonePatches
  <2>1. PICK o \in Others : Has(o, "patch") /\ Patch(o.jid, o.patch, o.value)
    BY <1>4 DEF PhonePatches
  <2>2. /\ o.patch \in Patches /\ (o.patch = "Mute" => o.value \in Mutes \cup {"forever"})
        /\ o.jid = Jid(o.jid.user, o.jid.server)
    BY <2>1, AsksAssumption
  <2>3. UNCHANGED <<known, now>>
    BY <1>4 DEF PhonePatches
  <2>. QED
    BY <2>1, <2>2, <2>3, PatchStep
<1>5. ASSUME NEW p \in Contacts, MessageComes(p) PROVE ChatInv'
  <2>1. PICK server \in {"pn", "lid"}, alt \in BOOLEAN :
          LET knows == IF alt THEN known \cup {p} ELSE known
              chat  == ResolveMention(Jid(p, server), knows)
          IN  /\ known' = knows
              /\ rows' = IF chat.server = "lid" THEN rows ELSE rows \cup {chat}
    BY <1>5 DEF MessageComes
  <2>2. p \in People
    BY RoomsAssumption
  <2>3. known \subseteq known'
    BY <2>1
  <2>4. ResolveMention(Jid(p, server), known') \in {Jid(p, "pn"), Jid(p, "lid")}
    BY <2>1 DEF ResolveMention, GetPNForLID, Jid
  <2>5. rows' \subseteq rows \cup {Jid(p, "pn")}
    BY <2>1, <2>4 DEF Jid
  <2>6. UNCHANGED <<settings, told, now>>
    BY <1>5 DEF MessageComes
  <2>. QED
    BY <1>1, <2>2, <2>3, <2>5, <2>6, SameChats
<1>6. CASE TimePasses
  BY <1>1, <1>6, SameChats DEF TimePasses, chatVars
<1>7. CASE RequestGroup \/ CommunityLookup \/ CommunityUpdate \/ OthersDo \/ Deliver
  BY <1>2, <1>7 DEF RequestGroup, CommunityLookup, CommunityUpdate, OthersDo, Deliver, WhatsApp
<1>8. ASSUME NEW g \in Groups, ReadGroup(g) PROVE ChatInv'
  BY <1>2, <1>8 DEF ReadGroup
<1>. QED
  BY <1>2, <1>3, <1>4, <1>5, <1>6, <1>7, <1>8 DEF Next, vars, groupVars

\* At the start no chat has settings and nothing was told.
LEMMA ChatInit == Init => ChatInv
<1>. SUFFICES ASSUME Init PROVE ChatInv
  OBVIOUS
<1>1. settings = Nothing /\ told = Nothing /\ DOMAIN Nothing = {} /\ IsFiniteSet({})
  BY FS_EmptySet DEF Init, Nothing
<1>2. Nothing = [j \in DOMAIN Nothing |-> Nothing[j]]
  BY DEF Nothing
<1>. QED
  BY <1>1, <1>2, RoomsAssumption DEF Init, ChatInv

\* An answer of chat.go shows the settings that were told, by their invariant.
LEMMA ChatsAgree ==
    ASSUME ChatInv
    PROVE  SettingsAgree
<1>. SUFFICES ASSUME NEW id \in rows, ChatInfo(id).id \in DOMAIN told, OneForm(ChatInfo(id).id)
              PROVE  LET info == ChatInfo(id)
                         d == told[info.id]
                     IN  /\ Has(d, "pin") => info.isPinned = d.pin.isPinned
                         /\ Has(d, "archive") => info.isArchived = d.archive.isArchived
                         /\ Has(d, "mute") => info.isMuted = ToldMuted(d.mute)
  BY DEF SettingsAgree, ListChats
<1>1. PICK p \in People : id = Jid(p, "pn")
  BY DEF ChatInv
<1>. DEFINE P == Jid(p, "pn")
            L == Jid(p, "lid")
            d == told[P]
            s == GetChatSettings(P)
<1>2. /\ ChatInfo(id).id = P
      /\ ChatInfo(id).isPinned = (s.found /\ s.pinned)
      /\ ChatInfo(id).isArchived = (s.found /\ s.archived)
      /\ ChatInfo(id).isMuted = (s.found /\ s.mutedUntil # 0 /\ s.mutedUntil > now)
  BY <1>1 DEF ChatInfo
<1>3. Agrees(p, d)
  BY <1>2 DEF ChatInv
<1>4. p # NoUser /\ P.user = p /\ L.user = p
  BY RoomsAssumption DEF Jid
<1>5. PICK j : {k \in DOMAIN settings : k.user = p} = {j}
  <2>1. IsFiniteSet({k \in DOMAIN settings : k.user = p})
    <3>1. IsFiniteSet(DOMAIN settings)
      BY DEF ChatInv
    <3>. QED
      BY <3>1, FS_Subset, {k \in DOMAIN settings : k.user = p} \in SUBSET DOMAIN settings
  <2>2. Cardinality({k \in DOMAIN settings : k.user = p}) = 1
    BY <1>2, <1>4 DEF OneForm
  <2>. QED
    BY <2>1, <2>2, FS_Singleton
<1>6. CASE {"pin", "mute", "archive"} \cap DOMAIN d = {}
  BY <1>2, <1>6 DEF Has
<1>7. CASE {"pin", "mute", "archive"} \cap DOMAIN d # {}
  <2>1. P \in DOMAIN settings \/ (L \in DOMAIN settings /\ p \in known)
    BY <1>3, <1>7 DEF Agrees
  <2>2. j \in DOMAIN settings /\ (j = P \/ (j = L /\ p \in known))
    BY <1>4, <1>5, <2>1
  <2>3. Sole(p, j)
    <3>1. \A k \in DOMAIN settings : k.user = p => k = j
      BY <1>5
    <3>. QED
      BY <1>4, <2>2, <3>1 DEF Sole
  <2>4. settings[j] \in Settings
    BY <2>2 DEF ChatInv
  <2>5. s = [found |-> TRUE] @@ settings[j]
    <3>1. CASE j = P
      BY <2>2, <3>1 DEF GetChatSettings, Found, Stored
    <3>2. CASE j = L /\ p \in known
      <4>1. P \notin DOMAIN settings
        <5>1. P # L
          BY DEF Jid
        <5>. QED
          BY <1>4, <1>5, <3>2, <5>1
      <4>2. GetLIDForPN(P, known) = p /\ P.server = "pn"
        BY <1>4, <3>2 DEF GetLIDForPN, Jid
      <4>. QED
        BY <1>4, <2>2, <3>2, <4>1, <4>2 DEF GetChatSettings, Found, Stored
    <3>. QED
      BY <2>2, <3>1, <3>2
  <2>6. /\ s.found = TRUE /\ s.pinned = settings[j].pinned /\ s.archived = settings[j].archived
        /\ s.mutedUntil = settings[j].mutedUntil
    <3>. HIDE DEF s
    <3>. QED
      BY <2>4, <2>5 DEF @@, Settings
  <2>7. /\ "pin" \in DOMAIN d => d.pin.isPinned = settings[j].pinned
        /\ "archive" \in DOMAIN d => d.archive.isArchived = settings[j].archived
        /\ "mute" \in DOMAIN d => MuteIs(d.mute, settings[j].mutedUntil)
    BY <1>3, <2>2, <2>3 DEF Agrees
  <2>8. /\ settings[j].pinned \in BOOLEAN /\ settings[j].archived \in BOOLEAN
        /\ settings[j].mutedUntil \in Nat
    BY <2>4 DEF Settings
  <2>. HIDE DEF s, d
  <2>9. Has(d, "pin") => ChatInfo(id).isPinned = d.pin.isPinned
    <3>1. ChatInfo(id).isPinned = settings[j].pinned
      BY <1>2, <2>6, <2>8
    <3>. QED
      BY <2>7, <3>1 DEF Has
  <2>10. Has(d, "archive") => ChatInfo(id).isArchived = d.archive.isArchived
    <3>1. ChatInfo(id).isArchived = settings[j].archived
      BY <1>2, <2>6, <2>8
    <3>. QED
      BY <2>7, <3>1 DEF Has
  <2>11. Has(d, "mute") => ChatInfo(id).isMuted = ToldMuted(d.mute)
    <3>. SUFFICES ASSUME Has(d, "mute") PROVE ChatInfo(id).isMuted = ToldMuted(d.mute)
      OBVIOUS
    <3>1. MuteIs(d.mute, settings[j].mutedUntil)
      BY <2>7 DEF Has
    <3>2. ChatInfo(id).isMuted = (settings[j].mutedUntil # 0 /\ settings[j].mutedUntil > now)
      BY <1>2, <2>6
    <3>3. MaxTime \in Nat /\ now \in 0..MaxTime
      BY RoomsAssumption DEF ChatInv
    <3>4. (settings[j].mutedUntil # 0 /\ settings[j].mutedUntil > now) <=> ToldMuted(d.mute)
      BY <2>8, <3>1, <3>3 DEF MuteIs, ToldMuted, Forever
    <3>. QED
      BY <3>2, <3>4 DEF ToldMuted
  <2>. QED
    BY <1>2, <2>9, <2>10, <2>11 DEF d
<1>. QED
  BY <1>6, <1>7
-----------------------------------------------------------------------------
(* Roles of a person along the events that are on their way. *)

\* What may happen may be followed; a mention of nobody changes no role, and an
\* invitation may change any.
LEMMA RelationsAre ==
    /\ Happens \subseteq Follows
    /\ \A rel \in {Happens, Follows} : \A x, y \in Roles :
         /\ <<"nothing", x, y>> \in rel <=> x = y
         /\ <<"again", x, y>> \in rel
    /\ \A rel \in {Happens, Follows} : \A t \in rel : t[2] \in Roles /\ t[3] \in Roles
<1>1. \A t \in Happens : t \in Follows
  BY DEF Happens, Follows, Mentions, Roles
<1>2. \A x, y \in Roles : /\ <<"nothing", x, y>> \in Happens <=> x = y
                          /\ <<"again", x, y>> \in Happens
  BY DEF Happens, Mentions
<1>3. \A x, y \in Roles : /\ <<"nothing", x, y>> \in Follows <=> x = y
                          /\ <<"again", x, y>> \in Follows
  BY DEF Follows, Mentions
<1>4. \A t \in Happens : t[2] \in Roles /\ t[3] \in Roles
  BY DEF Happens
<1>5. \A t \in Follows : t[2] \in Roles /\ t[3] \in Roles
  BY DEF Follows
<1>. QED
  BY <1>1, <1>2, <1>3, <1>4, <1>5

\* A path is extended by the role that the next event leads to.
LEMMA PathAppend ==
    ASSUME NEW rel \in {Happens, Follows}, NEW X, NEW q \in Seq(X), NEW e, NEW g, NEW p, NEW path,
           Path(rel, q, g, p, path), NEW y \in Roles,
           <<Mention(e, g, p), path[Len(q)], y>> \in rel
    PROVE  \E new \in [0..Len(Append(q, e)) -> Roles] :
             /\ Path(rel, Append(q, e), g, p, new)
             /\ new[0] = path[0] /\ new[Len(Append(q, e))] = y
<1>. DEFINE q2 == Append(q, e)
            l == Len(q)
            new == [n \in 0..(l + 1) |-> IF n = l + 1 THEN y ELSE path[n]]
<1>1. /\ l \in Nat /\ Len(q2) = l + 1 /\ q2[l + 1] = e
      /\ \A n \in 1..l : q2[n] = q[n]
  <2>1. q \in Seq(X \cup {e}) /\ e \in X \cup {e}
    OBVIOUS
  <2>. QED
    BY <2>1, AppendProperties, LenProperties
<1>. HIDE DEF q2, l
<1>2. path \in [0..l -> Roles] /\ \A n \in 1..l : <<Mention(q[n], g, p), path[n - 1], path[n]>> \in rel
  BY DEF Path, l
<1>3. new \in [0..(l + 1) -> Roles] /\ new[0] = path[0] /\ new[l + 1] = y
  BY <1>1, <1>2
<1>4. ASSUME NEW n \in 1..(l + 1) PROVE <<Mention(q2[n], g, p), new[n - 1], new[n]>> \in rel
  <2>1. CASE n = l + 1
    <3>1. new[n - 1] = path[l] /\ new[n] = y /\ q2[n] = e
      BY <1>1, <2>1
    <3>. QED
      BY <3>1 DEF l
  <2>2. CASE n \in 1..l
    <3>1. new[n - 1] = path[n - 1] /\ new[n] = path[n] /\ q2[n] = q[n]
      BY <1>1, <2>2
    <3>. QED
      BY <1>2, <2>2, <3>1
  <2>. QED
    BY <1>1, <2>1, <2>2
<1>. HIDE DEF new
<1>5. Path(rel, q2, g, p, new)
  BY <1>1, <1>3, <1>4 DEF Path
<1>. QED
  BY <1>1, <1>3, <1>5 DEF q2

\* An event that is told together with the last one may move the end of a path.
LEMMA PathMixed ==
    ASSUME NEW rel \in {Happens, Follows}, NEW q, Len(q) \in Nat \ {0}, NEW q2, Len(q2) = Len(q),
           \A n \in 1..Len(q) : n # Len(q) => q2[n] = q[n],
           NEW g, NEW p, NEW path, Path(rel, q, g, p, path), NEW y \in Roles,
           \/ Mention(q2[Len(q)], g, p) = Mention(q[Len(q)], g, p) /\ y = path[Len(q)]
           \/ /\ Mention(q[Len(q)], g, p) = "nothing"
              /\ <<Mention(q2[Len(q)], g, p), path[Len(q)], y>> \in rel
    PROVE  \E new \in [0..Len(q2) -> Roles] :
             /\ Path(rel, q2, g, p, new)
             /\ new[0] = path[0] /\ new[Len(q2)] = y
<1>. DEFINE l == Len(q)
            new == [path EXCEPT ![l] = y]
<1>1. path \in [0..l -> Roles] /\ \A n \in 1..l : <<Mention(q[n], g, p), path[n - 1], path[n]>> \in rel
  BY DEF Path
<1>2. l \in Nat \ {0} /\ Len(q2) = l
  OBVIOUS
<1>3. <<Mention(q2[l], g, p), path[l - 1], y>> \in rel
  <2>1. l \in 1..l
    BY <1>2
  <2>2. <<Mention(q[l], g, p), path[l - 1], path[l]>> \in rel
    BY <1>1, <2>1
  <2>3. path[l - 1] \in Roles /\ path[l] \in Roles
    BY <1>1, <1>2
  <2>4. Mention(q[l], g, p) = "nothing" => path[l - 1] = path[l]
    <3>. SUFFICES ASSUME Mention(q[l], g, p) = "nothing" PROVE path[l - 1] = path[l]
      OBVIOUS
    <3>1. PICK x, y1 : x = path[l - 1] /\ y1 = path[l]
      OBVIOUS
    <3>2. <<"nothing", x, y1>> \in rel /\ x \in Roles /\ y1 \in Roles
      BY <2>2, <2>3, <3>1
    <3>3. x = y1
      BY <3>2, RelationsAre
    <3>. QED
      BY <3>1, <3>3
  <2>. QED
    BY <2>2, <2>4
<1>. HIDE DEF l
<1>4. new \in [0..l -> Roles] /\ new[0] = path[0] /\ new[l] = y /\ \A n \in 0..l : n # l => new[n] = path[n]
  BY <1>1, <1>2
<1>5. ASSUME NEW n \in 1..l PROVE <<Mention(q2[n], g, p), new[n - 1], new[n]>> \in rel
  <2>1. new[n - 1] = path[n - 1]
    BY <1>2, <1>4
  <2>2. CASE n = l
    BY <1>3, <1>4, <2>1, <2>2
  <2>3. CASE n # l
    <3>1. new[n] = path[n] /\ q2[n] = q[n]
      BY <1>2, <1>4, <2>3 DEF l
    <3>. QED
      BY <1>1, <2>1, <3>1
  <2>. QED
    BY <2>2, <2>3
<1>. HIDE DEF new
<1>6. Path(rel, q2, g, p, new)
  BY <1>2, <1>4, <1>5 DEF Path
<1>. QED
  BY <1>2, <1>4, <1>6

\* The queue q2 is q without its first event; a path from a role to another.
Rest(q, q2) ==
    Len(q2) \in Nat /\ Len(q) = Len(q2) + 1 /\ \A n \in 1..Len(q2) : q2[n] = q[n + 1]
Leads(rel, q, g, p, x, y) ==
    \E path \in [0..Len(q) -> Roles] : Path(rel, q, g, p, path) /\ path[0] = x /\ path[Len(q)] = y

\* The first event goes, and the path with it loses its first step.
LEMMA PathTail ==
    ASSUME NEW rel \in {Happens, Follows}, NEW q, NEW q2, Rest(q, q2), NEW g, NEW p,
           NEW x, NEW z, Leads(rel, q, g, p, x, z)
    PROVE  \E y : <<Mention(q[1], g, p), x, y>> \in rel /\ Leads(rel, q2, g, p, y, z)
<1>0. /\ Len(q2) \in Nat /\ Len(q) = Len(q2) + 1
      /\ \A n \in 1..Len(q2) : q2[n] = q[n + 1]
  BY DEF Rest
<1>. PICK path \in [0..Len(q) -> Roles] : Path(rel, q, g, p, path) /\ path[0] = x /\ path[Len(q)] = z
  BY DEF Leads
<1>. DEFINE l == Len(q)
            new == [n \in 0..(l - 1) |-> path[n + 1]]
<1>1. /\ l \in Nat \ {0} /\ Len(q2) = l - 1 /\ \A n \in 1..(l - 1) : q2[n] = q[n + 1]
  BY <1>0
<1>. HIDE DEF l
<1>2. path \in [0..l -> Roles] /\ \A n \in 1..l : <<Mention(q[n], g, p), path[n - 1], path[n]>> \in rel
  BY DEF Path, l
<1>3. new \in [0..(l - 1) -> Roles] /\ new[0] = path[1] /\ new[l - 1] = path[l]
  BY <1>1, <1>2
<1>4. ASSUME NEW n \in 1..(l - 1) PROVE <<Mention(q2[n], g, p), new[n - 1], new[n]>> \in rel
  <2>1. new[n - 1] = path[n] /\ new[n] = path[n + 1] /\ q2[n] = q[n + 1]
    BY <1>1
  <2>2. n + 1 \in 1..l /\ (n + 1) - 1 = n
    BY <1>1
  <2>3. <<Mention(q[n + 1], g, p), path[(n + 1) - 1], path[n + 1]>> \in rel
    BY <1>2, <2>2
  <2>. QED
    BY <2>1, <2>2, <2>3
<1>5. <<Mention(q[1], g, p), path[0], new[0]>> \in rel
  <2>1. 1 \in 1..l /\ 1 - 1 = 0
    BY <1>1
  <2>2. <<Mention(q[1], g, p), path[1 - 1], path[1]>> \in rel
    BY <1>2, <2>1
  <2>. QED
    BY <1>1, <1>3, <2>1, <2>2
<1>. HIDE DEF new
<1>6. Path(rel, q2, g, p, new)
  BY <1>1, <1>3, <1>4 DEF Path
<1>7. Leads(rel, q2, g, p, new[0], z)
  BY <1>1, <1>3, <1>6 DEF Leads, l
<1>. QED
  BY <1>5, <1>7

\* A client that has read a role, and then is told what led to it, ends up
\* with it.
LEMMA PathRead ==
    ASSUME NEW q, Len(q) \in Nat, NEW g, NEW p, NEW path, Path(Happens, q, g, p, path)
    PROVE  \E new \in [0..Len(q) -> Roles] :
             /\ Path(Follows, q, g, p, new)
             /\ new[0] = path[Len(q)] /\ new[Len(q)] = path[Len(q)]
<1>. DEFINE l == Len(q)
            s == path[l]
            K(n) == Mention(q[n], g, p)
            Settles(k) == \/ k \in {"leave", "again"}
                          \/ s = "none" /\ k = "join"
                          \/ s # "none" /\ k \in {"promote", "demote"}
            settled(n) == \E m \in 1..n : Settles(K(m))
            new == [n \in 0..l |-> IF settled(n) THEN path[n] ELSE s]
<1>1. path \in [0..l -> Roles] /\ \A n \in 1..l : <<K(n), path[n - 1], path[n]>> \in Happens
  BY DEF Path
<1>2. l \in Nat /\ s \in Roles
  BY <1>1
<1>3. new \in [0..l -> Roles]
  BY <1>1, <1>2
<1>4. ~settled(0)
  OBVIOUS
<1>5. ASSUME NEW n \in 1..l PROVE <<K(n), new[n - 1], new[n]>> \in Follows
  <2>1. n - 1 \in 0..l /\ n \in 0..l /\ 1..(n - 1) \subseteq 1..n /\ 1..n = 1..(n - 1) \cup {n}
    BY <1>2
  <2>2. settled(n) <=> settled(n - 1) \/ Settles(K(n))
    BY <2>1
  <2>3. PICK k, x, y : k = K(n) /\ x = path[n - 1] /\ y = path[n]
    OBVIOUS
  <2>4. <<k, x, y>> \in Happens /\ x \in Roles /\ y \in Roles
    BY <1>1, <2>1, <2>3
  <2>5. <<k, x, y>> \in Follows
    BY <2>4, RelationsAre
  <2>. HIDE DEF K, Settles, settled
  <2>6. CASE settled(n - 1)
    BY <2>1, <2>2, <2>3, <2>5, <2>6
  <2>7. CASE ~settled(n - 1) /\ Settles(k)
    <3>1. new[n - 1] = s /\ new[n] = y
      BY <2>1, <2>2, <2>3, <2>7
    <3>. HIDE DEF s, new
    <3>2. <<k, s, y>> \in Follows
      BY <1>2, <2>4, <2>7 DEF Settles, Happens, Follows
    <3>. QED
      BY <2>3, <3>1, <3>2
  <2>8. CASE ~settled(n - 1) /\ ~Settles(k)
    <3>1. new[n - 1] = s /\ new[n] = s
      BY <2>1, <2>2, <2>3, <2>8
    <3>. HIDE DEF s, new
    <3>2. k \in Mentions
      BY <2>4 DEF Happens
    <3>3. k = "nothing" \/ (s # "none" /\ k = "join") \/ (s = "none" /\ k \in {"promote", "demote"})
      BY <2>8, <3>2 DEF Settles, Mentions
    <3>4. <<k, s, s>> \in Follows
      BY <1>2, <3>2, <3>3 DEF Follows
    <3>. QED
      BY <2>3, <3>1, <3>4
  <2>. QED
    BY <2>6, <2>7, <2>8
<1>6. new[0] = s /\ new[l] = s
  <2>1. 0 \in 0..l /\ l \in 0..l
    BY <1>2
  <2>. QED
    BY <1>4, <2>1
<1>. HIDE DEF new
<1>7. Path(Follows, q, g, p, new)
  BY <1>3, <1>5 DEF Path
<1>. QED
  BY <1>3, <1>6, <1>7
-----------------------------------------------------------------------------
(* What WhatsApp does to a group, and tells of it. *)

\* A finite set as a sequence has the elements of the set.
LEMMA SequenceOfSet ==
    ASSUME NEW S, IsFiniteSet(S)
    PROVE  LET q == Seqs!SetToSeq(S)
           IN  /\ q \in [1..Len(q) -> S] /\ Len(q) \in Nat
               /\ \A x \in S : \E i \in DOMAIN q : q[i] = x
<1>. DEFINE n == Cardinality(S)
            q == Seqs!SetToSeq(S)
<1>1. n \in Nat /\ ExistsBijection(1..n, S)
  BY FS_CardinalityType
<1>2. \E f \in [1..n -> S] : Seqs!IsInjective(f)
  BY <1>1 DEF ExistsBijection, Bijection, Injection, Seqs!IsInjective, IsInjective
<1>3. q \in [1..n -> S] /\ Seqs!IsInjective(q)
  <2>1. Seqs!Cardinality(S) = n
    BY Zenon DEF Seqs!Cardinality, Cardinality, Seqs!IsFiniteSet, IsFiniteSet
  <2>. HIDE DEF n
  <2>. QED
    BY <1>2, <2>1 DEF Seqs!SetToSeq
<1>. HIDE DEF q
<1>4. q \in Injection(1..n, S)
  BY <1>3 DEF Injection, Seqs!IsInjective, IsInjective
<1>5. IsFiniteSet(1..n) /\ Cardinality(1..n) = n
  BY <1>1, FS_Interval
<1>6. q \in Surjection(1..n, S)
  BY <1>4, <1>5, FS_Injection
<1>7. Len(q) = n
  BY <1>1, <1>3
<1>. QED
  BY <1>1, <1>3, <1>6, <1>7 DEF Surjection, q

\* The list of a notification names those it is about and nobody else.
LEMMA MembersNamed ==
    ASSUME NEW g \in Groups, NEW done \in SUBSET People
    PROVE  LET q == AsMembers(g, done)
           IN  /\ DOMAIN q = 1..Len(q)
               /\ \A i \in DOMAIN q : \E p \in done : q[i] = Jid(p, Mode[g])
               /\ \A p \in People : (\E i \in DOMAIN q : q[i] = Jid(p, Mode[g])) <=> p \in done
<1>. DEFINE S == {Jid(p, Mode[g]) : p \in done}
            f == [p \in done |-> Jid(p, Mode[g])]
            q == Seqs!SetToSeq(S)
<1>1. IsFiniteSet(done)
  BY RoomsAssumption, FS_Subset
<1>2. f \in Surjection(done, S)
  BY DEF Surjection
<1>3. IsFiniteSet(S)
  BY <1>1, <1>2, FS_Surjection
<1>. HIDE DEF q, f
<1>4. /\ q \in [1..Len(q) -> S] /\ Len(q) \in Nat
      /\ \A x \in S : \E i \in DOMAIN q : q[i] = x
  <2>. HIDE DEF S
  <2>. QED
    BY <1>3, SequenceOfSet DEF q
<1>5. AsMembers(g, done) = q
  BY DEF AsMembers, q
<1>6. \A p, r : Jid(p, Mode[g]) = Jid(r, Mode[g]) => p = r
  BY DEF Jid
<1>7. \A i \in DOMAIN q : \E p \in done : q[i] = Jid(p, Mode[g])
  BY <1>4
<1>8. ASSUME NEW p \in People, p \in done PROVE \E i \in DOMAIN q : q[i] = Jid(p, Mode[g])
  BY <1>4, <1>8
<1>. QED
  BY <1>4, <1>5, <1>6, <1>7, <1>8

\* What a notification about the group says of a person.
LEMMA MentionOfInfo ==
    ASSUME NEW g \in Groups, NEW b, NEW changes, NEW p
    PROVE  Mention(InfoEvent(g, b, changes), g, p) =
             CASE Names(changes, "leave", Jid(p, Mode[g]))   -> "leave"
               [] Names(changes, "join", Jid(p, Mode[g]))    -> "join"
               [] Names(changes, "promote", Jid(p, Mode[g])) -> "promote"
               [] Names(changes, "demote", Jid(p, Mode[g]))  -> "demote"
               [] OTHER -> "nothing"
<1>. DEFINE e == InfoEvent(g, b, changes)
<1>1. e.is = "GroupInfo" /\ e.jid = GroupJID(g) /\ e.changes = changes
  BY DEF InfoEvent
<1>. HIDE DEF e
<1>2. Mention(e, g, p) =
        CASE Names(changes, "leave", Jid(p, Mode[g]))   -> "leave"
          [] Names(changes, "join", Jid(p, Mode[g]))    -> "join"
          [] Names(changes, "promote", Jid(p, Mode[g])) -> "promote"
          [] Names(changes, "demote", Jid(p, Mode[g]))  -> "demote"
          [] OTHER -> "nothing"
  BY <1>1 DEF Mention
<1>. QED
  BY <1>2 DEF e

\* A notification with one list of members, or none.
LEMMA MentionIs ==
    ASSUME NEW g \in Groups, NEW done \in SUBSET People, NEW b, NEW changes, NEW f \in MemberFields,
           DOMAIN changes \cap MemberFields = {f}, changes[f] = AsMembers(g, done), NEW p \in People
    PROVE  Mention(InfoEvent(g, b, changes), g, p) = IF p \in done THEN f ELSE "nothing"
<1>1. (\E i \in DOMAIN AsMembers(g, done) : AsMembers(g, done)[i] = Jid(p, Mode[g])) <=> p \in done
  BY MembersNamed
<1>2. Names(changes, f, Jid(p, Mode[g])) <=> p \in done
  BY <1>1 DEF Names
<1>3. \A h \in MemberFields \ {f} : ~Names(changes, h, Jid(p, Mode[g]))
  BY DEF Names
<1>. QED
  BY <1>2, <1>3, MentionOfInfo DEF MemberFields

\* A notification without a list of members says nothing of anybody.
LEMMA NobodyNamed ==
    ASSUME NEW g \in Groups, NEW b, NEW changes, DOMAIN changes \cap MemberFields = {}, NEW p \in People
    PROVE  Mention(InfoEvent(g, b, changes), g, p) = "nothing"
<1>1. \A h \in MemberFields : ~Names(changes, h, Jid(p, Mode[g]))
  BY DEF Names
<1>. QED
  BY <1>1, MentionOfInfo DEF MemberFields
\* Parts of a group that no client is told of may change.
Same(g) == group'[g].role = group[g].role /\ \A f \in Fields : group'[g][f] = group[g][f]

NotTold(g) == Me \notin Members(g) /\ Me \notin Members(g)' /\ UNCHANGED pending
Invited(g) == \E e : Notify(e) /\ e.is = "JoinedGroup" /\ e.jid = GroupJID(g)
InfoTold(g) ==
    \E by, changes :
        /\ Me \in Members(g) /\ Notify(InfoEvent(g, by, changes)) /\ ChangesOK(g, changes)
        /\ \A p \in People :
             <<Mention(InfoEvent(g, by, changes), g, p), RoleOf(g, p), RoleOf(g, p)'>> \in Happens
        /\ \A f \in Fields : group'[g][f] = IF f \in DOMAIN changes THEN changes[f] ELSE group[g][f]

GroupStep(g) ==
    /\ DOMAIN group' = Groups /\ \A h \in Groups : GroupOK(h)'
    /\ \A h \in Groups \ {g} : Same(h)
    /\ NotTold(g) \/ Invited(g) \/ InfoTold(g)

\* The names of settings, lists and relations are different from each other.
LEMMA FieldsAre ==
    /\ Settable = Fields \cup {"memberAddMode"} /\ Settable \subseteq Record
    /\ "ephemeral" \notin MemberFields \cup PlainFields
    /\ Fields \ {"ephemeral"} \subseteq PlainFields
    /\ Fields \cap MemberFields = {} /\ PlainFields \cap MemberFields = {}
    /\ {"role", "exists", "parent", "isParent", "isDefault", "memberAddMode"} \cap Fields = {}
    /\ {"role", "exists", "parent", "isParent", "isDefault"} \subseteq Record
    /\ {"read", "members", "id", "sender"} \cap (Fields \cup MemberFields \cup PlainFields) = {}
BY DEF Settable, Record, Fields, GroupFieldsShown, CommunityFields, MemberFields, PlainFields

\* Members are people, and whoever has a role is one.
LEMMA RolesAre ==
    ASSUME GroupsOK, NEW g \in Groups
    PROVE  /\ Members(g) \subseteq People
           /\ \A p : RoleOf(g, p) \in Roles
           /\ \A p : p \in Members(g) <=> RoleOf(g, p) # "none"
           /\ \A p : IsAdmin(g, p) <=> RoleOf(g, p) = "admin"
           /\ \A p : p \in Members(g) => group[g].exists
<1>1. PICK people \in SUBSET People : /\ group[g].role \in [people -> {"admin", "member"}]
                                      /\ ~group[g].exists => people = {}
  BY DEF GroupsOK, GroupOK
<1>2. Members(g) = people
  BY <1>1 DEF Members
<1>3. \A p : p \in people => group[g].role[p] \in {"admin", "member"}
  BY <1>1
<1>. QED
  BY <1>1, <1>2, <1>3 DEF RoleOf, Roles, IsAdmin

SetsRoles(g, roles) == group' = [group EXCEPT ![g].role = roles]
Sets(g, field, value) == group' = [group EXCEPT ![g][field] = value]

\* New roles of a group change nothing else.
LEMMA RoleChange ==
    ASSUME GroupsOK, NEW g \in Groups, NEW people \in SUBSET People,
           NEW roles \in [people -> {"admin", "member"}], group[g].exists,
           SetsRoles(g, roles)
    PROVE  /\ GroupsOK' /\ \A h \in Groups \ {g} : Same(h)
           /\ Members(g)' = people
           /\ \A f \in Fields : group'[g][f] = group[g][f]
           /\ \A p : RoleOf(g, p)' = IF p \in people THEN roles[p] ELSE "none"
<1>. DEFINE new == [group[g] EXCEPT !.role = roles]
<1>1. group[g] = [f \in Record |-> group[g][f]] /\ DOMAIN group = Groups
  BY DEF GroupsOK, GroupOK
<1>2. group' = [group EXCEPT ![g] = new]
  BY DEF SetsRoles
<1>3. /\ new = [f \in Record |-> new[f]] /\ new.role = roles /\ new.exists = group[g].exists
      /\ \A f \in Fields : new[f] = group[g][f]
  <2>1. DOMAIN group[g] = Record
    BY <1>1
  <2>2. \A f \in Record : new[f] = IF f = "role" THEN roles ELSE group[g][f]
    BY <2>1
  <2>3. DOMAIN new = Record
    BY <2>1
  <2>4. Fields \subseteq Record /\ "role" \notin Fields /\ "role" \in Record /\ "exists" \in Record
    BY FieldsAre
  <2>5. new = [f \in Record |-> new[f]]
    BY <1>1
  <2>. HIDE DEF new
  <2>. QED
    BY <2>2, <2>4, <2>5
<1>. HIDE DEF new
<1>4. group'[g] = new /\ DOMAIN group' = Groups /\ \A h \in Groups \ {g} : group'[h] = group[h]
  BY <1>1, <1>2
<1>5. GroupOK(g)'
  BY <1>3, <1>4 DEF GroupOK
<1>6. \A h \in Groups \ {g} : GroupOK(h)' /\ Same(h)
  BY <1>4 DEF GroupsOK, GroupOK, Same
<1>7. Members(g)' = people
  BY <1>3, <1>4 DEF Members
<1>8. \A p : RoleOf(g, p)' = IF p \in people THEN roles[p] ELSE "none"
  BY <1>3, <1>4, <1>7 DEF RoleOf
<1>. QED
  BY <1>3, <1>4, <1>5, <1>6, <1>7, <1>8 DEF GroupsOK

\* A new setting or parent of a group changes no role.
LEMMA PlainChange ==
    ASSUME GroupsOK, NEW g \in Groups, NEW field \in Settable \cup {"parent"}, NEW value,
           Sets(g, field, value)
    PROVE  /\ GroupsOK' /\ \A h \in Groups \ {g} : Same(h)
           /\ Members(g)' = Members(g)
           /\ \A f \in Fields : group'[g][f] = IF f = field THEN value ELSE group[g][f]
           /\ \A p : RoleOf(g, p)' = RoleOf(g, p)
           /\ group'[g].role = group[g].role
<1>. DEFINE new == [group[g] EXCEPT ![field] = value]
<1>1. group[g] = [f \in Record |-> group[g][f]] /\ DOMAIN group = Groups
  BY DEF GroupsOK, GroupOK
<1>2. group' = [group EXCEPT ![g] = new]
  BY DEF Sets
<1>3. field \in Record /\ field \notin {"role", "exists"} /\ Fields \subseteq Record
      /\ {"role", "exists"} \subseteq Record
  BY FieldsAre DEF Settable
<1>4. /\ new = [f \in Record |-> new[f]]
      /\ \A f \in Record : new[f] = IF f = field THEN value ELSE group[g][f]
  <2>1. DOMAIN group[g] = Record
    BY <1>1
  <2>. QED
    BY <1>1, <1>3, <2>1
<1>. HIDE DEF new
<1>5. group'[g] = new /\ DOMAIN group' = Groups /\ \A h \in Groups \ {g} : group'[h] = group[h]
  BY <1>1, <1>2
<1>6. new.role = group[g].role /\ new.exists = group[g].exists
  BY <1>3, <1>4
<1>7. GroupOK(g)'
  BY <1>4, <1>5, <1>6 DEF GroupsOK, GroupOK
<1>8. \A h \in Groups \ {g} : GroupOK(h)' /\ Same(h)
  BY <1>5 DEF GroupsOK, GroupOK, Same
<1>9. Members(g)' = Members(g) /\ \A p : RoleOf(g, p)' = RoleOf(g, p)
  BY <1>5, <1>6 DEF Members, RoleOf
<1>. QED
  BY <1>3, <1>4, <1>5, <1>6, <1>7, <1>8, <1>9 DEF GroupsOK
\* A change whose notification says who was and who is what, and each setting.
LEMMA TellStep ==
    ASSUME NEW g \in Groups, NEW by, NEW changes, GroupsOK', \A h \in Groups \ {g} : Same(h),
           Tell(g, by, changes), Me \notin Members(g) => Me \notin Members(g)',
           Me \in Members(g) => ChangesOK(g, changes),
           \A b : \A p \in People :
             <<Mention(InfoEvent(g, b, changes), g, p), RoleOf(g, p), RoleOf(g, p)'>> \in Happens,
           \A f \in Fields : group'[g][f] = IF f \in DOMAIN changes THEN changes[f] ELSE group[g][f]
    PROVE  GroupStep(g)
<1>1. DOMAIN group' = Groups /\ \A h \in Groups : GroupOK(h)'
  BY DEF GroupsOK
<1>2. CASE Me \notin Members(g)
  BY <1>1, <1>2 DEF Tell, GroupStep, NotTold
<1>3. CASE Me \in Members(g)
  <2>1. PICK b \in By(g, by) : Notify(InfoEvent(g, b, changes))
    BY <1>3 DEF Tell
  <2>2. InfoTold(g)
    BY <1>3, <2>1 DEF InfoTold
  <2>. QED
    BY <1>1, <2>2 DEF GroupStep
<1>. QED
  BY <1>2, <1>3

\* A setting is changed as its notification says (handler/group.go setters).
LEMMA SetFieldStep ==
    ASSUME GroupsOK, NEW by, NEW ask, Askable(ask), SetField(by, ask)
    PROVE  \E g \in Groups : GroupStep(g)
<1>. DEFINE g == ask.group
            f == ask.field
            changes == If(f # "memberAddMode", f :> ask.value)
<1>1. g \in Groups /\ f \in Settable
  BY DEF SetField, Askable
<1>2. Sets(g, f, ask.value) /\ Tell(g, by, changes)
  BY DEF SetField, Sets
<1>. HIDE DEF g, f
<1>3. /\ GroupsOK' /\ \A h \in Groups \ {g} : Same(h)
      /\ Members(g)' = Members(g)
      /\ \A x \in Fields : group'[g][x] = IF x = f THEN ask.value ELSE group[g][x]
      /\ \A p : RoleOf(g, p)' = RoleOf(g, p)
  BY <1>1, <1>2, PlainChange
<1>4. /\ DOMAIN changes = IF f # "memberAddMode" THEN {f} ELSE {}
      /\ \A x \in DOMAIN changes : changes[x] = ask.value
      /\ changes = [x \in DOMAIN changes |-> changes[x]]
  BY DEF If, Nothing, :>
<1>. HIDE DEF changes
<1>5. DOMAIN changes \cap MemberFields = {} /\ DOMAIN changes \subseteq Fields
  BY <1>1, <1>4, FieldsAre
<1>6. ChangesOK(g, changes)
  BY <1>4, <1>5 DEF ChangesOK
<1>7. \A b : \A p \in People :
        <<Mention(InfoEvent(g, b, changes), g, p), RoleOf(g, p), RoleOf(g, p)'>> \in Happens
  <2>. TAKE b
  <2>. TAKE p \in People
  <2>1. Mention(InfoEvent(g, b, changes), g, p) = "nothing"
    BY <1>1, <1>5, NobodyNamed
  <2>2. PICK x : x = RoleOf(g, p)
    OBVIOUS
  <2>3. x \in Roles /\ RoleOf(g, p)' = x
    BY <1>1, <1>3, <2>2, RolesAre
  <2>4. <<"nothing", x, x>> \in Happens
    BY <2>3, RelationsAre
  <2>. QED
    BY <2>1, <2>2, <2>3, <2>4
<1>8. \A x \in Fields : group'[g][x] = IF x \in DOMAIN changes THEN changes[x] ELSE group[g][x]
  BY <1>3, <1>4, FieldsAre
<1>. QED
  BY <1>1, <1>2, <1>3, <1>6, <1>7, <1>8, TellStep

\* Changes with one list of members, and perhaps a reason.
LEMMA MembersStep ==
    ASSUME GroupsOK, GroupsOK', NEW g \in Groups, NEW by, NEW how \in MemberFields,
           NEW done \in SUBSET People, NEW changes, changes = [f \in DOMAIN changes |-> changes[f]],
           DOMAIN changes \in {{how}, {how, "joinReason"}}, changes[how] = AsMembers(g, done),
           how = "join" => Me \notin done, Tell(g, by, changes),
           \A h \in Groups \ {g} : Same(h), \A f \in Fields : group'[g][f] = group[g][f],
           \A p \in People : p \in done => <<how, RoleOf(g, p), RoleOf(g, p)'>> \in Happens,
           \A p \in People : p \notin done => RoleOf(g, p) = RoleOf(g, p)'
    PROVE  GroupStep(g)
<1>1. DOMAIN changes \cap MemberFields = {how} /\ DOMAIN changes \subseteq MemberFields \cup PlainFields
      /\ "ephemeral" \notin DOMAIN changes /\ DOMAIN changes \cap Fields = {}
  BY DEF MemberFields, PlainFields, Fields, GroupFieldsShown, CommunityFields
<1>2. MembersOK(g, how, AsMembers(g, done))
  BY MembersNamed DEF MembersOK
<1>3. ChangesOK(g, changes)
  BY <1>1, <1>2 DEF ChangesOK
<1>4. \A b : \A p \in People :
        <<Mention(InfoEvent(g, b, changes), g, p), RoleOf(g, p), RoleOf(g, p)'>> \in Happens
  <2>. TAKE b
  <2>. TAKE p \in People
  <2>1. Mention(InfoEvent(g, b, changes), g, p) = IF p \in done THEN how ELSE "nothing"
    BY <1>1, MentionIs
  <2>2. CASE p \in done
    BY <2>1, <2>2
  <2>3. CASE p \notin done
    BY <2>1, <2>3, RolesAre, RelationsAre
  <2>. QED
    BY <2>2, <2>3
<1>5. Me \notin Members(g) => Me \notin Members(g)'
  <2>. SUFFICES ASSUME Me \notin Members(g) PROVE Me \notin Members(g)'
    OBVIOUS
  <2>1. Me \in People /\ RoleOf(g, Me) = "none"
    BY RoomsAssumption, RolesAre
  <2>2. RoleOf(g, Me)' = "none"
    <3>1. CASE Me \in done
      <4>1. how # "join"
        BY <3>1
      <4>2. <<how, RoleOf(g, Me), RoleOf(g, Me)'>> \in Happens
        BY <2>1, <3>1
      <4>. QED
        BY <2>1, <4>1, <4>2 DEF Happens, MemberFields
    <3>2. CASE Me \notin done
      BY <2>1, <3>2
    <3>. QED
      BY <3>1, <3>2
  <2>3. \A p : p \in Members(g)' => RoleOf(g, p)' # "none"
    <3>1. PICK people \in SUBSET People : group'[g].role \in [people -> {"admin", "member"}]
      BY DEF GroupsOK, GroupOK
    <3>. QED
      BY <3>1 DEF Members, RoleOf
  <2>. QED
    BY <2>2, <2>3
<1>. QED
  BY <1>1, <1>3, <1>4, <1>5, TellStep

\* Adding, removing, promoting and demoting are told by their four lists.
LEMMA ChangeMembersStep ==
    ASSUME GroupsOK, NEW by, NEW ask, Askable(ask), ChangeMembers(by, ask)
    PROVE  \E g \in Groups : GroupStep(g)
<1>. DEFINE g == ask.group
            how == ask.how
            fit == CASE how = "add"     -> People \ Members(g)
                     [] how = "remove"  -> Members(g) \ {by}
                     [] how = "promote" -> {p \in Members(g) : ~IsAdmin(g, p)}
                     [] how = "demote"  -> {p \in Members(g) : IsAdmin(g, p)}
                     [] OTHER -> {}
            NewRoles(old, done) ==
              CASE how = "remove" -> [p \in DOMAIN old \ done |-> old[p]]
                [] OTHER -> [p \in done |-> IF how = "promote" THEN "admin" ELSE "member"] @@ old
<1>1. g \in Groups /\ IsAdmin(g, by)
  BY DEF ChangeMembers, Askable
<1>2. PICK done \in SUBSET Named(ask, fit) :
        /\ done # {}
        /\ group' = [group EXCEPT ![g].role = NewRoles(@, done)]
        /\ IF how = "add" /\ Me \in done
           THEN \E b \in By(g, by) : Notify(JoinedEvent(g, b))
           ELSE Tell(g, by, Rename(how) :> AsMembers(g, done))
  BY DEF ChangeMembers
<1>. HIDE DEF g, how
<1>3. PICK people \in SUBSET People : group[g].role \in [people -> {"admin", "member"}]
  BY <1>1 DEF GroupsOK, GroupOK
<1>4. Members(g) = people /\ group[g].exists
  BY <1>1, <1>3, RolesAre DEF Members, IsAdmin
<1>5. done \subseteq fit /\ how \in {"add", "remove", "promote", "demote"}
  BY <1>2 DEF Named
<1>6. done \subseteq People
  BY <1>4, <1>5
<1>. DEFINE after == IF how = "remove" THEN people \ done ELSE people \cup done
            roles == NewRoles(group[g].role, done)
<1>7. /\ roles \in [after -> {"admin", "member"}]
      /\ \A p \in after : roles[p] = IF how # "remove" /\ p \in done
                                     THEN IF how = "promote" THEN "admin" ELSE "member"
                                     ELSE group[g].role[p]
  <2>1. DOMAIN group[g].role = people
    BY <1>3
  <2>. QED
    BY <1>3, <2>1 DEF @@
<1>8. SetsRoles(g, roles)
  BY <1>2 DEF SetsRoles
<1>9. after \in SUBSET People
  BY <1>6
<1>. HIDE DEF roles, after, NewRoles, fit
<1>10. /\ GroupsOK' /\ \A h \in Groups \ {g} : Same(h)
       /\ \A f \in Fields : group'[g][f] = group[g][f]
       /\ \A p : RoleOf(g, p)' = IF p \in after THEN roles[p] ELSE "none"
  BY <1>1, <1>4, <1>7, <1>8, <1>9, RoleChange
<1>11. CASE how = "add" /\ Me \in done
  <2>1. PICK b \in By(g, by) : Notify(JoinedEvent(g, b))
    BY <1>2, <1>11
  <2>2. JoinedEvent(g, b).is = "JoinedGroup" /\ JoinedEvent(g, b).jid = GroupJID(g)
    BY DEF JoinedEvent
  <2>3. Invited(g)
    BY <2>1, <2>2 DEF Invited
  <2>. QED
    BY <1>1, <1>10, <2>3 DEF GroupStep, GroupsOK
<1>12. CASE ~(how = "add" /\ Me \in done)
  <2>. DEFINE changes == Rename(how) :> AsMembers(g, done)
  <2>1. /\ Rename(how) \in MemberFields
        /\ Rename(how) = "join" => how = "add"
        /\ how = "add" => Rename(how) = "join"
        /\ how = "remove" => Rename(how) = "leave"
        /\ how \in {"promote", "demote"} => Rename(how) = how
    BY <1>5 DEF Rename, MemberFields
  <2>2. /\ DOMAIN changes = {Rename(how)} /\ changes[Rename(how)] = AsMembers(g, done)
        /\ changes = [f \in DOMAIN changes |-> changes[f]]
    BY DEF :>
  <2>3. Tell(g, by, changes)
    BY <1>2, <1>12
  <2>. HIDE DEF changes
  <2>4. ASSUME NEW p \in People, p \in done
        PROVE  <<Rename(how), RoleOf(g, p), RoleOf(g, p)'>> \in Happens
    <3>1. PICK x, y : x = RoleOf(g, p) /\ y = RoleOf(g, p)'
      OBVIOUS
    <3>2. p \in fit /\ x \in Roles /\ (p \in Members(g) <=> x # "none")
      BY <1>1, <1>5, <2>4, <3>1, RolesAre
    <3>3. /\ how = "add" => x = "none" /\ y = "member"
          /\ how = "remove" => x # "none" /\ y = "none"
          /\ how = "promote" => x # "none" /\ y = "admin"
          /\ how = "demote" => x # "none" /\ y = "member"
      <4>1. CASE how = "add"
        BY <1>7, <1>10, <2>4, <3>1, <3>2, <4>1 DEF fit, after
      <4>2. CASE how = "remove"
        BY <1>7, <1>10, <2>4, <3>1, <3>2, <4>2 DEF fit, after
      <4>3. CASE how = "promote"
        BY <1>7, <1>10, <2>4, <3>1, <3>2, <4>3 DEF fit, after
      <4>4. CASE how = "demote"
        BY <1>7, <1>10, <2>4, <3>1, <3>2, <4>4 DEF fit, after
      <4>. QED
        BY <4>1, <4>2, <4>3, <4>4
    <3>4. <<Rename(how), x, y>> \in Happens
      BY <1>5, <2>1, <3>2, <3>3 DEF Happens, Roles, Mentions
    <3>. QED
      BY <3>1, <3>4
  <2>5. ASSUME NEW p \in People, p \notin done
        PROVE  RoleOf(g, p) = RoleOf(g, p)'
    BY <1>4, <1>7, <1>10, <2>5 DEF RoleOf, after
  <2>6. Rename(how) = "join" => Me \notin done
    BY <1>12, <2>1
  <2>7. DOMAIN changes \in {{Rename(how)}, {Rename(how), "joinReason"}}
    BY <2>2
  <2>8. GroupStep(g)
    BY <1>1, <1>6, <1>10, <2>1, <2>2, <2>3, <2>4, <2>5, <2>6, <2>7, MembersStep
  <2>. QED
    BY <1>1, <2>8
<1>. QED
  BY <1>11, <1>12
\* Whoever leaves is named in the list of those who left.
LEMMA LeaveStep ==
    ASSUME GroupsOK, NEW by \in People, NEW ask, Askable(ask), Leave(by, ask)
    PROVE  \E g \in Groups : GroupStep(g)
<1>. DEFINE g == ask.group
<1>1. g \in Groups /\ by \in Members(g)
  BY DEF Leave, Askable
<1>2. /\ group' = [group EXCEPT ![g].role = [p \in DOMAIN @ \ {by} |-> @[p]]]
      /\ Tell(g, by, "leave" :> AsMembers(g, {by}))
  BY DEF Leave
<1>. HIDE DEF g
<1>3. PICK people \in SUBSET People : group[g].role \in [people -> {"admin", "member"}]
  BY <1>1 DEF GroupsOK, GroupOK
<1>4. Members(g) = people /\ group[g].exists
  BY <1>1, <1>3, RolesAre DEF Members
<1>. DEFINE roles == [p \in people \ {by} |-> group[g].role[p]]
<1>5. SetsRoles(g, roles)
  <2>1. DOMAIN group[g].role = people
    BY <1>3
  <2>. QED
    BY <1>2, <2>1 DEF SetsRoles
<1>6. roles \in [people \ {by} -> {"admin", "member"}] /\ people \ {by} \in SUBSET People
  BY <1>3
<1>7. \A p \in people \ {by} : roles[p] = group[g].role[p]
  OBVIOUS
<1>. HIDE DEF roles
<1>8. /\ GroupsOK' /\ \A h \in Groups \ {g} : Same(h)
      /\ \A f \in Fields : group'[g][f] = group[g][f]
      /\ \A p : RoleOf(g, p)' = IF p \in people \ {by} THEN roles[p] ELSE "none"
  BY <1>1, <1>4, <1>5, <1>6, RoleChange
<1>. DEFINE changes == "leave" :> AsMembers(g, {by})
<1>9. /\ DOMAIN changes = {"leave"} /\ changes["leave"] = AsMembers(g, {by})
      /\ changes = [f \in DOMAIN changes |-> changes[f]]
  BY DEF :>
<1>10. Tell(g, by, changes)
  BY <1>2
<1>. HIDE DEF changes
<1>11. ASSUME NEW p \in People, p \in {by}
       PROVE  <<"leave", RoleOf(g, p), RoleOf(g, p)'>> \in Happens
  <2>1. RoleOf(g, p)' = "none"
    BY <1>8, <1>11
  <2>2. PICK x : x = RoleOf(g, p)
    OBVIOUS
  <2>3. x \in Roles /\ x # "none"
    BY <1>1, <1>11, <2>2, RolesAre
  <2>4. <<"leave", x, "none">> \in Happens
    BY <2>3 DEF Happens, Roles, Mentions
  <2>. QED
    BY <2>1, <2>2, <2>4
<1>12. ASSUME NEW p \in People, p \notin {by}
       PROVE  RoleOf(g, p) = RoleOf(g, p)'
  BY <1>4, <1>7, <1>8, <1>12 DEF RoleOf
<1>13. DOMAIN changes \in {{"leave"}, {"leave", "joinReason"}} /\ "leave" \in MemberFields
       /\ {by} \in SUBSET People
  BY <1>9 DEF MemberFields
<1>14. GroupStep(g)
  BY <1>1, <1>8, <1>9, <1>10, <1>11, <1>12, <1>13, MembersStep
<1>. QED
  BY <1>1, <1>14

\* Whoever joins is named in the list of those who joined; the account is invited.
LEMMA JoinStep ==
    ASSUME GroupsOK, NEW by \in People, NEW ask, Askable(ask), Join(by, ask)
    PROVE  \E g \in Groups : GroupStep(g)
<1>. DEFINE g == ask.group
            changes == [join |-> AsMembers(g, {by}), joinReason |-> "invite"]
<1>1. g \in Groups /\ group[g].exists /\ by \notin Members(g)
  BY DEF Join, Askable
<1>2. /\ group' = [group EXCEPT ![g].role = (by :> "member") @@ @]
      /\ IF by = Me THEN \E b \in By(g, by) : Notify(JoinedEvent(g, b))
         ELSE Tell(g, by, changes)
  BY DEF Join
<1>. HIDE DEF g
<1>3. PICK people \in SUBSET People : group[g].role \in [people -> {"admin", "member"}]
  BY <1>1 DEF GroupsOK, GroupOK
<1>4. Members(g) = people
  BY <1>3 DEF Members
<1>. DEFINE roles == (by :> "member") @@ group[g].role
<1>5. SetsRoles(g, roles)
  BY <1>2 DEF SetsRoles
<1>6. /\ roles \in [people \cup {by} -> {"admin", "member"}] /\ people \cup {by} \in SUBSET People
      /\ roles[by] = "member" /\ \A p \in people \ {by} : roles[p] = group[g].role[p]
  <2>1. DOMAIN group[g].role = people
    BY <1>3
  <2>. QED
    BY <1>3, <2>1 DEF @@, :>
<1>. HIDE DEF roles
<1>7. /\ GroupsOK' /\ \A h \in Groups \ {g} : Same(h)
      /\ \A f \in Fields : group'[g][f] = group[g][f]
      /\ \A p : RoleOf(g, p)' = IF p \in people \cup {by} THEN roles[p] ELSE "none"
  BY <1>1, <1>5, <1>6, RoleChange
<1>8. CASE by = Me
  <2>1. PICK b \in By(g, by) : Notify(JoinedEvent(g, b))
    BY <1>2, <1>8
  <2>2. JoinedEvent(g, b).is = "JoinedGroup" /\ JoinedEvent(g, b).jid = GroupJID(g)
    BY DEF JoinedEvent
  <2>3. Invited(g)
    BY <2>1, <2>2 DEF Invited
  <2>. QED
    BY <1>1, <1>7, <2>3 DEF GroupStep, GroupsOK
<1>9. CASE by # Me
  <2>1. /\ DOMAIN changes = {"join", "joinReason"} /\ changes["join"] = AsMembers(g, {by})
        /\ changes = [f \in DOMAIN changes |-> changes[f]]
    OBVIOUS
  <2>2. Tell(g, by, changes)
    BY <1>2, <1>9
  <2>. HIDE DEF changes
  <2>3. ASSUME NEW p \in People, p \in {by}
        PROVE  <<"join", RoleOf(g, p), RoleOf(g, p)'>> \in Happens
    <3>1. RoleOf(g, p)' = "member"
      BY <1>6, <1>7, <2>3
    <3>2. RoleOf(g, p) = "none"
      BY <1>1, <2>3 DEF RoleOf
    <3>3. <<"join", "none", "member">> \in Happens
      BY DEF Happens, Roles, Mentions
    <3>. QED
      BY <3>1, <3>2, <3>3
  <2>4. ASSUME NEW p \in People, p \notin {by}
        PROVE  RoleOf(g, p) = RoleOf(g, p)'
    BY <1>4, <1>6, <1>7, <2>4 DEF RoleOf
  <2>5. DOMAIN changes \in {{"join"}, {"join", "joinReason"}} /\ "join" \in MemberFields
        /\ {by} \in SUBSET People /\ Me \notin {by}
    BY <1>9, <2>1 DEF MemberFields
  <2>6. GroupStep(g)
    BY <1>1, <1>7, <2>1, <2>2, <2>3, <2>4, <2>5, MembersStep
  <2>. QED
    BY <1>1, <2>6
<1>. QED
  BY <1>8, <1>9

\* The account is invited to a new group that it makes or is in.
LEMMA CreateStep ==
    ASSUME GroupsOK, NEW by \in People, NEW ask, Create(by, ask)
    PROVE  \E g \in Groups : GroupStep(g)
<1>1. PICK g \in Groups :
        /\ group' = [group EXCEPT
             ![g].exists = TRUE, ![g].isParent = ask.isParent, ![g].parent = ask.parent,
             ![g].role = (by :> "admin") @@ [p \in Named(ask, People) |-> "member"]]
        /\ IF Me \in {by} \cup Named(ask, People)
           THEN \E b \in By(g, by) : Notify(JoinedEvent(g, b))
           ELSE UNCHANGED pending
        /\ ~group[g].exists
  BY DEF Create
<1>. DEFINE roles == (by :> "admin") @@ [p \in Named(ask, People) |-> "member"]
            new == [group[g] EXCEPT !.exists = TRUE, !.isParent = ask.isParent,
                                    !.parent = ask.parent, !.role = roles]
            people == {by} \cup Named(ask, People)
<1>2. group[g] = [f \in Record |-> group[g][f]] /\ DOMAIN group = Groups
  BY DEF GroupsOK, GroupOK
<1>3. people \in SUBSET People /\ roles \in [people -> {"admin", "member"}]
  BY DEF Named, @@, :>
<1>. HIDE DEF roles, people
<1>4. /\ new = [f \in Record |-> new[f]] /\ new.role = roles /\ new.exists = TRUE
  <2>1. {"role", "exists"} \subseteq Record
    BY FieldsAre
  <2>2. DOMAIN group[g] = Record
    BY <1>2
  <2>. QED
    BY <1>2, <2>1, <2>2
<1>5. group' = [group EXCEPT ![g] = new]
  BY <1>1, <1>2 DEF roles
<1>. HIDE DEF new
<1>6. group'[g] = new /\ DOMAIN group' = Groups /\ \A h \in Groups \ {g} : group'[h] = group[h]
  BY <1>2, <1>5
<1>7. GroupOK(g)'
  BY <1>3, <1>4, <1>6 DEF GroupOK
<1>8. \A h \in Groups \ {g} : GroupOK(h)' /\ Same(h)
  BY <1>6 DEF GroupsOK, GroupOK, Same
<1>9. ASSUME Me \in people PROVE Invited(g)
  <2>1. PICK b \in By(g, by) : Notify(JoinedEvent(g, b))
    BY <1>1, <1>9 DEF people
  <2>2. JoinedEvent(g, b).is = "JoinedGroup" /\ JoinedEvent(g, b).jid = GroupJID(g)
    BY DEF JoinedEvent
  <2>. QED
    BY <2>1, <2>2 DEF Invited
<1>10. ASSUME Me \notin people PROVE NotTold(g)
  <2>1. UNCHANGED pending
    BY <1>1, <1>10 DEF people
  <2>2. Me \notin Members(g)
    BY <1>1, RolesAre
  <2>3. Members(g)' = people
    BY <1>3, <1>4, <1>6 DEF Members
  <2>. QED
    BY <1>10, <2>1, <2>2, <2>3 DEF NotTold
<1>. QED
  BY <1>6, <1>7, <1>8, <1>9, <1>10 DEF GroupStep

\* Linking and unlinking change a parent, which no answer shows.
LEMMA LinkStep ==
    ASSUME GroupsOK, NEW by, NEW ask, Askable(ask), Link(by, ask)
    PROVE  \E g \in Groups : GroupStep(g)
<1>. DEFINE g == ask.parent
            h == ask.group
            changes == ask.do :> h
<1>1. g \in Groups /\ h \in Groups /\ ask.do \in {"link", "unlink"}
  BY DEF Link, Askable
<1>2. \E parent : Sets(h, "parent", parent)
  BY DEF Link, Sets
<1>3. Tell(g, by, changes)
  BY DEF Link
<1>. HIDE DEF g, h
<1>4. /\ GroupsOK' /\ \A k \in Groups \ {h} : Same(k)
      /\ \A f \in Fields : group'[h][f] = group[h][f]
      /\ group'[h].role = group[h].role
  <2>1. PICK parent : Sets(h, "parent", parent)
    BY <1>2
  <2>2. "parent" \in Settable \cup {"parent"} /\ "parent" \notin Fields
    BY FieldsAre
  <2>. QED
    BY <1>1, <2>1, <2>2, PlainChange
<1>5. \A k \in Groups : Same(k)
  BY <1>4 DEF Same
<1>6. Members(g)' = Members(g) /\ \A p : RoleOf(g, p)' = RoleOf(g, p)
  BY <1>1, <1>5 DEF Same, Members, RoleOf
<1>7. DOMAIN changes = {ask.do} /\ changes = [f \in DOMAIN changes |-> changes[f]]
  BY DEF :>
<1>. HIDE DEF changes
<1>8. /\ DOMAIN changes \cap MemberFields = {} /\ DOMAIN changes \subseteq PlainFields
      /\ DOMAIN changes \cap Fields = {}
  BY <1>1, <1>7 DEF MemberFields, PlainFields, Fields, GroupFieldsShown, CommunityFields
<1>9. ChangesOK(g, changes)
  <2>1. "ephemeral" \notin DOMAIN changes
    BY <1>8, FieldsAre
  <2>. QED
    BY <1>7, <1>8, <2>1 DEF ChangesOK
<1>10. \A b : \A p \in People :
         <<Mention(InfoEvent(g, b, changes), g, p), RoleOf(g, p), RoleOf(g, p)'>> \in Happens
  <2>. TAKE b
  <2>. TAKE p \in People
  <2>1. Mention(InfoEvent(g, b, changes), g, p) = "nothing"
    BY <1>1, <1>8, NobodyNamed
  <2>2. PICK x : x = RoleOf(g, p)
    OBVIOUS
  <2>3. x \in Roles /\ RoleOf(g, p)' = x
    BY <1>1, <1>6, <2>2, RolesAre
  <2>4. <<"nothing", x, x>> \in Happens
    BY <2>3, RelationsAre
  <2>. QED
    BY <2>1, <2>2, <2>3, <2>4
<1>11. \A f \in Fields : group'[g][f] = IF f \in DOMAIN changes THEN changes[f] ELSE group[g][f]
  BY <1>1, <1>5, <1>8 DEF Same
<1>12. GroupStep(g)
  BY <1>1, <1>3, <1>4, <1>5, <1>6, <1>9, <1>10, <1>11, TellStep
<1>. QED
  BY <1>1, <1>12

\* Whatever is done is one change of one group.
LEMMA WhatsAppStep ==
    ASSUME GroupsOK, NEW by \in People, NEW ask, Askable(ask), WhatsApp(by, ask)
    PROVE  \E g \in Groups : GroupStep(g)
BY SetFieldStep, ChangeMembersStep, LeaveStep, JoinStep, CreateStep, LinkStep DEF WhatsApp

-----------------------------------------------------------------------------
(* What a notification does to the queue. *)

\* The JID of a group says which group it is.
LEMMA GroupJIDs ==
    /\ \A g, h : GroupJID(g) = GroupJID(h) => g = h
    /\ \A g : GroupJID(g).user = g /\ GroupJID(g).server = "group" /\ GroupJID(g) # EmptyJID
BY DEF GroupJID, Jid, EmptyJID, NoServer

\* The queue is a sequence of the events in it.
LEMMA QueueIs ==
    ASSUME QueueOK
    PROVE  /\ Len(pending) \in Nat /\ DOMAIN pending = 1..Len(pending)
           /\ pending # <<>> <=> Len(pending) # 0
           /\ pending \in Seq({pending[n] : n \in DOMAIN pending})
<1>1. pending \in Seq({pending[n] : n \in DOMAIN pending})
  BY DEF QueueOK
<1>. QED
  BY <1>1, LenProperties, EmptySeq

\* The event is told together with the one before.
Mixed(g, e) ==
    LET l == Len(pending)
        last == pending[l]
        new  == pending'[l]
    IN  /\ l \in Nat \ {0} /\ Len(pending') = l /\ DOMAIN pending' = 1..l
        /\ \A n \in 1..l : n # l => pending'[n] = pending[n]
        /\ e.is = "GroupInfo" /\ last.is = "GroupInfo" /\ last.jid = GroupJID(g)
        /\ new.is = "GroupInfo" /\ new.jid = GroupJID(g)
        /\ new.changes = last.changes @@ e.changes
        /\ DOMAIN last.changes \cap DOMAIN e.changes = {}
        /\ \A f, h \in (DOMAIN last.changes \cup DOMAIN e.changes) \cap MemberFields : f = h
        /\ EventOf(g, new)

\* A set of one element at most.
LEMMA OneAtMost ==
    ASSUME NEW S, IsFiniteSet(S), Cardinality(S) <= 1
    PROVE  \A x, y \in S : x = y
<1>. SUFFICES ASSUME NEW x \in S, NEW y \in S, x # y PROVE FALSE
  OBVIOUS
<1>1. Cardinality({x, y}) <= Cardinality(S)
  BY FS_Subset
<1>2. Cardinality({x, y}) = 2
  <2>1. Cardinality({x}) = 1 /\ IsFiniteSet({x})
    BY FS_Singleton
  <2>2. Cardinality({x} \cup {y}) = Cardinality({x}) + 1
    BY <2>1, FS_AddElement
  <2>3. {x, y} = {x} \cup {y}
    OBVIOUS
  <2>. QED
    BY <2>1, <2>2, <2>3
<1>3. Cardinality(S) \in Nat
  BY FS_CardinalityType
<1>. QED
  BY <1>1, <1>2, <1>3

\* Two notifications that may be told together make one that is well-formed.
LEMMA MixedChangesOK ==
    ASSUME NEW g \in Groups, NEW first, NEW second, ChangesOK(g, first), ChangesOK(g, second),
           DOMAIN first \cap DOMAIN second = {},
           \A f, h \in (DOMAIN first \cup DOMAIN second) \cap MemberFields : f = h,
           "ephemeral" \notin DOMAIN first \cup DOMAIN second
    PROVE  ChangesOK(g, first @@ second)
<1>. DEFINE new == first @@ second
<1>1. /\ DOMAIN new = DOMAIN first \cup DOMAIN second
      /\ new = [f \in DOMAIN new |-> new[f]]
      /\ \A f \in DOMAIN first : new[f] = first[f]
      /\ \A f \in DOMAIN second : new[f] = second[f]
  BY DEF @@
<1>. HIDE DEF new
<1>2. \A f \in DOMAIN new \cap MemberFields : MembersOK(g, f, new[f])
  BY <1>1 DEF ChangesOK
<1>3. DOMAIN new \subseteq Fields \cup MemberFields \cup PlainFields
  BY <1>1 DEF ChangesOK
<1>4. ChangesOK(g, new)
  BY <1>1, <1>2, <1>3 DEF ChangesOK
<1>. QED
  BY <1>4 DEF new

\* A notification is appended, or told together with the last one.
LEMMA NotifyIs ==
    ASSUME ~MixedChanges, QueueOK, NEW g \in Groups, NEW e, EventOf(g, e), Notify(e)
    PROVE  pending' = Append(pending, e) \/ Mixed(g, e)
<1>. DEFINE l == Len(pending)
            last == pending[l]
            new == [last EXCEPT !.changes = last.changes @@ e.changes]
            both == DOMAIN last.changes \cup DOMAIN e.changes
<1>. SUFFICES ASSUME e.is = "GroupInfo", pending # <<>>, Mixes(last, e),
                     pending' = [pending EXCEPT ![l].changes = @ @@ e.changes]
              PROVE  Mixed(g, e)
  BY DEF Notify
<1>1. l \in Nat \ {0} /\ l \in DOMAIN pending /\ DOMAIN pending = 1..l
  BY QueueIs
<1>2. /\ last.is = "GroupInfo" /\ last.jid = GroupJID(g)
      /\ DOMAIN last.changes \cap DOMAIN e.changes = {}
      /\ Cardinality(both \cap MemberFields) <= 1
      /\ "ephemeral" \notin both
  BY DEF Mixes, EventOf
<1>3. EventOf(g, last)
  <2>1. PICK h \in Groups : EventOf(h, last)
    BY <1>1 DEF QueueOK
  <2>2. h = g
    BY <1>2, <2>1, GroupJIDs DEF EventOf
  <2>. QED
    BY <2>1, <2>2
<1>4. IsFiniteSet(both \cap MemberFields)
  <2>1. IsFiniteSet({"leave", "join", "promote", "demote"})
    <3>1. IsFiniteSet({"leave"})
      BY FS_Singleton
    <3>2. IsFiniteSet({"leave"} \cup {"join"})
      BY <3>1, FS_AddElement
    <3>3. IsFiniteSet({"leave"} \cup {"join"} \cup {"promote"})
      BY <3>2, FS_AddElement
    <3>4. IsFiniteSet({"leave"} \cup {"join"} \cup {"promote"} \cup {"demote"})
      BY <3>3, FS_AddElement
    <3>5. {"leave", "join", "promote", "demote"} = {"leave"} \cup {"join"} \cup {"promote"} \cup {"demote"}
      OBVIOUS
    <3>. QED
      BY <3>4, <3>5
  <2>2. IsFiniteSet(MemberFields)
    BY <2>1 DEF MemberFields
  <2>. QED
    BY <2>2, FS_Intersection
<1>5. \A f, h \in both \cap MemberFields : f = h
  BY <1>2, <1>4, OneAtMost
<1>6. ChangesOK(g, last.changes) /\ ChangesOK(g, e.changes)
  BY <1>2, <1>3 DEF EventOf
<1>7. ChangesOK(g, last.changes @@ e.changes)
  BY <1>2, <1>5, <1>6, MixedChangesOK
<1>8. {"is", "jid", "by", "changes"} \subseteq DOMAIN last
  BY <1>2, <1>3 DEF EventOf
<1>9. /\ new.is = "GroupInfo" /\ new.jid = GroupJID(g) /\ new.changes = last.changes @@ e.changes
      /\ DOMAIN new = DOMAIN last
  BY <1>2, <1>8
<1>10. pending' = [pending EXCEPT ![l] = new]
  OBVIOUS
<1>. HIDE DEF new, last, l
<1>11. pending'[l] = new /\ DOMAIN pending' = 1..l /\ \A n \in 1..l : n # l => pending'[n] = pending[n]
  BY <1>1, <1>10
<1>12. Len(pending') = l
  BY <1>1, <1>10, <1>11 DEF l
<1>13. EventOf(g, new)
  BY <1>7, <1>8, <1>9 DEF EventOf
<1>. QED
  BY <1>1, <1>2, <1>5, <1>9, <1>11, <1>12, <1>13 DEF Mixed, l, last

\* A sequence is one over the set of its elements.
LEMMA SequenceIs ==
    ASSUME NEW q, NEW X, q \in Seq(X)
    PROVE  q \in Seq({q[n] : n \in DOMAIN q})
<1>1. Len(q) \in Nat /\ q \in [1..Len(q) -> X]
  BY LenProperties
<1>2. q \in [1..Len(q) -> {q[n] : n \in DOMAIN q}]
  BY <1>1
<1>. QED
  BY <1>1, <1>2, IsASeq

\* The queue with one more event.
LEMMA AppendIs ==
    ASSUME QueueOK, NEW e, pending' = Append(pending, e)
    PROVE  /\ Len(pending') = Len(pending) + 1 /\ DOMAIN pending' = 1..(Len(pending) + 1)
           /\ \A n \in 1..Len(pending) : pending'[n] = pending[n]
           /\ pending'[Len(pending) + 1] = e
           /\ pending' \in Seq({pending'[n] : n \in DOMAIN pending'})
<1>. DEFINE X == {pending[n] : n \in DOMAIN pending} \cup {e}
<1>1. pending \in Seq(X) /\ e \in X
  BY DEF QueueOK
<1>. HIDE DEF X
<1>2. pending' \in Seq(X)
  BY <1>1
<1>3. PICK q : q = pending'
  OBVIOUS
<1>4. q \in Seq({q[n] : n \in DOMAIN q})
  BY <1>2, <1>3, SequenceIs
<1>. QED
  BY <1>1, <1>3, <1>4, AppendProperties, LenProperties

\* The queue stays one of well-formed events.
LEMMA NotifyQueue ==
    ASSUME ~MixedChanges, QueueOK, NEW g \in Groups, NEW e, EventOf(g, e), Notify(e)
    PROVE  QueueOK'
<1>1. CASE pending' = Append(pending, e)
  <2>1. \A n \in DOMAIN pending' : \E h \in Groups : EventOf(h, pending'[n])
    BY <1>1, AppendIs, QueueIs DEF QueueOK
  <2>. QED
    BY <1>1, <2>1, AppendIs DEF QueueOK
<1>2. CASE Mixed(g, e)
  <2>. DEFINE l == Len(pending)
  <2>1. /\ l \in Nat \ {0} /\ Len(pending') = l /\ DOMAIN pending' = 1..l
        /\ \A n \in 1..l : n # l => pending'[n] = pending[n]
        /\ EventOf(g, pending'[l])
    BY <1>2 DEF Mixed
  <2>2. DOMAIN pending = 1..l
    BY QueueIs
  <2>. HIDE DEF l
  <2>3. ASSUME NEW n \in DOMAIN pending' PROVE \E h \in Groups : EventOf(h, pending'[n])
    <3>1. CASE n = l
      BY <2>1, <3>1
    <3>2. CASE n # l
      BY <2>1, <2>2, <3>2 DEF QueueOK
    <3>. QED
      BY <3>1, <3>2
  <2>4. PICK q : q = pending'
    OBVIOUS
  <2>5. q \in Seq({q[n] : n \in DOMAIN q})
    <3>0. CASE pending' = [pending EXCEPT ![Len(pending)].changes = @ @@ e.changes]
      <4>1. q \in [1..l -> {q[n] : n \in DOMAIN q}]
        BY <2>1, <2>2, <2>4, <3>0 DEF l
      <4>. QED
        BY <2>1, <4>1, IsASeq
    <3>1. CASE pending' = Append(pending, e)
      BY <2>4, <3>1, AppendIs
    <3>. QED
      BY <3>0, <3>1 DEF Notify
  <2>. QED
    BY <2>3, <2>4, <2>5 DEF QueueOK
<1>. QED
  BY <1>1, <1>2, NotifyIs

\* An event of one group says nothing of the people of another.
LEMMA MentionElsewhere ==
    ASSUME NEW g, NEW e, e.jid # GroupJID(g), NEW p
    PROVE  Mention(e, g, p) = "nothing"
BY DEF Mention

\* What an event of a group says of a person, list by list.
LEMMA MentionIn ==
    ASSUME NEW g, NEW e, e.jid = GroupJID(g), e.is = "GroupInfo", NEW p
    PROVE  Mention(e, g, p) =
             CASE Names(e.changes, "leave", Jid(p, Mode[g]))   -> "leave"
               [] Names(e.changes, "join", Jid(p, Mode[g]))    -> "join"
               [] Names(e.changes, "promote", Jid(p, Mode[g])) -> "promote"
               [] Names(e.changes, "demote", Jid(p, Mode[g]))  -> "demote"
               [] OTHER -> "nothing"
BY DEF Mention

\* Notifications that name the same people say the same of them.
LEMMA SameNames ==
    ASSUME NEW g, NEW e1, NEW e2, e1.jid = GroupJID(g), e1.is = "GroupInfo",
           e2.jid = GroupJID(g), e2.is = "GroupInfo", NEW p,
           \A f \in MemberFields : Names(e1.changes, f, Jid(p, Mode[g])) <=> Names(e2.changes, f, Jid(p, Mode[g]))
    PROVE  Mention(e1, g, p) = Mention(e2, g, p)
BY MentionIn DEF MemberFields

\* A notification that has no list of members says nothing of anybody.
LEMMA NoNames ==
    ASSUME NEW g, NEW e, e.jid = GroupJID(g), e.is = "GroupInfo", NEW p,
           DOMAIN e.changes \cap MemberFields = {}
    PROVE  Mention(e, g, p) = "nothing"
<1>1. \A h \in MemberFields : ~Names(e.changes, h, Jid(p, Mode[g]))
  BY DEF Names
<1>. QED
  BY <1>1, MentionIn DEF MemberFields

\* Of two events that are told together one says nothing of people.
LEMMA MixedMention ==
    ASSUME NEW g \in Groups, NEW e, EventOf(g, e), Mixed(g, e), NEW h \in Groups, NEW p
    PROVE  LET last == pending[Len(pending)]
               new  == pending'[Len(pending)]
           IN  \/ Mention(e, h, p) = "nothing" /\ Mention(new, h, p) = Mention(last, h, p)
               \/ Mention(last, h, p) = "nothing" /\ Mention(new, h, p) = Mention(e, h, p)
<1>. DEFINE last == pending[Len(pending)]
            new  == pending'[Len(pending)]
<1>1. /\ e.is = "GroupInfo" /\ last.is = "GroupInfo" /\ last.jid = GroupJID(g)
      /\ new.is = "GroupInfo" /\ new.jid = GroupJID(g) /\ e.jid = GroupJID(g)
      /\ new.changes = last.changes @@ e.changes
      /\ DOMAIN last.changes \cap DOMAIN e.changes = {}
      /\ \A f, k \in (DOMAIN last.changes \cup DOMAIN e.changes) \cap MemberFields : f = k
  BY DEF Mixed, EventOf
<1>. HIDE DEF last, new
<1>2. CASE h # g
  <2>1. e.jid # GroupJID(h) /\ last.jid # GroupJID(h) /\ new.jid # GroupJID(h)
    BY <1>1, <1>2, GroupJIDs
  <2>2. Mention(e, h, p) = "nothing" /\ Mention(new, h, p) = "nothing" /\ Mention(last, h, p) = "nothing"
    BY <2>1, MentionElsewhere
  <2>. QED
    BY <2>2 DEF last, new
<1>3. CASE h = g
  <2>. DEFINE j == Jid(p, Mode[g])
  <2>1. PICK a, b, c : a = last.changes /\ b = e.changes /\ c = new.changes
    OBVIOUS
  <2>2. /\ \A f \in DOMAIN a : c[f] = a[f] /\ f \in DOMAIN c
        /\ \A f \in DOMAIN b : c[f] = b[f] /\ f \in DOMAIN c
        /\ DOMAIN c = DOMAIN a \cup DOMAIN b
    BY <1>1, <2>1 DEF @@
  <2>3. \A f : Names(c, f, j) <=> Names(a, f, j) \/ Names(b, f, j)
    <3>. HIDE DEF j
    <3>. QED
      BY <1>1, <2>1, <2>2 DEF Names
  <2>4. CASE DOMAIN b \cap MemberFields = {}
    <3>1. \A f \in MemberFields : Names(c, f, j) <=> Names(a, f, j)
      BY <2>3, <2>4 DEF Names
    <3>2. Mention(e, g, p) = "nothing"
      BY <1>1, <2>1, <2>4, NoNames
    <3>3. \A f \in MemberFields :
            Names(new.changes, f, Jid(p, Mode[g])) <=> Names(last.changes, f, Jid(p, Mode[g]))
      BY <2>1, <3>1
    <3>4. Mention(new, g, p) = Mention(last, g, p)
      BY <1>1, <3>3, SameNames
    <3>. QED
      BY <1>3, <3>2, <3>4 DEF last, new
  <2>5. CASE DOMAIN a \cap MemberFields = {}
    <3>1. \A f \in MemberFields : Names(c, f, j) <=> Names(b, f, j)
      BY <2>3, <2>5 DEF Names
    <3>2. Mention(last, g, p) = "nothing"
      BY <1>1, <2>1, <2>5, NoNames
    <3>3. \A f \in MemberFields :
            Names(new.changes, f, Jid(p, Mode[g])) <=> Names(e.changes, f, Jid(p, Mode[g]))
      BY <2>1, <3>1
    <3>4. Mention(new, g, p) = Mention(e, g, p)
      BY <1>1, <3>3, SameNames
    <3>. QED
      BY <1>3, <3>2, <3>4 DEF last, new
  <2>6. DOMAIN b \cap MemberFields = {} \/ DOMAIN a \cap MemberFields = {}
    BY <1>1, <2>1
  <2>. QED
    BY <2>4, <2>5, <2>6
<1>. QED
  BY <1>2, <1>3 DEF last, new

\* Where the roles of a person lead along the queue, one step further.
LEMMA NotifyPath ==
    ASSUME ~MixedChanges, QueueOK, NEW g \in Groups, NEW e, EventOf(g, e), Notify(e),
           NEW rel \in {Happens, Follows}, NEW h \in Groups, NEW p, NEW path,
           Path(rel, pending, h, p, path), NEW y \in Roles,
           <<Mention(e, h, p), path[Len(pending)], y>> \in rel
    PROVE  \E new \in [0..Len(pending') -> Roles] :
             /\ Path(rel, pending', h, p, new)
             /\ new[0] = path[0] /\ new[Len(pending')] = y
<1>1. PICK q : q = pending'
  OBVIOUS
<1>2. CASE pending' = Append(pending, e)
  <2>1. \E new \in [0..Len(Append(pending, e)) -> Roles] :
          /\ Path(rel, Append(pending, e), h, p, new)
          /\ new[0] = path[0] /\ new[Len(Append(pending, e))] = y
    BY PathAppend DEF QueueOK
  <2>2. q = Append(pending, e)
    BY <1>1, <1>2
  <2>3. \E new \in [0..Len(q) -> Roles] :
          /\ Path(rel, q, h, p, new)
          /\ new[0] = path[0] /\ new[Len(q)] = y
    BY <2>1, <2>2
  <2>. QED
    BY <1>1, <2>3
<1>3. CASE Mixed(g, e)
  <2>. DEFINE l == Len(pending)
  <2>1. /\ l \in Nat \ {0} /\ Len(q) = l
        /\ \A n \in 1..l : n # l => q[n] = pending[n]
    BY <1>1, <1>3 DEF Mixed
  <2>2. \/ Mention(e, h, p) = "nothing" /\ Mention(q[l], h, p) = Mention(pending[l], h, p)
        \/ Mention(pending[l], h, p) = "nothing" /\ Mention(q[l], h, p) = Mention(e, h, p)
    BY <1>1, <1>3, MixedMention
  <2>3. path[l] \in Roles
    BY <2>1 DEF Path
  <2>4. Mention(e, h, p) = "nothing" => y = path[l]
    <3>1. PICK x : x = path[l]
      OBVIOUS
    <3>. QED
      BY <2>3, <3>1, RelationsAre
  <2>5. \/ Mention(q[l], h, p) = Mention(pending[l], h, p) /\ y = path[l]
        \/ /\ Mention(pending[l], h, p) = "nothing"
           /\ <<Mention(q[l], h, p), path[l], y>> \in rel
    BY <2>2, <2>4
  <2>6. \E new \in [0..Len(q) -> Roles] :
           /\ Path(rel, q, h, p, new)
           /\ new[0] = path[0] /\ new[Len(q)] = y
    BY <2>1, <2>5, PathMixed
  <2>. QED
    BY <1>1, <2>6
<1>. QED
  BY <1>2, <1>3, NotifyIs

-----------------------------------------------------------------------------
(* A change of a group, and the roles and settings along the queue. *)

\* The account is told of a change, or invited.
TellsOf(g, e) ==
    /\ EventOf(g, e) /\ Notify(e)
    /\ \/ e.is = "JoinedGroup"
       \/ /\ e.is = "GroupInfo" /\ Me \in Members(g)
          /\ \A p \in People : <<Mention(e, g, p), RoleOf(g, p), RoleOf(g, p)'>> \in Happens
          /\ \A f \in Fields : group'[g][f] = IF f \in DOMAIN e.changes THEN e.changes[f] ELSE group[g][f]

\* Both ways to be told of a change, as one event that tells of it.
LEMMA StepTells ==
    ASSUME NEW g \in Groups, Invited(g) \/ InfoTold(g)
    PROVE  \E e : TellsOf(g, e)
<1>1. CASE Invited(g)
  BY <1>1 DEF Invited, TellsOf, EventOf
<1>2. CASE InfoTold(g)
  <2>1. PICK by, changes :
        /\ Me \in Members(g) /\ Notify(InfoEvent(g, by, changes)) /\ ChangesOK(g, changes)
        /\ \A p \in People :
             <<Mention(InfoEvent(g, by, changes), g, p), RoleOf(g, p), RoleOf(g, p)'>> \in Happens
        /\ \A f \in Fields : group'[g][f] = IF f \in DOMAIN changes THEN changes[f] ELSE group[g][f]
    BY <1>2 DEF InfoTold
  <2>2. PICK e : e = InfoEvent(g, by, changes)
    OBVIOUS
  <2>3. /\ e.is = "GroupInfo" /\ e.jid = GroupJID(g) /\ e.changes = changes
        /\ {"is", "jid", "by", "changes"} \subseteq DOMAIN e
    BY <2>2 DEF InfoEvent
  <2>4. EventOf(g, e)
    BY <2>1, <2>3 DEF EventOf
  <2>5. TellsOf(g, e)
    BY <2>1, <2>2, <2>3, <2>4 DEF TellsOf
  <2>. QED
    BY <2>5
<1>. QED
  BY <1>1, <1>2

\* A group that is left alone has the roles and settings it had.
LEMMA SameRoles ==
    ASSUME NEW h, Same(h)
    PROVE  /\ Members(h)' = Members(h)
           /\ \A p : RoleOf(h, p)' = RoleOf(h, p)
           /\ \A f \in Fields : group'[h][f] = group[h][f]
BY DEF Same, Members, RoleOf

\* Along the queue after a change, a path leads to the role after the change.
LEMMA StepPath ==
    ASSUME ~MixedChanges, GroupsOK, QueueOK, GroupsOK', NEW g \in Groups,
           \A h \in Groups \ {g} : Same(h), NotTold(g) \/ \E e : TellsOf(g, e),
           NEW rel \in {Happens, Follows}, NEW h \in Groups, NEW p \in People, NEW path,
           Path(rel, pending, h, p, path), Me \in Members(h) => path[Len(pending)] = RoleOf(h, p)
    PROVE  \E new \in [0..Len(pending') -> Roles] :
             /\ Path(rel, pending', h, p, new)
             /\ new[0] = path[0]
             /\ Me \in Members(h)' => new[Len(pending')] = RoleOf(h, p)'
<1>. DEFINE l == Len(pending)
            Goal(y) ==  \E new \in [0..Len(pending') -> Roles] :
                          /\ Path(rel, pending', h, p, new)
                          /\ new[0] = path[0] /\ new[Len(pending')] = y
<1>1. path \in [0..l -> Roles] /\ l \in Nat
  BY QueueIs DEF Path
<1>2. path[l] \in Roles
  BY <1>1
<1>3. CASE NotTold(g)
  <2>1. pending' = pending
    BY <1>3 DEF NotTold
  <2>2. Me \in Members(h)' => Me \in Members(h) /\ RoleOf(h, p)' = RoleOf(h, p)
    BY <1>3, SameRoles DEF NotTold
  <2>. QED
    BY <1>1, <2>1, <2>2
<1>4. ASSUME NEW e, TellsOf(g, e)
      PROVE  \E new \in [0..Len(pending') -> Roles] :
               /\ Path(rel, pending', h, p, new)
               /\ new[0] = path[0]
               /\ Me \in Members(h)' => new[Len(pending')] = RoleOf(h, p)'
  <2>0. EventOf(g, e) /\ Notify(e)
    BY <1>4 DEF TellsOf
  <2>1. ASSUME NEW y \in Roles, <<Mention(e, h, p), path[l], y>> \in rel PROVE Goal(y)
    BY <2>0, <2>1, NotifyPath
  <2>. HIDE DEF Goal
  <2>2. \E y \in Roles : /\ <<Mention(e, h, p), path[l], y>> \in rel
                         /\ Me \in Members(h)' => y = RoleOf(h, p)'
    <3>1. PICK x, y, z : x = path[l] /\ y = RoleOf(h, p)' /\ z = RoleOf(h, p)
      OBVIOUS
    <3>2. y \in Roles
      <4>1. PICK people \in SUBSET People : group'[h].role \in [people -> {"admin", "member"}]
        BY DEF GroupsOK, GroupOK
      <4>. QED
        BY <3>1, <4>1 DEF RoleOf, Members, Roles
    <3>3. CASE h # g
      <4>1. Mention(e, h, p) = "nothing"
        <5>1. e.jid # GroupJID(h)
          BY <2>0, <3>3, GroupJIDs DEF EventOf
        <5>. QED
          BY <5>1, MentionElsewhere
      <4>2. Me \in Members(h)' => y = x
        BY <3>1, <3>3, SameRoles
      <4>3. <<"nothing", x, x>> \in rel
        BY <1>2, <3>1, RelationsAre
      <4>. QED
        BY <1>2, <3>1, <4>1, <4>2, <4>3
    <3>4. CASE h = g /\ e.is = "JoinedGroup"
      <4>1. Mention(e, h, p) = "again"
        BY <2>0, <3>4 DEF Mention, EventOf
      <4>2. <<"again", x, y>> \in rel
        BY <1>2, <3>1, <3>2, RelationsAre
      <4>. QED
        BY <3>1, <3>2, <4>1, <4>2
    <3>5. CASE h = g /\ e.is = "GroupInfo"
      <4>1. Me \in Members(g) /\ <<Mention(e, g, p), RoleOf(g, p), RoleOf(g, p)'>> \in Happens
        BY <1>4, <3>5 DEF TellsOf
      <4>2. x = z
        BY <3>1, <3>5, <4>1
      <4>3. <<Mention(e, h, p), x, y>> \in Happens
        BY <3>1, <3>5, <4>1, <4>2
      <4>4. <<Mention(e, h, p), x, y>> \in rel
        BY <4>3, RelationsAre
      <4>. QED
        BY <3>1, <3>2, <4>4
    <3>. QED
      BY <2>0, <3>3, <3>4, <3>5 DEF EventOf
  <2>3. PICK y \in Roles : /\ <<Mention(e, h, p), path[l], y>> \in rel
                           /\ Me \in Members(h)' => y = RoleOf(h, p)'
    BY <2>2
  <2>4. Goal(y)
    BY <2>1, <2>3
  <2>. QED
    BY <2>3, <2>4 DEF Goal
<1>. QED
  BY <1>3, <1>4

\* What an event means for a setting.
LEMMA StepSetting ==
    ASSUME NEW g \in Groups, \A h \in Groups \ {g} : Same(h), NEW e, TellsOf(g, e),
           NEW h \in Groups, NEW f \in Fields
    PROVE  /\ Touches(e, h, f) /\ e.is = "GroupInfo" => h = g /\ e.changes[f] = group'[h][f] /\ f \in DOMAIN e.changes
           /\ ~Touches(e, h, f) =>
                group'[h][f] = group[h][f] /\ (Me \in Members(h)' => Me \in Members(h))
<1>1. /\ e.jid = GroupJID(g) /\ e.is \in {"JoinedGroup", "GroupInfo"}
      /\ e.is = "GroupInfo" =>
           /\ Me \in Members(g)
           /\ group'[g][f] = IF f \in DOMAIN e.changes THEN e.changes[f] ELSE group[g][f]
  BY DEF TellsOf, EventOf
<1>2. h # g => e.jid # GroupJID(h)
  BY <1>1, GroupJIDs
<1>3. h # g => group'[h][f] = group[h][f] /\ Members(h)' = Members(h)
  BY SameRoles
<1>. QED
  BY <1>1, <1>2, <1>3 DEF Touches

\* Two events told together tell of what either told, with its value.
LEMMA MixedTouches ==
    ASSUME NEW g \in Groups, NEW e, EventOf(g, e), Mixed(g, e), NEW h \in Groups, NEW f \in Fields
    PROVE  LET last == pending[Len(pending)]
               new  == pending'[Len(pending)]
           IN  /\ new.is = "GroupInfo" /\ last.is = "GroupInfo" /\ e.is = "GroupInfo"
               /\ Touches(new, h, f) <=> Touches(last, h, f) \/ Touches(e, h, f)
               /\ Touches(e, h, f) => new.changes[f] = e.changes[f]
               /\ Touches(last, h, f) => new.changes[f] = last.changes[f]
<1>. DEFINE last == pending[Len(pending)]
            new  == pending'[Len(pending)]
<1>1. /\ e.is = "GroupInfo" /\ last.is = "GroupInfo" /\ last.jid = GroupJID(g)
      /\ new.is = "GroupInfo" /\ new.jid = GroupJID(g) /\ e.jid = GroupJID(g)
      /\ new.changes = last.changes @@ e.changes
      /\ DOMAIN last.changes \cap DOMAIN e.changes = {}
  BY DEF Mixed, EventOf
<1>. HIDE DEF last, new
<1>2. PICK a, b, c : a = last.changes /\ b = e.changes /\ c = new.changes
  OBVIOUS
<1>3. /\ f \in DOMAIN a => c[f] = a[f]
      /\ f \in DOMAIN b => c[f] = b[f]
      /\ f \in DOMAIN c <=> f \in DOMAIN a \/ f \in DOMAIN b
  BY <1>1, <1>2 DEF @@
<1>4. /\ Touches(new, h, f) <=> GroupJID(g) = GroupJID(h) /\ f \in DOMAIN c
      /\ Touches(last, h, f) <=> GroupJID(g) = GroupJID(h) /\ f \in DOMAIN a
      /\ Touches(e, h, f) <=> GroupJID(g) = GroupJID(h) /\ f \in DOMAIN b
  BY <1>1, <1>2 DEF Touches
<1>. QED
  BY <1>1, <1>2, <1>3, <1>4 DEF last, new

\* The last event about a setting has its value, after a change too.
LEMMA StepSettingTracked ==
    ASSUME ~MixedChanges, QueueOK, NEW g \in Groups,
           \A h \in Groups \ {g} : Same(h), NotTold(g) \/ \E e : TellsOf(g, e),
           NEW h \in Groups, NEW f \in Fields, Me \in Members(h) => SettingTracked(h, f), Me \in Members(h)'
    PROVE  SettingTracked(h, f)'
<1>. DEFINE l == Len(pending)
<1>1. l \in Nat /\ DOMAIN pending = 1..l
  BY QueueIs
<1>2. CASE NotTold(g)
  <2>1. pending' = pending /\ h # g
    BY <1>2 DEF NotTold
  <2>2. group'[h][f] = group[h][f] /\ Me \in Members(h)
    BY <2>1, SameRoles
  <2>. QED
    BY <2>1, <2>2 DEF SettingTracked
<1>3. ASSUME NEW e, TellsOf(g, e) PROVE SettingTracked(h, f)'
  <2>0. EventOf(g, e) /\ Notify(e)
    BY <1>3 DEF TellsOf
  <2>. PICK q : q = pending'
    OBVIOUS
  <2>1. /\ Touches(e, h, f) /\ e.is = "GroupInfo" => e.changes[f] = group'[h][f]
        /\ ~Touches(e, h, f) => group'[h][f] = group[h][f] /\ SettingTracked(h, f)
    BY <1>3, StepSetting
  <2>. SUFFICES ASSUME NEW n \in DOMAIN q, Touches(q[n], h, f), q[n].is = "GroupInfo",
                       \A k \in DOMAIN q : n < k => ~Touches(q[k], h, f)
                PROVE  q[n].changes[f] = group'[h][f]
    BY DEF SettingTracked
  <2>2. CASE pending' = Append(pending, e)
    <3>1. DOMAIN q = 1..(l + 1) /\ q[l + 1] = e /\ \A k \in 1..l : q[k] = pending[k]
      BY <2>2, AppendIs
    <3>2. CASE n = l + 1
      BY <2>1, <3>1, <3>2
    <3>3. CASE n \in 1..l
      <4>1. l + 1 \in DOMAIN q /\ n < l + 1
        BY <1>1, <3>1, <3>3
      <4>2. ~Touches(e, h, f)
        BY <3>1, <4>1
      <4>3. \A k \in DOMAIN pending : n < k => ~Touches(pending[k], h, f)
        BY <1>1, <3>1
      <4>4. pending[n].changes[f] = group[h][f]
        BY <1>1, <2>1, <3>1, <3>3, <4>2, <4>3 DEF SettingTracked
      <4>. QED
        BY <2>1, <3>1, <3>3, <4>2, <4>4
    <3>. QED
      BY <1>1, <3>1, <3>2, <3>3
  <2>3. CASE Mixed(g, e)
    <3>1. /\ l \in Nat \ {0} /\ DOMAIN q = 1..l
          /\ \A k \in 1..l : k # l => q[k] = pending[k]
      BY <2>3 DEF Mixed
    <3>2. /\ q[l].is = "GroupInfo" /\ pending[l].is = "GroupInfo" /\ e.is = "GroupInfo"
          /\ Touches(q[l], h, f) <=> Touches(pending[l], h, f) \/ Touches(e, h, f)
          /\ Touches(e, h, f) => q[l].changes[f] = e.changes[f]
          /\ Touches(pending[l], h, f) => q[l].changes[f] = pending[l].changes[f]
      BY <2>0, <2>3, MixedTouches
    <3>. HIDE DEF l
    <3>3. CASE Touches(e, h, f)
      <4>1. n = l
        BY <3>1, <3>2, <3>3
      <4>. QED
        BY <2>1, <3>2, <3>3, <4>1
    <3>4. CASE ~Touches(e, h, f)
      <4>1. Touches(pending[n], h, f) /\ pending[n].is = "GroupInfo"
        BY <3>1, <3>2, <3>4
      <4>2. \A k \in DOMAIN pending : n < k => ~Touches(pending[k], h, f)
        BY <1>1, <3>1, <3>2
      <4>3. pending[n].changes[f] = group[h][f]
        BY <1>1, <2>1, <3>1, <3>4, <4>1, <4>2 DEF SettingTracked
      <4>4. q[n].changes[f] = pending[n].changes[f]
        BY <3>1, <3>2, <4>1
      <4>. QED
        BY <2>1, <3>4, <4>3, <4>4
    <3>. QED
      BY <3>3, <3>4
  <2>. QED
    BY <2>0, <2>2, <2>3, NotifyIs
<1>. QED
  BY <1>2, <1>3

\* A setting that no event is about is the one the client has, after a change too.
LEMMA StepSettingFollowed ==
    ASSUME ~MixedChanges, QueueOK, NEW g \in Groups,
           \A h \in Groups \ {g} : Same(h), NotTold(g) \/ \E e : TellsOf(g, e), view' = view,
           NEW h \in Groups, NEW f \in Fields, Me \in Members(h) => SettingFollowed(h, f), Me \in Members(h)'
    PROVE  SettingFollowed(h, f)'
<1>. DEFINE l == Len(pending)
<1>1. l \in Nat /\ DOMAIN pending = 1..l
  BY QueueIs
<1>2. CASE NotTold(g)
  <2>1. pending' = pending /\ h # g
    BY <1>2 DEF NotTold
  <2>2. group'[h][f] = group[h][f] /\ Me \in Members(h)
    BY <2>1, SameRoles
  <2>. QED
    BY <2>1, <2>2 DEF SettingFollowed
<1>3. ASSUME NEW e, TellsOf(g, e) PROVE SettingFollowed(h, f)'
  <2>0. EventOf(g, e) /\ Notify(e)
    BY <1>3 DEF TellsOf
  <2>. PICK q : q = pending'
    OBVIOUS
  <2>1. ~Touches(e, h, f) => group'[h][f] = group[h][f] /\ SettingFollowed(h, f)
    BY <1>3, StepSetting
  <2>. SUFFICES ASSUME \A n \in DOMAIN q : ~Touches(q[n], h, f), f \in DOMAIN view[h]
                PROVE  view[h][f] = ShownAs(f, group'[h][f])
    BY DEF SettingFollowed
  <2>2. ~Touches(e, h, f) /\ \A n \in DOMAIN pending : ~Touches(pending[n], h, f)
    <3>1. CASE pending' = Append(pending, e)
      <4>1. DOMAIN q = 1..(l + 1) /\ q[l + 1] = e /\ \A k \in 1..l : q[k] = pending[k]
        BY <3>1, AppendIs
      <4>. QED
        BY <1>1, <4>1
    <3>2. CASE Mixed(g, e)
      <4>1. /\ l \in Nat \ {0} /\ DOMAIN q = 1..l
            /\ \A k \in 1..l : k # l => q[k] = pending[k]
        BY <3>2 DEF Mixed
      <4>2. Touches(q[l], h, f) <=> Touches(pending[l], h, f) \/ Touches(e, h, f)
        BY <2>0, <3>2, MixedTouches
      <4>. HIDE DEF l
      <4>. QED
        BY <1>1, <4>1, <4>2
    <3>. QED
      BY <2>0, <3>1, <3>2, NotifyIs
  <2>. QED
    BY <2>1, <2>2 DEF SettingFollowed
<1>. QED
  BY <1>2, <1>3

\* What is done to a group keeps what is known of the queue and of the views.
LEMMA GroupStepKeeps ==
    ASSUME ~MixedChanges, GroupsOK, QueueOK, TrackedOK, ViewsOK, NEW g \in Groups, GroupStep(g), view' = view
    PROVE  GroupsOK' /\ QueueOK' /\ TrackedOK' /\ ViewsOK'
<1>1. GroupsOK' /\ \A h \in Groups \ {g} : Same(h)
  BY DEF GroupStep, GroupsOK
<1>2. NotTold(g) \/ \E e : TellsOf(g, e)
  BY StepTells DEF GroupStep
<1>3. QueueOK'
  <2>1. CASE NotTold(g)
    BY <2>1 DEF NotTold, QueueOK
  <2>2. ASSUME NEW e, TellsOf(g, e) PROVE QueueOK'
    BY <2>2, NotifyQueue DEF TellsOf
  <2>. QED
    BY <1>2, <2>1, <2>2
<1>4. ASSUME NEW h \in Groups, NEW p \in People PROVE Tracked(h, p)'
  <2>1. PICK path \in [0..Len(pending) -> Roles] :
          /\ Path(Happens, pending, h, p, path)
          /\ Me \in Members(h) => path[Len(pending)] = RoleOf(h, p)
    BY DEF TrackedOK, Tracked
  <2>2. Happens \in {Happens, Follows}
    OBVIOUS
  <2>3. \E new \in [0..Len(pending') -> Roles] :
          /\ Path(Happens, pending', h, p, new)
          /\ new[0] = path[0]
          /\ Me \in Members(h)' => new[Len(pending')] = RoleOf(h, p)'
    BY <1>1, <1>2, <2>1, <2>2, StepPath
  <2>4. Tracked(h, p)' <=> \E new \in [0..Len(pending') -> Roles] :
                             /\ Path(Happens, pending', h, p, new)
                             /\ Me \in Members(h)' => new[Len(pending')] = RoleOf(h, p)'
    BY DEF Tracked
  <2>. QED
    BY <2>3, <2>4
<1>5. ASSUME NEW h \in Groups, NEW p \in People, Followed(h, p) PROVE Followed(h, p)'
  <2>1. PICK path \in [0..Len(pending) -> Roles] :
          /\ Path(Follows, pending, h, p, path)
          /\ path[0] = RoleIn(view[h], h, p)
          /\ Me \in Members(h) => path[Len(pending)] = RoleOf(h, p)
    BY <1>5 DEF Followed
  <2>2. Follows \in {Happens, Follows}
    OBVIOUS
  <2>3. \E new \in [0..Len(pending') -> Roles] :
          /\ Path(Follows, pending', h, p, new)
          /\ new[0] = path[0]
          /\ Me \in Members(h)' => new[Len(pending')] = RoleOf(h, p)'
    BY <1>1, <1>2, <2>1, <2>2, StepPath
  <2>4. Followed(h, p)' <=> \E new \in [0..Len(pending') -> Roles] :
                             /\ Path(Follows, pending', h, p, new)
                             /\ new[0] = RoleIn(view'[h], h, p)
                             /\ Me \in Members(h)' => new[Len(pending')] = RoleOf(h, p)'
    BY DEF Followed
  <2>. QED
    BY <2>1, <2>3, <2>4
<1>6. ASSUME NEW h \in Groups, NEW f \in Fields, Me \in Members(h)' PROVE SettingTracked(h, f)'
  BY <1>1, <1>2, <1>6, StepSettingTracked DEF TrackedOK
<1>7. ASSUME NEW h \in Groups, NEW f \in Fields, Me \in Members(h)', view[h].read PROVE SettingFollowed(h, f)'
  BY <1>1, <1>2, <1>7, StepSettingFollowed DEF ViewsOK
<1>8. TrackedOK'
  BY <1>4, <1>6 DEF TrackedOK
<1>9. ViewsOK'
  <2>1. ASSUME NEW h \in Groups, view[h].read
        PROVE  /\ ViewOK(view[h], h) /\ \A p \in People : Followed(h, p)'
               /\ Me \in Members(h)' => \A f \in Fields : SettingFollowed(h, f)'
    BY <1>5, <1>7, <2>1 DEF ViewsOK
  <2>. QED
    BY <2>1 DEF ViewsOK
<1>. QED
  BY <1>1, <1>3, <1>8, <1>9

\* Steps that leave groups, queue and views alone.
LEMMA SameGroupParts ==
    ASSUME GroupsOK, QueueOK, TrackedOK, ViewsOK, UNCHANGED <<group, pending, view>>
    PROVE  GroupsOK' /\ QueueOK' /\ TrackedOK' /\ ViewsOK'
<1>1. GroupsOK'
  BY DEF GroupsOK, GroupOK
<1>2. QueueOK'
  BY DEF QueueOK
<1>3. TrackedOK'
  <2>1. ASSUME NEW g \in Groups, NEW p \in People PROVE Tracked(g, p)'
    <3>1. Tracked(g, p)
      BY DEF TrackedOK
    <3>. QED
      BY <3>1 DEF Tracked, Members, RoleOf
  <2>2. ASSUME NEW g \in Groups, NEW f \in Fields, Me \in Members(g) PROVE SettingTracked(g, f)'
    <3>1. SettingTracked(g, f)
      BY <2>2 DEF TrackedOK
    <3>. QED
      BY <3>1 DEF SettingTracked
  <2>3. \A g : Members(g)' = Members(g)
    BY DEF Members
  <2>. QED
    BY <2>1, <2>2, <2>3 DEF TrackedOK
<1>4. ViewsOK'
  <2>1. ASSUME NEW g \in Groups, NEW p \in People, view[g].read PROVE Followed(g, p)'
    <3>1. Followed(g, p)
      BY <2>1 DEF ViewsOK
    <3>. QED
      BY <3>1 DEF Followed, Members, RoleOf
  <2>2. ASSUME NEW g \in Groups, NEW f \in Fields, Me \in Members(g), view[g].read PROVE SettingFollowed(g, f)'
    <3>1. SettingFollowed(g, f)
      BY <2>2 DEF ViewsOK
    <3>. QED
      BY <3>1 DEF SettingFollowed
  <2>3. \A g : Members(g)' = Members(g)
    BY DEF Members
  <2>4. ASSUME NEW g \in Groups, view[g].read PROVE ViewOK(view[g], g)
    BY <2>4 DEF ViewsOK
  <2>. QED
    BY <2>1, <2>2, <2>3, <2>4 DEF ViewsOK
<1>. QED
  BY <1>1, <1>2, <1>3, <1>4

\* A change by anybody keeps the invariant of the groups.
LEMMA WhatsAppKeeps ==
    ASSUME ~MixedChanges, GroupInv, NEW by \in People, NEW ask, Askable(ask), WhatsApp(by, ask)
    PROVE  GroupsOK' /\ QueueOK' /\ TrackedOK' /\ ViewsOK' /\ known' = known
<1>1. PICK g \in Groups : GroupStep(g)
  BY WhatsAppStep DEF GroupInv
<1>2. view' = view /\ known' = known
  BY DEF WhatsApp
<1>. QED
  BY <1>1, <1>2, GroupStepKeeps DEF GroupInv

\* So do the client's requests, also those to a community, and what others do.
LEMMA StepRequests ==
    ASSUME ~MixedChanges, GroupInv, RequestGroup \/ OthersDo \/ CommunityLookup \/ CommunityUpdate
    PROVE  GroupInv'
<1>0. Me \in People
  BY RoomsAssumption
<1>1. CASE RequestGroup
  <2>1. PICK r \in Requests : /\ ~Has(r, "patch") /\ r.op # "communityParticipants"
                              /\ WhatsApp(Me, Asked(r))
    BY <1>1 DEF RequestGroup
  <2>2. Askable(Asked(r))
    BY <2>1, AsksAssumption
  <2>3. request' = request
    BY <1>1 DEF RequestGroup
  <2>. QED
    BY <1>0, <2>1, <2>2, <2>3, WhatsAppKeeps DEF GroupInv, RequestOK
<1>2. CASE OthersDo
  <2>1. PICK o \in Others : ~Has(o, "patch") /\ WhatsApp(o.by, o.ask)
    BY <1>2 DEF OthersDo
  <2>2. o.by \in People /\ Askable(o.ask)
    BY <2>1, AsksAssumption
  <2>3. request' = request
    BY <1>2 DEF OthersDo
  <2>. QED
    BY <2>1, <2>2, <2>3, WhatsAppKeeps DEF GroupInv, RequestOK
<1>3. CASE CommunityLookup
  <2>1. UNCHANGED <<group, pending, view, known>>
    BY <1>3 DEF CommunityLookup
  <2>2. PICK r \in Requests, g \in Groups :
          request' = [pc |-> "update", ask |-> [UpdateGroupParticipants(r) EXCEPT !.group = g]]
    BY <1>3 DEF CommunityLookup, DefaultSubGroups
  <2>3. PICK ask : ask = [UpdateGroupParticipants(r) EXCEPT !.group = g]
    OBVIOUS
  <2>4. ask.do = "members" /\ ask.group = g
    BY <2>3 DEF UpdateGroupParticipants
  <2>5. Askable(ask)
    BY <2>4 DEF Askable
  <2>6. RequestOK'
    BY <2>2, <2>3, <2>5 DEF RequestOK
  <2>. QED
    BY <2>1, <2>6, SameGroupParts DEF GroupInv
<1>4. CASE CommunityUpdate
  <2>1. request.pc = "update" /\ request' = Idle
    BY <1>4 DEF CommunityUpdate
  <2>2. RequestOK'
    BY <2>1 DEF RequestOK
  <2>3. CASE WhatsApp(Me, request.ask)
    <3>1. Askable(request.ask)
      BY <2>1 DEF GroupInv, RequestOK, Idle
    <3>. QED
      BY <1>0, <2>2, <2>3, <3>1, WhatsAppKeeps DEF GroupInv
  <2>4. CASE UNCHANGED <<group, pending, view, known, chatVars, now>>
    BY <2>2, <2>4, SameGroupParts DEF GroupInv
  <2>. QED
    BY <1>4, <2>3, <2>4 DEF CommunityUpdate
<1>. QED
  BY <1>1, <1>2, <1>3, <1>4

-----------------------------------------------------------------------------
(* People in a view. *)

\* A member has the address by which the group names it, and its own other one.
LEMMA ResolveIs ==
    ASSUME NEW p \in People, NEW server \in {"pn", "lid"}, NEW alt \in {Jid(p, "pn"), EmptyJID},
           NEW knows
    PROVE  LET who == Resolve(Jid(p, server), alt, knows)
           IN  /\ {who.phone, who.lid} \subseteq {p, NoUser}
               /\ IF server = "pn" THEN who.phone = p ELSE who.lid = p
<1>. DEFINE who == Resolve(Jid(p, server), alt, knows)
            none == [pn |-> NoUser, lid |-> NoUser]
            first == Categorize(none, Jid(p, server))
            second == Categorize(first, alt)
            s == Sides(Jid(p, server), alt, knows)
<1>1. p # NoUser
  BY RoomsAssumption
<1>2. first = IF server = "pn" THEN [pn |-> p, lid |-> NoUser] ELSE [pn |-> NoUser, lid |-> p]
  <2>1. Jid(p, server).server = server /\ Jid(p, server).user = p
    BY DEF Jid
  <2>. QED
    BY <2>1 DEF Categorize
<1>. HIDE DEF first
<1>3. /\ second.pn \in {p, NoUser} /\ second.lid \in {p, NoUser}
      /\ IF server = "pn" THEN second.pn = p ELSE second.lid = p
  <2>1. CASE alt = EmptyJID
    <3>1. alt.server \notin {"pn", "lid"}
      BY <2>1 DEF EmptyJID, Jid, NoServer
    <3>2. second = first
      BY <3>1 DEF Categorize
    <3>. QED
      BY <1>2, <3>2
  <2>2. CASE alt = Jid(p, "pn")
    <3>1. alt.server = "pn" /\ alt.user = p
      BY <2>2 DEF Jid
    <3>2. second = IF first.pn = NoUser THEN [first EXCEPT !.pn = p] ELSE first
      BY <3>1 DEF Categorize
    <3>. QED
      BY <1>1, <1>2, <3>2
  <2>. QED
    BY <2>1, <2>2
<1>4. /\ s.pn = IF second.pn = NoUser /\ second.lid # NoUser
                THEN GetPNForLID(Jid(second.lid, "lid"), knows) ELSE second.pn
      /\ s.lid = IF second.lid = NoUser /\ second.pn # NoUser
                 THEN GetLIDForPN(Jid(second.pn, "pn"), knows) ELSE second.lid
  BY DEF Sides, first
<1>. HIDE DEF second
<1>5. \A u \in {p, NoUser} : u # NoUser =>
        /\ GetPNForLID(Jid(u, "lid"), knows) \in {p, NoUser}
        /\ GetLIDForPN(Jid(u, "pn"), knows) \in {p, NoUser}
  BY DEF GetPNForLID, GetLIDForPN, Jid
<1>6. /\ s.pn \in {p, NoUser} /\ s.lid \in {p, NoUser}
      /\ IF server = "pn" THEN s.pn = p ELSE s.lid = p
  BY <1>1, <1>3, <1>4, <1>5
<1>7. who.phone = s.pn /\ who.lid = s.lid
  BY DEF Resolve
<1>. QED
  BY <1>6, <1>7

\* A group names its members by phone numbers or by LIDs.
LEMMA ModeIs == \A g \in Groups : Mode[g] \in {"pn", "lid"}
BY RoomsAssumption

\* The identity of a member in an answer is that of the person.
LEMMA PersonIs ==
    ASSUME NEW g \in Groups, NEW p \in People, NEW alt \in {Jid(p, "pn"), EmptyJID}, NEW knows
    PROVE  Is(Resolve(Jid(p, Mode[g]), alt, knows), p, g)
BY ResolveIs, ModeIs DEF Is

\* Two identities in a group are one person for the client iff they are.
LEMMA OnePerson ==
    ASSUME NEW g \in Groups, NEW p \in People, NEW q \in People, NEW x, NEW y, Is(x, p, g), Is(y, q, g)
    PROVE  /\ SamePerson(x, y) <=> p = q
           /\ x = y => p = q
<1>1. p # NoUser /\ q # NoUser
  BY RoomsAssumption
<1>. QED
  BY <1>1 DEF Is, SamePerson

\* What the answer to a read shows.
Answer(v, g, phones, knows) ==
    v \in {GroupInfoResponse(g, phones, knows), CommunityInfoResponse(g, phones, knows)}
Entries(g, phones, knows) == {InfoMember(p, g, phones, knows) : p \in Members(g)}

Displays(v, g, entries) ==
    /\ v = [f \in DOMAIN v |-> v[f]]
    /\ {"read", "members"} \subseteq DOMAIN v /\ DOMAIN v \subseteq Fields \cup {"read", "members"}
    /\ v.read = TRUE /\ v.members = entries
    /\ \A f \in Fields \cap DOMAIN v : v[f] = ShownAs(f, group[g][f])

\* Both answers, GetGroupInfo and GetCommunityInfo, show entries and fields.
LEMMA ResponseIs ==
    ASSUME GroupsOK, NEW g \in Groups, NEW phones, NEW knows, NEW v,
           Answer(v, g, phones, knows)
    PROVE  Displays(v, g, Entries(g, phones, knows))
<1>. DEFINE base == [read |-> TRUE, members |-> {InfoMember(p, g, phones, knows) : p \in Members(g)}]
            few == [f \in CommunityFields |-> group[g][f]]
            more == [f \in GroupFieldsShown |-> group[g][f]]
            timer == [ephemeral |-> ExpirationString(group[g].ephemeral)]
            small == base @@ few
            large == (small @@ more) @@ timer
<1>0. CommunityFields \subseteq GroupFieldsShown /\ Fields = GroupFieldsShown \cup {"ephemeral"}
      /\ {"read", "members", "ephemeral"} \cap GroupFieldsShown = {}
  BY DEF GroupFieldsShown, CommunityFields, Fields
<1>1. DOMAIN base = {"read", "members"} /\ base.read = TRUE
      /\ base.members = Entries(g, phones, knows)
  BY DEF Entries
<1>2. DOMAIN few = CommunityFields /\ \A f \in CommunityFields : few[f] = group[g][f]
  OBVIOUS
<1>3. DOMAIN more = GroupFieldsShown /\ \A f \in GroupFieldsShown : more[f] = group[g][f]
  OBVIOUS
<1>4. DOMAIN timer = {"ephemeral"} /\ timer["ephemeral"] = ExpirationString(group[g].ephemeral)
  OBVIOUS
<1>5. v = small \/ v = large
  BY DEF Answer, GroupInfoResponse, CommunityInfoResponse
<1>. HIDE DEF base, few, more, timer
<1>6. /\ small = [f \in DOMAIN small |-> small[f]] /\ DOMAIN small = {"read", "members"} \cup CommunityFields
      /\ small.read = TRUE /\ small.members = base.members
      /\ \A f \in CommunityFields : small[f] = group[g][f]
  BY <1>0, <1>1, <1>2 DEF @@
<1>. HIDE DEF small
<1>7. /\ large = [f \in DOMAIN large |-> large[f]] /\ DOMAIN large = {"read", "members"} \cup Fields
      /\ large.read = TRUE /\ large.members = base.members
      /\ \A f \in GroupFieldsShown : large[f] = group[g][f]
      /\ large["ephemeral"] = ExpirationString(group[g].ephemeral)
  <2>. DEFINE mid == small @@ more
  <2>1. /\ DOMAIN mid = {"read", "members"} \cup GroupFieldsShown
        /\ mid.read = TRUE /\ mid.members = base.members
        /\ \A f \in GroupFieldsShown : mid[f] = group[g][f]
    BY <1>0, <1>3, <1>6 DEF @@
  <2>. HIDE DEF mid
  <2>2. large = mid @@ timer
    BY DEF mid
  <2>. QED
    BY <1>0, <1>4, <2>1, <2>2 DEF @@
<1>. HIDE DEF large
<1>8. \A f \in GroupFieldsShown : ShownAs(f, group[g][f]) = group[g][f]
  BY <1>0 DEF ShownAs
<1>9. ShownAs("ephemeral", group[g]["ephemeral"]) = ExpirationString(group[g].ephemeral)
  BY DEF ShownAs
<1>10. CASE v = small
  BY <1>0, <1>1, <1>6, <1>8, <1>10 DEF Displays
<1>11. CASE v = large
  BY <1>0, <1>1, <1>7, <1>8, <1>9, <1>11 DEF Displays
<1>. QED
  BY <1>5, <1>10, <1>11

\* An answer is a well-formed view and has the role of everybody.
LEMMA ResponseOK ==
    ASSUME GroupsOK, NEW g \in Groups, NEW phones, NEW knows, NEW v,
           Answer(v, g, phones, knows)
    PROVE  /\ ViewOK(v, g)
           /\ \A p \in People : RoleIn(v, g, p) = RoleOf(g, p)
<1>. DEFINE M(p) == InfoMember(p, g, phones, knows)
<1>1. ASSUME NEW p \in Members(g)
      PROVE  /\ M(p) = [who |-> M(p).who, admin |-> M(p).admin] /\ M(p).admin \in BOOLEAN
             /\ M(p).admin <=> IsAdmin(g, p)
             /\ Is(M(p).who, p, g) /\ p \in People
  <2>1. PICK alt \in {Jid(p, "pn"), EmptyJID} :
          M(p) = [who |-> Resolve(Jid(p, Mode[g]), alt, knows), admin |-> IsAdmin(g, p)]
    BY DEF InfoMember
  <2>2. p \in People
    BY RolesAre
  <2>3. IsAdmin(g, p) \in BOOLEAN
    BY DEF IsAdmin
  <2>. HIDE DEF M
  <2>4. M(p).who = Resolve(Jid(p, Mode[g]), alt, knows) /\ M(p).admin = IsAdmin(g, p)
    BY <2>1
  <2>. QED
    BY <2>1, <2>2, <2>3, <2>4, PersonIs
<1>0. Displays(v, g, Entries(g, phones, knows))
  BY ResponseIs
<1>2. v.members = {M(p) : p \in Members(g)}
  BY <1>0 DEF Displays, Entries
<1>. HIDE DEF M
<1>3. \A m \in v.members : \E p \in Members(g) : m = M(p)
  BY <1>2
<1>4. \A p \in Members(g) : M(p) \in v.members
  BY <1>2
<1>5. ASSUME NEW m \in v.members, NEW p \in People, Is(m.who, p, g)
      PROVE  p \in Members(g) /\ m = M(p)
  <2>1. PICK q \in Members(g) : m = M(q)
    BY <1>3
  <2>2. Is(m.who, q, g) /\ q \in People
    BY <1>1, <2>1
  <2>3. p = q
    BY <1>5, <2>2, OnePerson
  <2>. QED
    BY <2>1, <2>3
<1>6. ViewOK(v, g)
  <2>1. /\ v = [f \in DOMAIN v |-> v[f]]
        /\ {"read", "members"} \subseteq DOMAIN v /\ DOMAIN v \subseteq Fields \cup {"read", "members"}
    BY <1>0 DEF Displays
  <2>2. \A m \in v.members : \E p \in People : Is(m.who, p, g)
    BY <1>1, <1>3
  <2>3. \A m \in v.members : m = [who |-> m.who, admin |-> m.admin] /\ m.admin \in BOOLEAN
    BY <1>1, <1>3
  <2>4. \A m, n \in v.members : \A p \in People : Is(m.who, p, g) /\ Is(n.who, p, g) => m = n
    BY <1>5
  <2>. QED
    BY <2>1, <2>2, <2>3, <2>4 DEF ViewOK
<1>7. ASSUME NEW p \in People PROVE RoleIn(v, g, p) = RoleOf(g, p)
  <2>1. (\E m \in v.members : Is(m.who, p, g) /\ m.admin) <=> IsAdmin(g, p)
    <3>1. IsAdmin(g, p) => p \in Members(g)
      BY DEF IsAdmin
    <3>. QED
      BY <1>1, <1>4, <1>5, <3>1
  <2>2. (\E m \in v.members : Is(m.who, p, g) /\ ~m.admin) <=> p \in Members(g) /\ ~IsAdmin(g, p)
    BY <1>1, <1>4, <1>5
  <2>3. RoleOf(g, p) \in Roles /\ (p \in Members(g) <=> RoleOf(g, p) # "none")
        /\ (IsAdmin(g, p) <=> RoleOf(g, p) = "admin")
    BY RolesAre
  <2>4. RoleIn(v, g, p) = IF IsAdmin(g, p) THEN "admin" ELSE IF p \in Members(g) THEN "member" ELSE "none"
    BY <2>1, <2>2 DEF RoleIn
  <2>. QED
    BY <2>3, <2>4 DEF Roles, IsAdmin
<1>. QED
  BY <1>6, <1>7

\* A read shows what there is, and the events on their way lead there again.
LEMMA StepRead ==
    ASSUME GroupInv, NEW g \in Groups, ReadGroup(g)
    PROVE  GroupInv'
<1>1. /\ Me \in Members(g) /\ \A h \in Groups : ~view[h].read
      /\ UNCHANGED <<group, pending, request>>
  BY DEF ReadGroup
<1>2. GroupsOK /\ QueueOK /\ RequestOK /\ TrackedOK /\ DOMAIN view = Groups /\ known \subseteq People
  BY DEF GroupInv, ViewsOK
<1>3. PICK phones \in {{}, Members(g)} :
        /\ known' = IF Mode[g] = "lid" THEN known \cup phones ELSE known
        /\ \/ view' = [view EXCEPT ![g] = GroupInfoResponse(g, phones, known')]
           \/ view' = [view EXCEPT ![g] = CommunityInfoResponse(g, phones, known')]
  BY DEF ReadGroup
<1>4. known' \subseteq People
  <2>1. Members(g) \subseteq People
    BY <1>2, RolesAre
  <2>. QED
    BY <1>2, <1>3, <2>1
<1>5. \E v : view' = [view EXCEPT ![g] = v] /\ Answer(v, g, phones, known')
  BY <1>3 DEF Answer
<1>6. PICK v : view' = [view EXCEPT ![g] = v] /\ Answer(v, g, phones, known')
  BY <1>5
<1>7. ViewOK(v, g) /\ \A p \in People : RoleIn(v, g, p) = RoleOf(g, p)
  BY <1>2, <1>6, ResponseOK
<1>8. /\ v.read = TRUE
      /\ \A f \in Fields \cap DOMAIN v : v[f] = ShownAs(f, group[g][f])
  <2>1. Displays(v, g, Entries(g, phones, known'))
    BY <1>2, <1>6, ResponseIs
  <2>. QED
    BY <2>1 DEF Displays
<1>9. DOMAIN view' = Groups /\ view'[g] = v /\ \A h \in Groups \ {g} : view'[h] = view[h]
  BY <1>2, <1>6
<1>10. \A h : Members(h)' = Members(h) /\ \A p : RoleOf(h, p)' = RoleOf(h, p)
  BY <1>1 DEF Members, RoleOf
<1>11. GroupsOK' /\ QueueOK' /\ RequestOK'
  <2>1. GroupsOK'
    BY <1>1, <1>2 DEF GroupsOK, GroupOK
  <2>2. QueueOK'
    BY <1>1, <1>2 DEF QueueOK
  <2>3. RequestOK'
    BY <1>1, <1>2 DEF RequestOK
  <2>. QED
    BY <2>1, <2>2, <2>3
<1>12. TrackedOK'
  <2>1. ASSUME NEW h \in Groups, NEW p \in People PROVE Tracked(h, p)'
    <3>1. Tracked(h, p)
      BY <1>2 DEF TrackedOK
    <3>. QED
      BY <1>1, <1>10, <3>1 DEF Tracked
  <2>2. ASSUME NEW h \in Groups, NEW f \in Fields, Me \in Members(h) PROVE SettingTracked(h, f)'
    <3>1. SettingTracked(h, f)
      BY <1>2, <2>2 DEF TrackedOK
    <3>. QED
      BY <1>1, <3>1 DEF SettingTracked
  <2>. QED
    BY <1>10, <2>1, <2>2 DEF TrackedOK
<1>13. ASSUME NEW p \in People PROVE Followed(g, p)'
  <2>1. PICK path \in [0..Len(pending) -> Roles] :
          /\ Path(Happens, pending, g, p, path)
          /\ path[Len(pending)] = RoleOf(g, p)
    BY <1>1, <1>2 DEF TrackedOK, Tracked
  <2>2. Len(pending) \in Nat
    BY <1>2, QueueIs
  <2>3. PICK new \in [0..Len(pending) -> Roles] :
           /\ Path(Follows, pending, g, p, new)
           /\ new[0] = RoleOf(g, p) /\ new[Len(pending)] = RoleOf(g, p)
    BY <2>1, <2>2, PathRead
  <2>4. RoleIn(view'[g], g, p) = RoleOf(g, p)
    BY <1>7, <1>9
  <2>5. pending' = pending /\ RoleOf(g, p)' = RoleOf(g, p)
    BY <1>1, <1>10
  <2>6. Followed(g, p)' <=> \E way \in [0..Len(pending') -> Roles] :
                             /\ Path(Follows, pending', g, p, way)
                             /\ way[0] = RoleIn(view'[g], g, p)
                             /\ Me \in Members(g)' => way[Len(pending')] = RoleOf(g, p)'
    BY DEF Followed
  <2>. QED
    BY <2>3, <2>4, <2>5, <2>6
<1>14. ASSUME NEW f \in Fields PROVE SettingFollowed(g, f)'
  BY <1>1, <1>8, <1>9 DEF SettingFollowed
<1>15. ViewsOK'
  <2>1. ASSUME NEW h \in Groups
        PROVE  /\ view'[h].read \in BOOLEAN
               /\ view'[h].read => ViewOK(view'[h], h) /\ (\A p \in People : Followed(h, p)')
                                   /\ \A f \in Fields : SettingFollowed(h, f)'
    <3>1. CASE h = g
      BY <1>7, <1>8, <1>9, <1>13, <1>14, <3>1
    <3>2. CASE h # g
      <4>1. view'[h].read = view[h].read /\ view[h].read \in BOOLEAN
        BY <1>9, <3>2 DEF GroupInv, ViewsOK
      <4>. QED
        BY <1>1, <4>1
    <3>. QED
      BY <3>1, <3>2
  <2>. QED
    BY <1>9, <2>1 DEF ViewsOK
<1>. QED
  BY <1>4, <1>11, <1>12, <1>15 DEF GroupInv

\* Requests and patches of chats, messages and time leave the groups alone.
LEMMA StepChats ==
    ASSUME GroupInv, RequestChat \/ PhonePatches \/ TimePasses \/ \E p \in Contacts : MessageComes(p)
    PROVE  GroupInv'
<1>1. UNCHANGED <<group, pending, view, request>>
  BY DEF RequestChat, PhonePatches, TimePasses, MessageComes, groupVars
<1>2. known' \subseteq People
  <2>1. Contacts \subseteq People
    BY RoomsAssumption
  <2>2. known \subseteq People
    BY DEF GroupInv
  <2>3. CASE RequestChat \/ PhonePatches \/ TimePasses
    BY <2>2, <2>3 DEF RequestChat, PhonePatches, TimePasses
  <2>4. ASSUME NEW p \in Contacts, MessageComes(p) PROVE known' \subseteq People
    <3>1. known' = known \/ known' = known \cup {p}
      BY <2>4 DEF MessageComes
    <3>. QED
      BY <2>1, <2>2, <3>1
  <2>. QED
    BY <2>3, <2>4
<1>3. RequestOK'
  BY <1>1 DEF GroupInv, RequestOK
<1>. QED
  BY <1>1, <1>2, <1>3, SameGroupParts DEF GroupInv

-----------------------------------------------------------------------------
(* What is told of an event, and what the client makes of it. *)

\* The data of an event of type "group" say what a notification says.
Tells(d, changes) ==
    /\ DOMAIN d = {"id", "sender"} \cup ((PlainFields \cup MemberFields) \cap DOMAIN changes)
    /\ \A f \in PlainFields \cap DOMAIN changes : d[f] = changes[f]
    /\ \A f \in MemberFields \cap DOMAIN changes : d[f] = ResolveMembers(changes[f], known)

Tuned(v, timer) == [f \in DOMAIN v |-> IF f = "ephemeral" THEN timer ELSE v[f]]

\* The lists of the event published are those of the notification.
LEMMA ChangesAre ==
    ASSUME NEW evt, NEW d,
           d = [id |-> ProjectChatID(evt.jid, known), sender |-> Author(evt.by, known)]
               @@ Changes(evt.changes, known)
    PROVE  Tells(d, evt.changes)
<1>. DEFINE c == evt.changes
            head == [id |-> ProjectChatID(evt.jid, known), sender |-> Author(evt.by, known)]
            plain == [f \in DOMAIN c \cap PlainFields |-> c[f]]
            members == [f \in DOMAIN c \cap MemberFields |-> ResolveMembers(c[f], known)]
            both == plain @@ members
<1>1. /\ PlainFields \cap MemberFields = {}
      /\ {"id", "sender"} \cap (PlainFields \cup MemberFields) = {}
  BY DEF PlainFields, MemberFields
<1>2. DOMAIN plain = DOMAIN c \cap PlainFields /\ \A f \in DOMAIN c \cap PlainFields : plain[f] = c[f]
  OBVIOUS
<1>3. /\ DOMAIN members = DOMAIN c \cap MemberFields
      /\ \A f \in DOMAIN c \cap MemberFields : members[f] = ResolveMembers(c[f], known)
  OBVIOUS
<1>4. DOMAIN head = {"id", "sender"}
  OBVIOUS
<1>5. d = head @@ both
  BY DEF Changes
<1>. HIDE DEF head, plain, members, c
<1>6. /\ DOMAIN both = DOMAIN c \cap (PlainFields \cup MemberFields)
      /\ \A f \in DOMAIN c \cap PlainFields : both[f] = c[f]
      /\ \A f \in DOMAIN c \cap MemberFields : both[f] = ResolveMembers(c[f], known)
  BY <1>1, <1>2, <1>3 DEF @@
<1>. HIDE DEF both
<1>7. /\ DOMAIN d = {"id", "sender"} \cup (DOMAIN c \cap (PlainFields \cup MemberFields))
      /\ \A f \in DOMAIN c \cap PlainFields : d[f] = c[f]
      /\ \A f \in DOMAIN c \cap MemberFields : d[f] = ResolveMembers(c[f], known)
  BY <1>1, <1>4, <1>5, <1>6 DEF @@
<1>. QED
  BY <1>7 DEF Tells, c

\* Nobody a notification says has joined is the account itself.
LEMMA OthersJoin ==
    ASSUME NEW g \in Groups, NEW changes, ChangesOK(g, changes), NEW d, Tells(d, changes), Has(d, "join")
    PROVE  ~HasJoined(d.join)
<1>1. "join" \in MemberFields /\ "join" \notin PlainFields /\ "join" \notin {"id", "sender"}
  BY DEF MemberFields, PlainFields
<1>2. "join" \in DOMAIN changes
  BY <1>1 DEF Tells, Has
<1>3. MembersOK(g, "join", changes["join"])
  BY <1>1, <1>2 DEF ChangesOK
<1>4. d.join = [i \in DOMAIN changes["join"] |-> Resolve(changes["join"][i], EmptyJID, known)]
  BY <1>1, <1>2 DEF Tells, ResolveMembers
<1>5. ASSUME NEW i \in DOMAIN changes["join"] PROVE d.join[i].phone # Me
  <2>1. PICK p \in People : changes["join"][i] = Jid(p, Mode[g]) /\ p # Me
    BY <1>3 DEF MembersOK
  <2>2. d.join[i] = Resolve(Jid(p, Mode[g]), EmptyJID, known)
    BY <1>4, <2>1
  <2>3. d.join[i].phone \in {p, NoUser}
    BY <2>2, PersonIs DEF Is
  <2>. QED
    BY <2>1, <2>3, RoomsAssumption
<1>. QED
  BY <1>4, <1>5 DEF HasJoined

\* A notification is published as one event: a timer as a chat setting, alone, and
\* everything else as a change of the group.
LEMMA InfoProjected ==
    ASSUME NEW g \in Groups, NEW evt, EventOf(g, evt), evt.is = "GroupInfo", NEW own
    PROVE  \E e : /\ Project(evt, own, known) = <<e>>
                  /\ "ephemeral" \in DOMAIN evt.changes =>
                       \A v : Fold(v, e) = IF ~v.read THEN v
                                           ELSE Tuned(v, ExpirationString(evt.changes.ephemeral))
                  /\ "ephemeral" \notin DOMAIN evt.changes =>
                       \E d : Tells(d, evt.changes) /\ \A v : Fold(v, e) = IF ~v.read THEN v ELSE Follow(v, d)
<1>1. evt.jid = GroupJID(g) /\ evt.jid # EmptyJID /\ ChangesOK(g, evt.changes)
  BY GroupJIDs DEF EventOf
<1>2. Project(evt, own, known) = ProjectGroupInfo(evt, known)
  BY DEF Project
<1>3. CASE "ephemeral" \in DOMAIN evt.changes
  <2>. DEFINE timer == [expiration |-> ExpirationString(evt.changes.ephemeral), sender |-> Author(evt.by, known)]
              data == [id |-> ProjectChatID(evt.jid, known), settingType |-> "ephemeral", ephemeral |-> timer]
              e == [eventType |-> "chat_setting", data |-> data]
  <2>1. ProjectGroupInfo(evt, known) = <<e>>
    BY <1>1, <1>3 DEF ProjectGroupInfo, Has, ProjectGroupEphemeral, Published
  <2>2. e.eventType = "chat_setting" /\ e.data.ephemeral.expiration = ExpirationString(evt.changes.ephemeral)
    OBVIOUS
  <2>. HIDE DEF e
  <2>3. \A v : Fold(v, e) = IF ~v.read THEN v ELSE Tuned(v, ExpirationString(evt.changes.ephemeral))
    BY <2>2 DEF Fold, Tuned
  <2>. QED
    BY <1>2, <1>3, <2>1, <2>3
<1>4. CASE "ephemeral" \notin DOMAIN evt.changes
  <2>1. PICK d : d = [id |-> ProjectChatID(evt.jid, known), sender |-> Author(evt.by, known)]
                     @@ Changes(evt.changes, known)
    OBVIOUS
  <2>2. Tells(d, evt.changes)
    BY <2>1, ChangesAre
  <2>. DEFINE e == [eventType |-> "group", data |-> d]
  <2>3. ProjectGroupInfo(evt, known) = <<e>>
    BY <1>1, <1>4, <2>1 DEF ProjectGroupInfo, Has, Published
  <2>4. e.eventType = "group" /\ e.data = d
    OBVIOUS
  <2>. HIDE DEF e
  <2>5. ~(Has(d, "join") /\ HasJoined(d.join))
    BY <1>1, <2>2, OthersJoin
  <2>6. \A v : Fold(v, e) = IF ~v.read THEN v ELSE Follow(v, d)
    BY <2>4, <2>5 DEF Fold
  <2>. QED
    BY <1>2, <1>4, <2>2, <2>3, <2>6
<1>. QED
  BY <1>3, <1>4

\* An invitation is published, and makes the client forget the group until it reads.
LEMMA JoinedProjected ==
    ASSUME NEW g \in Groups, NEW evt, EventOf(g, evt), evt.is = "JoinedGroup"
    PROVE  \E e : /\ Project(evt, Jid(Me, "pn"), known) = <<e>>
                  /\ \A v : Fold(v, e) = IF ~v.read THEN v ELSE Unread
<1>. DEFINE own == Jid(Me, "pn")
            who == Resolve(own, Jid(own.user, "lid"), known)
            a == [id |-> ProjectChatID(evt.jid, known)]
            b == If(ResolveSenderJID(evt.by.sender, evt.by.senderPN) # EmptyJID,
                    [sender |-> Author(evt.by, known)])
            c == Copy(evt, {"joinReason", "groupType"})
            j == If(own.user # NoUser, [join |-> <<who>>])
            k == If(evt.isParent, [isCommunity |-> TRUE])
            l == If(evt.parent # EmptyJID, [communityId |-> evt.parent])
            m == If(evt.isDefaultSubGroup, [isAnnouncementGroup |-> TRUE])
            data == a @@ b @@ c @@ j @@ k @@ l @@ m
            e == [eventType |-> "group", data |-> data]
<1>1. evt.jid = GroupJID(g) /\ evt.jid # EmptyJID
  BY GroupJIDs DEF EventOf
<1>2. Project(evt, own, known) = <<e>>
  <2>1. Project(evt, own, known) = ProjectJoinedGroup(evt, own, known)
    BY DEF Project
  <2>. HIDE DEF own
  <2>2. ProjectJoinedGroup(evt, own, known) = <<e>>
    BY <1>1 DEF ProjectJoinedGroup, Published
  <2>. QED
    BY <2>1, <2>2
<1>3. Me # NoUser /\ own.user = Me
  BY RoomsAssumption DEF Jid
<1>4. who.phone = Me
  <2>1. who.phone = Sides(own, Jid(own.user, "lid"), known).pn
    BY DEF Resolve
  <2>2. own.server = "pn" /\ own.user = Me
    BY DEF Jid
  <2>. HIDE DEF own
  <2>. DEFINE none == [pn |-> NoUser, lid |-> NoUser]
              first == Categorize(none, own)
              second == Categorize(first, Jid(own.user, "lid"))
  <2>3. first = [pn |-> Me, lid |-> NoUser]
    BY <2>2 DEF Categorize
  <2>4. Jid(own.user, "lid").server = "lid"
    BY DEF Jid
  <2>5. second.pn = Me
    BY <2>3, <2>4 DEF Categorize
  <2>6. Sides(own, Jid(own.user, "lid"), known).pn =
          IF second.pn = NoUser /\ second.lid # NoUser
          THEN GetPNForLID(Jid(second.lid, "lid"), known) ELSE second.pn
    BY DEF Sides
  <2>. QED
    BY <1>3, <2>1, <2>5, <2>6
<1>. HIDE DEF who, own
<1>5. /\ "join" \notin DOMAIN a /\ "join" \notin DOMAIN b /\ "join" \notin DOMAIN c
      /\ j = [join |-> <<who>>]
  BY <1>3 DEF If, Nothing, Copy
<1>6. "join" \in DOMAIN j /\ j["join"] = <<who>>
  BY <1>5
<1>. HIDE DEF a, b, c, j, k, l, m
<1>7. "join" \in DOMAIN (a @@ b @@ c @@ j) /\ (a @@ b @@ c @@ j)["join"] = <<who>>
  BY <1>5, <1>6 DEF @@
<1>8. "join" \in DOMAIN data /\ data["join"] = <<who>>
  BY <1>7 DEF @@
<1>. HIDE DEF data
<1>9. e.eventType = "group" /\ Has(e.data, "join") /\ HasJoined(e.data.join)
  BY <1>4, <1>8 DEF Has, HasJoined
<1>. HIDE DEF e
<1>10. \A v : Fold(v, e) = IF ~v.read THEN v ELSE Unread
  BY <1>9 DEF Fold
<1>. QED
  BY <1>2, <1>10 DEF own

-----------------------------------------------------------------------------
(* A client that follows a notification. *)

Parties(d, f)  == IF Has(d, f) THEN d[f] ELSE <<>>
Said(c, f, p, g) == Names(c, f, Jid(p, Mode[g]))
RoleAfter(m, d) ==
    CASE Among(m, Parties(d, "promote")) -> TRUE
      [] Among(m, Parties(d, "demote"))  -> FALSE
      [] OTHER -> m.admin
Stay(v, d)  == {m \in v.members : ~Among(m, Parties(d, "leave"))}
Came(d)     == {[who |-> Parties(d, "join")[i], admin |-> FALSE] : i \in DOMAIN Parties(d, "join")}
Fresh(v, d) == {m \in Came(d) : ~\E n \in Stay(v, d) : SamePerson(n.who, m.who)}
WithRole(m, d) == [m EXCEPT !.admin = RoleAfter(m, d)]

\* What following does to a view, field by field.
LEMMA FollowIs ==
    ASSUME NEW v, NEW d
    PROVE  Follow(v, d) = [f \in DOMAIN v |->
             IF f = "members" THEN {WithRole(m, d) : m \in Stay(v, d) \cup Fresh(v, d)}
             ELSE IF Has(d, f) THEN d[f] ELSE v[f]]
BY DEF Follow, Parties, RoleAfter, Stay, Came, Fresh, WithRole

\* A list that a notification tells names a person as the notification does.
LEMMA PartiesAre ==
    ASSUME NEW g \in Groups, NEW c, ChangesOK(g, c), NEW d, Tells(d, c), NEW f \in MemberFields
    PROVE  /\ \A i \in DOMAIN Parties(d, f) : \E p \in People : Is(Parties(d, f)[i], p, g)
           /\ \A p \in People : Said(c, f, p, g) <=> \E i \in DOMAIN Parties(d, f) : Is(Parties(d, f)[i], p, g)
           /\ \A i, k \in DOMAIN Parties(d, f) : \A p \in People :
                Is(Parties(d, f)[i], p, g) /\ Is(Parties(d, f)[k], p, g) => Parties(d, f)[i] = Parties(d, f)[k]
<1>. DEFINE ids == Parties(d, f)
<1>0. f \notin PlainFields /\ f \notin {"id", "sender"}
  BY DEF MemberFields, PlainFields
<1>1. CASE f \notin DOMAIN c
  <2>1. ids = <<>>
    BY <1>0, <1>1 DEF Parties, Tells, Has
  <2>2. DOMAIN ids = {}
    BY <2>1
  <2>. HIDE DEF ids
  <2>3. \A p : ~Said(c, f, p, g)
    BY <1>1 DEF Said, Names
  <2>. QED
    BY <2>2, <2>3 DEF ids
<1>2. CASE f \in DOMAIN c
  <2>. DEFINE jids == c[f]
  <2>1. ids = [i \in DOMAIN jids |-> Resolve(jids[i], EmptyJID, known)]
    BY <1>0, <1>2 DEF Parties, Tells, Has, ResolveMembers
  <2>2. \A i \in DOMAIN jids : \E p \in People : jids[i] = Jid(p, Mode[g])
    BY <1>2 DEF ChangesOK, MembersOK
  <2>3. \A p \in People : Said(c, f, p, g) <=> \E i \in DOMAIN jids : jids[i] = Jid(p, Mode[g])
    BY <1>2 DEF Said, Names
  <2>. HIDE DEF ids, jids
  <2>4. ASSUME NEW i \in DOMAIN jids, NEW p \in People
        PROVE  Is(ids[i], p, g) <=> jids[i] = Jid(p, Mode[g])
    <3>1. PICK q \in People : jids[i] = Jid(q, Mode[g])
      BY <2>2
    <3>2. ids[i] = Resolve(Jid(q, Mode[g]), EmptyJID, known)
      BY <2>1, <3>1
    <3>3. Is(ids[i], q, g)
      BY <3>2, PersonIs
    <3>4. Is(ids[i], p, g) <=> p = q
      BY <3>3, OnePerson
    <3>5. Jid(q, Mode[g]) = Jid(p, Mode[g]) <=> p = q
      BY DEF Jid
    <3>. QED
      BY <3>1, <3>4, <3>5
  <2>5. DOMAIN ids = DOMAIN jids
    BY <2>1
  <2>6. \A i \in DOMAIN ids : \E p \in People : Is(ids[i], p, g)
    BY <2>2, <2>4, <2>5
  <2>7. \A p \in People : Said(c, f, p, g) <=> \E i \in DOMAIN ids : Is(ids[i], p, g)
    BY <2>3, <2>4, <2>5
  <2>8. \A i, k \in DOMAIN ids : \A p \in People : Is(ids[i], p, g) /\ Is(ids[k], p, g) => ids[i] = ids[k]
    BY <2>1, <2>4, <2>5
  <2>. QED
    BY <2>6, <2>7, <2>8 DEF ids
<1>. QED
  BY <1>1, <1>2

\* An entry is among those of a published list iff the notification names its person.
LEMMA AmongIs ==
    ASSUME NEW g \in Groups, NEW c, ChangesOK(g, c), NEW d, Tells(d, c), NEW f \in MemberFields,
           NEW m, NEW p \in People, Is(m.who, p, g)
    PROVE  Among(m, Parties(d, f)) <=> Said(c, f, p, g)
<1>. DEFINE ids == Parties(d, f)
<1>1. /\ \A i \in DOMAIN ids : \E q \in People : Is(ids[i], q, g)
      /\ Said(c, f, p, g) <=> \E i \in DOMAIN ids : Is(ids[i], p, g)
  BY PartiesAre
<1>. HIDE DEF ids
<1>2. ASSUME NEW i \in DOMAIN ids PROVE SamePerson(m.who, ids[i]) <=> Is(ids[i], p, g)
  <2>1. PICK q \in People : Is(ids[i], q, g)
    BY <1>1
  <2>2. SamePerson(m.who, ids[i]) <=> p = q
    BY <2>1, OnePerson
  <2>3. Is(ids[i], p, g) <=> p = q
    BY <2>1, OnePerson
  <2>. QED
    BY <2>2, <2>3
<1>3. Among(m, ids) <=> \E i \in DOMAIN ids : SamePerson(m.who, ids[i])
  BY DEF Among
<1>. QED
  BY <1>1, <1>2, <1>3 DEF ids

\* Entries of a view, one for a person.
Entry(m, g) ==
    /\ \E p \in People : Is(m.who, p, g)
    /\ m = [who |-> m.who, admin |-> m.admin] /\ m.admin \in BOOLEAN
Single(S, g) == \A m, n \in S : \A p \in People : Is(m.who, p, g) /\ Is(n.who, p, g) => m = n
Present(S, p, g, admin) == \E m \in S : Is(m.who, p, g) /\ m.admin = admin

\* Who stays in a view and who is new: an entry a person, none for who has left.
LEMMA StayFresh ==
    ASSUME NEW g \in Groups, NEW c, ChangesOK(g, c), NEW d, Tells(d, c),
           NEW v, \A m \in v.members : Entry(m, g), Single(v.members, g)
    PROVE  LET T == Stay(v, d) \cup Fresh(v, d)
           IN  /\ \A m \in T : Entry(m, g)
               /\ Single(T, g)
               /\ \A p \in People :
                    /\ Present(T, p, g, TRUE) <=> Present(v.members, p, g, TRUE) /\ ~Said(c, "leave", p, g)
                    /\ Present(T, p, g, FALSE) <=>
                         \/ Present(v.members, p, g, FALSE) /\ ~Said(c, "leave", p, g)
                         \/ /\ Said(c, "join", p, g)
                            /\ \A admin \in BOOLEAN : Present(v.members, p, g, admin) => Said(c, "leave", p, g)
<1>. DEFINE S == Stay(v, d)
            F == Fresh(v, d)
            C == Came(d)
            ids == Parties(d, "join")
<1>1. "leave" \in MemberFields /\ "join" \in MemberFields
  BY DEF MemberFields
<1>2. S \subseteq v.members /\ \A m \in v.members : m \in S <=> ~Among(m, Parties(d, "leave"))
  BY DEF Stay
<1>3. \A m \in v.members : \A p \in People : Is(m.who, p, g) => (m \in S <=> ~Said(c, "leave", p, g))
  BY <1>1, <1>2, AmongIs
<1>4. /\ \A i \in DOMAIN ids : \E p \in People : Is(ids[i], p, g)
      /\ \A p \in People : Said(c, "join", p, g) <=> \E i \in DOMAIN ids : Is(ids[i], p, g)
      /\ \A i, k \in DOMAIN ids : \A p \in People : Is(ids[i], p, g) /\ Is(ids[k], p, g) => ids[i] = ids[k]
  BY <1>1, PartiesAre
<1>5. C = {[who |-> ids[i], admin |-> FALSE] : i \in DOMAIN ids}
  BY DEF Came
<1>. HIDE DEF ids, S, C
<1>6. /\ \A m \in C : m = [who |-> m.who, admin |-> m.admin] /\ m.admin = FALSE
                      /\ \E i \in DOMAIN ids : m.who = ids[i]
      /\ \A i \in DOMAIN ids : \E m \in C : m.who = ids[i]
  <2>1. ASSUME NEW m \in C
        PROVE  m = [who |-> m.who, admin |-> m.admin] /\ m.admin = FALSE
               /\ \E i \in DOMAIN ids : m.who = ids[i]
    <3>1. PICK i \in DOMAIN ids : m = [who |-> ids[i], admin |-> FALSE]
      BY <1>5
    <3>2. m.who = ids[i] /\ m.admin = FALSE
      BY <3>1
    <3>. QED
      BY <3>1, <3>2
  <2>2. ASSUME NEW i \in DOMAIN ids PROVE \E m \in C : m.who = ids[i]
    <3>1. [who |-> ids[i], admin |-> FALSE] \in C
      BY <1>5
    <3>. QED
      BY <3>1
  <2>. QED
    BY <2>1, <2>2
<1>7. ASSUME NEW m \in C PROVE Entry(m, g)
  <2>1. m = [who |-> m.who, admin |-> m.admin] /\ m.admin \in BOOLEAN
    BY <1>6
  <2>2. PICK i \in DOMAIN ids : m.who = ids[i]
    BY <1>6
  <2>3. \E p \in People : Is(m.who, p, g)
    BY <1>4, <2>2
  <2>. QED
    BY <2>1, <2>3 DEF Entry
<1>8. \A p \in People : Said(c, "join", p, g) <=> \E m \in C : Is(m.who, p, g)
  BY <1>4, <1>6
<1>9. Single(C, g)
  <2>. SUFFICES ASSUME NEW m \in C, NEW n \in C, NEW p \in People, Is(m.who, p, g), Is(n.who, p, g)
                PROVE  m = n
    BY DEF Single
  <2>1. m.who = n.who
    BY <1>4, <1>6
  <2>. QED
    BY <1>6, <2>1
<1>10. F \subseteq C /\ \A m \in C : m \in F <=> ~\E n \in S : SamePerson(n.who, m.who)
  BY DEF Fresh, S, C
<1>. HIDE DEF F
<1>11. \A m \in C : \A p \in People : Is(m.who, p, g) => (m \in F <=> ~\E n \in S : Is(n.who, p, g))
  <2>. SUFFICES ASSUME NEW m \in C, NEW p \in People, Is(m.who, p, g)
                PROVE  m \in F <=> ~\E n \in S : Is(n.who, p, g)
    OBVIOUS
  <2>1. ASSUME NEW n \in S PROVE SamePerson(n.who, m.who) <=> Is(n.who, p, g)
    <3>1. PICK q \in People : Is(n.who, q, g)
      BY <1>2 DEF Entry
    <3>2. SamePerson(n.who, m.who) <=> q = p
      BY <3>1, OnePerson
    <3>3. Is(n.who, p, g) <=> q = p
      BY <3>1, OnePerson
    <3>. QED
      BY <3>2, <3>3
  <2>. QED
    BY <1>10, <2>1
<1>. DEFINE T == S \cup F
<1>12. \A m \in T : Entry(m, g)
  BY <1>2, <1>7, <1>10
<1>13. Single(T, g)
  <2>. SUFFICES ASSUME NEW m \in T, NEW n \in T, NEW p \in People, Is(m.who, p, g), Is(n.who, p, g)
                PROVE  m = n
    BY DEF Single
  <2>1. CASE m \in S /\ n \in S
    BY <1>2, <2>1 DEF Single
  <2>2. CASE m \in F /\ n \in F
    BY <1>9, <1>10, <2>2 DEF Single
  <2>3. ~(m \in S /\ n \in F) /\ ~(m \in F /\ n \in S)
    BY <1>10, <1>11
  <2>. QED
    BY <2>1, <2>2, <2>3
<1>14. ASSUME NEW p \in People
       PROVE  /\ Present(T, p, g, TRUE) <=> Present(v.members, p, g, TRUE) /\ ~Said(c, "leave", p, g)
              /\ Present(T, p, g, FALSE) <=>
                   \/ Present(v.members, p, g, FALSE) /\ ~Said(c, "leave", p, g)
                   \/ /\ Said(c, "join", p, g)
                      /\ \A admin \in BOOLEAN : Present(v.members, p, g, admin) => Said(c, "leave", p, g)
  <2>1. \A admin : Present(S, p, g, admin) <=> Present(v.members, p, g, admin) /\ ~Said(c, "leave", p, g)
    BY <1>2, <1>3 DEF Present
  <2>2. ~Present(F, p, g, TRUE)
    BY <1>6, <1>10 DEF Present
  <2>3. (\E n \in S : Is(n.who, p, g)) <=> \E admin \in BOOLEAN : Present(S, p, g, admin)
    BY <1>12 DEF Present, Entry
  <2>4. Present(F, p, g, FALSE) <=> Said(c, "join", p, g) /\ ~\E n \in S : Is(n.who, p, g)
    BY <1>6, <1>8, <1>10, <1>11 DEF Present
  <2>5. \A admin : Present(T, p, g, admin) <=> Present(S, p, g, admin) \/ Present(F, p, g, admin)
    BY DEF Present
  <2>. HIDE DEF T
  <2>. QED
    BY <2>1, <2>2, <2>3, <2>4, <2>5
<1>. QED
  BY <1>12, <1>13, <1>14 DEF S, F

\* The role of a person in a view, from its entries.
LEMMA RoleInIs ==
    ASSUME NEW v, NEW g, NEW p \in People, \A m \in v.members : m.admin \in BOOLEAN
    PROVE  RoleIn(v, g, p) = CASE Present(v.members, p, g, TRUE)  -> "admin"
                               [] Present(v.members, p, g, FALSE) -> "member"
                               [] OTHER -> "none"
<1>1. /\ (\E m \in v.members : Is(m.who, p, g) /\ m.admin) <=> Present(v.members, p, g, TRUE)
      /\ (\E m \in v.members : Is(m.who, p, g) /\ ~m.admin) <=> Present(v.members, p, g, FALSE)
  BY DEF Present
<1>2. CASE Present(v.members, p, g, TRUE)
  BY <1>1, <1>2 DEF RoleIn
<1>3. CASE ~Present(v.members, p, g, TRUE) /\ Present(v.members, p, g, FALSE)
  BY <1>1, <1>3 DEF RoleIn
<1>4. CASE ~Present(v.members, p, g, TRUE) /\ ~Present(v.members, p, g, FALSE)
  BY <1>1, <1>4 DEF RoleIn
<1>. QED
  BY <1>2, <1>3, <1>4

\* What a view v has become after an event about the group g.
Heard(w, v, g, evt) ==
    /\ evt.is = "GroupInfo" /\ w.read = TRUE /\ ViewOK(w, g) /\ DOMAIN w = DOMAIN v
    /\ \A p \in People : <<Mention(evt, g, p), RoleIn(v, g, p), RoleIn(w, g, p)>> \in Follows
    /\ \A f \in Fields \cap DOMAIN v :
         w[f] = IF f \in DOMAIN evt.changes THEN ShownAs(f, evt.changes[f]) ELSE v[f]

\* The role of a person in a view, from whether there is an entry.
RoleBy(admin, member) == CASE admin -> "admin" [] ~admin /\ member -> "member" [] OTHER -> "none"

\* The entries before and after an event are the roles of Follows, case by case.
LEMMA FollowsHeard ==
    ASSUME NEW leave \in BOOLEAN, NEW join \in BOOLEAN, NEW promote \in BOOLEAN, NEW demote \in BOOLEAN,
           leave => ~join /\ ~promote /\ ~demote, join => ~promote /\ ~demote, promote => ~demote,
           NEW mention, mention = CASE leave -> "leave" [] join -> "join" [] promote -> "promote"
                                    [] demote -> "demote" [] OTHER -> "nothing",
           NEW va \in BOOLEAN, NEW vm \in BOOLEAN, va => ~vm,
           NEW ta \in BOOLEAN, NEW tm \in BOOLEAN,
           ta <=> va /\ ~leave,
           tm <=> (vm /\ ~leave) \/ (join /\ ((va \/ vm) => leave)),
           NEW wa \in BOOLEAN, NEW wm \in BOOLEAN,
           wa <=> IF promote THEN ta \/ tm ELSE IF demote THEN FALSE ELSE ta,
           wm <=> IF promote THEN FALSE ELSE IF demote THEN ta \/ tm ELSE tm
    PROVE  <<mention, RoleBy(va, vm), RoleBy(wa, wm)>> \in Follows
<1>. DEFINE x == RoleBy(va, vm)
            y == RoleBy(wa, wm)
<1>1. /\ x = CASE va -> "admin" [] ~va /\ vm -> "member" [] OTHER -> "none"
      /\ y = CASE wa -> "admin" [] ~wa /\ wm -> "member" [] OTHER -> "none"
  BY DEF RoleBy
<1>2. x \in Roles /\ y \in Roles /\ mention \in Mentions
  BY <1>1 DEF Roles, Mentions
<1>. HIDE DEF x, y
<1>3. CASE leave
  <2>1. mention = "leave" /\ y = "none"
    BY <1>1, <1>3
  <2>2. <<"leave", x, "none">> \in Follows
    BY <1>2 DEF Follows, Mentions, Roles
  <2>. QED
    BY <2>1, <2>2 DEF x, y
<1>4. CASE join
  <2>1. mention = "join" /\ y = IF x = "none" THEN "member" ELSE x
    BY <1>1, <1>4
  <2>2. \A r \in Roles : <<"join", x, r>> \in Follows <=> r = IF x = "none" THEN "member" ELSE x
    BY <1>2 DEF Follows, Mentions, Roles
  <2>. QED
    BY <1>2, <2>1, <2>2 DEF x, y
<1>5. CASE promote
  <2>1. mention = "promote" /\ y = IF x = "none" THEN "none" ELSE "admin"
    BY <1>1, <1>5
  <2>2. \A r \in Roles : <<"promote", x, r>> \in Follows <=> r = IF x = "none" THEN "none" ELSE "admin"
    BY <1>2 DEF Follows, Mentions, Roles
  <2>. QED
    BY <1>2, <2>1, <2>2 DEF x, y
<1>6. CASE demote
  <2>1. mention = "demote" /\ y = IF x = "none" THEN "none" ELSE "member"
    BY <1>1, <1>6
  <2>2. \A r \in Roles : <<"demote", x, r>> \in Follows <=> r = IF x = "none" THEN "none" ELSE "member"
    BY <1>2 DEF Follows, Mentions, Roles
  <2>. QED
    BY <1>2, <2>1, <2>2 DEF x, y
<1>7. CASE ~leave /\ ~join /\ ~promote /\ ~demote
  <2>1. mention = "nothing" /\ y = x
    BY <1>1, <1>7
  <2>2. <<"nothing", x, x>> \in Follows
    BY <1>2, RelationsAre
  <2>. QED
    BY <2>1, <2>2 DEF x, y
<1>. QED
  BY <1>3, <1>4, <1>5, <1>6, <1>7

\* A client that follows a change of the group has heard what it said.
LEMMA FollowKeeps ==
    ASSUME NEW g \in Groups, NEW evt, EventOf(g, evt), evt.is = "GroupInfo",
           "ephemeral" \notin DOMAIN evt.changes,
           NEW d, Tells(d, evt.changes), NEW v, ViewOK(v, g), v.read = TRUE
    PROVE  Heard(Follow(v, d), v, g, evt)
<1>. DEFINE c == evt.changes
            w == Follow(v, d)
            T == Stay(v, d) \cup Fresh(v, d)
<1>1. ChangesOK(g, c) /\ evt.jid = GroupJID(g)
  BY DEF EventOf
<1>2. /\ v = [f \in DOMAIN v |-> v[f]]
      /\ {"read", "members"} \subseteq DOMAIN v /\ DOMAIN v \subseteq Fields \cup {"read", "members"}
      /\ \A m \in v.members : Entry(m, g)
      /\ Single(v.members, g)
  BY DEF ViewOK, Entry, Single
<1>3. w = [f \in DOMAIN v |-> IF f = "members" THEN {WithRole(m, d) : m \in T}
                              ELSE IF Has(d, f) THEN d[f] ELSE v[f]]
  BY FollowIs
<1>. HIDE DEF w, T
<1>4. /\ DOMAIN w = DOMAIN v /\ w = [f \in DOMAIN w |-> w[f]]
      /\ w.members = {WithRole(m, d) : m \in T}
      /\ \A f \in DOMAIN v : f # "members" => w[f] = IF Has(d, f) THEN d[f] ELSE v[f]
  BY <1>2, <1>3
<1>5. /\ \A m \in T : Entry(m, g)
      /\ Single(T, g)
      /\ \A p \in People :
           /\ Present(T, p, g, TRUE) <=> Present(v.members, p, g, TRUE) /\ ~Said(c, "leave", p, g)
           /\ Present(T, p, g, FALSE) <=>
                \/ Present(v.members, p, g, FALSE) /\ ~Said(c, "leave", p, g)
                \/ /\ Said(c, "join", p, g)
                   /\ \A admin \in BOOLEAN : Present(v.members, p, g, admin) => Said(c, "leave", p, g)
  BY <1>1, <1>2, StayFresh DEF T
<1>6. /\ {"read", "members"} \cap DOMAIN d = {}
      /\ \A f \in Fields : f # "members" /\ (Has(d, f) <=> f \in DOMAIN c) /\ (Has(d, f) => d[f] = c[f])
      /\ \A f \in Fields \cap DOMAIN c : ShownAs(f, c[f]) = c[f]
  <2>1. Fields \ {"ephemeral"} \subseteq PlainFields /\ Fields \cap {"id", "sender", "members"} = {}
    BY DEF Fields, GroupFieldsShown, CommunityFields, PlainFields
  <2>2. {"read", "members"} \cap (PlainFields \cup MemberFields \cup {"id", "sender"}) = {}
        /\ "ephemeral" \notin PlainFields \cup MemberFields \cup {"id", "sender"}
    BY DEF PlainFields, MemberFields
  <2>3. Fields \cap MemberFields = {}
    BY FieldsAre
  <2>. HIDE DEF c
  <2>4. "ephemeral" \notin DOMAIN c /\ Tells(d, c)
    BY DEF c
  <2>. QED
    BY <2>1, <2>2, <2>3, <2>4 DEF Tells, Has, ShownAs
<1>7. w.read = TRUE /\ \A f \in Fields \cap DOMAIN v :
                         w[f] = IF f \in DOMAIN c THEN ShownAs(f, c[f]) ELSE v[f]
  BY <1>2, <1>4, <1>6 DEF Has
<1>8. \A m \in T : /\ WithRole(m, d).who = m.who /\ WithRole(m, d).admin = RoleAfter(m, d)
                   /\ WithRole(m, d) = [who |-> m.who, admin |-> RoleAfter(m, d)]
  BY <1>5 DEF Entry, WithRole
<1>9. \A m \in T : \A p \in People : Is(m.who, p, g) =>
        RoleAfter(m, d) = CASE Said(c, "promote", p, g) -> TRUE
                            [] ~Said(c, "promote", p, g) /\ Said(c, "demote", p, g) -> FALSE
                            [] OTHER -> m.admin
  <2>1. "promote" \in MemberFields /\ "demote" \in MemberFields
    BY DEF MemberFields
  <2>. TAKE m \in T
  <2>. TAKE p \in People
  <2>. HAVE Is(m.who, p, g)
  <2>2. /\ Among(m, Parties(d, "promote")) <=> Said(c, "promote", p, g)
        /\ Among(m, Parties(d, "demote")) <=> Said(c, "demote", p, g)
    BY <1>1, <2>1, AmongIs
  <2>3. ~(Said(c, "promote", p, g) /\ Said(c, "demote", p, g))
    BY <1>1, <2>1 DEF ChangesOK, Said, Names
  <2>4. CASE Said(c, "promote", p, g)
    <3>1. RoleAfter(m, d) = TRUE
      BY <2>2, <2>3, <2>4 DEF RoleAfter
    <3>. QED
      BY <2>4, <3>1
  <2>5. CASE ~Said(c, "promote", p, g) /\ Said(c, "demote", p, g)
    <3>1. RoleAfter(m, d) = FALSE
      BY <2>2, <2>5 DEF RoleAfter
    <3>. QED
      BY <2>5, <3>1
  <2>6. CASE ~Said(c, "promote", p, g) /\ ~Said(c, "demote", p, g)
    <3>1. RoleAfter(m, d) = m.admin
      BY <2>2, <2>6 DEF RoleAfter
    <3>. QED
      BY <2>6, <3>1
  <2>. QED
    BY <2>4, <2>5, <2>6
<1>10. \A m \in T : RoleAfter(m, d) \in BOOLEAN
  BY <1>5, <1>9 DEF Entry
<1>11. ASSUME NEW n \in w.members PROVE \E m \in T : n = WithRole(m, d)
  BY <1>4
<1>12. \A n \in w.members : Entry(n, g)
  <2>. TAKE n \in w.members
  <2>1. PICK m \in T : n = WithRole(m, d)
    BY <1>11
  <2>2. n.who = m.who /\ n.admin \in BOOLEAN /\ n = [who |-> n.who, admin |-> n.admin]
    BY <1>8, <1>10, <2>1
  <2>3. \E p \in People : Is(m.who, p, g)
    BY <1>5 DEF Entry
  <2>. QED
    BY <2>2, <2>3 DEF Entry
<1>13. Single(w.members, g)
  <2>. SUFFICES ASSUME NEW n1 \in w.members, NEW n2 \in w.members, NEW p \in People,
                       Is(n1.who, p, g), Is(n2.who, p, g)
                PROVE  n1 = n2
    BY DEF Single
  <2>1. PICK m1 \in T, m2 \in T : n1 = WithRole(m1, d) /\ n2 = WithRole(m2, d)
    BY <1>11
  <2>2. m1 = m2
    BY <1>5, <1>8, <2>1 DEF Single
  <2>. QED
    BY <2>1, <2>2
<1>14. ViewOK(w, g)
  BY <1>2, <1>4, <1>12, <1>13 DEF ViewOK, Entry, Single
<1>15. ASSUME NEW p \in People
       PROVE  <<Mention(evt, g, p), RoleIn(v, g, p), RoleIn(w, g, p)>> \in Follows
  <2>. DEFINE says(f) == Said(c, f, p, g)
              V(admin) == Present(v.members, p, g, admin)
              P(admin) == Present(T, p, g, admin)
              W(admin) == Present(w.members, p, g, admin)
  <2>1. \A f, h \in MemberFields : says(f) /\ says(h) => f = h
    BY <1>1 DEF ChangesOK, Said, Names
  <2>2. /\ says("leave") => ~says("join") /\ ~says("promote") /\ ~says("demote")
        /\ says("join") => ~says("promote") /\ ~says("demote")
        /\ says("promote") => ~says("demote")
    BY <2>1 DEF MemberFields
  <2>3. Mention(evt, g, p) = CASE says("leave") -> "leave" [] says("join") -> "join"
                               [] says("promote") -> "promote" [] says("demote") -> "demote"
                               [] OTHER -> "nothing"
    BY <1>1, MentionIn DEF Said
  <2>4. V(TRUE) => ~V(FALSE)
    BY <1>2 DEF Present, Single
  <2>5. /\ P(TRUE) <=> V(TRUE) /\ ~says("leave")
        /\ P(FALSE) <=> \/ V(FALSE) /\ ~says("leave")
                        \/ says("join") /\ ((V(TRUE) \/ V(FALSE)) => says("leave"))
    BY <1>5
  <2>6. \A b \in BOOLEAN : W(b) <=> \E m \in T : Is(m.who, p, g) /\ RoleAfter(m, d) = b
    BY <1>4, <1>8 DEF Present
  <2>7. \A b \in BOOLEAN : P(b) <=> \E m \in T : Is(m.who, p, g) /\ m.admin = b
    BY DEF Present
  <2>8. \A m \in T : m.admin \in BOOLEAN
    BY <1>5 DEF Entry
  <2>9. /\ W(TRUE) <=> IF says("promote") THEN P(TRUE) \/ P(FALSE)
                       ELSE IF says("demote") THEN FALSE ELSE P(TRUE)
        /\ W(FALSE) <=> IF says("promote") THEN FALSE
                        ELSE IF says("demote") THEN P(TRUE) \/ P(FALSE) ELSE P(FALSE)
    <3>. HIDE DEF W, P, says
    <3>1. CASE says("promote")
      <4>1. \A m \in T : Is(m.who, p, g) => RoleAfter(m, d) = TRUE
        BY <1>9, <3>1 DEF says
      <4>. QED
        BY <2>6, <2>7, <2>8, <3>1, <4>1
    <3>2. CASE ~says("promote") /\ says("demote")
      <4>1. \A m \in T : Is(m.who, p, g) => RoleAfter(m, d) = FALSE
        BY <1>9, <3>2 DEF says
      <4>. QED
        BY <2>6, <2>7, <2>8, <3>2, <4>1
    <3>3. CASE ~says("promote") /\ ~says("demote")
      <4>1. \A m \in T : Is(m.who, p, g) => RoleAfter(m, d) = m.admin
        BY <1>9, <3>3 DEF says
      <4>. QED
        BY <2>6, <2>7, <2>8, <3>3, <4>1
    <3>. QED
      BY <3>1, <3>2, <3>3
  <2>10. /\ RoleIn(v, g, p) = RoleBy(V(TRUE), V(FALSE))
         /\ RoleIn(w, g, p) = RoleBy(W(TRUE), W(FALSE))
    <3>1. /\ \A m \in v.members : m.admin \in BOOLEAN
          /\ \A m \in w.members : m.admin \in BOOLEAN
      BY <1>2, <1>12 DEF Entry
    <3>2. V(TRUE) \in BOOLEAN /\ V(FALSE) \in BOOLEAN /\ W(TRUE) \in BOOLEAN /\ W(FALSE) \in BOOLEAN
      BY DEF Present
    <3>3. RoleIn(v, g, p) = CASE V(TRUE) -> "admin" [] V(FALSE) -> "member" [] OTHER -> "none"
      BY <3>1, RoleInIs
    <3>4. RoleIn(w, g, p) = CASE W(TRUE) -> "admin" [] W(FALSE) -> "member" [] OTHER -> "none"
      BY <3>1, RoleInIs
    <3>5. ~(V(TRUE) /\ V(FALSE)) /\ ~(W(TRUE) /\ W(FALSE))
      BY <2>4, <2>5, <2>9
    <3>. HIDE DEF V, W
    <3>. QED
      BY <3>2, <3>3, <3>4, <3>5 DEF RoleBy
  <2>11. /\ \A f : says(f) \in BOOLEAN
         /\ \A b : V(b) \in BOOLEAN /\ P(b) \in BOOLEAN /\ W(b) \in BOOLEAN
    BY DEF Said, Names, Present
  <2>. HIDE DEF says, V, P, W
  <2>12. <<Mention(evt, g, p), RoleBy(V(TRUE), V(FALSE)), RoleBy(W(TRUE), W(FALSE))>> \in Follows
    BY <2>2, <2>3, <2>4, <2>5, <2>9, <2>11, FollowsHeard, ZenonT(60)
  <2>. QED
    BY <2>10, <2>12
<1>. QED
  BY <1>4, <1>7, <1>14, <1>15 DEF Heard, w

\* A client that is told of a timer alone has heard of it, and its roles stay.
LEMMA TunedKeeps ==
    ASSUME NEW g \in Groups, NEW evt, EventOf(g, evt), evt.is = "GroupInfo",
           "ephemeral" \in DOMAIN evt.changes, NEW v, ViewOK(v, g), v.read = TRUE
    PROVE  Heard(Tuned(v, ExpirationString(evt.changes.ephemeral)), v, g, evt)
<1>. DEFINE timer == ExpirationString(evt.changes.ephemeral)
            w == Tuned(v, timer)
<1>1. evt.jid = GroupJID(g) /\ DOMAIN evt.changes = {"ephemeral"}
  BY DEF EventOf, ChangesOK
<1>2. /\ v = [f \in DOMAIN v |-> v[f]]
      /\ {"read", "members"} \subseteq DOMAIN v /\ DOMAIN v \subseteq Fields \cup {"read", "members"}
  BY DEF ViewOK
<1>3. timer = ShownAs("ephemeral", evt.changes["ephemeral"])
  BY DEF ShownAs
<1>. HIDE DEF timer
<1>4. /\ DOMAIN w = DOMAIN v /\ w = [f \in DOMAIN w |-> w[f]]
      /\ \A f \in DOMAIN v : w[f] = IF f = "ephemeral" THEN timer ELSE v[f]
  BY DEF Tuned
<1>. HIDE DEF w
<1>5. w.read = TRUE /\ w.members = v.members
  BY <1>2, <1>4
<1>6. ViewOK(w, g)
  BY <1>2, <1>4, <1>5 DEF ViewOK
<1>7. \A f \in Fields \cap DOMAIN v :
        w[f] = IF f \in DOMAIN evt.changes THEN ShownAs(f, evt.changes[f]) ELSE v[f]
  BY <1>1, <1>3, <1>4
<1>8. ASSUME NEW p \in People
      PROVE  <<Mention(evt, g, p), RoleIn(v, g, p), RoleIn(w, g, p)>> \in Follows
  <2>1. DOMAIN evt.changes \cap MemberFields = {}
    BY <1>1 DEF MemberFields
  <2>2. Mention(evt, g, p) = "nothing"
    BY <1>1, <2>1, NoNames
  <2>3. RoleIn(w, g, p) = RoleIn(v, g, p)
    BY <1>5 DEF RoleIn
  <2>4. PICK x : x = RoleIn(v, g, p)
    OBVIOUS
  <2>5. x \in Roles
    BY <2>4 DEF RoleIn, Roles
  <2>6. <<"nothing", x, x>> \in Follows
    BY <2>5, RelationsAre
  <2>. QED
    BY <2>2, <2>3, <2>4, <2>6
<1>. QED
  BY <1>4, <1>5, <1>6, <1>7, <1>8 DEF Heard, w, timer

\* An event that is no invitation leads from a role to one role only.
LEMMA FollowsIsOne ==
    ASSUME NEW k, k # "again", NEW x, NEW y, NEW z, <<k, x, y>> \in Follows, <<k, x, z>> \in Follows
    PROVE  y = z
<1>1. /\ \A t \in Follows : t[1] \in Mentions
      /\ \A t \in Follows : t[1] = "nothing" => t[3] = t[2]
      /\ \A t \in Follows : t[1] = "leave"   => t[3] = "none"
      /\ \A t \in Follows : t[1] = "join"    => t[3] = IF t[2] = "none" THEN "member" ELSE t[2]
      /\ \A t \in Follows : t[1] = "promote" => t[3] = IF t[2] = "none" THEN "none" ELSE "admin"
      /\ \A t \in Follows : t[1] = "demote"  => t[3] = IF t[2] = "none" THEN "none" ELSE "member"
  BY DEF Follows
<1>2. PICK s, t : s = <<k, x, y>> /\ t = <<k, x, z>>
  OBVIOUS
<1>3. /\ s \in Follows /\ t \in Follows
      /\ s[1] = k /\ s[2] = x /\ s[3] = y /\ t[1] = k /\ t[2] = x /\ t[3] = z
  BY <1>2
<1>. QED
  BY <1>1, <1>3 DEF Mentions

\* An event is told, and a client that has read the group and still knows it
\* has followed.
LEMMA Delivered ==
    ASSUME ViewsOK, NEW g \in Groups, NEW evt, EventOf(g, evt),
           \E events \in {Project(evt, Jid(Me, "pn"), known)} :
             IF events = <<>> THEN UNCHANGED view
             ELSE \E e \in {events[1]} : view' = [view EXCEPT ![evt.jid.user] = Fold(@, e)]
    PROVE  /\ DOMAIN view' = Groups /\ \A h \in Groups \ {g} : view'[h] = view[h]
           /\ view'[g].read \in BOOLEAN
           /\ view'[g].read => view[g].read /\ Heard(view'[g], view[g], g, evt)
<1>1. evt.jid.user = g /\ evt.is \in {"JoinedGroup", "GroupInfo"}
  BY GroupJIDs DEF EventOf
<1>2. /\ DOMAIN view = Groups /\ view[g].read \in BOOLEAN
      /\ view[g].read => ViewOK(view[g], g)
  BY DEF ViewsOK
<1>3. Unread.read = FALSE
  BY DEF Unread
<1>4. ASSUME NEW e, Project(evt, Jid(Me, "pn"), known) = <<e>>
      PROVE  /\ DOMAIN view' = Groups /\ \A h \in Groups \ {g} : view'[h] = view[h]
             /\ view'[g] = Fold(view[g], e)
  <2>1. view' = [view EXCEPT ![g] = Fold(@, e)]
    <3>1. <<e>> # <<>> /\ <<e>>[1] = e
      OBVIOUS
    <3>2. \E events \in {<<e>>} :
            IF events = <<>> THEN UNCHANGED view
            ELSE \E f \in {events[1]} : view' = [view EXCEPT ![g] = Fold(@, f)]
      BY <1>1, <1>4
    <3>. QED
      BY <3>1, <3>2
  <2>. QED
    BY <1>2, <2>1
<1>5. CASE evt.is = "JoinedGroup"
  <2>1. PICK e : /\ Project(evt, Jid(Me, "pn"), known) = <<e>>
                 /\ \A v : Fold(v, e) = IF ~v.read THEN v ELSE Unread
    BY <1>5, JoinedProjected
  <2>0. view'[g] = Fold(view[g], e)
    BY <1>4, <2>1
  <2>2. ~view'[g].read /\ view'[g].read \in BOOLEAN
    <3>1. PICK u, w : u = view[g] /\ w = view'[g]
      OBVIOUS
    <3>2. w = IF ~u.read THEN u ELSE Unread
      BY <2>0, <2>1, <3>1
    <3>3. u.read \in BOOLEAN
      BY <1>2, <3>1
    <3>4. CASE u.read
      BY <1>3, <3>1, <3>2, <3>4
    <3>5. CASE ~u.read
      BY <3>1, <3>2, <3>3, <3>5
    <3>. QED
      BY <3>4, <3>5
  <2>. QED
    BY <1>4, <2>1, <2>2
<1>6. CASE evt.is = "GroupInfo"
  <2>1. PICK e : /\ Project(evt, Jid(Me, "pn"), known) = <<e>>
                 /\ "ephemeral" \in DOMAIN evt.changes =>
                      \A v : Fold(v, e) = IF ~v.read THEN v
                                          ELSE Tuned(v, ExpirationString(evt.changes.ephemeral))
                 /\ "ephemeral" \notin DOMAIN evt.changes =>
                      \E d : Tells(d, evt.changes) /\ \A v : Fold(v, e) = IF ~v.read THEN v ELSE Follow(v, d)
    BY <1>6, InfoProjected
  <2>0. view'[g] = Fold(view[g], e)
    BY <1>4, <2>1
  <2>2. CASE ~view[g].read
    <3>1. view'[g] = view[g]
      BY <2>0, <2>1, <2>2
    <3>. QED
      BY <1>2, <1>4, <2>1, <2>2, <3>1
  <2>3. CASE view[g].read
    <3>0. ViewOK(view[g], g) /\ view[g].read = TRUE
      BY <1>2, <2>3
    <3>1. Heard(view'[g], view[g], g, evt)
      <4>1. CASE "ephemeral" \in DOMAIN evt.changes
        <5>1. view'[g] = Tuned(view[g], ExpirationString(evt.changes.ephemeral))
          BY <2>0, <2>1, <2>3, <4>1
        <5>2. PICK u : u = view[g]
          OBVIOUS
        <5>3. ViewOK(u, g) /\ u.read = TRUE
          BY <3>0, <5>2
        <5>4. Heard(Tuned(u, ExpirationString(evt.changes.ephemeral)), u, g, evt)
          BY <1>6, <4>1, <5>3, TunedKeeps
        <5>. QED
          BY <5>1, <5>2, <5>4
      <4>2. CASE "ephemeral" \notin DOMAIN evt.changes
        <5>1. PICK d : Tells(d, evt.changes) /\ \A v : Fold(v, e) = IF ~v.read THEN v ELSE Follow(v, d)
          BY <2>1, <4>2
        <5>2. view'[g] = Follow(view[g], d)
          BY <2>0, <2>1, <2>3, <5>1
        <5>. QED
          <6>1. PICK u : u = view[g]
            OBVIOUS
          <6>2. ViewOK(u, g) /\ u.read = TRUE /\ Tells(d, evt.changes)
            BY <3>0, <5>1, <6>1
          <6>3. Heard(Follow(u, d), u, g, evt)
            BY <1>6, <4>2, <6>2, FollowKeeps
          <6>. QED
            BY <5>2, <6>1, <6>3
      <4>. QED
        BY <4>1, <4>2
    <3>2. view'[g].read = TRUE
      BY <3>1 DEF Heard
    <3>. QED
      BY <1>4, <2>1, <2>3, <3>1, <3>2
  <2>. QED
    BY <2>2, <2>3
<1>. QED
  BY <1>1, <1>5, <1>6

\* Positions in a queue and in the rest of it.
LEMMA OneBefore ==
    ASSUME NEW l \in Nat, NEW n \in 1..(l - 1), NEW k \in 1..l, n + 1 < k
    PROVE  k - 1 \in 1..(l - 1) /\ (k - 1) + 1 = k /\ n < k - 1
OBVIOUS

\* Delivering the first event keeps the invariant: the view moves along its path.
LEMMA StepDeliver ==
    ASSUME GroupInv, Deliver
    PROVE  GroupInv'
<1>. DEFINE l == Len(pending)
            evt == Head(pending)
            q == Tail(pending)
<1>0. GroupsOK /\ QueueOK /\ RequestOK /\ TrackedOK /\ ViewsOK /\ known \subseteq People
  BY DEF GroupInv
<1>1. pending # <<>> /\ pending' = q /\ UNCHANGED <<group, request, known>>
  BY DEF Deliver
<1>2. \E events \in {Project(evt, Jid(Me, "pn"), known)} :
             IF events = <<>> THEN UNCHANGED view
             ELSE \E e \in {events[1]} : view' = [view EXCEPT ![evt.jid.user] = Fold(@, e)]
  BY DEF Deliver
<1>3. /\ l \in Nat \ {0} /\ DOMAIN pending = 1..l
      /\ pending \in Seq({pending[n] : n \in DOMAIN pending})
  BY <1>0, <1>1, QueueIs
<1>4. /\ Len(q) = l - 1 /\ DOMAIN q = 1..(l - 1) /\ \A n \in 1..(l - 1) : q[n] = pending[n + 1]
      /\ evt = pending[1] /\ q \in Seq({pending[n] : n \in DOMAIN pending})
  BY <1>1, <1>3, HeadTailProperties, LenProperties
<1>. HIDE DEF l, evt, q
<1>5. PICK g \in Groups : EventOf(g, evt)
  BY <1>0, <1>3, <1>4 DEF QueueOK
<1>6. /\ DOMAIN view' = Groups /\ \A h \in Groups \ {g} : view'[h] = view[h]
      /\ view'[g].read \in BOOLEAN
      /\ view'[g].read => view[g].read /\ Heard(view'[g], view[g], g, evt)
  BY <1>0, <1>2, <1>5, Delivered
<1>7. \A h \in Groups \ {g} : evt.jid # GroupJID(h)
  BY <1>5, GroupJIDs DEF EventOf
<1>8. \A h : Members(h)' = Members(h) /\ \A p : RoleOf(h, p)' = RoleOf(h, p)
  BY <1>1 DEF Members, RoleOf
<1>9. GroupsOK' /\ RequestOK'
  BY <1>0, <1>1 DEF GroupsOK, GroupOK, RequestOK
<1>10. QueueOK'
  <2>1. q \in Seq({q[n] : n \in DOMAIN q})
    BY <1>4, SequenceIs
  <2>2. \A n \in DOMAIN q : \E h \in Groups : EventOf(h, q[n])
    <3>. TAKE n \in DOMAIN q
    <3>1. n + 1 \in DOMAIN pending /\ q[n] = pending[n + 1]
      BY <1>3, <1>4
    <3>. QED
      BY <1>0, <3>1 DEF QueueOK
  <2>. QED
    BY <1>1, <2>1, <2>2 DEF QueueOK
<1>11. Rest(pending, q)
  BY <1>3, <1>4 DEF Rest, l
<1>12. TrackedOK'
  <2>1. ASSUME NEW h \in Groups, NEW p \in People PROVE Tracked(h, p)'
    <3>1. PICK path \in [0..Len(pending) -> Roles] :
            /\ Path(Happens, pending, h, p, path)
            /\ Me \in Members(h) => path[Len(pending)] = RoleOf(h, p)
      BY <1>0 DEF TrackedOK, Tracked
    <3>2. Happens \in {Happens, Follows} /\ Leads(Happens, pending, h, p, path[0], path[Len(pending)])
      BY <3>1 DEF Leads
    <3>3. PICK y : Leads(Happens, q, h, p, y, path[Len(pending)])
      BY <1>11, <3>2, PathTail
    <3>. QED
      BY <1>1, <1>8, <3>1, <3>3 DEF Tracked, Leads
  <2>2. ASSUME NEW h \in Groups, NEW f \in Fields, Me \in Members(h) PROVE SettingTracked(h, f)'
    <3>1. SettingTracked(h, f)
      BY <1>0, <2>2 DEF TrackedOK
    <3>. SUFFICES ASSUME NEW n \in DOMAIN q, Touches(q[n], h, f), q[n].is = "GroupInfo",
                         \A k \in DOMAIN q : n < k => ~Touches(q[k], h, f)
                  PROVE  q[n].changes[f] = group[h][f]
      BY <1>1 DEF SettingTracked
    <3>2. n + 1 \in DOMAIN pending /\ q[n] = pending[n + 1]
      BY <1>3, <1>4
    <3>3. ASSUME NEW k \in DOMAIN pending, n + 1 < k PROVE ~Touches(pending[k], h, f)
      <4>0. k - 1 \in 1..(l - 1) /\ (k - 1) + 1 = k /\ n < k - 1
        <5>1. l \in Nat /\ n \in 1..(l - 1) /\ k \in 1..l
          BY <1>3, <1>4
        <5>. QED
          BY <3>3, <5>1, OneBefore
      <4>1. k - 1 \in DOMAIN q /\ n < k - 1 /\ q[k - 1] = pending[k]
        BY <1>4, <4>0
      <4>. QED
        BY <4>1
    <3>. QED
      BY <3>1, <3>2, <3>3 DEF SettingTracked
  <2>. QED
    BY <1>8, <2>1, <2>2 DEF TrackedOK
<1>13. ASSUME NEW h \in Groups, view'[h].read
       PROVE  view[h].read /\ (h = g => Heard(view'[g], view[g], g, evt))
  BY <1>6, <1>13
<1>14. ASSUME NEW h \in Groups, view'[h].read PROVE ViewOK(view'[h], h)
  <2>1. CASE h = g
    BY <1>13, <1>14, <2>1 DEF Heard
  <2>2. CASE h # g
    BY <1>0, <1>6, <1>13, <1>14, <2>2 DEF ViewsOK
  <2>. QED
    BY <2>1, <2>2
<1>15. ASSUME NEW h \in Groups, view'[h].read, NEW p \in People PROVE Followed(h, p)'
  <2>1. Followed(h, p)
    BY <1>0, <1>13, <1>15 DEF ViewsOK
  <2>2. PICK path \in [0..Len(pending) -> Roles] :
          /\ Path(Follows, pending, h, p, path)
          /\ path[0] = RoleIn(view[h], h, p)
          /\ Me \in Members(h) => path[Len(pending)] = RoleOf(h, p)
    BY <2>1 DEF Followed
  <2>0. Follows \in {Happens, Follows} /\ Leads(Follows, pending, h, p, path[0], path[Len(pending)])
    BY <2>2 DEF Leads
  <2>3. PICK first : /\ <<Mention(evt, h, p), path[0], first>> \in Follows
                     /\ Leads(Follows, q, h, p, first, path[Len(pending)])
    BY <1>4, <1>11, <2>0, PathTail
  <2>4. first = RoleIn(view'[h], h, p)
    <3>1. PICK x, y, z, k : x = path[0] /\ y = first /\ z = RoleIn(view'[h], h, p) /\ k = Mention(evt, h, p)
      OBVIOUS
    <3>2. <<k, x, y>> \in Follows
      BY <2>3, <3>1
    <3>3. CASE h = g
      <4>1. /\ evt.is = "GroupInfo" /\ <<k, x, z>> \in Follows
        BY <1>13, <1>15, <2>2, <3>1, <3>3 DEF Heard
      <4>2. k # "again"
        BY <1>5, <3>1, <3>3, <4>1, MentionIn DEF EventOf
      <4>. QED
        BY <3>1, <3>2, <4>1, <4>2, FollowsIsOne
    <3>4. CASE h # g
      <4>1. k = "nothing" /\ z = x
        BY <1>6, <1>7, <2>2, <3>1, <3>4, MentionElsewhere
      <4>2. x = y
        BY <3>2, <4>1 DEF Follows
      <4>. QED
        BY <3>1, <4>1, <4>2
    <3>. QED
      BY <3>3, <3>4
  <2>5. Followed(h, p)' <=> \E np \in [0..Len(pending') -> Roles] :
                             /\ Path(Follows, pending', h, p, np)
                             /\ np[0] = RoleIn(view'[h], h, p)
                             /\ Me \in Members(h)' => np[Len(pending')] = RoleOf(h, p)'
    BY DEF Followed
  <2>. QED
    BY <1>1, <1>8, <2>2, <2>3, <2>4, <2>5 DEF Leads
<1>16. ASSUME NEW h \in Groups, view'[h].read, NEW f \in Fields, Me \in Members(h)
       PROVE  SettingFollowed(h, f)'
  <2>1. SettingFollowed(h, f) /\ SettingTracked(h, f)
    BY <1>0, <1>13, <1>16 DEF ViewsOK, TrackedOK
  <2>. SUFFICES ASSUME \A n \in DOMAIN q : ~Touches(q[n], h, f), f \in DOMAIN view'[h]
                PROVE  view'[h][f] = ShownAs(f, group[h][f])
    BY <1>1 DEF SettingFollowed
  <2>2. ASSUME NEW n \in DOMAIN pending, n # 1 PROVE ~Touches(pending[n], h, f)
    <3>1. n - 1 \in DOMAIN q /\ q[n - 1] = pending[n]
      BY <1>3, <1>4, <2>2
    <3>. QED
      BY <3>1
  <2>3. ~Touches(evt, h, f) /\ f \in DOMAIN view[h] => view[h][f] = ShownAs(f, group[h][f])
    BY <1>4, <2>1, <2>2 DEF SettingFollowed
  <2>4. CASE h # g
    <3>1. ~Touches(evt, h, f)
      BY <1>7, <2>4 DEF Touches
    <3>. QED
      BY <1>6, <2>3, <2>4, <3>1
  <2>5. CASE h = g
    <3>1. /\ evt.is = "GroupInfo" /\ DOMAIN view'[g] = DOMAIN view[g]
          /\ f \in DOMAIN view[g] =>
               view'[g][f] = IF f \in DOMAIN evt.changes THEN ShownAs(f, evt.changes[f]) ELSE view[g][f]
      BY <1>13, <1>16, <2>5 DEF Heard
    <3>2. Touches(evt, h, f) <=> f \in DOMAIN evt.changes
      BY <1>5, <2>5, <3>1 DEF Touches, EventOf
    <3>3. CASE f \in DOMAIN evt.changes
      <4>1. 1 \in DOMAIN pending /\ \A n \in DOMAIN pending : 1 < n => ~Touches(pending[n], h, f)
        BY <1>3, <2>2
      <4>2. evt.changes[f] = group[h][f]
        BY <1>4, <2>1, <3>1, <3>2, <3>3, <4>1 DEF SettingTracked
      <4>. QED
        BY <2>5, <3>1, <3>3, <4>2
    <3>4. CASE f \notin DOMAIN evt.changes
      BY <2>3, <2>5, <3>1, <3>2, <3>4
    <3>. QED
      BY <3>3, <3>4
  <2>. QED
    BY <2>4, <2>5
<1>17. ViewsOK'
  <2>1. \A h \in Groups : view'[h].read \in BOOLEAN
    BY <1>0, <1>6 DEF ViewsOK
  <2>. QED
    BY <1>6, <1>8, <1>14, <1>15, <1>16, <2>1 DEF ViewsOK
<1>. QED
  BY <1>0, <1>1, <1>9, <1>10, <1>12, <1>17 DEF GroupInv

-----------------------------------------------------------------------------
(* The beginning, and when all events have come. *)

\* At the start nothing is on its way and no group was read.
LEMMA GroupInit == Init => GroupInv
<1>. SUFFICES ASSUME Init PROVE GroupInv
  OBVIOUS
<1>1. /\ group = Founded /\ pending = <<>> /\ request = Idle
      /\ view = [g \in Groups |-> Unread] /\ known = {Me}
  BY DEF Init
<1>2. known \subseteq People
  BY <1>1, RoomsAssumption
<1>3. GroupsOK
  <2>1. DOMAIN group = Groups
    BY <1>1, FoundedAssumption
  <2>2. \A g \in Groups : GroupOK(g)
    BY <1>1, FoundedAssumption DEF GroupOK
  <2>. QED
    BY <2>1, <2>2 DEF GroupsOK
<1>4. DOMAIN pending = {} /\ Len(pending) = 0 /\ pending \in Seq({})
  BY <1>1
<1>5. QueueOK
  <2>1. pending \in Seq({pending[n] : n \in DOMAIN pending})
    BY <1>4, SequenceIs
  <2>. QED
    BY <1>4, <2>1 DEF QueueOK
<1>6. RequestOK
  BY <1>1 DEF RequestOK
<1>7. TrackedOK
  <2>1. ASSUME NEW g \in Groups, NEW p \in People PROVE Tracked(g, p)
    <3>. DEFINE path == [n \in 0..0 |-> RoleOf(g, p)]
    <3>1. RoleOf(g, p) \in Roles
      BY <1>3, RolesAre
    <3>2. path \in [0..0 -> Roles] /\ path[0] = RoleOf(g, p)
      BY <3>1
    <3>. HIDE DEF path
    <3>3. Path(Happens, pending, g, p, path)
      BY <1>4, <3>2 DEF Path
    <3>. QED
      BY <1>4, <3>2, <3>3 DEF Tracked
  <2>2. ASSUME NEW g \in Groups, NEW f \in Fields PROVE SettingTracked(g, f)
    BY <1>4 DEF SettingTracked
  <2>. QED
    BY <2>1, <2>2 DEF TrackedOK
<1>8. ViewsOK
  <2>1. Unread.read = FALSE
    BY DEF Unread
  <2>2. DOMAIN view = Groups /\ \A g \in Groups : view[g].read = FALSE
    BY <1>1, <2>1
  <2>. QED
    BY <2>2 DEF ViewsOK
<1>. QED
  BY <1>2, <1>3, <1>5, <1>6, <1>7, <1>8 DEF GroupInv

\* In a view an entry is that of a person if it has one of the two addresses.
LEMMA IsOneOf ==
    ASSUME NEW g \in Groups, NEW q \in People, NEW who, Is(who, q, g), NEW p \in People
    PROVE  p \in {who.phone, who.lid} <=> Is(who, p, g)
<1>1. p # NoUser /\ q # NoUser
  BY RoomsAssumption
<1>2. p \in {who.phone, who.lid} => p = q
  BY <1>1 DEF Is
<1>3. Is(who, p, g) => p \in {who.phone, who.lid}
  BY DEF Is
<1>. QED
  BY <1>2, <1>3

\* When all events have come, paths have no steps left and the view shows the group.
LEMMA GroupShown ==
    ASSUME GroupInv, pending = <<>>, NEW g \in Groups, view[g].read, Me \in Members(g)
    PROVE  Shows(view[g], g)
<1>. DEFINE v == view[g]
<1>1. /\ ViewOK(v, g) /\ (\A p \in People : Followed(g, p))
      /\ \A f \in Fields : SettingFollowed(g, f)
  BY DEF GroupInv, ViewsOK
<1>2. GroupsOK /\ Members(g) \subseteq People
  BY RolesAre DEF GroupInv
<1>3. DOMAIN pending = {} /\ Len(pending) = 0
  OBVIOUS
<1>4. \A f \in Fields \cap DOMAIN v : v[f] = ShownAs(f, group[g][f])
  BY <1>1, <1>3 DEF SettingFollowed
<1>5. \A f \in DOMAIN v \cap GroupFieldsShown : v[f] = group[g][f]
  <2>1. \A f \in GroupFieldsShown : f \in Fields /\ f # "ephemeral"
    BY DEF Fields, GroupFieldsShown, CommunityFields
  <2>. QED
    BY <1>4, <2>1 DEF ShownAs
<1>6. "ephemeral" \in DOMAIN v => v.ephemeral = ExpirationString(group[g].ephemeral)
  <2>1. "ephemeral" \in Fields
    BY DEF Fields
  <2>. QED
    BY <1>4, <2>1 DEF ShownAs
<1>7. ASSUME NEW p \in People PROVE RoleIn(v, g, p) = RoleOf(g, p)
  <2>1. PICK path \in [0..Len(pending) -> Roles] :
          /\ path[0] = RoleIn(v, g, p) /\ path[Len(pending)] = RoleOf(g, p)
    BY <1>1 DEF Followed
  <2>. QED
    BY <1>3, <2>1
<1>8. /\ \A m \in v.members : Entry(m, g)
      /\ Single(v.members, g)
  BY <1>1 DEF ViewOK, Entry, Single
<1>. HIDE DEF v
<1>9. ASSUME NEW p \in People
      PROVE  /\ Present(v.members, p, g, TRUE) <=> IsAdmin(g, p)
             /\ Present(v.members, p, g, FALSE) <=> p \in Members(g) /\ ~IsAdmin(g, p)
             /\ IsAdmin(g, p) => p \in Members(g)
  <2>1. \A m \in v.members : m.admin \in BOOLEAN
    BY <1>8 DEF Entry
  <2>2. RoleIn(v, g, p) = CASE Present(v.members, p, g, TRUE)  -> "admin"
                            [] Present(v.members, p, g, FALSE) -> "member"
                            [] OTHER -> "none"
    BY <2>1, RoleInIs
  <2>3. ~(Present(v.members, p, g, TRUE) /\ Present(v.members, p, g, FALSE))
    BY <1>8 DEF Present, Single
  <2>4. /\ RoleOf(g, p) \in Roles /\ (p \in Members(g) <=> RoleOf(g, p) # "none")
        /\ IsAdmin(g, p) <=> RoleOf(g, p) = "admin"
    BY <1>2, RolesAre
  <2>5. PICK a, b : a = RoleIn(v, g, p) /\ b = RoleOf(g, p)
    OBVIOUS
  <2>6. a = b
    BY <1>7, <2>5
  <2>7. /\ Present(v.members, p, g, TRUE) <=> a = "admin"
        /\ Present(v.members, p, g, FALSE) <=> a = "member"
    BY <2>2, <2>3, <2>5
  <2>8. IsAdmin(g, p) => p \in Members(g)
    BY DEF IsAdmin
  <2>. QED
    BY <2>4, <2>5, <2>6, <2>7, <2>8 DEF Roles
<1>10. \A n \in v.members : \A p \in People : p \in {n.who.phone, n.who.lid} <=> Is(n.who, p, g)
  BY <1>8, IsOneOf DEF Entry
<1>11. ASSUME NEW p \in People
       PROVE  {m.admin : m \in {n \in v.members : p \in {n.who.phone, n.who.lid}}}
                = IF p \in Members(g) THEN {IsAdmin(g, p)} ELSE {}
  <2>. DEFINE S == {n \in v.members : p \in {n.who.phone, n.who.lid}}
  <2>1. \A m : m \in S <=> m \in v.members /\ Is(m.who, p, g)
    BY <1>10
  <2>2. \A m \in S : m.admin \in BOOLEAN /\ (m.admin = TRUE <=> IsAdmin(g, p)) /\ p \in Members(g)
    <3>1. \A m \in S : m.admin \in BOOLEAN
      BY <1>8, <2>1 DEF Entry
    <3>2. \A m \in S : m.admin = TRUE => IsAdmin(g, p) /\ p \in Members(g)
      BY <1>9, <2>1 DEF Present
    <3>3. \A m \in S : m.admin = FALSE => ~IsAdmin(g, p) /\ p \in Members(g)
      BY <1>9, <2>1 DEF Present
    <3>. QED
      BY <3>1, <3>2, <3>3
  <2>3. p \in Members(g) => \E m \in S : TRUE
    BY <1>9, <2>1 DEF Present
  <2>4. IsAdmin(g, p) \in BOOLEAN
    BY DEF IsAdmin
  <2>. HIDE DEF S
  <2>5. CASE p \notin Members(g)
    <3>1. S = {}
      BY <2>2, <2>5
    <3>. QED
      BY <2>5, <3>1 DEF S
  <2>6. CASE p \in Members(g)
    <3>1. \A m \in S : m.admin = IsAdmin(g, p)
      BY <2>2, <2>4
    <3>2. {m.admin : m \in S} = {IsAdmin(g, p)}
      BY <2>3, <2>6, <3>1
    <3>. QED
      BY <2>6, <3>2 DEF S
  <2>. QED
    BY <2>5, <2>6
<1>12. Cardinality(v.members) = Cardinality(Members(g))
  <2>. DEFINE F == [p \in Members(g) |-> CHOOSE m \in v.members : Is(m.who, p, g)]
  <2>1. ASSUME NEW p \in Members(g) PROVE \E m \in v.members : Is(m.who, p, g)
    BY <1>2, <1>9 DEF Present
  <2>2. ASSUME NEW p \in Members(g) PROVE F[p] \in v.members /\ Is(F[p].who, p, g)
    <3>1. PICK m : m = CHOOSE k \in v.members : Is(k.who, p, g)
      OBVIOUS
    <3>2. m \in v.members /\ Is(m.who, p, g)
      BY <2>1, <3>1
    <3>. QED
      BY <3>1, <3>2
  <2>3. F = [p \in Members(g) |-> F[p]]
    OBVIOUS
  <2>. HIDE DEF F
  <2>4. F \in [Members(g) -> v.members]
    BY <2>2, <2>3
  <2>5. \A p, q \in Members(g) : F[p] = F[q] => p = q
    BY <1>2, <2>2, OnePerson
  <2>6. ASSUME NEW m \in v.members PROVE \E p \in Members(g) : F[p] = m
    <3>1. PICK p \in People : Is(m.who, p, g) /\ m.admin \in BOOLEAN
      BY <1>8 DEF Entry
    <3>2. p \in Members(g)
      BY <1>9, <3>1 DEF Present
    <3>3. F[p] = m
      BY <1>8, <2>2, <3>1, <3>2 DEF Single
    <3>. QED
      BY <3>2, <3>3
  <2>7. F \in Bijection(Members(g), v.members)
    BY <2>4, <2>5, <2>6 DEF Bijection, Injection, Surjection, IsInjective
  <2>8. IsFiniteSet(Members(g))
    BY <1>2, RoomsAssumption, FS_Subset
  <2>9. ExistsBijection(Members(g), v.members)
    BY <2>7 DEF ExistsBijection
  <2>. QED
    BY <2>8, <2>9, FS_Bijection
<1>. QED
  BY <1>5, <1>6, <1>11, <1>12 DEF Shows, v

-----------------------------------------------------------------------------
(* The theorems. *)

\* What the chats need of the groups: who may be told of.
Base == known \subseteq People /\ GroupsOK /\ RequestOK

\* Every step keeps it, whether or not a timer is told on its own.
LEMMA BaseStep ==
    ASSUME Base, [Next]_vars
    PROVE  Base'
<1>0. Me \in People /\ Contacts \subseteq People /\ known \subseteq People
  BY RoomsAssumption DEF Base
<1>1. ASSUME UNCHANGED group PROVE GroupsOK'
  BY <1>1 DEF Base, GroupsOK, GroupOK
<1>2. ASSUME UNCHANGED request PROVE RequestOK'
  BY <1>2 DEF Base, RequestOK
<1>3. ASSUME NEW by \in People, NEW ask, Askable(ask), WhatsApp(by, ask) PROVE GroupsOK' /\ known' = known
  <2>1. PICK g \in Groups : GroupStep(g)
    BY <1>3, WhatsAppStep DEF Base
  <2>. QED
    BY <1>3, <2>1 DEF GroupStep, GroupsOK, WhatsApp
<1>4. CASE RequestGroup
  <2>1. PICK r \in Requests : /\ ~Has(r, "patch") /\ r.op # "communityParticipants"
                              /\ WhatsApp(Me, Asked(r))
    BY <1>4 DEF RequestGroup
  <2>2. Askable(Asked(r)) /\ request' = request
    BY <1>4, <2>1, AsksAssumption DEF RequestGroup
  <2>3. GroupsOK' /\ known' = known
    BY <1>0, <1>3, <2>1, <2>2
  <2>. QED
    BY <1>0, <1>2, <2>2, <2>3 DEF Base
<1>5. CASE OthersDo
  <2>1. PICK o \in Others : ~Has(o, "patch") /\ WhatsApp(o.by, o.ask)
    BY <1>5 DEF OthersDo
  <2>2. o.by \in People /\ Askable(o.ask) /\ request' = request
    BY <1>5, <2>1, AsksAssumption DEF OthersDo
  <2>3. GroupsOK' /\ known' = known
    BY <1>3, <2>1, <2>2
  <2>. QED
    BY <1>0, <1>2, <2>2, <2>3 DEF Base
<1>6. CASE CommunityLookup
  <2>1. UNCHANGED <<group, known>>
    BY <1>6 DEF CommunityLookup
  <2>2. PICK r \in Requests, g \in Groups :
          request' = [pc |-> "update", ask |-> [UpdateGroupParticipants(r) EXCEPT !.group = g]]
    BY <1>6 DEF CommunityLookup, DefaultSubGroups
  <2>3. PICK ask : ask = [UpdateGroupParticipants(r) EXCEPT !.group = g]
    OBVIOUS
  <2>4. ask.do = "members" /\ ask.group = g
    BY <2>3 DEF UpdateGroupParticipants
  <2>5. Askable(ask)
    BY <2>4 DEF Askable
  <2>6. RequestOK'
    BY <2>2, <2>3, <2>5 DEF RequestOK
  <2>. QED
    BY <1>0, <1>1, <2>1, <2>6 DEF Base
<1>7. CASE CommunityUpdate
  <2>1. request.pc = "update" /\ request' = Idle
    BY <1>7 DEF CommunityUpdate
  <2>2. RequestOK'
    BY <2>1 DEF RequestOK
  <2>3. CASE WhatsApp(Me, request.ask)
    <3>1. Askable(request.ask)
      BY <2>1 DEF Base, RequestOK, Idle
    <3>2. GroupsOK' /\ known' = known
      BY <1>0, <1>3, <2>3, <3>1
    <3>. QED
      BY <1>0, <2>2, <3>2 DEF Base
  <2>4. CASE UNCHANGED <<group, pending, view, known, chatVars, now>>
    BY <1>0, <1>1, <2>2, <2>4 DEF Base
  <2>. QED
    BY <1>7, <2>3, <2>4 DEF CommunityUpdate
<1>8. ASSUME NEW g \in Groups, ReadGroup(g) PROVE Base'
  <2>1. UNCHANGED <<group, request>>
    BY <1>8 DEF ReadGroup
  <2>2. PICK phones \in {{}, Members(g)} :
          known' = IF Mode[g] = "lid" THEN known \cup phones ELSE known
    BY <1>8 DEF ReadGroup
  <2>3. Members(g) \subseteq People
    BY RolesAre DEF Base
  <2>4. known' \subseteq People
    BY <1>0, <2>2, <2>3
  <2>. QED
    BY <1>1, <1>2, <2>1, <2>4 DEF Base
<1>9. CASE Deliver
  BY <1>0, <1>1, <1>2, <1>9 DEF Deliver, Base
<1>10. CASE RequestChat \/ PhonePatches \/ TimePasses
  <2>1. UNCHANGED <<group, request, known>>
    BY <1>10 DEF RequestChat, PhonePatches, TimePasses, groupVars
  <2>. QED
    BY <1>0, <1>1, <1>2, <2>1 DEF Base
<1>11. ASSUME NEW p \in Contacts, MessageComes(p) PROVE Base'
  <2>1. UNCHANGED <<group, request>>
    BY <1>11 DEF MessageComes, groupVars
  <2>2. known' = known \/ known' = known \cup {p}
    BY <1>11 DEF MessageComes
  <2>. QED
    BY <1>0, <1>1, <1>2, <2>1, <2>2 DEF Base
<1>12. CASE UNCHANGED vars
  <2>1. UNCHANGED <<group, request, known>>
    BY <1>12 DEF vars, groupVars
  <2>. QED
    BY <1>0, <1>1, <1>2, <2>1 DEF Base
<1>. QED
  BY <1>4, <1>5, <1>6, <1>7, <1>8, <1>9, <1>10, <1>11, <1>12 DEF Next

\* The two ways to learn of the settings of a chat, the answer of chat.go and
\* the events, agree, whatever the client, the phone and the others do.
THEOREM SpecSettingsAgree == Spec => []SettingsAgree
<1>1. Init => Base /\ ChatInv
  BY GroupInit, ChatInit DEF GroupInv, Base
<1>2. Base /\ ChatInv /\ [Next]_vars => Base' /\ ChatInv'
  <2>. SUFFICES ASSUME Base, ChatInv, [Next]_vars PROVE Base' /\ ChatInv'
    OBVIOUS
  <2>1. Base'
    BY BaseStep
  <2>2. known' \subseteq People
    BY <2>1 DEF Base
  <2>. QED
    BY <2>1, <2>2, ChatStep
<1>3. ChatInv => SettingsAgree
  BY ChatsAgree
<1>. QED
  BY <1>1, <1>2, <1>3, PTL DEF Spec

\* Every step keeps the invariant of the groups, if a timer is told on its own.
LEMMA GroupInvStep ==
    ASSUME ~MixedChanges, GroupInv, [Next]_vars
    PROVE  GroupInv'
<1>1. CASE UNCHANGED vars
  <2>1. UNCHANGED <<group, pending, view, request, known>>
    BY <1>1 DEF vars, groupVars
  <2>2. RequestOK' /\ known' \subseteq People
    BY <2>1 DEF GroupInv, RequestOK
  <2>. QED
    BY <2>1, <2>2, SameGroupParts DEF GroupInv
<1>2. ASSUME NEW g \in Groups, ReadGroup(g) PROVE GroupInv'
  BY <1>2, StepRead
<1>. QED
  BY <1>1, <1>2, StepRequests, StepDeliver, StepChats DEF Next

\* Both invariants imply the type invariant.
LEMMA ViewTypes ==
    ASSUME GroupInv, ChatInv
    PROVE  TypeOK
<1>1. ASSUME NEW g \in Groups, view[g].read
      PROVE  DOMAIN view[g] \subseteq DOMAIN group[g] \cup {"read", "members"}
  <2>1. DOMAIN group[g] = Record
    BY DEF GroupInv, GroupsOK, GroupOK
  <2>2. DOMAIN view[g] \subseteq Fields \cup {"read", "members"}
    BY <1>1 DEF GroupInv, ViewsOK, ViewOK
  <2>3. Fields \subseteq Record
    BY FieldsAre
  <2>. QED
    BY <2>1, <2>2, <2>3
<1>. QED
  BY <1>1 DEF GroupInv, ChatInv, TypeOK

\* A client that has read a group, with group.go or community.go, and follows
\* the events knows it when all have come, if a timer is told on its own.
THEOREM SpecMembershipFollows ==
    ASSUME ~MixedChanges
    PROVE  Spec => []MembershipFollows
<1>1. Init => GroupInv /\ ChatInv
  BY GroupInit, ChatInit
<1>2. GroupInv /\ ChatInv /\ [Next]_vars => GroupInv' /\ ChatInv'
  <2>. SUFFICES ASSUME GroupInv, ChatInv, [Next]_vars PROVE GroupInv' /\ ChatInv'
    OBVIOUS
  <2>1. GroupInv'
    BY GroupInvStep
  <2>2. known' \subseteq People
    BY <2>1 DEF GroupInv
  <2>. QED
    BY <2>1, <2>2, ChatStep
<1>3. GroupInv /\ ChatInv => MembershipFollows
  BY GroupShown, ViewTypes DEF MembershipFollows
<1>. QED
  BY <1>1, <1>2, <1>3, PTL DEF Spec
====

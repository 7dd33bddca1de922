---------------------------- MODULE EventTracking ----------------------------
(***************************************************************************)
(* Two parts of the event handler of one paired client: the tables of      *)
(* chats and contacts it keeps (manager.go:556-645), and the repair of an  *)
(* app-state collection that fails to sync (manager.go:680-724).  The      *)
(* handler runs on several goroutines, one per source of events.           *)
(***************************************************************************)
EXTENDS Naturals, Sequences

CONSTANTS
    People,     \* whom chats and contacts are about
    Times,      \* timestamps of messages
    MaxName,    \* changes to a person's name in the phone's address book
    NoRow,
    MaxBreaks,  \* how often the patches of the collection are corrupted
    MaxCools,   \* how often 48 hours pass
    Scenes   \* which events come, how many renames, and whether requests may fail

ASSUME TrackingAssumption ==
    /\ Times \subseteq Nat \ {0} /\ MaxName \in Nat /\ MaxBreaks \in Nat /\ MaxCools \in Nat
    /\ Scenes \subseteq [chats: BOOLEAN, appState: BOOLEAN, reliable: BOOLEAN,
                          renames: 0..MaxName]

VARIABLES
    scene,      \* the member of Scenes this behaviour is about
    device,     \* "new", "paired", or "gone": logged out or deleted
    mapped,     \* people whose LID whatsmeow can map to a phone number
    chats,      \* wsapi_chats: last_activity of each chat_jid, 0 for NULL
    contacts,   \* wsapi_contacts: full_name of each contact_jid
    handling,   \* the events each goroutine has to handle, and for the first
                \* of them the JID it has resolved
    names,      \* the name in the phone's address book, a version number
    have,       \* the version the client has synced
    broken,     \* the patches cannot be applied: "no"; "local", until a full
                \* sync; "server", until the phone sends its own state
    breaks,     \* how often they have been
    full,       \* appStateFullSyncAttempted is set
    peer,       \* appStateRecoveryAttempted: "never", "recent", 48 hours "old"
    fullSyncs,  \* goroutines about to call FetchAppState
    recoveries, \* goroutines about to send a recovery request
    asked,      \* recovery requests the phone has
    cools,      \* how often a recovery has become 48 hours old
    tried       \* full syncs since the last success, recoveries since the last
                \* success or the last 48 hours (history variables)

tables   == <<chats, contacts>>
phone    == <<names, have, broken, breaks, cools>>
marks    == <<full, peer, fullSyncs, recoveries, tried>>
trackingVars     == <<scene, device, mapped, handling, tables, phone, marks, asked>>

Sources == {"main", "history", "full", "api"}
JIDs    == People \X {"pn", "lid"}
NoJID   == <<"none">>

Contact(p, v)  == [kind |-> "contact", jid |-> <<p, "pn">>, value |-> v]
ChatEvent(k, j, t) == [kind |-> k, jid |-> j, value |-> t]
SyncComplete   == [kind |-> "complete", jid |-> NoJID, value |-> 0]
SyncError(isFull) == [kind |-> "error", jid |-> NoJID, value |-> IF isFull THEN 1 ELSE 0]

IsSync(e) == e.kind \in {"complete", "error"}

TrackingTypeOK ==
    /\ scene \in Scenes
    /\ device \in {"new", "paired", "gone"}
    /\ mapped \subseteq People
    /\ chats \in [JIDs -> Times \cup {0, NoRow}]
    /\ contacts \in [JIDs -> 1..MaxName \cup {NoRow}]
    /\ \A s \in Sources : /\ Len(handling[s].todo) <= 2
                          /\ handling[s].resolved \in JIDs \cup {NoJID}
    /\ names \in 0..MaxName /\ have \in 0..MaxName
    /\ broken \in {"no", "local", "server"} /\ breaks \in 0..MaxBreaks /\ cools \in 0..MaxCools
    /\ full \in BOOLEAN /\ peer \in {"never", "recent", "old"}
    /\ fullSyncs \in Nat /\ recoveries \in Nat /\ asked \in Nat
    /\ tried \in [full: Nat, peer: Nat]

Nothing == [todo |-> <<>>, resolved |-> NoJID]
NoRows  == [j \in JIDs |-> NoRow]

TrackingInit ==
    /\ scene \in Scenes
    /\ device = "new" /\ mapped = {}
    /\ chats = NoRows /\ contacts = NoRows
    /\ handling = [s \in Sources |-> Nothing]
    /\ names = 0 /\ have = 0 /\ broken = "no" /\ breaks = 0 /\ cools = 0
    /\ full = FALSE /\ peer = "never"
    /\ fullSyncs = 0 /\ recoveries = 0 /\ asked = 0
    /\ tried = [full |-> 0, peer |-> 0]

Free(s) == handling[s].todo = <<>> /\ device # "gone"
Gets(s, events) == handling' = [handling EXCEPT ![s].todo = events]
Finishes(s) == handling' = [handling EXCEPT ![s] = [todo |-> Tail(@.todo), resolved |-> NoJID]]

-----------------------------------------------------------------------------
(* The device. *)

PairSuccess ==
    /\ device = "new"
    /\ device' = "paired"
    /\ UNCHANGED <<scene, mapped, handling, tables, phone, marks, asked>>

\* Mutation: the tables are not tied to the device table.
DeviceDeletedKeepsContacts ==
    /\ device = "paired"
    /\ device' = "gone"
    /\ chats' = NoRows
    /\ UNCHANGED <<scene, mapped, handling, contacts, phone, marks, asked>>

\* A logout or a delete removes the row of the device, and with it those
\* that refer to it.
DeviceDeleted ==
    /\ device = "paired"
    /\ device' = "gone"
    /\ chats' = NoRows /\ contacts' = NoRows
    /\ UNCHANGED <<scene, mapped, handling, phone, marks, asked>>

\* whatsmeow learns whose LID it is.
LidLearned(p) ==
    /\ scene.chats
    /\ mapped' = mapped \cup {p}
    /\ UNCHANGED <<scene, device, handling, tables, phone, marks, asked>>

-----------------------------------------------------------------------------
(* Events about chats and contacts. *)

\* A message comes, the chat is deleted on some device, or a conversation of
\* a history batch, with or without its time.
Arrives ==
    /\ scene.chats
    /\ \E j \in JIDs :
         \/ Free("main") /\ \E t \in Times : Gets("main", <<ChatEvent("message", j, t)>>)
         \/ Free("main") /\ Gets("main", <<ChatEvent("delete", j, 0)>>)
         \/ Free("history") /\ \E t \in Times \cup {0} :
              Gets("history", <<ChatEvent("history", j, t)>>)
    /\ UNCHANGED <<scene, device, mapped, tables, phone, marks, asked>>

\* Mutation: a LID that cannot be resolved is used as it is.
ResolveLIDOrKeep(j) == IF j[1] \in mapped THEN <<j[1], "pn">> ELSE j

\* resolveLID, with the callers' test for what remains a LID.
ResolveLID(j) == IF j[2] = "pn" \/ j[1] \in mapped THEN <<j[1], "pn">> ELSE NoJID

\* The handler reads the device's JID and resolves that of the chat.  Before
\* the pairing, and for a LID nobody knows, that is all.
Resolve(s) ==
    /\ handling[s].todo # <<>> /\ handling[s].resolved = NoJID
    /\ LET e == Head(handling[s].todo)
           j == ResolveLID(e.jid)
       IN /\ ~IsSync(e)
          /\ IF device = "new" \/ j = NoJID
             THEN Finishes(s)
             ELSE handling' = [handling EXCEPT ![s].resolved = j]
    /\ UNCHANGED <<scene, device, mapped, tables, phone, marks, asked>>

\* last_activity of ChatStore.Upsert: COALESCE of the new and the old one.
UpsertActivity(old, time) == IF time = 0 /\ old # NoRow THEN old ELSE time

\* The statement of the event; without the device's row it fails on the
\* foreign key, and an error of any kind is ignored.
Store(s) ==
    /\ handling[s].resolved # NoJID
    /\ LET e == Head(handling[s].todo)
           j == handling[s].resolved
       IN \/ /\ device = "paired" /\ e.kind \in {"message", "history"}
             /\ chats' = [chats EXCEPT ![j] = UpsertActivity(@, e.value)]
             /\ UNCHANGED contacts
          \/ /\ device = "paired" /\ e.kind = "delete"
             /\ chats' = [chats EXCEPT ![j] = NoRow]
             /\ UNCHANGED contacts
          \/ /\ device = "paired" /\ e.kind = "contact"
             /\ contacts' = [contacts EXCEPT ![j] = e.value]
             /\ UNCHANGED chats
          \/ /\ device = "gone" \/ ~scene.reliable
             /\ UNCHANGED tables
    /\ Finishes(s)
    /\ UNCHANGED <<scene, device, mapped, phone, marks, asked>>

-----------------------------------------------------------------------------
(* Repair of app state; each is one section of appStateRecoveryLock. *)

\* AppStateSyncComplete clears both marks.
HandleComplete(s) ==
    /\ handling[s].todo # <<>> /\ Head(handling[s].todo) = SyncComplete
    /\ full' = FALSE /\ peer' = "never"
    /\ tried' = [full |-> 0, peer |-> 0]
    /\ Finishes(s)
    /\ UNCHANGED <<scene, device, mapped, tables, phone, fullSyncs, recoveries, asked>>

StartsFullSync ==
    /\ full' = TRUE /\ fullSyncs' = fullSyncs + 1 /\ tried' = [tried EXCEPT !.full = @ + 1]
    /\ UNCHANGED <<peer, recoveries>>

StartsRecovery ==
    /\ peer' = "recent" /\ recoveries' = recoveries + 1 /\ tried' = [tried EXCEPT !.peer = @ + 1]
    /\ UNCHANGED <<full, fullSyncs>>

\* Mutation: the mark of a full sync is set but not looked at.
EscalateAgain(isFull) ==
    \/ peer = "recent" /\ UNCHANGED marks
    \/ peer # "recent" /\ ~isFull /\ StartsFullSync
    \/ peer # "recent" /\ isFull /\ StartsRecovery

\* Mutation: after a full sync every further error is ignored.
EscalateOnce(isFull) ==
    \/ (peer = "recent" \/ full) /\ UNCHANGED marks
    \/ peer # "recent" /\ ~full /\ ~isFull /\ StartsFullSync
    \/ peer # "recent" /\ ~full /\ isFull /\ StartsRecovery

\* Nothing while a recovery is recent; a full sync after a partial one has
\* failed, once; the phone is asked after a full one has failed.
Escalate(isFull) ==
    \/ (peer = "recent" \/ (full /\ ~isFull)) /\ UNCHANGED marks
    \/ peer # "recent" /\ ~isFull /\ ~full /\ StartsFullSync
    \/ peer # "recent" /\ isFull /\ StartsRecovery

HandleError(s) ==
    /\ handling[s].todo # <<>> /\ Head(handling[s].todo).kind = "error"
    /\ Escalate(Head(handling[s].todo).value = 1)
    /\ Finishes(s)
    /\ UNCHANGED <<scene, device, mapped, tables, phone, asked>>

\* recoverAppState; a request that cannot be sent is only logged.
RecoverAppState ==
    /\ recoveries > 0
    /\ recoveries' = recoveries - 1
    /\ asked' \in {asked + 1} \cup (IF scene.reliable THEN {} ELSE {asked})
    /\ UNCHANGED <<scene, device, mapped, handling, tables, phone, full, peer,
                   fullSyncs, tried>>

\* 48 hours after a recovery.
CoolDownEnds ==
    /\ peer = "recent" /\ peer' = "old"
    /\ cools < MaxCools /\ cools' = cools + 1
    /\ tried' = [tried EXCEPT !.peer = 0]
    /\ UNCHANGED <<scene, device, mapped, handling, tables, names, have, broken, breaks,
                   asked, full, fullSyncs, recoveries>>

-----------------------------------------------------------------------------
(* whatsmeow and the phone. *)

\* A name is changed, on the phone or by CreateOrUpdateContact.
Rename ==
    /\ scene.appState /\ device = "paired" /\ names < scene.renames
    /\ names' = names + 1
    /\ UNCHANGED <<scene, device, mapped, handling, tables, have, broken, breaks, cools,
                   marks, asked>>

\* What a sync that works tells the handler.
Synced(s) ==
    /\ have' = names /\ broken' = "no" /\ breaks' = breaks
    /\ \E p \in People :
         Gets(s, IF names = 0 THEN <<SyncComplete>> ELSE <<Contact(p, names), SyncComplete>>)

Corrupted ==
    /\ breaks < MaxBreaks /\ breaks' = breaks + 1
    /\ broken' \in {"local", "server"} /\ UNCHANGED have

\* New patches; what cannot be applied once will not be later.
PartialSync ==
    /\ scene.appState /\ device = "paired" /\ Free("main")
    /\ names # have \/ broken # "no"
    /\ \/ broken = "no" /\ Synced("main")
       \/ broken = "no" /\ Corrupted /\ Gets("main", <<SyncError(FALSE)>>)
       \/ broken # "no" /\ Gets("main", <<SyncError(FALSE)>>) /\ UNCHANGED <<have, broken, breaks>>
    /\ UNCHANGED <<scene, device, mapped, tables, names, cools, marks, asked>>

\* The collection from its start: fails, or cannot even be fetched, of which
\* only the caller hears.
FullSync(s) ==
    /\ Free(s)
    /\ \/ broken # "server" /\ Synced(s)
       \/ broken = "server" /\ Gets(s, <<SyncError(TRUE)>>) /\ UNCHANGED <<have, broken, breaks>>
       \/ ~scene.reliable /\ UNCHANGED <<handling, have, broken, breaks>>
    /\ UNCHANGED <<scene, device, mapped, tables, names, cools, full, peer, recoveries,
                   tried, asked>>

\* The goroutine of the handler, and POST /contacts/sync.
FetchAppState == fullSyncs > 0 /\ fullSyncs' = fullSyncs - 1 /\ FullSync("full")
SyncContacts  == scene.appState /\ device = "paired" /\ FullSync("api") /\ UNCHANGED fullSyncs

\* The phone answers a recovery request with its own state.
PhoneAnswers ==
    /\ asked > 0 /\ asked' = asked - 1
    /\ Free("main") /\ Synced("main")
    /\ UNCHANGED <<scene, device, mapped, tables, names, cools, marks>>

Handler(s) == Resolve(s) \/ Store(s) \/ HandleComplete(s) \/ HandleError(s)

TrackingNext ==
    \/ PairSuccess \/ DeviceDeleted \/ Arrives
    \/ \E p \in People : LidLearned(p)
    \/ \E s \in Sources : Handler(s)
    \/ RecoverAppState \/ CoolDownEnds
    \/ Rename \/ PartialSync \/ FetchAppState \/ SyncContacts \/ PhoneAnswers

TrackingSpec == TrackingInit /\ [][TrackingNext]_trackingVars

\* Goroutines are scheduled, patches go on coming, the phone answers.
FairTrackingSpec ==
    /\ TrackingSpec
    /\ \A s \in Sources : WF_trackingVars(Handler(s))
    /\ WF_trackingVars(RecoverAppState) /\ WF_trackingVars(FetchAppState)
    /\ SF_trackingVars(PartialSync) /\ SF_trackingVars(PhoneAnswers)

-----------------------------------------------------------------------------
(* Properties. *)

\* "Resolve LIDs to phone-based JIDs to avoid duplicates" (manager.go:572):
\* nobody has two chats or two contacts.
NoDuplicates ==
    /\ TrackingTypeOK
    /\ \A p \in People : /\ NoRow \in {chats[<<p, "pn">>], chats[<<p, "lid">>]}
                         /\ NoRow \in {contacts[<<p, "pn">>], contacts[<<p, "lid">>]}

\* Rows are "automatically purged when a device is deleted or logged out"
\* (chatstore.go:20), and late handlers write none (wiki/Database-Setup.md:16).
PurgedWithDevice == device = "gone" => chats = NoRows /\ contacts = NoRows

\* Between two successes the handler starts one full sync, and one recovery
\* in 48 hours, on whatever goroutines errors come in (manager.go:547-548).
EscalatesOnce == tried.full <= 1 /\ tried.peer <= 1

\* As long as requests work, patches that cannot be applied are got over:
\* every new failure has "a fresh full-sync -> recovery cycle"
\* (manager.go:681-683).
Repaired == scene.reliable /\ broken # "no" ~> broken = "no" \/ device = "gone"

\* Not true, see README: the last activity is that of the latest message.
ActivityGrows ==
    [][\A j \in JIDs : chats[j] \in Times /\ chats'[j] \in Times => chats'[j] >= chats[j]]_trackingVars

\* Not true, see README: contacts settle on the phone's names.
ContactsSettle ==
    (/\ device = "paired" /\ have = names /\ names # 0 /\ broken = "no"
     /\ \A s \in Sources : handling[s].todo = <<>>
     /\ \E j \in JIDs : contacts[j] # NoRow)
    => \E j \in JIDs : contacts[j] = names
=============================================================================

----------------------------- MODULE HistorySync -----------------------------
(***************************************************************************)
(* History sync of one pairing: the event handler caches the messages the  *)
(* phone sends in wsapi_history_sync_messages and says when the cache is   *)
(* complete; POST /session/flush-history publishes the cache in chunks and *)
(* empties it.  historySync is enabled.  One action is one database call,  *)
(* one call to the publisher, or one section of code between two of them.  *)
(* A behaviour plays one scenario: what the phone sends, who flushes and   *)
(* what may go wrong.                                                      *)
(***************************************************************************)
EXTENDS Naturals, Sequences, FiniteSets, SequencesExt

CONSTANTS
    Chats,             \* chat JIDs, LIDs resolved where that is possible
    Messages,          \* message IDs
    Untracked,         \* chats that are broadcasts or unresolved LIDs
    Unprojectable,     \* messages that do not parse or are not published
    ChunkSize,         \* historySyncChunkSize
    Flushes,           \* concurrent flush requests
    NoChat,
    Scenarios

\* A conversation with messages the phone sends, and a batch of them.
Conversation == [chat: Chats, msgs: Seq(Messages)]
SyncTypes    == {"bootstrap", "recent", "full", "on_demand", "other"}
Batch        == [type: SyncTypes, complete: BOOLEAN, convs: Seq(Conversation)]

Faults == {"early",     \* consumers do not wait for initial_sync_finished
           "store",     \* a database call may return an error
           "publish",   \* a delivery may fail for good
           "context",   \* a flush may take longer than its five minutes
           "expiry",    \* an hour may pass
           "logout",    \* the device may be deleted
           "restart"}   \* the process may crash and start again
Scenario == [history: Seq(Batch),      \* what the phone will send, in order
             flushes: SUBSET Flushes, faults: SUBSET Faults]

ASSUME HistoryAssumption ==
    /\ Scenarios \in Seq(Scenario)
    /\ Untracked \subseteq Chats
    /\ Unprojectable \subseteq Messages
    /\ ChunkSize \in Nat \ {0}
    /\ NoChat \notin Chats

VARIABLES
    scenario,   \* the number of the scenario of this behaviour
    device,     \* "blank", "paired" or "deleted": whatsmeow_device and Store.ID
    rows,       \* table wsapi_history_sync_messages, in the order of id
    expired,    \* rows of the batches 1..expired are past their expire_at
    chats,      \* table wsapi_chats
    sync,       \* the event handler
    once,       \* initialSyncPublished has fired
    flush,      \* progress of each FlushHistory goroutine
    finished,   \* history: initial_sync_finished events of this pairing
    delivered,  \* history: the messages published, with their chats
    panicked    \* history: a goroutine dereferenced the nil device ID

tables  == <<scenario, device, rows, expired, chats>>
handler == <<sync, once, finished>>
vars    == <<tables, handler, flush, delivered, panicked>>

History    == Scenarios[scenario].history
May(fault) == fault \in Scenarios[scenario].faults

Idle    == [pc |-> "idle", batch |-> 0, conv |-> 0]
NoFlush == [pc |-> "idle", late |-> FALSE, todo |-> {}, chat |-> NoChat,
            left |-> <<>>, out |-> <<>>]

CacheRow == [chat: Chats \ Untracked, msgs: Seq(Messages \ Unprojectable) \ {<<>>},
             batch: Nat]
FlushPC  == {"idle", "check", "device", "list", "chat", "publish"}

TypeOK ==
    /\ scenario \in DOMAIN Scenarios
    /\ device \in {"blank", "paired", "deleted"}
    /\ rows \in Seq(CacheRow)
    /\ expired \in 0..Len(History)
    /\ chats \subseteq Chats \ Untracked
    /\ sync \in [pc: {"idle", "cache"}, batch: 0..Len(History), conv: Nat]
    /\ once \in BOOLEAN
    /\ \A f \in Flushes :
         /\ flush[f].pc \in FlushPC /\ flush[f].late \in BOOLEAN
         /\ flush[f].todo \subseteq Chats /\ flush[f].chat \in Chats \cup {NoChat}
         /\ flush[f].left \in Seq(Messages) /\ flush[f].out \in Seq(Seq(Messages))
    /\ finished \in Nat
    /\ delivered \subseteq Chats \X Messages
    /\ panicked \in BOOLEAN

Init ==
    /\ scenario \in DOMAIN Scenarios
    /\ device = "blank" /\ rows = <<>> /\ expired = 0 /\ chats = {}
    /\ sync = Idle /\ once = FALSE /\ finished = 0
    /\ flush = [f \in Flushes |-> NoFlush]
    /\ delivered = {} /\ panicked = FALSE

-----------------------------------------------------------------------------
(* What the code is built from. *)

\* Types whose conversations are tracked and cached.
Tracked(batch) == batch.type \in {"bootstrap", "recent", "full"}

\* The elements of a sequence at some of its positions, in their order.
Picked(seq, positions) ==
    LET taken[n \in 0..Len(seq)] ==
          IF n = 0 THEN <<>>
          ELSE IF n \in positions THEN Append(taken[n - 1], seq[n]) ELSE taken[n - 1]
    IN  taken[Len(seq)]

Projected(msgs) == Picked(msgs, {n \in DOMAIN msgs : msgs[n] \notin Unprojectable})

\* What cacheHistorySyncMessages does not skip.
WorthCaching(conv) == conv.chat \notin Untracked /\ Projected(conv.msgs) # <<>>

Fresh(table) == Picked(table, {n \in DOMAIN table : table[n].batch > expired})

\* HistorySyncStore.Insert: two statements, the error of the first ignored.
\* The foreign key refuses a row of a device that is gone.
Insert(row) ==
    \/ rows' = IF device = "paired" THEN Append(Fresh(rows), row) ELSE rows
    \/ May("store") /\ rows' \in {rows, Fresh(rows), Append(rows, row)}

\* The first occurrence of each element, in order.
Distinct(seq) == Picked(seq, {n \in DOMAIN seq : \A j \in 1..(n - 1) : seq[j] # seq[n]})

\* Mutation: the IDs seen are those of one cached array.
DeduplicatedPerRow(arrays) == FlattenSeq([i \in DOMAIN arrays |-> Distinct(arrays[i])])

\* The messages of one chat, each ID once, in the order of arrival.
Deduplicated(arrays) == Distinct(FlattenSeq(arrays))

\* The arrays of messages GetMessages finds for a chat.
ArraysOf(chat) ==
    LET here == Picked(rows, {n \in DOMAIN rows : rows[n].batch > expired /\ rows[n].chat = chat})
    IN  [i \in DOMAIN here |-> here[i].msgs]

\* The buffer when it is published: full, or what is left.
NextChunk(left) == SubSeq(left, 1, Min({ChunkSize, Len(left)}))

-----------------------------------------------------------------------------
(* The phone and the event handler of initService. *)

\* Pairing: PairSuccess resets the flag of initial_sync_finished.
PairSuccess ==
    /\ device = "blank"
    /\ device' = "paired"
    /\ once' = FALSE
    /\ finished' = 0
    /\ UNCHANGED <<scenario, rows, expired, chats, sync, flush, delivered, panicked>>

\* A batch for tracking: every conversation's chat is upserted, the message
\* cache comes next.
HistorySyncBegin ==
    /\ device = "paired" /\ sync.pc = "idle" /\ sync.batch < Len(History)
    /\ Tracked(History[sync.batch + 1])
    /\ LET convs == History[sync.batch + 1].convs
           new   == {convs[i].chat : i \in DOMAIN convs} \ Untracked
       IN  \/ chats' = chats \cup new
           \/ May("store") /\ \E some \in SUBSET new : chats' = chats \cup some
    /\ sync' = [pc |-> "cache", batch |-> sync.batch + 1, conv |-> 1]
    /\ UNCHANGED <<scenario, device, rows, expired, once, finished, flush, delivered, panicked>>

\* Any other batch: one answered on demand is projected and published as a
\* whole, the rest is dropped.
HistorySyncProjected ==
    /\ device = "paired" /\ sync.pc = "idle" /\ sync.batch < Len(History)
    /\ LET batch == History[sync.batch + 1] IN
       /\ ~Tracked(batch)
       /\ \/ /\ batch.type = "on_demand"
             /\ delivered' = delivered \cup
                  UNION {{batch.convs[i].chat} \X ToSet(Projected(batch.convs[i].msgs)) :
                         i \in DOMAIN batch.convs}
          \/ /\ batch.type = "other" \/ May("publish")
             /\ UNCHANGED delivered
    /\ sync' = [sync EXCEPT !.batch = @ + 1]
    /\ UNCHANGED <<tables, once, finished, flush, panicked>>

\* One turn of the loop of cacheHistorySyncMessages.
CacheConversation ==
    /\ sync.pc = "cache" /\ sync.conv <= Len(History[sync.batch].convs)
    /\ LET conv == History[sync.batch].convs[sync.conv] IN
       IF WorthCaching(conv)
       THEN Insert([chat |-> conv.chat, msgs |-> Projected(conv.msgs),
                    batch |-> sync.batch])
       ELSE rows' = rows
    /\ sync' = [sync EXCEPT !.conv = @ + 1]
    /\ UNCHANGED <<scenario, device, expired, chats, once, finished, flush, delivered, panicked>>

\* Mutation: the event is published before the last conversation is cached.
HistorySyncEndEarly ==
    /\ sync.pc = "cache" /\ sync.conv >= Len(History[sync.batch].convs)
    /\ sync' = [sync EXCEPT !.pc = "idle"]
    /\ IF History[sync.batch].type = "recent" /\ History[sync.batch].complete /\ ~once
       THEN once' = TRUE /\ finished' = finished + 1
       ELSE UNCHANGED <<once, finished>>
    /\ UNCHANGED <<tables, flush, delivered, panicked>>

\* Mutation: nothing remembers that the event was published.
HistorySyncEndAgain ==
    /\ sync.pc = "cache" /\ sync.conv > Len(History[sync.batch].convs)
    /\ sync' = [sync EXCEPT !.pc = "idle"]
    /\ IF History[sync.batch].type = "recent" /\ History[sync.batch].complete
       THEN finished' = finished + 1
       ELSE UNCHANGED finished
    /\ UNCHANGED <<tables, once, flush, delivered, panicked>>

\* The batch is cached.  After a complete RECENT one the event is published,
\* once, whatever becomes of it.
HistorySyncEnd ==
    /\ sync.pc = "cache" /\ sync.conv > Len(History[sync.batch].convs)
    /\ sync' = [sync EXCEPT !.pc = "idle"]
    /\ IF History[sync.batch].type = "recent" /\ History[sync.batch].complete /\ ~once
       THEN /\ once' = TRUE
            /\ \/ finished' = finished + 1
               \/ May("publish") /\ finished' = finished
       ELSE UNCHANGED <<once, finished>>
    /\ UNCHANGED <<tables, flush, delivered, panicked>>

Handler == HistorySyncBegin \/ HistorySyncProjected \/ CacheConversation \/ HistorySyncEnd

-----------------------------------------------------------------------------
(* POST /session/flush-history. *)

\* The handler of the request: 202 and a goroutine with five minutes.
FlushRequest(f) ==
    /\ f \in Scenarios[scenario].flushes /\ flush[f].pc = "idle"
    /\ device = "paired"
    /\ May("early") \/ finished > 0
    /\ flush' = [flush EXCEPT ![f] = [NoFlush EXCEPT !.pc = "check"]]
    /\ UNCHANGED <<tables, handler, delivered, panicked>>

\* "if s.client.Store.ID == nil", in the goroutine.
FlushCheck(f) ==
    /\ flush[f].pc = "check"
    /\ flush' = IF device = "paired" THEN [flush EXCEPT ![f].pc = "device"]
                ELSE [flush EXCEPT ![f] = NoFlush]
    /\ UNCHANGED <<tables, handler, delivered, panicked>>

\* "ourJID := s.client.Store.ID.String()" reads the pointer again.
FlushDevice(f) ==
    /\ flush[f].pc = "device"
    /\ IF device = "paired"
       THEN /\ flush' = [flush EXCEPT ![f].pc = "list"]
            /\ UNCHANGED <<handler, panicked>>
       ELSE /\ panicked' = TRUE
            /\ flush' = [g \in Flushes |-> NoFlush]
            /\ sync' = [sync EXCEPT !.pc = "idle"]
            /\ once' = FALSE
            /\ UNCHANGED finished
    /\ UNCHANGED <<tables, delivered>>

\* ListChats: nothing cached, or an error, ends the flush.
FlushList(f) ==
    /\ flush[f].pc = "list"
    /\ LET cached == {row.chat : row \in {r \in ToSet(rows) : r.batch > expired}} IN
       \/ /\ ~flush[f].late /\ cached # {}
          /\ flush' = [flush EXCEPT ![f].pc = "chat", ![f].todo = cached]
       \/ /\ flush[f].late \/ May("store") \/ cached = {}
          /\ flush' = [flush EXCEPT ![f] = NoFlush]
    /\ UNCHANGED <<tables, handler, delivered, panicked>>

\* Mutation: a chat without messages is tried again.
FlushGetRetries(f) ==
    /\ flush[f].pc = "chat"
    /\ \E chat \in flush[f].todo : \E arrays \in {ArraysOf(chat)} :
         LET left == Deduplicated(arrays)
         IN  /\ ~flush[f].late /\ left # <<>>
             /\ flush' = [flush EXCEPT ![f] = [flush[f] EXCEPT
                  !.todo = @ \ {chat}, !.chat = chat, !.left = left, !.out = <<>>,
                  !.pc = "publish"]]
    /\ UNCHANGED <<tables, handler, delivered, panicked>>

\* GetMessages of the next chat; an error skips the chat.
FlushGet(f) ==
    /\ flush[f].pc = "chat"
    /\ \E chat \in flush[f].todo : \E arrays \in {ArraysOf(chat)} :
         LET left == Deduplicated(arrays)
         IN  \/ /\ ~flush[f].late
                /\ flush' = [flush EXCEPT ![f] = [flush[f] EXCEPT
                     !.todo = @ \ {chat}, !.chat = chat, !.left = left, !.out = <<>>,
                     !.pc = IF left = <<>> THEN "chat" ELSE "publish"]]
             \/ /\ flush[f].late \/ May("store")
                /\ flush' = [flush EXCEPT ![f].todo = @ \ {chat}]
    /\ UNCHANGED <<tables, handler, delivered, panicked>>

\* publishChunk: an error is logged and the loop goes on.
FlushPublish(f) ==
    /\ flush[f].pc = "publish"
    /\ LET chunk == NextChunk(flush[f].left)
           rest  == SubSeq(flush[f].left, Len(chunk) + 1, Len(flush[f].left))
       IN  /\ flush' = [flush EXCEPT ![f] = [flush[f] EXCEPT
                !.left = rest, !.out = Append(@, chunk),
                !.pc = IF rest = <<>> THEN "chat" ELSE "publish"]]
           /\ \/ /\ ~flush[f].late
                 /\ delivered' = delivered \cup ({flush[f].chat} \X ToSet(chunk))
              \/ /\ flush[f].late \/ May("publish")
                 /\ UNCHANGED delivered
    /\ UNCHANGED <<tables, handler, panicked>>

\* Mutation: the clean-up runs on a context of its own.
FlushDeleteLate(f) ==
    /\ flush[f].pc = "chat" /\ flush[f].todo = {}
    /\ rows' = <<>>
    /\ flush' = [flush EXCEPT ![f] = NoFlush]
    /\ UNCHANGED <<scenario, device, expired, chats, handler, delivered, panicked>>

\* DeleteAll, on the context of the flush, whatever was published.
FlushDelete(f) ==
    /\ flush[f].pc = "chat" /\ flush[f].todo = {}
    /\ \/ ~flush[f].late /\ rows' = <<>>
       \/ (flush[f].late \/ May("store")) /\ rows' = rows
    /\ flush' = [flush EXCEPT ![f] = NoFlush]
    /\ UNCHANGED <<scenario, device, expired, chats, handler, delivered, panicked>>

Flush(f) ==
    \/ FlushCheck(f) \/ FlushDevice(f) \/ FlushList(f)
    \/ FlushGet(f) \/ FlushPublish(f) \/ FlushDelete(f)

\* The five minutes are over.
ContextExpires(f) ==
    /\ May("context")
    /\ flush[f].pc # "idle" /\ ~flush[f].late
    /\ flush' = [flush EXCEPT ![f].late = TRUE]
    /\ UNCHANGED <<tables, handler, delivered, panicked>>

-----------------------------------------------------------------------------
(* The world: time, logout, restart. *)

\* An hour after a batch came its rows expire, all at once.
RowsExpire ==
    /\ May("expiry")
    /\ expired < sync.batch
    /\ expired' = expired + 1
    /\ UNCHANGED <<scenario, device, rows, chats, handler, flush, delivered, panicked>>

\* The device is deleted; ON DELETE CASCADE empties its tables.
DeviceDeleted ==
    /\ May("logout")
    /\ device = "paired"
    /\ device' = "deleted" /\ rows' = <<>> /\ chats' = {}
    /\ UNCHANGED <<scenario, expired, handler, flush, delivered, panicked>>

\* The process starts again: goroutines end, the new event handler has a
\* flag of its own, the batch in hand is not sent again.
Restart ==
    /\ May("restart")
    /\ flush' = [f \in Flushes |-> NoFlush]
    /\ sync' = [sync EXCEPT !.pc = "idle"]
    /\ once' = FALSE
    /\ UNCHANGED <<tables, finished, delivered, panicked>>

Next ==
    \/ PairSuccess \/ Handler \/ RowsExpire \/ DeviceDeleted \/ Restart
    \/ \E f \in Flushes : FlushRequest(f) \/ Flush(f) \/ ContextExpires(f)

Spec == Init /\ [][Next]_vars

\* The goroutines are scheduled, and every call they make returns.
FairSpec == Spec /\ WF_vars(Handler) /\ \A f \in Flushes : WF_vars(Flush(f))

-----------------------------------------------------------------------------
(* Properties. *)

\* The messages of a batch that ought to be delivered.
Content(n) ==
    UNION {LET conv == History[n].convs[i]
           IN  IF WorthCaching(conv) THEN {conv.chat} \X ToSet(Projected(conv.msgs)) ELSE {} :
           i \in DOMAIN History[n].convs}

Expected(last) == UNION {Content(n) : n \in {k \in 1..last : Tracked(History[k])}}
Cached         == UNION {{row.chat} \X ToSet(row.msgs) : row \in ToSet(rows)}

\* Batches the handler is done with.
Handled == IF sync.pc = "idle" THEN sync.batch ELSE sync.batch - 1

\* One flush publishes no message of a chat twice, although batches overlap
\* and a chunk may end between two copies; an event carries at least one
\* message and at most historySyncChunkSize, and only the last one of a chat
\* is not full (wiki/History-Sync.md:73).
NoMessageTwice ==
    /\ TypeOK
    /\ \A f \in Flushes :
         /\ IsInjective(FlattenSeq(flush[f].out) \o flush[f].left)
         /\ \A i \in DOMAIN flush[f].out :
              /\ Len(flush[f].out[i]) \in 1..ChunkSize
              /\ i < Len(flush[f].out) => Len(flush[f].out[i]) = ChunkSize

\* Nothing can go wrong but that a flush runs out of time or the device is
\* logged out, and consumers wait as documented.
Documented == Scenarios[scenario].faults \subseteq {"context", "logout"}

\* A message that came with a handled batch is cached until it is published,
\* however many flushes run and run out of time.
NothingLost ==
    Documented /\ device = "paired" => Expected(Handled) \subseteq Cached \cup delivered

\* "The cache is cleared after a successful flush" (wiki/History-Sync.md:133)
\* and after no other: what a flush clears has been delivered.  Not true, see
\* README.md: a publisher that fails does not keep a flush from clearing.
ClearedAfterSuccess ==
    [][\A f \in Flushes : FlushDelete(f) /\ rows' # rows => Cached \subseteq delivered]_vars

\* initial_sync_finished comes when everything sent so far can be flushed.
ReadyToFlush ==
    [][Documented /\ finished' > finished /\ device = "paired"
         => Expected(sync.batch) \subseteq Cached' \cup delivered']_vars

\* It comes once per pairing, however many batches say they are complete.
FinishedOncePerPairing == ~May("restart") => finished <= 1

\* A flush of a device that is logged out meanwhile gives up.
FlushSurvivesLogout == ~panicked

\* Without faults, a flush that starts with a complete cache ends with
\* everything published and the cache empty.
FlushDelivers ==
    \A f \in Flushes :
        Scenarios[scenario].faults = {} /\ flush[f].pc = "check" /\ Handled = Len(History)
        ~> flush[f].pc = "idle" /\ rows = <<>> /\ Expected(Len(History)) \subseteq delivered
=============================================================================

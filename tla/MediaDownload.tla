---------------------------- MODULE MediaDownload ----------------------------
(***************************************************************************)
(* GET /media/download: MediaService.DownloadByID (media.go:58-131) with   *)
(* the slots that all instances share, and the handler that streams the    *)
(* file.  A request decodes its ID, takes a slot, downloads into memory,   *)
(* spills to a file, gives the slot back and streams at the pace of its    *)
(* reader.                                                                 *)
(***************************************************************************)
EXTENDS MediaId, FiniteSets

CONSTANTS
    Requests,      \* callers, each with one request at a time
    Caps,          \* mediaMaxConcurrentDownloads; 0 is no limit
    MaxFileSize,   \* mediaMaxFileSize; 0 is no limit
    FileSizes,     \* sizes of what WhatsApp sends
    Infos,         \* what message events carry
    MediaTypes     \* last fields for which buildDownloadableMessage has a case

ASSUME MediaAssumption ==
    /\ IsFiniteSet(Requests)
    /\ Caps \subseteq Nat /\ MaxFileSize \in Nat /\ FileSizes \subseteq Nat
    /\ Infos \subseteq Info

VARIABLES
    cap,      \* capacity of Manager.mediaDownloadSlots, 0 if it is nil
    slots,    \* items in that channel
    queue,    \* requests blocked in sending to it, in order
    request,  \* where each request is, the info its ID was made from and the
              \* one it was decoded to, the bytes in memory or in its file,
              \* and the HTTP status of its answer, 0 before it is known
    gone      \* requests whose context is cancelled: the caller hung up

vars == <<cap, slots, queue, request, gone>>

Idle == [at |-> "idle", from |-> NoInfo, info |-> NoInfo, size |-> 0, status |-> 0]

TypeOK ==
    /\ cap \in Caps /\ slots \in 0..cap
    /\ queue \in Seq(Requests)
    /\ \A r \in Requests :
         /\ request[r].at \in {"idle", "select", "wait", "download", "spill", "stream", "error"}
         /\ request[r].from \in Infos \cup {NoInfo}
         /\ request[r].info.fileLength \in Nat
         /\ request[r].size \in FileSizes \cup {0}
         /\ request[r].status \in {0, 200, 400, 413, 499}
    /\ gone \subseteq Requests

Init ==
    /\ cap \in Caps /\ slots = 0 /\ queue = <<>>
    /\ request = [r \in Requests |-> Idle]
    /\ gone = {}

At(place) == {r \in Requests : request[r].at = place}
OverLimit(n) == MaxFileSize > 0 /\ n > MaxFileSize

-----------------------------------------------------------------------------
(* What several actions share; "after" is the request table so far. *)

Failed(r, status) == [request EXCEPT ![r] = [Idle EXCEPT !.at = "error", !.status = status]]

\* Mutation: the item is taken out although a blocked sender goes on.
ReleaseTwice(after) ==
    /\ IF cap > 0 /\ queue # <<>>
       THEN /\ request' = [after EXCEPT ![Head(queue)].at = "download"]
            /\ queue' = Tail(queue) /\ slots' = slots - 1
       ELSE /\ request' = after
            /\ queue' = queue
            /\ slots' = IF cap = 0 THEN 0 ELSE slots - 1
    /\ UNCHANGED cap

\* <-m.slots, deferred: the item of the first blocked sender takes the
\* place of the one that is taken out, and that sender goes on.
Release(after) ==
    /\ IF cap > 0 /\ queue # <<>>
       THEN /\ request' = [after EXCEPT ![Head(queue)].at = "download"]
            /\ queue' = Tail(queue) /\ slots' = slots
       ELSE /\ request' = after
            /\ queue' = queue
            /\ slots' = IF cap = 0 THEN 0 ELSE slots - 1
    /\ UNCHANGED cap

\* serviceStatus of an error that DownloadByID has wrapped with %v: nothing
\* is recognised in it, a time-out or a cancellation neither.
WrappedStatus == 400

-----------------------------------------------------------------------------
(* DownloadByID. *)

Supported(info) == info.fields[NumFields] \in MediaTypes

\* The checks before a slot is asked for.
Refusal(info) ==
    IF info = NoInfo THEN 400
    ELSE IF OverLimit(info.fileLength) THEN 413
    ELSE IF ~Supported(info) THEN 400
    ELSE 0

\* A request with the ID of some message event, of which the caller may
\* have lost the end.
Receive(r) ==
    /\ request[r].at = "idle"
    /\ \E from \in Infos : \E n \in 0..Len(EncodeMediaID(from)) :
         LET info == DecodeMediaID(SubSeq(EncodeMediaID(from), 1, n))
         IN IF Refusal(info) = 0
            THEN request' = [request EXCEPT ![r] =
                   [Idle EXCEPT !.at = "select", !.from = from, !.info = info]]
            ELSE request' = Failed(r, Refusal(info))
    /\ UNCHANGED <<cap, slots, queue, gone>>

\* The select takes a slot, also when the context is done as well; without
\* a limit there is no select.
Enter(r) ==
    /\ request[r].at = "select"
    /\ cap > 0 => slots < cap
    /\ request' = [request EXCEPT ![r].at = "download"]
    /\ slots' = IF cap > 0 THEN slots + 1 ELSE slots
    /\ UNCHANGED <<cap, queue, gone>>

Block(r) ==
    /\ request[r].at = "select"
    /\ cap > 0 /\ slots = cap /\ r \notin gone
    /\ request' = [request EXCEPT ![r].at = "wait"]
    /\ queue' = Append(queue, r)
    /\ UNCHANGED <<cap, slots, gone>>

\* Mutation: the deferred receive is set up before the select.
CancelledReleases(r) ==
    /\ r \in gone /\ cap > 0
    /\ \/ request[r].at = "select" /\ queue' = queue
       \/ /\ request[r].at = "wait"
          /\ \E i \in DOMAIN queue : queue[i] = r /\ queue' = RemoveAt(queue, i)
    /\ request' = Failed(r, 499)
    /\ slots' = IF slots > 0 THEN slots - 1 ELSE 0
    /\ UNCHANGED <<cap, gone>>

\* <-ctx.Done() in the select, at once or while it blocks.
Cancelled(r) ==
    /\ r \in gone /\ cap > 0
    /\ \/ request[r].at = "select" /\ queue' = queue
       \/ /\ request[r].at = "wait"
          /\ \E i \in DOMAIN queue : queue[i] = r /\ queue' = RemoveAt(queue, i)
    /\ request' = Failed(r, 499)
    /\ UNCHANGED <<cap, slots, gone>>

Downloaded(r) ==
    /\ request[r].at = "download"
    /\ \E n \in FileSizes :
         request' = [request EXCEPT ![r].at = "spill", ![r].size = n]
    /\ UNCHANGED <<cap, slots, queue, gone>>

\* Mutation: the slot is given back only by those that got their file.
DownloadFailsKeeps(r) ==
    /\ request[r].at = "download"
    /\ request' = Failed(r, WrappedStatus)
    /\ UNCHANGED <<cap, slots, queue, gone>>

\* An error of the network, a caller who has gone, or the end of
\* downloadTimeout.
DownloadFails(r) ==
    /\ request[r].at = "download"
    /\ Release(Failed(r, WrappedStatus))
    /\ UNCHANGED gone

\* The file is too large, or it is written and the handler gets it.
Spill(r) ==
    /\ request[r].at = "spill"
    /\ Release(IF OverLimit(request[r].size)
               THEN Failed(r, 413)
               ELSE [request EXCEPT ![r].at = "stream", ![r].status = 200])
    /\ UNCHANGED gone

\* CreateTemp, Write or Seek fails; a file that exists is closed.
SpillFails(r) ==
    /\ request[r].at = "spill" /\ ~OverLimit(request[r].size)
    /\ Release(Failed(r, 400))
    /\ UNCHANGED gone

-----------------------------------------------------------------------------
(* The handler and the caller. *)

\* The error is written, or io.Copy ends, at the end of the file or of the
\* connection, and the file is closed.
Respond(r) ==
    /\ request[r].at \in {"error", "stream"}
    /\ request' = [request EXCEPT ![r] = Idle]
    /\ gone' = gone \ {r}
    /\ UNCHANGED <<cap, slots, queue>>

HangUp(r) ==
    /\ request[r].at # "idle"
    /\ gone' = gone \cup {r}
    /\ UNCHANGED <<cap, slots, queue, request>>

DownloadByID(r) ==
    \/ Enter(r) \/ Block(r) \/ Cancelled(r)
    \/ Downloaded(r) \/ DownloadFails(r) \/ Spill(r) \/ SpillFails(r)

Next == \E r \in Requests : Receive(r) \/ DownloadByID(r) \/ Respond(r) \/ HangUp(r)

Spec == Init /\ [][Next]_vars

\* A goroutine in DownloadByID goes on, and a download ends with its
\* time-out if not before.  Nothing is asked of readers.
FairSpec ==
    /\ Spec
    /\ \A r \in Requests :
         /\ WF_vars(Enter(r) \/ Block(r) \/ Cancelled(r))
         /\ WF_vars(Downloaded(r) \/ DownloadFails(r))
         /\ WF_vars(Spill(r) \/ SpillFails(r))

-----------------------------------------------------------------------------
(* Properties. *)

\* A slot is taken exactly for each download in progress: none is lost or
\* given back twice on any way out of DownloadByID (media.go:74-81).
SlotPerDownload ==
    /\ TypeOK
    /\ cap > 0 => slots = Cardinality(At("download") \cup At("spill"))

\* A request works on what its message event was about: IDs survive the
\* encoding, and one that lost its end is never taken for another.
WorksOnWhatWasSent ==
    \A r \in Requests : request[r].info = request[r].from

\* Nobody waits for a slot for ever, even if no reader ever reads: a slot is
\* free again before the file is streamed (media.go:77).
EveryoneServed ==
    \A r \in Requests : request[r].at \in {"select", "wait", "download", "spill"}
                            ~> request[r].at \in {"stream", "error"}

\* The slots are a limiter: never more downloads than configured, and those
\* who wait are served in order (manager.go:45-51, media.go:74-81).
limiter == INSTANCE Limiter WITH
    Callers <- Requests, line <- queue, busy <- At("download") \cup At("spill")
IsLimiter == limiter!Spec
=============================================================================

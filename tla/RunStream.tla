------------------------------ MODULE RunStream ------------------------------
(***************************************************************************)
(* The status of one run and those who watch it: CreateRun and             *)
(* UpdateRunStatus of handlers/execution_handler.go write it to Postgres,  *)
(* then to the Redis cache, then to the run's pub/sub channel              *)
(* (redisstate/state.go), and StreamExecution of                           *)
(* handlers/websocket_handler.go serves websocket clients from the cache   *)
(* first and from the channel after that.                                  *)
(*                                                                         *)
(* Delivery is at most once: Redis forgets an event when it has sent it,   *)
(* and the Go channel of a subscription has a bounded number of places.    *)
(* An event is known by its position in the log.                           *)
(***************************************************************************)
EXTENDS Naturals, Sequences

CONSTANTS
    Writers,        \* one-shot identities of UpdateRunStatus requests
    Clients,        \* one-shot identities of websocket connections
    Nothing,        \* no row, no cached value
    Buffer,         \* places in the channel of a subscription, 100 in go-redis
    MaxStepEvents,  \* bound: step events other handlers publish
    MaxLosses       \* bound: statements and commands that fail, expiries, losses

ASSUME StreamAssumption ==
    /\ Buffer \in Nat \ {0}
    /\ MaxStepEvents \in Nat /\ MaxLosses \in Nat

VARIABLES
    db,             \* execution_runs.status
    cache,          \* integradock:run_state:<id>
    wpc,            \* the statement each writer stands before
    wstatus,        \* the status each writer writes
    log,            \* history: all the events published, in order
    whole,          \* history: the last status change was alone and lost nothing
    client,         \* stage of each connection
    snapshot,       \* the cached status a client was sent
    asked,          \* history: length of log when a client got its snapshot
    from,           \* history: length of log when it subscribed
    wire,           \* events Redis has sent to a subscription
    inbox,          \* events in its channel
    seen,           \* events written to the websocket
    losses          \* number of losses so far

runVars == <<db, cache, wpc, wstatus, log, whole>>
clientVars == <<client, snapshot, asked, from, wire, inbox, seen>>
streamVars == <<runVars, clientVars, losses>>

------------------------------------------------------------------------------

Statuses == {"awaiting_confirmation", "completed", "failed"}
Terminal == {"completed", "failed"}
Creator == "creator"
AllWriters == Writers \cup {Creator}

\* A step event of the run is a message like any other to the loop.
StepEvent == "step"
Events == Statuses \cup {StepEvent}

Positions == 1..Len(log)

StreamTypeOK ==
    /\ db \in Statuses \cup {"pending", Nothing}
    /\ cache \in Statuses \cup {"pending", Nothing}
    /\ wpc \in [AllWriters -> {"unsent", "set_cache", "publish", "done"}]
    /\ wstatus \in [AllWriters -> Statuses \cup {"pending"}]
    /\ log \in Seq(Events)
    /\ whole \in BOOLEAN
    /\ client \in [Clients -> {"idle", "subscribe", "stream", "closed"}]
    /\ snapshot \in [Clients -> Statuses \cup {"pending", Nothing}]
    /\ asked \in [Clients -> 0..Len(log)] /\ from \in [Clients -> 0..Len(log)]
    /\ wire \in [Clients -> Seq(Positions)]
    /\ inbox \in [Clients -> Seq(Positions)]
    /\ \A c \in Clients : Len(inbox[c]) <= Buffer
    /\ seen \in [Clients -> Seq(Positions)]
    /\ losses \in 0..MaxLosses

StreamInit ==
    /\ db = Nothing
    /\ cache = Nothing
    /\ wpc = [w \in AllWriters |-> "unsent"]
    /\ wstatus = [w \in AllWriters |-> "pending"]
    /\ log = <<>>
    /\ whole = TRUE
    /\ client = [c \in Clients |-> "idle"]
    /\ snapshot = [c \in Clients |-> Nothing]
    /\ asked = [c \in Clients |-> 0] /\ from = [c \in Clients |-> 0]
    /\ wire = [c \in Clients |-> <<>>]
    /\ inbox = [c \in Clients |-> <<>>]
    /\ seen = [c \in Clients |-> <<>>]
    /\ losses = 0

AtWork == {w \in AllWriters : wpc[w] \in {"set_cache", "publish"}}
Loses == losses < MaxLosses /\ losses' = losses + 1
Step(w, stage) == wpc' = [wpc EXCEPT ![w] = stage]

\* The id of a run is known to nobody before CreateRun answered.
IdKnown == wpc[Creator] = "done"

------------------------------------------------------------------------------
(* CreateRun and UpdateRunStatus *)

\* (slip) CreateRun publishes its status like UpdateRunStatus.
AlwaysPublish(w, stage) ==
    CASE stage = "unsent"    -> "set_cache"
      [] stage = "set_cache" -> "publish"
      [] stage = "publish"   -> "done"

\* (slip) A status is published before it is cached.
PublishesFirst(w, stage) ==
    CASE stage = "unsent"    -> IF w = Creator THEN "set_cache" ELSE "publish"
      [] stage = "publish"   -> "set_cache"
      [] stage = "set_cache" -> "done"

\* What a handler goes on with: CreateRun has nothing to publish.
After(w, stage) ==
    CASE stage = "unsent"    -> "set_cache"
      [] stage = "set_cache" -> IF w = Creator THEN "done" ELSE "publish"
      [] stage = "publish"   -> "done"

\* A run that could not be inserted is one that nobody knows.
InsertRun ==
    /\ wpc[Creator] = "unsent"
    /\ db' = "pending"
    /\ Step(Creator, After(Creator, "unsent"))
    /\ UNCHANGED <<cache, wstatus, log, whole, clientVars, losses>>

UpdateRow(w, status) ==
    /\ w # Creator /\ IdKnown
    /\ wpc[w] = "unsent"
    /\ db' = status
    /\ wstatus' = [wstatus EXCEPT ![w] = status]
    /\ Step(w, After(w, "unsent"))
    /\ whole' = (AtWork = {})
    /\ UNCHANGED <<cache, log, clientVars, losses>>

\* The UPDATE fails, or takes effect though its acknowledgement is lost: the handler
\* answers 404, and neither caches nor publishes.
UpdateRowFails(w, status) ==
    /\ w # Creator /\ IdKnown
    /\ wpc[w] = "unsent"
    /\ Loses
    /\ db' \in {db, status}
    /\ Step(w, "done")
    /\ whole' = (whole /\ db' = db)
    /\ UNCHANGED <<cache, wstatus, log, clientVars>>

\* (slip) The cache is written at creation only.
CacheLeft(w) == IF w = Creator THEN wstatus[w] ELSE cache

CacheWritten(w) == wstatus[w]

\* SetRunState; its error is ignored.
SetRunState(w) ==
    /\ wpc[w] = "set_cache"
    /\ \/ cache' = CacheWritten(w) /\ UNCHANGED <<whole, losses>>
       \/ Loses /\ whole' = FALSE /\ UNCHANGED cache
    /\ Step(w, After(w, "set_cache"))
    /\ UNCHANGED <<db, wstatus, log, clientVars>>

\* Redis sends the event to whoever is subscribed at that moment.
Broadcast(event) ==
    /\ log' = Append(log, event)
    /\ wire' = [c \in Clients |->
                   IF client[c] = "stream" THEN Append(wire[c], Len(log')) ELSE wire[c]]

\* Publish; its error is ignored.
PublishStatus(w) ==
    /\ wpc[w] = "publish"
    /\ \/ Broadcast(wstatus[w]) /\ UNCHANGED <<whole, losses>>
       \/ Loses /\ whole' = FALSE /\ UNCHANGED <<log, wire>>
    /\ Step(w, After(w, "publish"))
    /\ UNCHANGED <<db, cache, wstatus, client, snapshot, asked, from, inbox, seen>>

\* The step handlers publish on the same channel.
PublishStep ==
    /\ IdKnown
    /\ Len(SelectSeq(log, LAMBDA e : e = StepEvent)) < MaxStepEvents
    /\ Broadcast(StepEvent)
    /\ UNCHANGED <<db, cache, wpc, wstatus, whole, client, snapshot, asked, from, inbox,
                   seen, losses>>

\* The hour of the cached value is over.
Expire ==
    /\ cache # Nothing
    /\ Loses
    /\ cache' = Nothing
    /\ UNCHANGED <<db, wpc, wstatus, log, whole, clientVars>>

------------------------------------------------------------------------------
(* StreamExecution *)

\* The cached status is read and sent before the subscription exists.  If Redis has
\* none, or does not answer, nothing is sent.
GetRunState(c) ==
    /\ client[c] = "idle" /\ IdKnown
    /\ \/ snapshot' = [snapshot EXCEPT ![c] = cache] /\ UNCHANGED losses
       \/ Loses /\ UNCHANGED snapshot
    /\ asked' = [asked EXCEPT ![c] = Len(log)]
    /\ client' = [client EXCEPT ![c] = "subscribe"]
    /\ UNCHANGED <<runVars, from, wire, inbox, seen>>

\* Redis has got the SUBSCRIBE, which nobody waits for.
Subscribe(c) ==
    /\ client[c] = "subscribe"
    /\ client' = [client EXCEPT ![c] = "stream"]
    /\ from' = [from EXCEPT ![c] = Len(log)]
    /\ UNCHANGED <<runVars, snapshot, asked, wire, inbox, seen, losses>>

\* go-redis puts the next event into the channel, if there is a place.
Receive(c) ==
    /\ client[c] = "stream"
    /\ wire[c] # <<>> /\ Len(inbox[c]) < Buffer
    /\ inbox' = [inbox EXCEPT ![c] = Append(@, Head(wire[c]))]
    /\ wire' = [wire EXCEPT ![c] = Tail(@)]
    /\ UNCHANGED <<runVars, client, snapshot, asked, from, seen, losses>>

\* If there was none for a minute, it drops the event.
Drop(c) ==
    /\ client[c] = "stream"
    /\ wire[c] # <<>> /\ Len(inbox[c]) = Buffer
    /\ Loses
    /\ wire' = [wire EXCEPT ![c] = Tail(@)]
    /\ UNCHANGED <<runVars, client, snapshot, asked, from, inbox, seen>>

\* The connection to Redis breaks and go-redis subscribes anew: what was on its way,
\* or was published meanwhile, is lost.
Reconnect(c) ==
    /\ client[c] = "stream" /\ wire[c] # <<>>
    /\ Loses
    /\ wire' = [wire EXCEPT ![c] = <<>>]
    /\ UNCHANGED <<runVars, client, snapshot, asked, from, inbox, seen>>

\* (slip) The loop waits for the client to leave.
NeverCloses(event) == FALSE

Closes(event) == event \in Terminal

\* One round of the loop: the next event is written to the socket.
Forward(c) ==
    /\ client[c] = "stream" /\ inbox[c] # <<>>
    /\ seen' = [seen EXCEPT ![c] = Append(@, Head(inbox[c]))]
    /\ inbox' = [inbox EXCEPT ![c] = Tail(@)]
    /\ client' = [client EXCEPT ![c] = IF Closes(log[Head(inbox[c])]) THEN "closed" ELSE @]
    /\ UNCHANGED <<runVars, snapshot, asked, from, wire, losses>>

\* The reader goroutine, or a failed write, finds that the client is gone.
Leave(c) ==
    /\ client[c] = "stream"
    /\ Loses
    /\ client' = [client EXCEPT ![c] = "closed"]
    /\ UNCHANGED <<runVars, snapshot, asked, from, wire, inbox, seen>>

------------------------------------------------------------------------------

Write(w) == SetRunState(w) \/ PublishStatus(w)
Serve(c) == Subscribe(c) \/ Receive(c) \/ Forward(c)
Disturb(c) == Drop(c) \/ Reconnect(c) \/ Leave(c)

StreamNext ==
    \/ InsertRun
    \/ \E w \in Writers, status \in Statuses : UpdateRow(w, status) \/ UpdateRowFails(w, status)
    \/ \E w \in AllWriters : Write(w)
    \/ PublishStep \/ Expire
    \/ \E c \in Clients : GetRunState(c) \/ Serve(c) \/ Disturb(c)

StreamSpec == StreamInit /\ [][StreamNext]_streamVars

\* Handlers that can go on do, and a client reads what is written to it, or is found
\* to be gone: the write has no deadline.  No one has to write, connect or leave.
StreamFairness ==
    /\ \A w \in AllWriters : WF_streamVars(Write(w))
    /\ \A c \in Clients : WF_streamVars(Serve(c))

FairStreamSpec == StreamSpec /\ StreamFairness

------------------------------------------------------------------------------
(* Properties *)

Quiet == AtWork = {} /\ db # Nothing

\* The event at i is the last status change published.
Final(i) == log[i] # StepEvent /\ \A j \in i + 1..Len(log) : log[j] = StepEvent

\* One PATCH that no other overlaps, and of which nothing is lost, puts right whatever
\* went wrong before: when nobody writes, the cache says what the row says, unless it
\* has expired, and so does the last event.
SerialWritersAgree ==
    (Quiet /\ whole) =>
        /\ cache \in {db, Nothing}
        /\ \A i \in Positions : Final(i) => log[i] = db

\* The last status change came between the snapshot of c and its subscription.
Raced(c) == \E i \in asked[c] + 1..from[c] : Final(i)

\* It was lost on its way to c.
Missed(c) ==
    \E i \in from[c] + 1..Len(log) : Final(i) /\ \A j \in DOMAIN seen[c] : seen[c][j] # i

\* The last status c was told is status; Nothing if it was told none.
ToldLast(c, status) ==
    \/ \E i \in DOMAIN seen[c] :
          /\ log[seen[c][i]] = status
          /\ \A j \in i + 1..Len(seen[c]) : log[seen[c][j]] = StepEvent
    \/ /\ snapshot[c] = status
       /\ \A i \in DOMAIN seen[c] : log[seen[c][i]] = StepEvent

\* After such a PATCH a client that was sent all there is to send holds a status other
\* than that of the row for two reasons only: the event was lost on its way, or it
\* came between snapshot and subscription, which the handler makes in the wrong order.
\* That every status is cached before it is published is what leaves no third one.
StaleOnlyIf ==
    (Quiet /\ whole) =>
        \A c \in Clients :
            (client[c] = "stream" /\ wire[c] = <<>> /\ inbox[c] = <<>>)
                => Raced(c) \/ Missed(c) \/ ToldLast(c, db) \/ ToldLast(c, Nothing)

\* A terminal status that reached the channel of a subscription ends the stream.
TerminalEndsStream ==
    \A c \in Clients :
        (\E i \in DOMAIN inbox[c] : log[inbox[c][i]] \in Terminal) ~> (client[c] = "closed")

------------------------------------------------------------------------------
(* What comments of the code say of it, and it does not do *)

\* websocket_handler.go:49-50 says that a client that connects mid-run is not stuck
\* waiting for the next event: when the run is over and nothing is on its way,
\* it would have been told so.
NotStuck ==
    \A c \in Clients :
        (/\ client[c] = "stream" /\ wire[c] = <<>> /\ inbox[c] = <<>>
         /\ \A w \in AllWriters : wpc[w] = "done"
         /\ db \in Terminal /\ losses = 0 /\ whole)
        => snapshot[c] = db \/ \E i \in DOMAIN seen[c] : log[seen[c][i]] = db

=============================================================================

--------------------------- MODULE RunStreamProofs ---------------------------
(***************************************************************************)
(* Theorems about RunStream, for every set of PATCHes and of websocket     *)
(* clients, every capacity of the channel, every number of step events and *)
(* of losses: what writers that do not overlap leave behind, and why a     *)
(* client may hold a status that is not that of the row.                   *)
(***************************************************************************)
EXTENDS RunStream, SequenceTheorems, TLAPS

------------------------------------------------------------------------------
(* The invariant *)

Rising(s) == \A i, j \in DOMAIN s : i < j => s[i] < s[j]
Below(s, t) == \A i \in DOMAIN s, j \in DOMAIN t : s[i] < t[j]
Above(n, s) == \A i \in DOMAIN s : n < s[i]

\* What reached a client, waits in its channel and is on its way to it is what was
\* published since it subscribed, with gaps, but in order and never twice.
Ordered(c) ==
    /\ client[c] = "idle" => snapshot[c] = Nothing
    /\ client[c] \in {"idle", "subscribe"} =>
           seen[c] = <<>> /\ inbox[c] = <<>> /\ wire[c] = <<>>
    /\ client[c] = "stream" => asked[c] <= from[c]
    /\ Rising(seen[c]) /\ Rising(inbox[c]) /\ Rising(wire[c])
    /\ Below(seen[c], inbox[c]) /\ Below(seen[c], wire[c]) /\ Below(inbox[c], wire[c])
    /\ Above(from[c], seen[c]) /\ Above(from[c], inbox[c]) /\ Above(from[c], wire[c])

\* A request that has updated the row has a status to cache and to publish.
WriterOK(w) ==
    wpc[w] \in {"set_cache", "publish"} /\ w # Creator => wstatus[w] \in Statuses

\* While the run is being created nobody else knows of it.
Creating ==
    /\ wpc[Creator] # "publish" /\ wstatus[Creator] = "pending"
    /\ ~ IdKnown =>
           /\ log = <<>>
           /\ \A w \in Writers \ {Creator} : wpc[w] = "unsent"
           /\ \A c \in Clients : client[c] = "idle"
    /\ wpc[Creator] = "unsent" => db = Nothing

\* The last status change of the log, if there is one.
HasFinal == (\A i \in Positions : log[i] = StepEvent) \/ \E i \in Positions : Final(i)

\* As long as nothing is lost, the one at work carries the status of the row, and
\* leaves it in the cache before it is published.
Serial ==
    whole =>
        /\ \A v, w \in AtWork : v = w
        /\ \A w \in AtWork : wstatus[w] = db
        /\ \A w \in AllWriters : wpc[w] = "publish" => cache \in {db, Nothing}
        /\ AtWork = {} =>
              /\ cache \in {db, Nothing}
              /\ \A i \in Positions : Final(i) => log[i] = db

\* A client that has missed no status change since its snapshot was sent that of
\* the row, or none.
Current(c) ==
    (/\ client[c] \in {"subscribe", "stream"}
     /\ whole /\ AtWork = {}
     /\ \A i \in asked[c] + 1..Len(log) : log[i] = StepEvent)
    => snapshot[c] \in {db, Nothing}

StreamInv ==
    /\ StreamTypeOK
    /\ \A c \in Clients : Ordered(c)
    /\ \A w \in AllWriters : WriterOK(w)
    /\ Creating
    /\ HasFinal
    /\ Serial
    /\ \A c \in Clients : Current(c)

------------------------------------------------------------------------------
(* Sequences *)

LEMMA SeqWiden ==
    ASSUME NEW S, NEW T, S \subseteq T, NEW s \in Seq(S)
    PROVE  s \in Seq(T)
OBVIOUS

\* The head of t is moved to the end of s: everything stays in order.
LEMMA Moved ==
    ASSUME NEW s \in Seq(Nat), NEW t \in Seq(Nat), t # <<>>,
           Rising(s), Rising(t), Below(s, t), NEW n \in Nat, Above(n, s), Above(n, t)
    PROVE  /\ Rising(Append(s, Head(t))) /\ Rising(Tail(t))
           /\ Below(Append(s, Head(t)), Tail(t))
           /\ Above(n, Append(s, Head(t))) /\ Above(n, Tail(t))
           /\ \A u \in Seq(Nat) :
                 /\ Below(u, s) /\ Below(u, t) =>
                        Below(u, Append(s, Head(t))) /\ Below(u, Tail(t))
                 /\ Below(s, u) /\ Below(t, u) =>
                        Below(Append(s, Head(t)), u) /\ Below(Tail(t), u)
<1> DEFINE a == Append(s, Head(t))
           b == Tail(t)
<1>1. /\ Len(s) \in Nat /\ Len(t) \in Nat \ {0} /\ DOMAIN s = 1..Len(s) /\ DOMAIN t = 1..Len(t)
      /\ \A i \in 1..Len(s) : s[i] \in Nat
      /\ \A i \in 1..Len(t) : t[i] \in Nat
  OBVIOUS
<1>2. /\ DOMAIN a = 1..Len(s) + 1 /\ a[Len(s) + 1] = t[1]
      /\ \A i \in 1..Len(s) : a[i] = s[i]
  BY HeadTailProperties
<1>3. /\ DOMAIN b = 1..Len(t) - 1
      /\ \A i \in 1..Len(t) - 1 : b[i] = t[i + 1]
  BY HeadTailProperties
<1> HIDE DEF a, b
<1>4. \A i \in DOMAIN a : \/ i \in DOMAIN s /\ a[i] = s[i]
                          \/ i = Len(s) + 1 /\ 1 \in DOMAIN t /\ a[i] = t[1]
  BY <1>1, <1>2
<1>5. \A i \in DOMAIN b : i \in Int /\ 1 < i + 1 /\ i + 1 \in DOMAIN t /\ b[i] = t[i + 1]
  BY <1>1, <1>3
<1>6. Rising(a)
  <2> SUFFICES ASSUME NEW i \in DOMAIN a, NEW j \in DOMAIN a, i < j PROVE a[i] < a[j]
    BY DEF Rising
  <2>1. i \in DOMAIN s /\ a[i] = s[i]
    BY <1>1, <1>2, <1>4
  <2>2. CASE j \in DOMAIN s /\ a[j] = s[j]
    BY <2>1, <2>2 DEF Rising
  <2>3. CASE 1 \in DOMAIN t /\ a[j] = t[1]
    BY <2>1, <2>3 DEF Below
  <2>4. QED BY <1>4, <2>2, <2>3
<1>7. Rising(b)
  <2> SUFFICES ASSUME NEW i \in DOMAIN b, NEW j \in DOMAIN b, i < j PROVE b[i] < b[j]
    BY DEF Rising
  <2>1. i + 1 < j + 1
    BY <1>5
  <2>2. QED BY <1>5, <2>1 DEF Rising
<1>8. Below(a, b)
  <2> SUFFICES ASSUME NEW i \in DOMAIN a, NEW j \in DOMAIN b PROVE a[i] < b[j]
    BY DEF Below
  <2>1. CASE i \in DOMAIN s /\ a[i] = s[i]
    BY <1>5, <2>1 DEF Below
  <2>2. CASE 1 \in DOMAIN t /\ a[i] = t[1]
    BY <1>5, <2>2 DEF Rising
  <2>3. QED BY <1>4, <2>1, <2>2
<1>9. Above(n, a) /\ Above(n, b)
  BY <1>4, <1>5 DEF Above
<1>10. ASSUME NEW u \in Seq(Nat), Below(u, s), Below(u, t)
       PROVE  Below(u, a) /\ Below(u, b)
  <2>1. ASSUME NEW i \in DOMAIN u, NEW j \in DOMAIN a PROVE u[i] < a[j]
    BY <1>4, <1>10 DEF Below
  <2>2. ASSUME NEW i \in DOMAIN u, NEW j \in DOMAIN b PROVE u[i] < b[j]
    BY <1>5, <1>10 DEF Below
  <2>3. QED BY <2>1, <2>2 DEF Below
<1>11. ASSUME NEW u \in Seq(Nat), Below(s, u), Below(t, u)
       PROVE  Below(a, u) /\ Below(b, u)
  <2>1. ASSUME NEW i \in DOMAIN a, NEW j \in DOMAIN u PROVE a[i] < u[j]
    BY <1>4, <1>11 DEF Below
  <2>2. ASSUME NEW i \in DOMAIN b, NEW j \in DOMAIN u PROVE b[i] < u[j]
    BY <1>5, <1>11 DEF Below
  <2>3. QED BY <2>1, <2>2 DEF Below
<1>12. QED BY <1>6, <1>7, <1>8, <1>9, <1>10, <1>11 DEF a, b

\* Something new is put at the end of t.
LEMMA Added ==
    ASSUME NEW t \in Seq(Nat), NEW n \in Nat, Rising(t), \A i \in DOMAIN t : t[i] < n
    PROVE  /\ Rising(Append(t, n))
           /\ \A u \in Seq(Nat) :
                 Below(u, t) /\ (\A i \in DOMAIN u : u[i] < n) => Below(u, Append(t, n))
           /\ \A f \in Nat : Above(f, t) /\ f < n => Above(f, Append(t, n))
<1> DEFINE a == Append(t, n)
<1>1. /\ Len(t) \in Nat /\ DOMAIN t = 1..Len(t) /\ \A i \in 1..Len(t) : t[i] \in Nat
      /\ DOMAIN a = 1..Len(t) + 1 /\ a[Len(t) + 1] = n /\ \A i \in 1..Len(t) : a[i] = t[i]
  OBVIOUS
<1> HIDE DEF a
<1>2. Rising(a)
  BY <1>1 DEF Rising
<1>3. ASSUME NEW u \in Seq(Nat), Below(u, t), \A i \in DOMAIN u : u[i] < n
      PROVE  Below(u, a)
  BY <1>1, <1>3 DEF Below
<1>4. ASSUME NEW f \in Nat, Above(f, t), f < n
      PROVE  Above(f, a)
  BY <1>1, <1>4 DEF Above
<1>5. QED BY <1>2, <1>3, <1>4 DEF a

------------------------------------------------------------------------------
(* Initial states *)

LEMMA StreamInvInit == StreamInit => StreamInv
<1> SUFFICES ASSUME StreamInit PROVE StreamInv
  OBVIOUS
<1>1. StreamTypeOK
  BY StreamAssumption DEF StreamInit, StreamTypeOK
<1>2. \A c \in Clients : Ordered(c)
  BY DEF StreamInit, Ordered, Rising, Below, Above
<1>3. \A w \in AllWriters : WriterOK(w)
  BY DEF StreamInit, WriterOK
<1>4. Creating /\ HasFinal
  BY DEF StreamInit, Creating, IdKnown, HasFinal, Positions, AllWriters
<1>5. Serial /\ \A c \in Clients : Current(c)
  BY DEF StreamInit, Serial, Current, AtWork, Positions
<1>6. QED BY <1>1, <1>2, <1>3, <1>4, <1>5 DEF StreamInv

------------------------------------------------------------------------------
(* Types *)

\* Queues of positions are sequences of numbers no greater than the length of the log.
LEMMA QueuesTyped ==
    ASSUME StreamTypeOK, NEW c \in Clients
    PROVE  /\ seen[c] \in Seq(Nat) /\ inbox[c] \in Seq(Nat) /\ wire[c] \in Seq(Nat)
           /\ \A i \in DOMAIN seen[c] : seen[c][i] \in Positions
           /\ \A i \in DOMAIN inbox[c] : inbox[c][i] \in Positions
           /\ \A i \in DOMAIN wire[c] : wire[c][i] \in Positions
           /\ Len(log) \in Nat /\ from[c] \in 0..Len(log) /\ asked[c] \in 0..Len(log)
<1>1. /\ seen[c] \in Seq(Positions) /\ inbox[c] \in Seq(Positions) /\ wire[c] \in Seq(Positions)
      /\ Len(log) \in Nat /\ from[c] \in 0..Len(log) /\ asked[c] \in 0..Len(log)
  BY DEF StreamTypeOK
<1>2. Positions \subseteq Nat
  BY DEF Positions
<1>3. seen[c] \in Seq(Nat) /\ inbox[c] \in Seq(Nat) /\ wire[c] \in Seq(Nat)
  BY <1>1, <1>2, SeqWiden
<1>4. QED BY <1>1, <1>3

\* An event is published to a log and to subscriptions that are well typed.
LEMMA BroadcastTyped ==
    ASSUME StreamTypeOK, NEW event \in Events, Broadcast(event),
           UNCHANGED <<client, asked, from, inbox, seen>>
    PROVE  /\ log' \in Seq(Events) /\ Len(log') = Len(log) + 1 /\ log'[Len(log) + 1] = event
           /\ \A i \in Positions : log'[i] = log[i]
           /\ asked' \in [Clients -> 0..Len(log')] /\ from' \in [Clients -> 0..Len(log')]
           /\ wire' \in [Clients -> Seq(Positions')] /\ inbox' \in [Clients -> Seq(Positions')]
           /\ seen' \in [Clients -> Seq(Positions')]
<1>1. /\ log' \in Seq(Events) /\ Len(log') = Len(log) + 1 /\ log'[Len(log) + 1] = event
      /\ \A i \in Positions : log'[i] = log[i]
      /\ Len(log) \in Nat
  BY DEF Broadcast, StreamTypeOK, Positions
<1>2. Positions \subseteq Positions' /\ Len(log') \in Positions'
  BY <1>1 DEF Positions
<1>3. asked' \in [Clients -> 0..Len(log')] /\ from' \in [Clients -> 0..Len(log')]
  BY <1>1 DEF StreamTypeOK
<1>4. ASSUME NEW c \in Clients
      PROVE  /\ wire[c] \in Seq(Positions') /\ inbox[c] \in Seq(Positions')
             /\ seen[c] \in Seq(Positions')
  <2>1. /\ wire[c] \in Seq(Positions) /\ inbox[c] \in Seq(Positions)
        /\ seen[c] \in Seq(Positions)
    BY DEF StreamTypeOK
  <2>2. QED BY <1>2, <2>1, SeqWiden
<1>5. inbox' \in [Clients -> Seq(Positions')] /\ seen' \in [Clients -> Seq(Positions')]
  BY <1>4 DEF StreamTypeOK
<1>6. wire' \in [Clients -> Seq(Positions')]
  BY <1>2, <1>4 DEF Broadcast
<1>7. QED BY <1>1, <1>3, <1>5, <1>6

LEMMA LosesTyped ==
    ASSUME StreamTypeOK, Loses \/ UNCHANGED losses
    PROVE  losses' \in 0..MaxLosses
BY StreamAssumption DEF StreamTypeOK, Loses

\* Rows and cache are written.
LEMMA WritesTyped ==
    ASSUME StreamInv,
           \/ InsertRun \/ Expire
           \/ \E w \in Writers, status \in Statuses : UpdateRow(w, status) \/ UpdateRowFails(w, status)
           \/ \E w \in AllWriters : SetRunState(w)
    PROVE  StreamTypeOK'
<1>1. UNCHANGED <<log, clientVars>> /\ losses' \in 0..MaxLosses
  BY LosesTyped DEF StreamInv, InsertRun, Expire, UpdateRow, UpdateRowFails, SetRunState
<1>2. UNCHANGED Positions
  BY <1>1 DEF Positions
<1>3. ASSUME /\ db' \in Statuses \cup {"pending", Nothing}
             /\ cache' \in Statuses \cup {"pending", Nothing}
             /\ wpc' \in [AllWriters -> {"unsent", "set_cache", "publish", "done"}]
             /\ wstatus' \in [AllWriters -> Statuses \cup {"pending"}]
             /\ whole' \in BOOLEAN
      PROVE  StreamTypeOK'
  BY <1>1, <1>2, <1>3 DEF clientVars, StreamInv, StreamTypeOK
<1>4. Creator \in AllWriters /\ Writers \subseteq AllWriters
  BY DEF AllWriters
<1>5. CASE InsertRun
  BY <1>3, <1>4, <1>5 DEF InsertRun, After, Step, StreamInv, StreamTypeOK
<1>6. CASE Expire
  BY <1>3, <1>6 DEF Expire, StreamInv, StreamTypeOK
<1>7. ASSUME NEW w \in Writers, NEW status \in Statuses, UpdateRow(w, status)
      PROVE  StreamTypeOK'
  BY <1>3, <1>4, <1>7 DEF UpdateRow, After, Step, StreamInv, StreamTypeOK
<1>8. ASSUME NEW w \in Writers, NEW status \in Statuses, UpdateRowFails(w, status)
      PROVE  StreamTypeOK'
  BY <1>3, <1>4, <1>8 DEF UpdateRowFails, Step, StreamInv, StreamTypeOK
<1>9. ASSUME NEW w \in AllWriters, SetRunState(w)
      PROVE  StreamTypeOK'
  BY <1>3, <1>9 DEF SetRunState, CacheWritten, After, Step, StreamInv, StreamTypeOK
<1>10. QED BY <1>5, <1>6, <1>7, <1>8, <1>9

\* An event is published, or lost before it reaches the channel.
LEMMA PublishesTyped ==
    ASSUME StreamInv, PublishStep \/ \E w \in AllWriters : PublishStatus(w)
    PROVE  StreamTypeOK'
<1>1. CASE PublishStep
  <2>1. StepEvent \in Events /\ StreamTypeOK
    BY DEF Events, StreamInv
  <2>2. UNCHANGED <<db, cache, wpc, wstatus, whole, client, snapshot, asked, from, inbox,
                    seen, losses>> /\ Broadcast(StepEvent)
    BY <1>1 DEF PublishStep
  <2>3. /\ log' \in Seq(Events)
        /\ asked' \in [Clients -> 0..Len(log')] /\ from' \in [Clients -> 0..Len(log')]
        /\ wire' \in [Clients -> Seq(Positions')] /\ inbox' \in [Clients -> Seq(Positions')]
        /\ seen' \in [Clients -> Seq(Positions')]
    BY <2>1, <2>2, BroadcastTyped
  <2>4. QED BY <2>1, <2>2, <2>3 DEF StreamTypeOK
<1>2. ASSUME NEW w \in AllWriters, PublishStatus(w)
      PROVE  StreamTypeOK'
  <2>1. StreamTypeOK /\ wstatus[w] \in Events
    BY <1>2 DEF PublishStatus, StreamInv, WriterOK, Creating, Events
  <2>2. UNCHANGED <<db, cache, wstatus, client, snapshot, asked, from, inbox, seen>>
    BY <1>2 DEF PublishStatus
  <2>3. /\ wpc' \in [AllWriters -> {"unsent", "set_cache", "publish", "done"}]
        /\ losses' \in 0..MaxLosses /\ whole' \in BOOLEAN
    BY <1>2, <2>1, LosesTyped DEF PublishStatus, After, Step, StreamTypeOK
  <2>4. /\ log' \in Seq(Events)
        /\ asked' \in [Clients -> 0..Len(log')] /\ from' \in [Clients -> 0..Len(log')]
        /\ wire' \in [Clients -> Seq(Positions')] /\ inbox' \in [Clients -> Seq(Positions')]
        /\ seen' \in [Clients -> Seq(Positions')]
    <3>1. CASE Broadcast(wstatus[w])
      BY <2>1, <2>2, <3>1, BroadcastTyped
    <3>2. CASE UNCHANGED <<log, wire>>
      <4>1. UNCHANGED Positions
        BY <3>2 DEF Positions
      <4>2. QED BY <2>1, <2>2, <3>2, <4>1 DEF StreamTypeOK
    <3>3. QED BY <1>2, <3>1, <3>2 DEF PublishStatus
  <2>5. QED BY <2>1, <2>2, <2>3, <2>4 DEF StreamTypeOK
<1>3. QED BY <1>1, <1>2

\* A websocket loop goes on, or is disturbed.
LEMMA ClientTyped ==
    ASSUME StreamInv, NEW c \in Clients, GetRunState(c) \/ Serve(c) \/ Disturb(c)
    PROVE  StreamTypeOK'
<1>1. UNCHANGED runVars /\ losses' \in 0..MaxLosses /\ StreamTypeOK
  BY LosesTyped
     DEF GetRunState, Serve, Subscribe, Receive, Forward, Disturb, Drop, Reconnect, Leave,
         StreamInv
<1>2. UNCHANGED Positions /\ UNCHANGED log
  BY <1>1 DEF Positions, runVars
<1>3. ASSUME /\ client' \in [Clients -> {"idle", "subscribe", "stream", "closed"}]
             /\ snapshot' \in [Clients -> Statuses \cup {"pending", Nothing}]
             /\ asked' \in [Clients -> 0..Len(log)] /\ from' \in [Clients -> 0..Len(log)]
             /\ wire' \in [Clients -> Seq(Positions)]
             /\ inbox' \in [Clients -> Seq(Positions)]
             /\ \A d \in Clients : Len(inbox'[d]) <= Buffer
             /\ seen' \in [Clients -> Seq(Positions)]
      PROVE  StreamTypeOK'
  BY <1>1, <1>2, <1>3 DEF runVars, StreamTypeOK
<1>4. Len(log) \in 0..Len(log)
  BY <1>1 DEF StreamTypeOK
<1>5. CASE GetRunState(c)
  BY <1>1, <1>3, <1>4, <1>5 DEF GetRunState, StreamTypeOK
<1>6. CASE Subscribe(c)
  BY <1>1, <1>3, <1>4, <1>6 DEF Subscribe, StreamTypeOK
<1>7. CASE Leave(c)
  BY <1>1, <1>3, <1>7 DEF Leave, StreamTypeOK
<1>8. CASE Drop(c) \/ Reconnect(c)
  <2>1. wire' \in [Clients -> Seq(Positions)]
    <3>1. wire[c] \in Seq(Positions) /\ wire[c] # <<>>
      BY <1>1, <1>8 DEF Drop, Reconnect, StreamTypeOK
    <3>2. Tail(wire[c]) \in Seq(Positions) /\ <<>> \in Seq(Positions)
      BY <3>1
    <3>3. QED BY <1>1, <1>8, <3>2 DEF Drop, Reconnect, StreamTypeOK
  <2>2. QED BY <1>1, <1>3, <1>8, <2>1 DEF Drop, Reconnect, StreamTypeOK
<1>9. CASE Receive(c)
  <2>1. /\ wire[c] \in Seq(Positions) /\ inbox[c] \in Seq(Positions)
        /\ wire[c] # <<>> /\ Len(inbox[c]) < Buffer
    BY <1>1, <1>9 DEF Receive, StreamTypeOK
  <2>2. /\ Head(wire[c]) \in Positions /\ Tail(wire[c]) \in Seq(Positions)
        /\ Append(inbox[c], Head(wire[c])) \in Seq(Positions)
        /\ Len(Append(inbox[c], Head(wire[c]))) <= Buffer
    BY <2>1, StreamAssumption
  <2>3. /\ wire' \in [Clients -> Seq(Positions)] /\ inbox' \in [Clients -> Seq(Positions)]
        /\ \A d \in Clients : Len(inbox'[d]) <= Buffer
    BY <1>1, <1>9, <2>2 DEF Receive, StreamTypeOK
  <2>4. QED BY <1>1, <1>3, <1>9, <2>3 DEF Receive, StreamTypeOK
<1>10. CASE Forward(c)
  <2>1. inbox[c] \in Seq(Positions) /\ seen[c] \in Seq(Positions) /\ inbox[c] # <<>>
        /\ Len(inbox[c]) <= Buffer
    BY <1>1, <1>10 DEF Forward, StreamTypeOK
  <2>2. /\ Tail(inbox[c]) \in Seq(Positions) /\ Len(Tail(inbox[c])) <= Buffer
        /\ Append(seen[c], Head(inbox[c])) \in Seq(Positions)
    BY <2>1, StreamAssumption
  <2>3. /\ seen' \in [Clients -> Seq(Positions)] /\ inbox' \in [Clients -> Seq(Positions)]
        /\ \A d \in Clients : Len(inbox'[d]) <= Buffer
        /\ client' \in [Clients -> {"idle", "subscribe", "stream", "closed"}]
    BY <1>1, <1>10, <2>2 DEF Forward, StreamTypeOK
  <2>4. QED BY <1>1, <1>3, <1>10, <2>3 DEF Forward, StreamTypeOK
<1>11. QED BY <1>5, <1>6, <1>7, <1>8, <1>9, <1>10 DEF Serve, Disturb

LEMMA TypesStep == StreamInv /\ [StreamNext]_streamVars => StreamTypeOK'
<1> SUFFICES ASSUME StreamInv, [StreamNext]_streamVars PROVE StreamTypeOK'
  OBVIOUS
<1>1. CASE UNCHANGED streamVars
  BY <1>1 DEF StreamInv, StreamTypeOK, Positions, streamVars, runVars, clientVars
<1>2. CASE StreamNext
  BY <1>2, WritesTyped, PublishesTyped, ClientTyped DEF StreamNext, Write
<1>3. QED BY <1>1, <1>2

------------------------------------------------------------------------------
(* Order *)

\* Nothing to read, or nothing left to read, is in order.
LEMMA EmptyOrdered ==
    ASSUME NEW n
    PROVE  /\ Rising(<<>>) /\ Above(n, <<>>)
           /\ \A s : Below(s, <<>>) /\ Below(<<>>, s)
BY DEF Rising, Above, Below

\* A publication reaches a subscription after all that was published before.
LEMMA BroadcastOrdered ==
    ASSUME StreamInv, NEW event \in Events, Broadcast(event),
           UNCHANGED <<client, snapshot, asked, from, inbox, seen>>,
           NEW c \in Clients
    PROVE  Ordered(c)'
<1>1. CASE client[c] # "stream"
  BY <1>1 DEF Broadcast, StreamInv, Ordered
<1>2. CASE client[c] = "stream"
  <2> DEFINE n == Len(log) + 1
  <2>1. /\ seen[c] \in Seq(Nat) /\ inbox[c] \in Seq(Nat) /\ wire[c] \in Seq(Nat)
        /\ \A i \in DOMAIN seen[c] : seen[c][i] < n
        /\ \A i \in DOMAIN inbox[c] : inbox[c][i] < n
        /\ \A i \in DOMAIN wire[c] : wire[c][i] < n
        /\ n \in Nat /\ from[c] \in Nat /\ from[c] < n
    BY QueuesTyped DEF StreamInv, Positions
  <2>2. wire'[c] = Append(wire[c], n)
    BY <1>2 DEF Broadcast, StreamInv, StreamTypeOK
  <2>3. Ordered(c)
    BY DEF StreamInv
  <2> HIDE DEF n
  <2>4. /\ Rising(wire'[c]) /\ Above(from[c], wire'[c])
        /\ Below(seen[c], wire'[c]) /\ Below(inbox[c], wire'[c])
    BY <2>1, <2>2, <2>3, Added DEF Ordered
  <2>5. QED BY <1>2, <2>3, <2>4 DEF Ordered
<1>3. QED BY <1>1, <1>2

\* What happens to one subscription keeps its order, and leaves the others alone.
LEMMA ClientOrdered ==
    ASSUME StreamInv, NEW c \in Clients, GetRunState(c) \/ Serve(c) \/ Disturb(c),
           NEW d \in Clients
    PROVE  Ordered(d)'
<1>0. StreamTypeOK /\ Ordered(d) /\ Ordered(c)
  BY DEF StreamInv
<1>1. CASE d # c
  <2>1. /\ client'[d] = client[d] /\ snapshot'[d] = snapshot[d] /\ asked'[d] = asked[d]
        /\ from'[d] = from[d] /\ wire'[d] = wire[d] /\ inbox'[d] = inbox[d]
        /\ seen'[d] = seen[d]
    BY <1>0, <1>1 DEF GetRunState, Serve, Subscribe, Receive, Forward, Disturb, Drop,
       Reconnect, Leave, StreamTypeOK
  <2>2. QED BY <1>0, <2>1 DEF Ordered
<1>2. /\ seen[c] \in Seq(Nat) /\ inbox[c] \in Seq(Nat) /\ wire[c] \in Seq(Nat)
      /\ from[c] \in Nat /\ asked[c] <= Len(log)
  BY <1>0, QueuesTyped
<1>3. CASE GetRunState(c)
  <2>1. /\ client'[c] = "subscribe" /\ client[c] = "idle"
        /\ UNCHANGED <<from, wire, inbox, seen>>
    BY <1>0, <1>3 DEF GetRunState, StreamTypeOK
  <2>2. Ordered(c)'
    BY <1>0, <2>1 DEF Ordered
  <2>3. QED BY <1>1, <2>2
<1>4. CASE Subscribe(c)
  <2>1. /\ client'[c] = "stream" /\ from'[c] = Len(log)
        /\ UNCHANGED <<asked, wire, inbox, seen>>
        /\ seen[c] = <<>> /\ inbox[c] = <<>> /\ wire[c] = <<>>
    BY <1>0, <1>4 DEF Subscribe, StreamTypeOK, Ordered
  <2>2. Ordered(c)'
    BY <1>2, <2>1, EmptyOrdered DEF Ordered
  <2>3. QED BY <1>1, <2>2
<1>5. CASE Leave(c)
  <2>1. client'[c] = "closed" /\ UNCHANGED <<from, wire, inbox, seen>>
    BY <1>0, <1>5 DEF Leave, StreamTypeOK
  <2>2. Ordered(c)'
    BY <1>0, <2>1 DEF Ordered
  <2>3. QED BY <1>1, <2>2
<1>6. CASE Reconnect(c)
  <2>1. /\ client[c] = "stream" /\ wire'[c] = <<>>
        /\ UNCHANGED <<client, asked, from, inbox, seen>>
    BY <1>0, <1>6 DEF Reconnect, StreamTypeOK
  <2>2. Ordered(c)'
    BY <1>0, <2>1, EmptyOrdered DEF Ordered
  <2>3. QED BY <1>1, <2>2
<1>7. CASE Drop(c)
  <2>1. /\ client[c] = "stream" /\ wire[c] # <<>> /\ wire'[c] = Tail(wire[c])
        /\ UNCHANGED <<client, asked, from, inbox, seen>>
    BY <1>0, <1>7 DEF Drop, StreamTypeOK
  <2>2. /\ <<>> \in Seq(Nat) /\ Rising(<<>>) /\ Below(<<>>, wire[c]) /\ Above(from[c], <<>>)
        /\ Below(inbox[c], <<>>) /\ Below(seen[c], <<>>)
    BY EmptyOrdered
  <2>3. /\ Rising(Tail(wire[c])) /\ Above(from[c], Tail(wire[c]))
        /\ Below(inbox[c], Tail(wire[c])) /\ Below(seen[c], Tail(wire[c]))
    BY <1>0, <1>2, <2>1, <2>2, Moved DEF Ordered
  <2>4. Ordered(c)'
    BY <1>0, <2>1, <2>3 DEF Ordered
  <2>5. QED BY <1>1, <2>4
<1>8. CASE Receive(c)
  <2>1. /\ client[c] = "stream" /\ wire[c] # <<>> /\ wire'[c] = Tail(wire[c])
        /\ inbox'[c] = Append(inbox[c], Head(wire[c]))
        /\ UNCHANGED <<client, asked, from, seen>>
    BY <1>0, <1>8 DEF Receive, StreamTypeOK
  <2>2. /\ Rising(inbox'[c]) /\ Rising(wire'[c]) /\ Below(inbox'[c], wire'[c])
        /\ Above(from[c], inbox'[c]) /\ Above(from[c], wire'[c])
        /\ Below(seen[c], inbox'[c]) /\ Below(seen[c], wire'[c])
    BY <1>0, <1>2, <2>1, Moved DEF Ordered
  <2>3. Ordered(c)'
    BY <1>0, <2>1, <2>2 DEF Ordered
  <2>4. QED BY <1>1, <2>3
<1>9. CASE Forward(c)
  <2>1. /\ client[c] = "stream" /\ client'[c] \in {"stream", "closed"}
        /\ inbox[c] # <<>> /\ inbox'[c] = Tail(inbox[c])
        /\ seen'[c] = Append(seen[c], Head(inbox[c]))
        /\ UNCHANGED <<asked, from, wire>>
    BY <1>0, <1>9 DEF Forward, StreamTypeOK
  <2>2. /\ Rising(seen'[c]) /\ Rising(inbox'[c]) /\ Below(seen'[c], inbox'[c])
        /\ Above(from[c], seen'[c]) /\ Above(from[c], inbox'[c])
        /\ Below(seen'[c], wire[c]) /\ Below(inbox'[c], wire[c])
    BY <1>0, <1>2, <2>1, Moved DEF Ordered
  <2>3. Ordered(c)'
    BY <1>0, <2>1, <2>2 DEF Ordered
  <2>4. QED BY <1>1, <2>3
<1>10. QED BY <1>3, <1>4, <1>5, <1>6, <1>7, <1>8, <1>9 DEF Serve, Disturb

LEMMA OrderedStep ==
    ASSUME StreamInv, [StreamNext]_streamVars, NEW c \in Clients
    PROVE  Ordered(c)'
<1>0. Ordered(c)
  BY DEF StreamInv
<1>1. ASSUME UNCHANGED clientVars PROVE Ordered(c)'
  BY <1>0, <1>1 DEF Ordered, clientVars
<1>2. ASSUME NEW w \in AllWriters, PublishStatus(w)
      PROVE  Ordered(c)'
  <2>1. wstatus[w] \in Events
    BY <1>2 DEF PublishStatus, StreamInv, WriterOK, Creating, Events
  <2>2. UNCHANGED <<client, snapshot, asked, from, inbox, seen>>
    BY <1>2 DEF PublishStatus
  <2>3. Broadcast(wstatus[w]) \/ UNCHANGED wire
    BY <1>2 DEF PublishStatus
  <2>4. QED BY <1>1, <2>1, <2>2, <2>3, BroadcastOrdered DEF clientVars
<1>3. CASE PublishStep
  <2>1. Broadcast(StepEvent) /\ UNCHANGED <<client, snapshot, asked, from, inbox, seen>>
        /\ StepEvent \in Events
    BY <1>3 DEF PublishStep, Events
  <2>2. QED BY <2>1, BroadcastOrdered
<1>4. ASSUME InsertRun \/ Expire \/ (\E w \in Writers, status \in Statuses :
                 UpdateRow(w, status) \/ UpdateRowFails(w, status))
             \/ (\E w \in AllWriters : SetRunState(w)) \/ UNCHANGED streamVars
      PROVE  Ordered(c)'
  BY <1>1, <1>4 DEF InsertRun, Expire, UpdateRow, UpdateRowFails, SetRunState, streamVars
<1>5. QED BY <1>2, <1>3, <1>4, ClientOrdered DEF StreamNext, Write

------------------------------------------------------------------------------
(* Writers *)

\* How the steps of the writers change what Creating and Serial speak of.
LEMMA WriterMoves ==
    ASSUME StreamInv, NEW w \in AllWriters
    PROVE  /\ InsertRun => /\ wpc'[Creator] = "set_cache" /\ wpc[Creator] = "unsent"
                           /\ \A v \in AllWriters \ {Creator} : wpc'[v] = wpc[v]
                           /\ db' = "pending"
                           /\ UNCHANGED <<cache, wstatus, log, whole, clientVars>>
           /\ SetRunState(w) => /\ wpc[w] = "set_cache"
                                /\ wpc'[w] = IF w = Creator THEN "done" ELSE "publish"
                                /\ \A v \in AllWriters \ {w} : wpc'[v] = wpc[v]
                                /\ UNCHANGED <<db, wstatus, log, clientVars>>
                                /\ \/ cache' = wstatus[w] /\ UNCHANGED whole
                                   \/ ~ whole'
           /\ PublishStatus(w) => /\ wpc[w] = "publish" /\ wpc'[w] = "done"
                                  /\ \A v \in AllWriters \ {w} : wpc'[v] = wpc[v]
                                  /\ UNCHANGED <<db, cache, wstatus, client, snapshot, asked>>
                                  /\ \/ log' = Append(log, wstatus[w]) /\ UNCHANGED whole
                                     \/ UNCHANGED log /\ ~ whole'
           /\ \A status \in Statuses :
                 /\ UpdateRow(w, status) =>
                        /\ w # Creator /\ wpc[w] = "unsent" /\ wpc'[w] = "set_cache"
                        /\ IdKnown
                        /\ \A v \in AllWriters \ {w} :
                              wpc'[v] = wpc[v] /\ wstatus'[v] = wstatus[v]
                        /\ wstatus'[w] = status /\ db' = status
                        /\ whole' = (AtWork = {})
                        /\ UNCHANGED <<cache, log, clientVars>>
                 /\ UpdateRowFails(w, status) =>
                        /\ w # Creator /\ wpc[w] = "unsent" /\ wpc'[w] = "done"
                        /\ IdKnown
                        /\ \A v \in AllWriters \ {w} : wpc'[v] = wpc[v]
                        /\ UNCHANGED <<cache, wstatus, log, clientVars>>
                        /\ db' \in {db, status} /\ whole' = (whole /\ db' = db)
<1>1. /\ wpc \in [AllWriters -> {"unsent", "set_cache", "publish", "done"}]
      /\ wstatus \in [AllWriters -> Statuses \cup {"pending"}]
      /\ Creator \in AllWriters
  BY DEF StreamInv, StreamTypeOK, AllWriters
<1>2. InsertRun => /\ wpc'[Creator] = "set_cache" /\ wpc[Creator] = "unsent"
                   /\ \A v \in AllWriters \ {Creator} : wpc'[v] = wpc[v]
                   /\ db' = "pending"
                   /\ UNCHANGED <<cache, wstatus, log, whole, clientVars>>
  BY <1>1 DEF InsertRun, Step, After
<1>3. SetRunState(w) => /\ wpc[w] = "set_cache"
                        /\ wpc'[w] = IF w = Creator THEN "done" ELSE "publish"
                        /\ \A v \in AllWriters \ {w} : wpc'[v] = wpc[v]
                        /\ UNCHANGED <<db, wstatus, log, clientVars>>
                        /\ \/ cache' = wstatus[w] /\ UNCHANGED whole
                           \/ ~ whole'
  BY <1>1 DEF SetRunState, CacheWritten, Step, After
<1>4. PublishStatus(w) => /\ wpc[w] = "publish" /\ wpc'[w] = "done"
                          /\ \A v \in AllWriters \ {w} : wpc'[v] = wpc[v]
                          /\ UNCHANGED <<db, cache, wstatus, client, snapshot, asked>>
                          /\ \/ log' = Append(log, wstatus[w]) /\ UNCHANGED whole
                             \/ UNCHANGED log /\ ~ whole'
  BY <1>1 DEF PublishStatus, Broadcast, Step, After
<1>5. ASSUME NEW status \in Statuses, UpdateRow(w, status)
      PROVE  /\ w # Creator /\ wpc[w] = "unsent" /\ wpc'[w] = "set_cache"
             /\ IdKnown
             /\ \A v \in AllWriters \ {w} : wpc'[v] = wpc[v] /\ wstatus'[v] = wstatus[v]
             /\ wstatus'[w] = status /\ db' = status
             /\ whole' = (AtWork = {})
             /\ UNCHANGED <<cache, log, clientVars>>
  BY <1>1, <1>5 DEF UpdateRow, Step, After
<1>6. ASSUME NEW status \in Statuses, UpdateRowFails(w, status)
      PROVE  /\ w # Creator /\ wpc[w] = "unsent" /\ wpc'[w] = "done"
             /\ IdKnown
             /\ \A v \in AllWriters \ {w} : wpc'[v] = wpc[v]
             /\ UNCHANGED <<cache, wstatus, log, clientVars>>
             /\ db' \in {db, status} /\ whole' = (whole /\ db' = db)
  BY <1>1, <1>6 DEF UpdateRowFails, Step
<1>7. QED BY <1>2, <1>3, <1>4, <1>5, <1>6

LEMMA WritersStep ==
    ASSUME StreamInv, [StreamNext]_streamVars
    PROVE  Creating' /\ \A v \in AllWriters : WriterOK(v)'
<1>1. Creator \in AllWriters /\ Writers \subseteq AllWriters
  BY DEF AllWriters
<1>2. Creating /\ \A v \in AllWriters : WriterOK(v)
  BY DEF StreamInv
<1>3. ASSUME UNCHANGED <<db, wpc, wstatus>>, IdKnown \/ UNCHANGED <<log, client>>
      PROVE  Creating' /\ \A v \in AllWriters : WriterOK(v)'
  BY <1>2, <1>3 DEF Creating, IdKnown, WriterOK
<1>4. CASE InsertRun
  BY <1>1, <1>2, <1>4, WriterMoves DEF Creating, IdKnown, WriterOK, AllWriters, clientVars
<1>5. ASSUME NEW w \in Writers, NEW status \in Statuses, UpdateRow(w, status)
      PROVE  Creating' /\ \A v \in AllWriters : WriterOK(v)'
  BY <1>1, <1>2, <1>5, WriterMoves DEF Creating, IdKnown, WriterOK
<1>6. ASSUME NEW w \in Writers, NEW status \in Statuses, UpdateRowFails(w, status)
      PROVE  Creating' /\ \A v \in AllWriters : WriterOK(v)'
  BY <1>1, <1>2, <1>6, WriterMoves DEF Creating, IdKnown, WriterOK
<1>7. ASSUME NEW w \in AllWriters, SetRunState(w)
      PROVE  Creating' /\ \A v \in AllWriters : WriterOK(v)'
  BY <1>1, <1>2, <1>7, WriterMoves DEF Creating, IdKnown, WriterOK, AllWriters, clientVars
<1>8. ASSUME NEW w \in AllWriters, PublishStatus(w)
      PROVE  Creating' /\ \A v \in AllWriters : WriterOK(v)'
  <2>1. w # Creator /\ IdKnown
    BY <1>1, <1>2, <1>8, WriterMoves DEF Creating, AllWriters
  <2>2. QED BY <1>1, <1>2, <1>8, <2>1, WriterMoves DEF Creating, IdKnown, WriterOK
<1>9. CASE PublishStep
  BY <1>3, <1>9 DEF PublishStep
<1>10. CASE Expire
  BY <1>3, <1>10 DEF Expire, clientVars
<1>11. ASSUME NEW c \in Clients, GetRunState(c) \/ Serve(c) \/ Disturb(c)
       PROVE  Creating' /\ \A v \in AllWriters : WriterOK(v)'
  <2>1. client[c] # "idle" => IdKnown
    BY <1>2 DEF Creating
  <2>2. IdKnown
    BY <1>11, <2>1 DEF GetRunState, Serve, Subscribe, Receive, Forward, Disturb, Drop,
       Reconnect, Leave
  <2>3. UNCHANGED runVars
    BY <1>11 DEF GetRunState, Serve, Subscribe, Receive, Forward, Disturb, Drop,
       Reconnect, Leave
  <2>4. QED BY <1>3, <2>2, <2>3 DEF runVars
<1>12. CASE UNCHANGED streamVars
  BY <1>3, <1>12 DEF streamVars, runVars, clientVars
<1>13. QED BY <1>4, <1>5, <1>6, <1>7, <1>8, <1>9, <1>10, <1>11, <1>12 DEF StreamNext, Write

------------------------------------------------------------------------------
(* The last status change of the log *)

\* A step event leaves it where it is; another event takes its place.
LEMMA FinalAppended ==
    ASSUME log \in Seq(Events), NEW event \in Events, log' = Append(log, event)
    PROVE  /\ \A i \in Positions' :
                 Final(i)' => IF event = StepEvent THEN i \in Positions /\ Final(i)
                                                   ELSE i = Len(log) + 1
           /\ \A i \in Positions' : i = Len(log) + 1 \/ (i \in Positions /\ log'[i] = log[i])
           /\ Len(log) + 1 \in Positions' /\ log'[Len(log) + 1] = event
           /\ HasFinal => HasFinal'
<1>0. PICK n \in Nat : n = Len(log) + 1
  OBVIOUS
<1>1. /\ Len(log) \in Nat /\ Len(log') = n /\ n \in Nat
      /\ log'[n] = event /\ \A i \in 1..Len(log) : log'[i] = log[i]
  BY <1>0
<1>2. Positions = 1..n - 1 /\ Positions' = 1..n
  BY <1>1 DEF Positions
<1>3. \A i \in Positions' : i = n \/ (i \in Positions /\ log'[i] = log[i])
  BY <1>1, <1>2
<1>4. ASSUME NEW i \in Positions', Final(i)', event # StepEvent
      PROVE  i = n
  <2>1. i = n \/ n \in i + 1..n
    BY <1>1, <1>2
  <2>2. QED BY <1>1, <1>4, <2>1 DEF Final
<1>5. ASSUME NEW i \in Positions', Final(i)', event = StepEvent
      PROVE  i \in Positions /\ Final(i)
  <2>1. i \in Positions /\ log'[i] = log[i]
    BY <1>1, <1>3, <1>5 DEF Final
  <2>2. \A j \in i + 1..n - 1 : j \in i + 1..n /\ j \in 1..n - 1
    BY <1>1, <1>2, <2>1
  <2>3. \A j \in i + 1..n - 1 : log[j] = StepEvent
    <3>1. \A j \in i + 1..n : log'[j] = StepEvent
      BY <1>1, <1>5 DEF Final
    <3>2. QED BY <1>1, <1>2, <2>2, <3>1
  <2>4. Len(log) = n - 1 /\ log[i] # StepEvent
    <3>1. log'[i] # StepEvent
      BY <1>5 DEF Final
    <3>2. \A l \in Nat : n = l + 1 => l = n - 1
      OBVIOUS
    <3>3. Len(log) \in Nat
      OBVIOUS
    <3>4. QED BY <1>0, <2>1, <3>1, <3>2, <3>3
  <2>5. QED BY <2>1, <2>3, <2>4 DEF Final
<1>6. ASSUME HasFinal
      PROVE  HasFinal'
  <2>1. CASE event # StepEvent
    <3>1. n + 1..n = {}
      BY <1>1
    <3>2. Final(n)'
      BY <1>1, <2>1, <3>1 DEF Final
    <3>3. QED BY <1>1, <1>2, <3>2 DEF HasFinal
  <2>2. CASE event = StepEvent /\ \A i \in Positions : log[i] = StepEvent
    BY <1>1, <1>3, <2>2 DEF HasFinal
  <2>3. ASSUME event = StepEvent, NEW i \in Positions, Final(i)
        PROVE  HasFinal'
    <3>1. \A j \in i + 1..n : j = n \/ (j \in i + 1..n - 1 /\ j \in 1..n - 1)
      BY <1>1, <1>2
    <3>2. i \in Positions' /\ log'[i] = log[i]
      BY <1>1, <1>2
    <3>3. Final(i)'
      <4>1. \A j \in i + 1..n - 1 : log[j] = StepEvent
        BY <1>0, <2>3 DEF Final
      <4>2. \A j \in i + 1..n : log'[j] = StepEvent
        BY <1>1, <1>2, <2>3, <3>1, <4>1
      <4>3. QED BY <1>1, <2>3, <3>2, <4>2 DEF Final
    <3>4. QED BY <3>2, <3>3 DEF HasFinal
  <2>4. QED BY <1>6, <2>1, <2>2, <2>3 DEF HasFinal
<1>7. QED BY <1>0, <1>1, <1>2, <1>3, <1>4, <1>5, <1>6

LEMMA FinalStep ==
    ASSUME StreamInv, [StreamNext]_streamVars
    PROVE  HasFinal'
<1>1. log \in Seq(Events) /\ StepEvent \in Events /\ HasFinal
  BY DEF StreamInv, StreamTypeOK, Events
<1>2. CASE UNCHANGED log
  BY <1>1, <1>2 DEF HasFinal, Final, Positions
<1>3. ASSUME NEW event \in Events, log' = Append(log, event)
      PROVE  HasFinal'
  BY <1>1, <1>3, FinalAppended
<1>4. UNCHANGED log \/ \E event \in Events : log' = Append(log, event)
  <2>1. ASSUME NEW w \in AllWriters, PublishStatus(w)
        PROVE  UNCHANGED log \/ \E event \in Events : log' = Append(log, event)
    <3>1. wstatus[w] \in Events
      BY <2>1 DEF PublishStatus, StreamInv, WriterOK, Creating, Events
    <3>2. QED BY <2>1, <3>1 DEF PublishStatus, Broadcast
  <2>2. CASE PublishStep
    BY <1>1, <2>2 DEF PublishStep, Broadcast
  <2>3. ASSUME NEW c \in Clients, GetRunState(c) \/ Serve(c) \/ Disturb(c)
        PROVE  UNCHANGED log
    BY <2>3 DEF GetRunState, Serve, Subscribe, Receive, Forward, Disturb, Drop, Reconnect,
       Leave, runVars
  <2>4. CASE \/ InsertRun \/ Expire \/ UNCHANGED streamVars
             \/ \E w \in Writers, status \in Statuses :
                   UpdateRow(w, status) \/ UpdateRowFails(w, status)
             \/ \E w \in AllWriters : SetRunState(w)
    BY <2>4 DEF InsertRun, Expire, UpdateRow, UpdateRowFails, SetRunState, streamVars, runVars
  <2>5. QED BY <2>1, <2>2, <2>3, <2>4 DEF StreamNext, Write
<1>5. QED BY <1>2, <1>3, <1>4

------------------------------------------------------------------------------
(* Writers that do not overlap *)

\* Nobody at work, and the same row, cache and last status change.
LEMMA SerialKept ==
    ASSUME StreamInv, UNCHANGED <<db, wpc, wstatus, log, whole>>,
           UNCHANGED cache \/ cache' = Nothing
    PROVE  Serial'
<1>1. Serial
  BY DEF StreamInv
<1>2. UNCHANGED <<AtWork, Positions>> /\ \A i : Final(i)' = Final(i)
  BY DEF AtWork, Positions, Final
<1>3. QED BY <1>1, <1>2 DEF Serial

LEMMA SerialStep ==
    ASSUME StreamInv, [StreamNext]_streamVars
    PROVE  Serial'
<1>1. Creator \in AllWriters /\ Writers \subseteq AllWriters
  BY DEF AllWriters
<1>2. Serial /\ Creating /\ StreamTypeOK
  BY DEF StreamInv
<1>3. ASSUME ~ whole' PROVE Serial'
  BY <1>3 DEF Serial
<1>4. CASE InsertRun
  <2>1. /\ \A v \in AllWriters \ {Creator} : wpc'[v] = "unsent"
        /\ wstatus'[Creator] = "pending" /\ db' = "pending" /\ wpc'[Creator] = "set_cache"
    BY <1>1, <1>2, <1>4, WriterMoves DEF Creating, IdKnown, AllWriters
  <2>2. AtWork' = {Creator}
    BY <1>1, <2>1 DEF AtWork
  <2>3. QED BY <2>1, <2>2 DEF Serial
<1>5. ASSUME NEW w \in Writers, NEW status \in Statuses, UpdateRow(w, status), whole'
      PROVE  Serial'
  <2>1. /\ wpc'[w] = "set_cache" /\ wstatus'[w] = db' /\ AtWork = {}
        /\ \A v \in AllWriters \ {w} : wpc'[v] = wpc[v]
    BY <1>1, <1>5, WriterMoves
  <2>2. AtWork' = {w}
    BY <1>1, <2>1 DEF AtWork
  <2>3. QED BY <2>1, <2>2 DEF Serial, AtWork
<1>6. ASSUME NEW w \in Writers, NEW status \in Statuses, UpdateRowFails(w, status), whole'
      PROVE  Serial'
  <2>1. /\ wpc[w] = "unsent" /\ wpc'[w] = "done" /\ whole
        /\ \A v \in AllWriters \ {w} : wpc'[v] = wpc[v]
        /\ UNCHANGED <<db, cache, wstatus, log>>
    BY <1>1, <1>6, WriterMoves
  <2>2. UNCHANGED <<AtWork, Positions>> /\ \A i : Final(i)' = Final(i)
    BY <2>1 DEF AtWork, Positions, Final
  <2>3. QED BY <1>2, <2>1, <2>2 DEF Serial
<1>7. ASSUME NEW w \in AllWriters, SetRunState(w), whole'
      PROVE  Serial'
  <2>1. /\ wpc[w] = "set_cache" /\ cache' = wstatus[w] /\ whole
        /\ wpc'[w] = IF w = Creator THEN "done" ELSE "publish"
        /\ \A v \in AllWriters \ {w} : wpc'[v] = wpc[v]
        /\ UNCHANGED <<db, wstatus, log>>
    BY <1>7, WriterMoves
  <2>2. w \in AtWork /\ AtWork = {w} /\ cache' = db
    BY <1>2, <2>1 DEF Serial, AtWork
  <2>3. AtWork' \subseteq {w} /\ \A v \in AllWriters \ {w} : wpc'[v] # "publish"
    BY <2>1, <2>2 DEF AtWork
  <2>4. AtWork' = {} => \A i \in Positions' : Final(i)' => log'[i] = db'
    <3>1. CASE w = Creator
      <4>1. log' = <<>>
        BY <1>2, <2>1, <3>1 DEF Creating, IdKnown
      <4>2. QED BY <4>1 DEF Positions
    <3>2. CASE w # Creator
      BY <2>1, <3>2 DEF AtWork
    <3>3. QED BY <3>1, <3>2
  <2>5. QED BY <1>2, <2>1, <2>2, <2>3, <2>4 DEF Serial
<1>8. ASSUME NEW w \in AllWriters, PublishStatus(w), whole'
      PROVE  Serial'
  <2>1. /\ wpc[w] = "publish" /\ wpc'[w] = "done" /\ whole /\ log' = Append(log, wstatus[w])
        /\ \A v \in AllWriters \ {w} : wpc'[v] = wpc[v]
        /\ UNCHANGED <<db, cache, wstatus>>
    BY <1>8, WriterMoves
  <2>2. w \in AtWork /\ AtWork = {w} /\ wstatus[w] = db /\ cache \in {db, Nothing}
    BY <1>2, <2>1 DEF Serial, AtWork
  <2>3. AtWork' = {} /\ \A v \in AllWriters : wpc'[v] # "publish"
    BY <2>1, <2>2 DEF AtWork
  <2>4. wstatus[w] \in Events /\ wstatus[w] # StepEvent /\ log \in Seq(Events)
    BY <1>2, <2>1 DEF StreamInv, WriterOK, Creating, Events, Statuses, StepEvent, StreamTypeOK
  <2>5. ASSUME NEW i \in Positions', Final(i)'
        PROVE  log'[i] = db'
    BY <2>1, <2>2, <2>4, <2>5, FinalAppended
  <2>6. QED BY <2>1, <2>2, <2>3, <2>5 DEF Serial
<1>9. CASE PublishStep
  <2>1. UNCHANGED <<db, cache, wpc, wstatus, whole>> /\ log' = Append(log, StepEvent)
    BY <1>9 DEF PublishStep, Broadcast
  <2>2. UNCHANGED AtWork /\ StepEvent \in Events /\ log \in Seq(Events)
    BY <1>2, <2>1 DEF AtWork, Events, StreamTypeOK
  <2>3. ASSUME NEW i \in Positions', Final(i)'
        PROVE  i \in Positions /\ Final(i) /\ log'[i] = log[i]
    <3>1. i \in Positions /\ Final(i)
      BY <2>1, <2>2, <2>3, FinalAppended
    <3>2. QED BY <2>1, <2>2, <3>1 DEF Positions
  <2>4. QED BY <1>2, <2>1, <2>2, <2>3 DEF Serial
<1>10. CASE Expire
  BY <1>10, SerialKept DEF Expire
<1>11. ASSUME NEW c \in Clients, GetRunState(c) \/ Serve(c) \/ Disturb(c)
       PROVE  Serial'
  BY <1>11, SerialKept DEF GetRunState, Serve, Subscribe, Receive, Forward, Disturb, Drop,
     Reconnect, Leave, runVars
<1>12. CASE UNCHANGED streamVars
  BY <1>12, SerialKept DEF streamVars, runVars
<1>13. QED BY <1>3, <1>4, <1>5, <1>6, <1>7, <1>8, <1>9, <1>10, <1>11, <1>12
       DEF StreamNext, Write

------------------------------------------------------------------------------
(* What a client was sent first *)

LEMMA CurrentStep ==
    ASSUME StreamInv, [StreamNext]_streamVars, NEW c \in Clients
    PROVE  Current(c)'
<1>0. Current(c) /\ Serial /\ Creating /\ Ordered(c) /\ StreamTypeOK
  BY DEF StreamInv
<1>1. Creator \in AllWriters /\ Writers \subseteq AllWriters
  BY DEF AllWriters
<1>2. ASSUME AtWork' # {} \/ ~ whole' PROVE Current(c)'
  BY <1>2 DEF Current
<1>3. ASSUME UNCHANGED <<db, wpc, whole, log>>, UNCHANGED <<snapshot[c], asked[c]>>,
             client'[c] \in {"subscribe", "stream"} => client[c] \in {"subscribe", "stream"}
      PROVE  Current(c)'
  BY <1>0, <1>3 DEF Current, AtWork
<1>4. CASE InsertRun
  BY <1>1, <1>2, <1>4, WriterMoves DEF AtWork
<1>5. ASSUME NEW w \in Writers, NEW status \in Statuses, UpdateRow(w, status)
      PROVE  Current(c)'
  BY <1>1, <1>2, <1>5, WriterMoves DEF AtWork
<1>6. ASSUME NEW w \in Writers, NEW status \in Statuses, UpdateRowFails(w, status), whole'
      PROVE  Current(c)'
  <2>1. /\ wpc[w] = "unsent" /\ wpc'[w] = "done" /\ whole
        /\ \A v \in AllWriters \ {w} : wpc'[v] = wpc[v]
        /\ UNCHANGED <<db, log, clientVars>>
    BY <1>1, <1>6, WriterMoves
  <2>2. UNCHANGED AtWork
    BY <2>1 DEF AtWork
  <2>3. QED BY <1>0, <2>1, <2>2 DEF Current, clientVars
<1>7. ASSUME NEW w \in AllWriters, SetRunState(w)
      PROVE  Current(c)'
  <2>1. CASE w = Creator
    BY <1>0, <1>1, <1>7, <2>1, WriterMoves DEF Creating, IdKnown, Current, clientVars
  <2>2. CASE w # Creator
    BY <1>1, <1>2, <1>7, <2>2, WriterMoves DEF AtWork
  <2>3. QED BY <2>1, <2>2
<1>8. ASSUME NEW w \in AllWriters, PublishStatus(w), whole'
      PROVE  Current(c)'
  <2>1. log' = Append(log, wstatus[w]) /\ wpc[w] = "publish" /\ UNCHANGED asked
    BY <1>8, WriterMoves
  <2>2. wstatus[w] \in Events /\ wstatus[w] # StepEvent /\ log \in Seq(Events)
    BY <1>0, <2>1 DEF StreamInv, WriterOK, Creating, Events, Statuses, StepEvent, StreamTypeOK
  <2>3. Len(log) + 1 \in Positions' /\ log'[Len(log) + 1] # StepEvent
    BY <2>1, <2>2, FinalAppended
  <2>4. Len(log) + 1 \in asked'[c] + 1..Len(log')
    <3>1. Len(log) + 1 \in 1..Len(log') /\ Len(log) \in Nat /\ asked[c] \in 0..Len(log)
          /\ asked'[c] = asked[c] /\ Len(log') \in Nat
      BY <1>0, <2>1, <2>2, <2>3, QueuesTyped DEF Positions
    <3>2. QED BY <3>1
  <2>5. QED BY <2>3, <2>4 DEF Current
<1>9. CASE PublishStep
  <2>1. /\ UNCHANGED <<db, wpc, whole, client, snapshot, asked>>
        /\ log' = Append(log, StepEvent) /\ log \in Seq(Events)
    BY <1>0, <1>9 DEF PublishStep, Broadcast, StreamTypeOK
  <2>2. UNCHANGED AtWork
    BY <2>1 DEF AtWork
  <2>3. asked[c] \in Nat /\ Len(log) \in Nat /\ Len(log') = Len(log) + 1
    BY <1>0, <2>1, QueuesTyped
  <2>4. \A i \in asked[c] + 1..Len(log) : i \in asked[c] + 1..Len(log') /\ log'[i] = log[i]
    BY <2>1, <2>3
  <2>5. QED BY <1>0, <2>1, <2>2, <2>4 DEF Current
<1>10. CASE Expire
  BY <1>3, <1>10 DEF Expire, clientVars
<1>11. CASE GetRunState(c)
  <2>1. /\ client[c] = "idle" /\ UNCHANGED runVars
        /\ snapshot'[c] = cache \/ snapshot'[c] = snapshot[c]
    BY <1>0, <1>11 DEF GetRunState, StreamTypeOK
  <2>2. snapshot'[c] \in {cache, Nothing}
    BY <1>0, <2>1 DEF Ordered
  <2>3. UNCHANGED <<db, whole, AtWork>>
    BY <2>1 DEF runVars, AtWork
  <2>4. QED BY <1>0, <2>2, <2>3 DEF Serial, Current
<1>12. ASSUME NEW d \in Clients, \/ Serve(d) \/ Disturb(d)
                                 \/ GetRunState(d) /\ d # c
       PROVE  Current(c)'
  <2>1. /\ UNCHANGED runVars /\ UNCHANGED <<snapshot[c], asked[c]>>
        /\ client'[c] \in {"subscribe", "stream"} => client[c] \in {"subscribe", "stream"}
    BY <1>0, <1>12 DEF GetRunState, Serve, Subscribe, Receive, Forward, Disturb, Drop,
       Reconnect, Leave, StreamTypeOK
  <2>2. QED BY <1>3, <2>1 DEF runVars
<1>13. CASE UNCHANGED streamVars
  BY <1>3, <1>13 DEF streamVars, runVars, clientVars
<1>14. QED BY <1>2, <1>4, <1>5, <1>6, <1>7, <1>8, <1>9, <1>10, <1>11, <1>12, <1>13
       DEF StreamNext, Write

LEMMA StreamInvStep == StreamInv /\ [StreamNext]_streamVars => StreamInv'
BY TypesStep, OrderedStep, WritersStep, FinalStep, SerialStep, CurrentStep DEF StreamInv

------------------------------------------------------------------------------
(* Theorems *)

\* The invariant of the live stream: among its parts, that a client is sent events in
\* the order of publication and none of them twice, whatever is dropped on the way.
THEOREM StreamInvariance == StreamSpec => []StreamInv
BY StreamInvInit, StreamInvStep, PTL DEF StreamSpec

\* Type correctness of rows, cache, channels and clients.
THEOREM StreamTypes == StreamSpec => []StreamTypeOK
<1>1. StreamInv => StreamTypeOK
  BY DEF StreamInv
<1>2. QED BY <1>1, StreamInvariance, PTL

\* Once a PATCH that no other overlapped is through, and nothing of it was lost, row,
\* cache and the last event agree, whatever happened before it.
THEOREM WritersAgree == StreamSpec => []SerialWritersAgree
<1>1. StreamInv => SerialWritersAgree
  BY DEF StreamInv, Serial, SerialWritersAgree, Quiet
<1>2. QED BY <1>1, StreamInvariance, PTL

\* After such a PATCH a subscribed client that has nothing left to read was told the
\* status of the row last, or was told none, or else the event was lost on its way or
\* came between snapshot and subscription: caching before publishing leaves no other
\* reason, however small the channel and however many events were dropped before.
THEOREM StaleExplained == StreamSpec => []StaleOnlyIf
<1>1. StreamInv => StaleOnlyIf
  <2> SUFFICES ASSUME StreamInv, Quiet, whole, NEW c \in Clients, client[c] = "stream",
                      ~ Raced(c), ~ Missed(c)
               PROVE  ToldLast(c, db) \/ ToldLast(c, Nothing)
    BY DEF StaleOnlyIf
  <2>1. /\ \A i \in DOMAIN seen[c] : seen[c][i] \in Positions
        /\ Len(log) \in Nat /\ from[c] \in 0..Len(log) /\ asked[c] \in 0..Len(log)
        /\ DOMAIN seen[c] = 1..Len(seen[c]) /\ Len(seen[c]) \in Nat
    BY QueuesTyped DEF StreamInv
  <2>2. asked[c] <= from[c] /\ Rising(seen[c]) /\ Above(from[c], seen[c])
    BY DEF StreamInv, Ordered
  <2>3. ASSUME \A i \in asked[c] + 1..Len(log) : log[i] = StepEvent
        PROVE  ToldLast(c, db) \/ ToldLast(c, Nothing)
    <3>1. snapshot[c] \in {db, Nothing}
      BY <2>3 DEF StreamInv, Current, Quiet
    <3>2. ASSUME NEW i \in DOMAIN seen[c]
          PROVE  log[seen[c][i]] = StepEvent
      <4>1. from[c] < seen[c][i] /\ seen[c][i] \in Positions
        BY <2>1, <2>2 DEF Above
      <4>2. seen[c][i] \in asked[c] + 1..Len(log)
        BY <2>1, <2>2, <4>1 DEF Positions
      <4>3. QED BY <2>3, <4>2
    <3>3. QED BY <3>1, <3>2 DEF ToldLast
  <2>4. CASE \A i \in Positions : log[i] = StepEvent
    <3>1. \A i \in asked[c] + 1..Len(log) : i \in Positions
      BY <2>1 DEF Positions
    <3>2. QED BY <2>3, <2>4, <3>1
  <2>5. ASSUME NEW i \in Positions, Final(i)
        PROVE  ToldLast(c, db) \/ ToldLast(c, Nothing)
    <3>1. log[i] = db /\ i \in 1..Len(log)
      BY <2>5 DEF StreamInv, Serial, Quiet, Positions
    <3>2. CASE from[c] < i
      <4>1. i \in from[c] + 1..Len(log)
        BY <2>1, <3>1, <3>2
      <4>2. PICK k \in DOMAIN seen[c] : seen[c][k] = i
        BY <2>5, <4>1 DEF Missed
      <4>3. ASSUME NEW j \in k + 1..Len(seen[c])
            PROVE  log[seen[c][j]] = StepEvent
        <5>1. j \in DOMAIN seen[c] /\ k < j
          BY <2>1, <4>2
        <5>2. i < seen[c][j] /\ seen[c][j] \in Positions
          BY <2>1, <2>2, <4>2, <5>1 DEF Rising
        <5>3. seen[c][j] \in i + 1..Len(log)
          BY <2>1, <3>1, <5>2 DEF Positions
        <5>4. QED BY <2>5, <5>3 DEF Final
      <4>4. QED BY <3>1, <4>2, <4>3 DEF ToldLast
    <3>3. CASE asked[c] < i /\ i <= from[c]
      <4>1. i \in asked[c] + 1..from[c]
        BY <2>1, <3>1, <3>3
      <4>2. QED BY <2>5, <4>1 DEF Raced
    <3>4. CASE i <= asked[c]
      <4>1. \A j \in asked[c] + 1..Len(log) : j \in i + 1..Len(log)
        BY <2>1, <3>1, <3>4
      <4>2. QED BY <2>3, <2>5, <4>1 DEF Final
    <3>5. QED BY <2>1, <3>1, <3>2, <3>3, <3>4
  <2>6. QED BY <2>4, <2>5 DEF StreamInv, HasFinal
<1>2. QED BY <1>1, StreamInvariance, PTL

=============================================================================

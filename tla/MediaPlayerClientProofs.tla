------------------------ MODULE MediaPlayerClientProofs ------------------------
(***************************************************************************)
(* The invariants of MediaPlayerClient for any set of sinks and any number *)
(* of state changes, flushes and ends of stream, as long as flushes do not *)
(* mix with the others.                                                    *)
(***************************************************************************)
EXTENDS MediaPlayerClient, TLAPS

-----------------------------------------------------------------------------
(***************************************************************************)
(* Messages in the event loop's queue.                                     *)
(***************************************************************************)
Moves == {"PAUSED", "PLAYING"}
CallTypes == {"count", "pause", "play"}
CapsTypes == {"attach", "capsPause"}

Message ==
    {Msg(t, s) : t \in CallTypes \cup CapsTypes \cup {"flush"}, s \in Sources}
    \cup {Msg(t, "none") : t \in {"collection", "sendAll"}}
    \cup {Msg("state", x) : x \in Moves \cup {"END_OF_STREAM"}}

\* m is in the queue q; after an m no n comes.
In(q, m) == \E i \in 1..Len(q) : q[i] = m
NoneAfter(q, m, n) == \A i, j \in 1..Len(q) : i < j /\ q[i] = m => q[j] # n

\* The same of the loop's queue, and of what the server is going to say.
Asked(t, x) == In(backendQueue, Msg(t, x))
Clear(t, x, u, y) == NoneAfter(backendQueue, Msg(t, x), Msg(u, y))
Owed(x) == In(owed, x)
OwedClear(x, y) == NoneAfter(owed, x, y)

Said(x) == Asked("state", x)

-----------------------------------------------------------------------------
(***************************************************************************)
(* The inductive invariant.                                                *)
(***************************************************************************)
GstState == [current : {"READY"} \cup Moves, next : {Void} \cup Moves, pending : {Void} \cup Moves]
SinkStates == {"READY", "AWAITING_PAUSED", "PAUSED", "AWAITING_PLAYING", "PLAYING"}
ThreadPlaces == {"idle", "count", "pause", "play", "waiting", "asyncStart", "commit"}

SinkTypes ==
    /\ target \in Moves /\ step \in Moves
    /\ gst \in [Sources -> GstState] /\ goal \in [Sources -> {"READY"} \cup Moves]
    /\ thread \in [Sources -> ThreadPlaces]
    /\ caps \in [Sources -> {"none", "attaching", "attached", "pausing", "done"}]
    /\ m_isStateCommitNeeded \in [Sources -> BOOLEAN]

ClientTypes ==
    /\ m_attachedSources \subseteq Sources /\ m_state \in [Sources -> SinkStates]
    /\ m_clientState \in SinkStates \cup {"IDLE"}
    /\ m_serverPlaybackState \in Moves \cup {"IDLE", "END_OF_STREAM"}
    /\ m_wasAllSourcesAttachedSent \in BOOLEAN
    /\ backendQueue \in Seq(Message)
    /\ targets \in Nat /\ flushes \in Nat /\ ends \in Nat

ServerTypes ==
    /\ owed \in Seq(Moves) /\ serverState \in Moves \cup {"IDLE"}
    /\ serverTarget \in Moves \cup {"IDLE"}

\* What the loop is telling the delegates is what it took last; it has what
\* GStreamer says of at most one sink.
Telling ==
    \/ handling = NotHandling
    \/ /\ handling \in [state : Moves, todo : SUBSET Sources, reader : SUBSET Sources,
                        read : SUBSET GstState]
       /\ handling.state = m_serverPlaybackState /\ handling.todo # {}
       /\ \/ handling.reader = {} /\ handling.read = {}
          \/ \E s \in handling.todo, g \in GstState : handling.reader = {s} /\ handling.read = {g}

\* What the loop has read of sink s.
ReadOf(s) == {g \in handling.read : handling.reader = {s}}

\* A thread that waits for the loop has one message there, and what it asks
\* for is the state the bin moves the sinks to.
Calling(s) ==
    /\ \A t \in CallTypes : Asked(t, s) =>
        /\ thread[s] = "waiting" /\ Clear(t, s, t, s)
        /\ \A u \in CallTypes : Asked(u, s) => u = t
    /\ thread[s] \in {"count", "pause", "asyncStart"} \/ Asked("pause", s) \/ Asked("count", s)
         => step = "PAUSED" /\ goal[s] = "PAUSED"
    /\ thread[s] = "play" \/ Asked("play", s) => step = "PLAYING"
    /\ thread[s] # "idle" => goal[s] = step
    /\ \A t \in CapsTypes : Asked(t, s) => Clear(t, s, t, s)
    /\ Asked("attach", s) => caps[s] = "attaching"
    /\ Asked("capsPause", s) => caps[s] = "pausing"
    /\ s \in m_attachedSources <=> caps[s] \notin {"none", "attaching"}

\* Only a sink that never reached PAUSED is in READY.
Shape(s) ==
    /\ gst[s].pending # Void => gst[s].next # Void
    /\ gst[s].current = "READY" =>
        /\ step = "PAUSED" /\ goal[s] \in {"READY", "PAUSED"}
        /\ gst[s].next = IF goal[s] = "READY" THEN Void ELSE "PAUSED"
        /\ gst[s].pending = gst[s].next
    /\ goal[s] = "READY" => gst[s].current = "READY"

\* Before the server gets its first command: a sink that has not got its
\* source does not wait for the loop, and one that has is not told to pause
\* by its thread.
Startup == m_clientState \in {"IDLE", "READY"}

StartingSink(s) == Startup =>
    /\ gst[s].current = "READY"
    /\ thread[s] \in {"idle", "count", "pause", "waiting", "asyncStart"}
    /\ caps[s] # "none" => thread[s] = "idle" /\ goal[s] = "PAUSED"
    /\ ~Asked("flush", s)
    /\ m_state[s] = IF caps[s] = "done" THEN "AWAITING_PAUSED" ELSE "READY"

Starting ==
    /\ Startup =>
        /\ step = "PAUSED" /\ handling = NotHandling /\ owed = <<>>
        /\ ~Said("PAUSED") /\ ~Said("PLAYING") /\ ~Said("END_OF_STREAM")
        /\ m_serverPlaybackState = "IDLE" /\ serverState = "IDLE"
    /\ m_clientState = "READY" => m_attachedSources = Sources /\ \E s \in Sources : caps[s] # "done"
    /\ m_clientState = "IDLE" /\ m_attachedSources = Sources /\ streams = Kinds =>
        collection = "counted" \/ Asked("sendAll", "none")

Started ==
    /\ m_clientState = "IDLE" <=> ~m_wasAllSourcesAttachedSent
    /\ ~Startup => \A s \in Sources :
        /\ caps[s] = "done" /\ goal[s] # "READY" /\ thread[s] \notin {"count", "asyncStart"}
        /\ ~Asked("count", s)

\* The server is going to announce what it was told last, and as long as the
\* client waits for that the announcement is still to come.
Agreeing ==
    /\ m_clientState \in {"IDLE", "READY"} <=> serverTarget = "IDLE"
    /\ m_clientState \in {"AWAITING_PAUSED", "PAUSED"} <=> serverTarget = "PAUSED"
    /\ m_clientState \in {"AWAITING_PLAYING", "PLAYING"} <=> serverTarget = "PLAYING"
    /\ owed = <<>> => serverState = serverTarget
    /\ owed # <<>> => owed[Len(owed)] = serverTarget
    /\ m_clientState \in Awaiting => owed # <<>> \/ Said(serverTarget)

\* Flushes come alone.
Alone ==
    /\ flushes # 0 => targets = 0 /\ ends = 0
    /\ \A s \in Sources : Asked("flush", s) => flushes # 0
    /\ Said("END_OF_STREAM") \/ m_serverPlaybackState = "END_OF_STREAM" => ends # 0

\* Without flushes every command has one announcement, and the client knows
\* the state it has from the last one.
Answered == flushes = 0 =>
    /\ m_clientState = "PAUSED" =>
        /\ owed = <<>> /\ ~Said("PAUSED") /\ ~Said("PLAYING") /\ ~Said("END_OF_STREAM")
        /\ m_serverPlaybackState = "PAUSED"
    /\ m_clientState = "PLAYING" =>
        /\ owed = <<>> /\ ~Said("PAUSED") /\ ~Said("PLAYING")
        /\ m_serverPlaybackState # "PAUSED"
    /\ m_clientState = "AWAITING_PLAYING" =>
        /\ m_serverPlaybackState = "PAUSED"
        /\ ~Said("PAUSED") /\ Clear("state", "PLAYING", "state", "PLAYING")
        /\ Clear("state", "END_OF_STREAM", "state", "PLAYING")
        /\ owed # <<>> => Len(owed) = 1 /\ ~Said("PLAYING") /\ ~Said("END_OF_STREAM")
    /\ m_clientState = "AWAITING_PAUSED" =>
        /\ OwedClear("PAUSED", "PAUSED") /\ OwedClear("PAUSED", "PLAYING")
        /\ Said("PAUSED") => owed = <<>>
        /\ \A x \in Moves \cup {"END_OF_STREAM"} : Clear("state", "PAUSED", "state", x)
    /\ handling.state \in Moves => m_clientState = handling.state

\* Without flushes: a sink is on its way to PAUSED, or was last told to play.
NotPaused(s) == gst[s].pending # Void \/ gst[s].current # "PAUSED"
ToBePaused(s) ==
    \/ goal[s] = "PLAYING"
    \/ goal[s] = "PAUSED" /\ thread[s] \in {"idle", "pause", "waiting"} /\ NotPaused(s)
Played == {"AWAITING_PLAYING", "PLAYING"}

Unflushed(s) == flushes = 0 =>
    /\ gst[s].next = gst[s].pending /\ gst[s].next \in {Void, goal[s]}
    /\ goal[s] = "PLAYING" => NotPaused(s)
    /\ step = "PLAYING" /\ goal[s] = "PAUSED" => ~NotPaused(s)
    /\ \A g \in ReadOf(s) :
        /\ g.next = g.pending
        /\ handling.state = "PAUSED" /\ g.next = "PAUSED" => goal[s] = "PAUSED"
        /\ g.next = "PLAYING" => goal[s] = "PLAYING" \/ thread[s] \in {"pause", "waiting"}
    /\ ~Startup /\ thread[s] \in {"idle", "commit"} =>
        /\ step = "PAUSED" /\ goal[s] = "PAUSED" => m_state[s] \in {"PAUSED", "AWAITING_PAUSED"}
        /\ step = "PLAYING" /\ goal[s] = "PLAYING" => m_state[s] \in Played
    /\ step = "PAUSED" /\ m_clientState \in Played =>
        goal[s] = "PLAYING" \/ (thread[s] \in {"pause", "waiting"} /\ NotPaused(s))
    /\ step = "PAUSED" /\ m_clientState = "AWAITING_PAUSED" => ToBePaused(s)
    /\ handling.state = "PAUSED" /\ s \in handling.todo => ToBePaused(s)

\* Without flushes: the bin goes up when the client has reached PAUSED, and
\* the sink that asked for PAUSED keeps the others from playing.
Pausing == flushes = 0 =>
    /\ step = "PLAYING" => m_clientState # "AWAITING_PAUSED" /\ handling.state # "PAUSED"
    /\ m_clientState = "AWAITING_PAUSED" =>
        \E a \in Sources : goal[a] = "PAUSED" /\ m_state[a] = "AWAITING_PAUSED"
    /\ handling.state = "PAUSED" => \E a \in Sources :
        /\ goal[a] = "PAUSED" /\ m_state[a] \in {"PAUSED", "AWAITING_PAUSED"}
        /\ \A g \in ReadOf(a) : g.next # "PLAYING"
    /\ step = "PLAYING" /\ m_clientState = "PAUSED" => \E a \in Sources : m_state[a] \notin Played

\* As long as the pipeline was not set to another state: the sinks go up,
\* and nobody is told to pause again.
PausedToCome(s) ==
    Owed("PAUSED") \/ Said("PAUSED") \/ (handling.state = "PAUSED" /\ s \in handling.todo)

\* A play of sink s is to come.
ToPlay(s) ==
    \/ goal[s] = "PAUSED" \/ thread[s] \in {"play", "waiting"}
    \/ gst[s].pending = Void
    \/ gst[s].next = "PAUSED"
    \/ m_isStateCommitNeeded[s] /\ PausedToCome(s)

Rising(s) == targets = 0 /\ ~Startup =>
    /\ step = "PAUSED" =>
        /\ goal[s] = "PAUSED" /\ thread[s] = "idle" /\ gst[s].current # "PLAYING"
        /\ gst[s].next # "PLAYING" /\ gst[s].pending # "PLAYING"
        /\ gst[s].pending # Void \/ gst[s].current = "PAUSED"
        /\ \A g \in ReadOf(s) : g.next # "PLAYING" /\ g.pending # "PLAYING"
    /\ serverTarget = "PAUSED" => gst[s].current # "PLAYING" /\ thread[s] # "commit"
    /\ step = "PLAYING" /\ serverTarget = "PAUSED" =>
        /\ ToPlay(s) \/ m_state[s] \in Played
        /\ gst[s].pending # Void /\ gst[s].next = "PAUSED" =>
            m_isStateCommitNeeded[s] /\ PausedToCome(s)
        /\ gst[s].pending # Void /\ gst[s].next = "PLAYING" =>
            gst[s].pending = "PLAYING" /\ goal[s] = "PLAYING"
        /\ \A g \in ReadOf(s) : gst[s].pending # Void =>
            /\ gst[s].next = "PAUSED" => g.next = "PAUSED"
            /\ gst[s].next = "PLAYING" /\ thread[s] \notin {"play", "waiting"} =>
                g.current = "PAUSED" /\ g.next = "PLAYING"

First == targets = 0 /\ ~Startup =>
    /\ step = "PAUSED" => serverTarget = "PAUSED"
    /\ step = "PLAYING" => target = "PLAYING"
    /\ serverTarget = "PAUSED" =>
        /\ ~Said("PLAYING") /\ ~Said("END_OF_STREAM") /\ ~Owed("PLAYING")
        /\ m_serverPlaybackState \in {"IDLE", "PAUSED"}
    /\ step = "PLAYING" /\ serverTarget = "PAUSED" => \E s \in Sources : ToPlay(s)

\* What is true of every sink.
OfSink(s) == Calling(s) /\ Shape(s) /\ StartingSink(s) /\ Unflushed(s) /\ Rising(s)

IInv ==
    /\ SinkTypes /\ ClientTypes /\ ServerTypes /\ Telling
    /\ Starting /\ Started /\ Agreeing /\ Alone /\ Answered /\ Pausing /\ First
    /\ \A s \in Sources : OfSink(s)

-----------------------------------------------------------------------------
(***************************************************************************)
(* Queues.                                                                 *)
(***************************************************************************)
LEMMA SameMessage ==
    ASSUME NEW t, NEW x, NEW u, NEW y
    PROVE  Msg(t, x) = Msg(u, y) <=> t = u /\ x = y
BY DEF Msg

LEMMA AppendedTo ==
    ASSUME NEW T, NEW q \in Seq(T), NEW m \in T
    PROVE  /\ Append(q, m) \in Seq(T) /\ Append(q, m) # <<>>
           /\ Append(q, m)[Len(Append(q, m))] = m
           /\ q = <<>> => Len(Append(q, m)) = 1
           /\ \A n : In(Append(q, m), n) <=> In(q, n) \/ n = m
           /\ \A n, p : (In(q, n) => NoneAfter(q, n, p) /\ p # m) => NoneAfter(Append(q, m), n, p)
<1> DEFINE r == Append(q, m)
<1>1. /\ r \in Seq(T) /\ r # <<>> /\ Len(r) = Len(q) + 1 /\ r[Len(q) + 1] = m
      /\ \A i \in 1..Len(q) : r[i] = q[i]
      /\ Len(q) \in Nat
    OBVIOUS
<1>2. q = <<>> => Len(r) = 1
    BY <1>1
<1> HIDE DEF r
<1>3. ASSUME NEW n PROVE In(r, n) <=> In(q, n) \/ n = m
    <2>1. ASSUME In(r, n) PROVE In(q, n) \/ n = m
        <3>1. PICK i \in 1..Len(r) : r[i] = n
            BY <2>1 DEF In
        <3>2. i \in 1..Len(q) \/ i = Len(q) + 1
            BY <1>1, <3>1
        <3> QED BY <1>1, <3>1, <3>2 DEF In
    <2>2. ASSUME In(q, n) PROVE In(r, n)
        <3>1. PICK i \in 1..Len(q) : q[i] = n
            BY <2>2 DEF In
        <3>2. i \in 1..Len(r)
            BY <1>1, <3>1
        <3> QED BY <1>1, <3>1, <3>2 DEF In
    <2>3. ASSUME n = m PROVE In(r, n)
        <3>1. Len(q) + 1 \in 1..Len(r)
            BY <1>1
        <3> QED BY <1>1, <2>3, <3>1 DEF In
    <2> QED BY <2>1, <2>2, <2>3
<1>4. ASSUME NEW n, NEW p, In(q, n) => NoneAfter(q, n, p) /\ p # m PROVE NoneAfter(r, n, p)
    <2> SUFFICES ASSUME NEW i \in 1..Len(r), NEW j \in 1..Len(r), i < j, r[i] = n PROVE r[j] # p
        BY DEF NoneAfter
    <2>1. i \in 1..Len(q) /\ q[i] = n
        BY <1>1
    <2>a. NoneAfter(q, n, p) /\ p # m
        BY <1>4, <2>1 DEF In
    <2>2. CASE j \in 1..Len(q)
        BY <1>1, <2>a, <2>1, <2>2 DEF NoneAfter
    <2>3. CASE j = Len(q) + 1
        BY <1>1, <2>a, <2>1, <2>3
    <2> QED BY <1>1, <2>2, <2>3
<1> QED BY <1>1, <1>2, <1>3, <1>4 DEF r

LEMMA TailOf ==
    ASSUME NEW T, NEW q \in Seq(T), q # <<>>
    PROVE  /\ Tail(q) \in Seq(T) /\ Head(q) \in T
           /\ Tail(q) # <<>> => Tail(q)[Len(Tail(q))] = q[Len(q)]
           /\ Tail(q) = <<>> => Head(q) = q[Len(q)]
           /\ Len(q) = 1 => Tail(q) = <<>>
           /\ Len(q) > 1 => Tail(q) # <<>>
           /\ \A n : In(q, n) <=> In(Tail(q), n) \/ n = Head(q)
           /\ \A n, p : NoneAfter(q, n, p) => NoneAfter(Tail(q), n, p)
           /\ \A p : NoneAfter(q, Head(q), p) => ~In(Tail(q), p)
<1> DEFINE r == Tail(q)
<1>a. /\ Len(q) \in Nat \ {0} /\ Head(q) = q[1] /\ q[1] \in T
    OBVIOUS
<1>b. /\ r \in Seq(T) /\ Len(r) = Len(q) - 1
    OBVIOUS
<1>c. \A i \in 1..Len(r) : r[i] = q[i + 1]
    OBVIOUS
<1> HIDE DEF r
<1>d. r = <<>> <=> Len(q) = 1
    BY <1>a, <1>b
<1>1. /\ r \in Seq(T) /\ Len(r) = Len(q) - 1 /\ Len(q) \in Nat \ {0} /\ Head(q) = q[1] /\ q[1] \in T
      /\ \A i \in 1..Len(r) : r[i] = q[i + 1]
      /\ r = <<>> <=> Len(q) = 1
    BY <1>a, <1>b, <1>c, <1>d
<1>2. ASSUME r # <<>> PROVE r[Len(r)] = q[Len(q)]
    <2>1. Len(r) \in 1..Len(r) /\ Len(r) + 1 = Len(q)
        BY <1>1, <1>2
    <2> QED BY <1>1, <2>1
<1>3. ASSUME NEW n PROVE In(q, n) <=> In(r, n) \/ n = Head(q)
    <2>1. ASSUME In(q, n), n # Head(q) PROVE In(r, n)
        <3>1. PICK i \in 1..Len(q) : q[i] = n
            BY <2>1 DEF In
        <3>2. i - 1 \in 1..Len(r) /\ (i - 1) + 1 = i
            BY <1>1, <2>1, <3>1
        <3>3. r[i - 1] = n
            BY <1>1, <3>1, <3>2
        <3> QED BY <3>2, <3>3 DEF In
    <2>2. ASSUME In(r, n) PROVE In(q, n)
        <3>1. PICK i \in 1..Len(r) : r[i] = n
            BY <2>2 DEF In
        <3>2. i + 1 \in 1..Len(q) /\ q[i + 1] = n
            BY <1>1, <3>1
        <3> QED BY <3>2 DEF In
    <2>3. ASSUME n = Head(q) PROVE In(q, n)
        <3>1. 1 \in 1..Len(q)
            BY <1>1
        <3> QED BY <1>1, <2>3, <3>1 DEF In
    <2> QED BY <2>1, <2>2, <2>3
<1>4. ASSUME NEW n, NEW p, NoneAfter(q, n, p) PROVE NoneAfter(r, n, p)
    <2> SUFFICES ASSUME NEW i \in 1..Len(r), NEW j \in 1..Len(r), i < j, r[i] = n PROVE r[j] # p
        BY DEF NoneAfter
    <2>1. i + 1 \in 1..Len(q) /\ j + 1 \in 1..Len(q) /\ i + 1 < j + 1
        BY <1>1
    <2>2. q[i + 1] = n /\ q[j + 1] = r[j]
        BY <1>1
    <2> QED BY <1>4, <2>1, <2>2 DEF NoneAfter
<1>5. ASSUME NEW p, NoneAfter(q, Head(q), p), In(r, p) PROVE FALSE
    <2>1. PICK i \in 1..Len(r) : r[i] = p
        BY <1>5 DEF In
    <2>2. i + 1 \in 1..Len(q) /\ 1 \in 1..Len(q) /\ 1 < i + 1 /\ q[i + 1] = p /\ q[1] = Head(q)
        BY <1>1, <2>1
    <2> QED BY <1>5, <2>2 DEF NoneAfter
<1> QED BY <1>1, <1>2, <1>3, <1>4, <1>5 DEF r

LEMMA AreMessages ==
    /\ \A t \in CallTypes \cup CapsTypes \cup {"flush"}, s \in Sources : Msg(t, s) \in Message
    /\ \A t \in {"collection", "sendAll"} : Msg(t, "none") \in Message
    /\ \A x \in Moves \cup {"END_OF_STREAM"} : Msg("state", x) \in Message
BY DEF Message

\* A message is posted to the loop.
LEMMA Posted ==
    ASSUME NEW t, NEW x, Msg(t, x) \in Message, backendQueue \in Seq(Message),
           backendQueue' = Append(backendQueue, Msg(t, x))
    PROVE  /\ backendQueue' \in Seq(Message)
           /\ \A u, y : Asked(u, y)' <=> Asked(u, y) \/ (u = t /\ y = x)
           /\ \A u, y, v, z : (Asked(u, y) => Clear(u, y, v, z) /\ ~(v = t /\ z = x))
                                => Clear(u, y, v, z)'
<1>1. /\ Append(backendQueue, Msg(t, x)) \in Seq(Message)
      /\ \A n : In(Append(backendQueue, Msg(t, x)), n) <=> In(backendQueue, n) \/ n = Msg(t, x)
      /\ \A n, p : (In(backendQueue, n) => NoneAfter(backendQueue, n, p) /\ p # Msg(t, x))
                    => NoneAfter(Append(backendQueue, Msg(t, x)), n, p)
    BY AppendedTo
<1>2. ASSUME NEW u, NEW y PROVE Asked(u, y)' <=> Asked(u, y) \/ (u = t /\ y = x)
    <2>1. Msg(u, y) = Msg(t, x) <=> u = t /\ y = x
        BY SameMessage
    <2> QED BY <1>1, <2>1 DEF Asked
<1>3. ASSUME NEW u, NEW y, NEW v, NEW z, Asked(u, y) => Clear(u, y, v, z) /\ ~(v = t /\ z = x)
      PROVE  Clear(u, y, v, z)'
    <2>1. Msg(v, z) = Msg(t, x) <=> v = t /\ z = x
        BY SameMessage
    <2>2. In(backendQueue, Msg(u, y)) =>
            NoneAfter(backendQueue, Msg(u, y), Msg(v, z)) /\ Msg(v, z) # Msg(t, x)
        BY <1>3, <2>1 DEF Asked, Clear
    <2>3. NoneAfter(backendQueue', Msg(u, y), Msg(v, z))
        BY <1>1, <2>2
    <2> QED BY <2>3 DEF Clear
<1> QED BY <1>1, <1>2, <1>3

\* The loop takes its first message.
LEMMA Taken ==
    ASSUME NEW t, NEW x, Handles(t, x), backendQueue \in Seq(Message),
           backendQueue' = Tail(backendQueue)
    PROVE  /\ backendQueue' \in Seq(Message) /\ Asked(t, x) /\ handling = NotHandling
           /\ \A u, y : Asked(u, y) <=> Asked(u, y)' \/ (u = t /\ y = x)
           /\ \A u, y, v, z : Clear(u, y, v, z) => Clear(u, y, v, z)'
           /\ \A u, y : Clear(t, x, u, y) => ~Asked(u, y)'
           /\ \A u, y, v, z : ~Asked(u, y)' => Clear(u, y, v, z)'
<1>1. /\ backendQueue # <<>> /\ Head(backendQueue) = Msg(t, x) /\ handling = NotHandling
    BY DEF Handles
<1>2. /\ backendQueue' \in Seq(Message)
      /\ \A n : In(backendQueue, n) <=> In(backendQueue', n) \/ n = Msg(t, x)
      /\ \A n, p : NoneAfter(backendQueue, n, p) => NoneAfter(backendQueue', n, p)
      /\ \A p : NoneAfter(backendQueue, Msg(t, x), p) => ~In(backendQueue', p)
    BY <1>1, TailOf
<1>3. ASSUME NEW u, NEW y PROVE Asked(u, y) <=> Asked(u, y)' \/ (u = t /\ y = x)
    <2>1. Msg(u, y) = Msg(t, x) <=> u = t /\ y = x
        BY SameMessage
    <2> QED BY <1>2, <2>1 DEF Asked
<1>4. \A u, y, v, z : Clear(u, y, v, z) => Clear(u, y, v, z)'
    BY <1>2 DEF Clear
<1>5. \A u, y : Clear(t, x, u, y) => ~Asked(u, y)'
    BY <1>2 DEF Clear, Asked
<1>6. \A u, y, v, z : ~Asked(u, y)' => Clear(u, y, v, z)'
    BY DEF Clear, Asked, In, NoneAfter
<1> QED BY <1>1, <1>2, <1>3, <1>4, <1>5, <1>6

\* The loop takes its first message and posts one to itself.
LEMMA TakenAndPosted ==
    ASSUME NEW t, NEW x, NEW a, NEW b, Handles(t, x), Msg(a, b) \in Message, backendQueue \in Seq(Message),
           backendQueue' = Append(Tail(backendQueue), Msg(a, b))
    PROVE  /\ backendQueue' \in Seq(Message) /\ Asked(t, x) /\ handling = NotHandling
           /\ \A u, y : Asked(u, y)' => Asked(u, y) \/ (u = a /\ y = b)
           /\ \A u, y : Asked(u, y) => Asked(u, y)' \/ (u = t /\ y = x)
           /\ Asked(a, b)'
           /\ \A u, y : Clear(t, x, u, y) /\ ~(u = a /\ y = b) => ~Asked(u, y)'
           /\ \A u, y, v, z : (Asked(u, y) => Clear(u, y, v, z) /\ ~(v = a /\ z = b))
                                => Clear(u, y, v, z)'
<1> DEFINE q == Tail(backendQueue)
           r == Append(q, Msg(a, b))
<1>1. backendQueue # <<>> /\ Head(backendQueue) = Msg(t, x) /\ handling = NotHandling
    BY DEF Handles
<1>2. /\ q \in Seq(Message)
      /\ \A n : In(backendQueue, n) <=> In(q, n) \/ n = Msg(t, x)
      /\ \A n, p : NoneAfter(backendQueue, n, p) => NoneAfter(q, n, p)
      /\ \A p : NoneAfter(backendQueue, Msg(t, x), p) => ~In(q, p)
    BY <1>1, TailOf
<1> HIDE DEF q
<1>3. /\ r \in Seq(Message)
      /\ \A n : In(r, n) <=> In(q, n) \/ n = Msg(a, b)
      /\ \A n, p : (In(q, n) => NoneAfter(q, n, p) /\ p # Msg(a, b)) => NoneAfter(r, n, p)
    BY <1>2, AppendedTo
<1>4. backendQueue' = r
    BY DEF q
<1> HIDE DEF r
<1>5. ASSUME NEW u, NEW y
      PROVE  /\ Asked(u, y)' => Asked(u, y) \/ (u = a /\ y = b)
             /\ Asked(u, y) => Asked(u, y)' \/ (u = t /\ y = x)
             /\ Clear(t, x, u, y) /\ ~(u = a /\ y = b) => ~Asked(u, y)'
    <2>1. /\ Msg(u, y) = Msg(a, b) <=> u = a /\ y = b
          /\ Msg(u, y) = Msg(t, x) <=> u = t /\ y = x
        BY SameMessage
    <2> QED BY <1>2, <1>3, <1>4, <2>1 DEF Asked, Clear
<1>6. Asked(a, b)' /\ Asked(t, x)
    BY <1>2, <1>3, <1>4 DEF Asked
<1>7. ASSUME NEW u, NEW y, NEW v, NEW z, Asked(u, y) => Clear(u, y, v, z) /\ ~(v = a /\ z = b)
      PROVE  Clear(u, y, v, z)'
    <2>1. Msg(v, z) = Msg(a, b) <=> v = a /\ z = b
        BY SameMessage
    <2>2. In(q, Msg(u, y)) => NoneAfter(q, Msg(u, y), Msg(v, z)) /\ Msg(v, z) # Msg(a, b)
        BY <1>2, <1>7, <2>1 DEF Asked, Clear
    <2>3. NoneAfter(r, Msg(u, y), Msg(v, z))
        BY <1>3, <2>2
    <2> QED BY <1>4, <2>3 DEF Clear
<1> QED BY <1>1, <1>3, <1>4, <1>5, <1>6, <1>7

\* Nothing is posted and nothing taken.
LEMMA QueueSame ==
    ASSUME backendQueue' = backendQueue
    PROVE  /\ \A u, y : Asked(u, y)' <=> Asked(u, y)
           /\ \A u, y, v, z : Clear(u, y, v, z)' <=> Clear(u, y, v, z)
BY DEF Asked, Clear

\* The server is going to announce nothing else than before.
LEMMA OwedSame ==
    ASSUME owed' = owed
    PROVE  /\ \A x : Owed(x)' <=> Owed(x)
           /\ \A x, y : OwedClear(x, y)' <=> OwedClear(x, y)
BY DEF Owed, OwedClear

\* The server got a command.
LEMMA Commanded ==
    ASSUME NEW x \in Moves, ServerTypes, Command(x)
    PROVE  /\ owed' \in Seq(Moves) /\ owed' # <<>> /\ owed'[Len(owed')] = x
           /\ serverTarget' = x /\ serverState' = serverState
           /\ owed = <<>> => Len(owed') = 1
           /\ \A y : Owed(y)' <=> Owed(y) \/ y = x
           /\ \A y, z : (Owed(y) => OwedClear(y, z) /\ z # x) => OwedClear(y, z)'
<1>1. owed' = Append(owed, x) /\ owed \in Seq(Moves) /\ serverTarget' = x /\ serverState' = serverState
    BY DEF Command, Owes, ServerTypes
<1>2. /\ Append(owed, x) \in Seq(Moves) /\ Append(owed, x) # <<>>
      /\ Append(owed, x)[Len(Append(owed, x))] = x
      /\ owed = <<>> => Len(Append(owed, x)) = 1
      /\ \A n : In(Append(owed, x), n) <=> In(owed, n) \/ n = x
      /\ \A n, p : (In(owed, n) => NoneAfter(owed, n, p) /\ p # x) => NoneAfter(Append(owed, x), n, p)
    BY <1>1, AppendedTo
<1>3. /\ \A y : Owed(y)' <=> Owed(y) \/ y = x
      /\ \A y, z : (Owed(y) => OwedClear(y, z) /\ z # x) => OwedClear(y, z)'
    BY <1>1, <1>2 DEF Owed, OwedClear
<1> QED BY <1>1, <1>2, <1>3

\* The server announces a state.
LEMMA AnnouncedOne ==
    ASSUME ServerTypes, owed # <<>>, owed' = Tail(owed)
    PROVE  /\ owed' \in Seq(Moves) /\ Head(owed) \in Moves
           /\ owed' # <<>> => owed'[Len(owed')] = owed[Len(owed)]
           /\ owed' = <<>> => Head(owed) = owed[Len(owed)]
           /\ Len(owed) = 1 => owed' = <<>>
           /\ Len(owed) > 1 => owed' # <<>>
           /\ \A y : Owed(y) <=> Owed(y)' \/ y = Head(owed)
           /\ \A y, z : OwedClear(y, z) => OwedClear(y, z)'
           /\ \A z : OwedClear(Head(owed), z) => ~Owed(z)'
<1>1. owed \in Seq(Moves)
    BY DEF ServerTypes
<1>2. /\ Tail(owed) \in Seq(Moves) /\ Head(owed) \in Moves
      /\ Tail(owed) # <<>> => Tail(owed)[Len(Tail(owed))] = owed[Len(owed)]
      /\ Tail(owed) = <<>> => Head(owed) = owed[Len(owed)]
      /\ Len(owed) = 1 => Tail(owed) = <<>>
      /\ Len(owed) > 1 => Tail(owed) # <<>>
      /\ \A n : In(owed, n) <=> In(Tail(owed), n) \/ n = Head(owed)
      /\ \A n, p : NoneAfter(owed, n, p) => NoneAfter(Tail(owed), n, p)
      /\ \A p : NoneAfter(owed, Head(owed), p) => ~In(Tail(owed), p)
    BY <1>1, TailOf
<1> QED BY <1>2 DEF Owed, OwedClear

\* An empty queue.
LEMMA NothingOwed ==
    ASSUME owed = <<>>
    PROVE  /\ \A x : ~Owed(x)
           /\ \A x, y : OwedClear(x, y)
BY DEF Owed, OwedClear, In, NoneAfter

\* The server owes the last of its announcements.
LEMMA OwesLast ==
    ASSUME ServerTypes, owed # <<>>
    PROVE  /\ Owed(owed[Len(owed)])
           /\ Len(owed) = 1 => \A x : Owed(x) => x = owed[Len(owed)]
<1>1. Len(owed) \in 1..Len(owed)
    BY DEF ServerTypes
<1>2. Len(owed) = 1 => 1..Len(owed) = {1}
    BY DEF ServerTypes
<1> QED BY <1>1, <1>2 DEF Owed, In

-----------------------------------------------------------------------------
(***************************************************************************)
(* The pipeline and its sinks.                                             *)
(***************************************************************************)
LEMMA SetTargetStep ==
    ASSUME IInv, "mixedFlush" \notin May, SetTarget
    PROVE  IInv'
<1>1. /\ target' \in Moves /\ targets' \in Nat /\ targets' # 0 /\ flushes = 0
      /\ UNCHANGED <<step, collection, gst, goal, thread, caps, m_isStateCommitNeeded, client,
                     backendQueue, handling, server, flushes, ends>>
    BY DEF IInv, ClientTypes, SetTarget, Moves
<1>2. SinkTypes' /\ ClientTypes' /\ ServerTypes' /\ Telling'
    BY <1>1 DEF IInv, SinkTypes, ClientTypes, ServerTypes, Telling, client, server
<1>3. Starting' /\ Started' /\ Agreeing' /\ Alone'
    BY <1>1, QueueSame DEF IInv, Starting, Started, Agreeing, Alone, Startup, Said, client, server
<1>4. Answered' /\ Pausing' /\ First'
    BY <1>1, QueueSame, OwedSame
       DEF IInv, Answered, Pausing, First, ReadOf, Startup, Said, client, server
<1>5. ASSUME NEW s \in Sources PROVE OfSink(s)'
    <2>1. Calling(s)' /\ Shape(s)' /\ StartingSink(s)'
        BY <1>1, QueueSame DEF IInv, OfSink, Calling, Shape, StartingSink, Startup, client
    <2>2. Unflushed(s)' /\ Rising(s)'
        BY <1>1 DEF IInv, OfSink, Unflushed, Rising, ReadOf, NotPaused, ToBePaused, Startup, client
    <2> QED BY <2>1, <2>2 DEF OfSink
<1> QED BY <1>2, <1>3, <1>4, <1>5 DEF IInv

LEMMA BinStepStep ==
    ASSUME IInv, "mixedFlush" \notin May, BinStep
    PROVE  IInv'
<1>1. /\ target \in Moves /\ step \in Moves /\ step' = target /\ step # target
      /\ UNCHANGED <<target, collection, gst, goal, thread, caps, m_isStateCommitNeeded, client,
                     backendQueue, handling, server, bounds>>
    BY DEF IInv, SinkTypes, BinStep
<1>2. ASSUME NEW s \in Sources
      PROVE  /\ OfSink(s) /\ goal[s] = step /\ thread[s] = "idle"
             /\ step = "PAUSED" => gst[s].pending = Void /\ gst[s].current = "PAUSED"
    BY DEF IInv, BinStep, LockFree
<1>3. /\ SinkTypes' /\ ClientTypes' /\ ServerTypes' /\ Telling'
      /\ SinkTypes /\ ClientTypes /\ ServerTypes /\ Telling
    BY <1>1 DEF IInv, SinkTypes, ClientTypes, ServerTypes, Telling, client, server, bounds
<1>4. PICK z \in Sources : TRUE
    BY ClientAssumption
<1>5. ~Startup
    <2>1. CASE step = "PAUSED"
        BY <1>2, <1>4, <2>1 DEF OfSink, StartingSink
    <2>2. CASE step = "PLAYING"
        BY <2>2 DEF IInv, Starting
    <2> QED BY <1>1, <2>1, <2>2 DEF Moves
<1>6. Starting' /\ Started' /\ Agreeing' /\ Alone' /\ Answered'
    BY <1>1, <1>5, QueueSame, OwedSame
       DEF IInv, Starting, Started, Agreeing, Alone, Answered, Startup, Said, client, server, bounds
<1>7. Pausing'
    <2>1. CASE step = "PLAYING"
        BY <1>1, <2>1 DEF IInv, Pausing, ReadOf, client, bounds, Moves
    <2>2. CASE step = "PAUSED"
        <3>1. ASSUME flushes = 0 PROVE m_clientState # "AWAITING_PAUSED" /\ handling.state # "PAUSED"
            <4>1. ASSUME NEW s \in Sources PROVE ~ToBePaused(s)
                BY <1>2, <2>2 DEF ToBePaused, NotPaused
            <4>2. m_clientState # "AWAITING_PAUSED"
                BY <1>2, <1>4, <2>2, <3>1, <4>1 DEF OfSink, Unflushed
            <4>3. ASSUME handling.state = "PAUSED" PROVE FALSE
                <5>1. PICK s \in Sources : s \in handling.todo
                    BY <1>3, <4>3 DEF Telling, NotHandling
                <5> QED BY <1>2, <3>1, <4>1, <4>3, <5>1 DEF OfSink, Unflushed
            <4> QED BY <4>2, <4>3
        <3>2. ASSUME flushes = 0 PROVE m_state[z] \notin Played
            BY <1>2, <1>4, <1>5, <2>2, <3>2 DEF OfSink, Unflushed, Played
        <3> QED BY <1>1, <1>4, <2>2, <3>1, <3>2 DEF Pausing, client, bounds
    <2> QED BY <1>1, <2>1, <2>2 DEF Moves
<1>8. First'
    <2>1. CASE step = "PLAYING"
        BY <1>1, <1>5, <2>1 DEF IInv, First, Startup, client, bounds, Moves
    <2>2. CASE step = "PAUSED"
        <3>1. ToPlay(z)'
            BY <1>1, <1>2, <1>4, <2>2 DEF ToPlay
        <3> QED BY <1>1, <1>4, <1>5, <2>2, <3>1, QueueSame, OwedSame
                DEF IInv, First, Startup, Said, Moves, client, server, bounds
    <2> QED BY <1>1, <2>1, <2>2 DEF Moves
<1>9. ASSUME NEW s \in Sources PROVE OfSink(s)'
    <2>1. Calling(s)'
        BY <1>1, <1>2, QueueSame DEF OfSink, Calling, CallTypes, client
    <2>2. Shape(s)' /\ StartingSink(s)'
        BY <1>1, <1>2, <1>5 DEF OfSink, Shape, StartingSink, Startup, client, Moves
    <2>3. Unflushed(s)'
        BY <1>1, <1>2, <1>5, <1>7 DEF OfSink, Unflushed, Pausing, NotPaused, ToBePaused, ReadOf, Startup, client,
            bounds, Moves
    <2>4. Rising(s)'
        <3>1. CASE step = "PLAYING"
            BY <1>1, <1>5, <3>1 DEF IInv, First, Rising, Startup, client, bounds, Moves
        <3>2. CASE step = "PAUSED"
            BY <1>1, <1>2, <1>5, <3>2 DEF OfSink, Rising, ToPlay, Startup, client, server, bounds, Moves
        <3> QED BY <1>1, <3>1, <3>2 DEF Moves
    <2> QED BY <2>1, <2>2, <2>3, <2>4 DEF OfSink
<1> QED BY <1>3, <1>6, <1>7, <1>8, <1>9 DEF IInv

-----------------------------------------------------------------------------
(***************************************************************************)
(* What a step leaves alone.                                               *)
(***************************************************************************)
\* A sink that a step has nothing to do with.
LEMMA SinkSame ==
    ASSUME NEW r \in Sources, OfSink(r),
           UNCHANGED <<step, m_clientState, serverTarget, flushes, targets>>,
           UNCHANGED <<gst[r], goal[r], thread[r], caps[r], m_isStateCommitNeeded[r], m_state[r]>>,
           r \in m_attachedSources' <=> r \in m_attachedSources,
           \A t \in CallTypes \cup CapsTypes \cup {"flush"} :
                /\ Asked(t, r)' <=> Asked(t, r)
                /\ Clear(t, r, t, r) => Clear(t, r, t, r)',
           PausedToCome(r) => PausedToCome(r)',
           \/ handling' = handling
           \/ /\ ReadOf(r)' = {}
              /\ handling'.state = "PAUSED" /\ r \in handling'.todo
                   => handling.state = "PAUSED" /\ r \in handling.todo
    PROVE  OfSink(r)'
<1>1. Calling(r)'
    BY DEF OfSink, Calling, CallTypes, CapsTypes
<1>2. Shape(r)' /\ StartingSink(r)'
    BY DEF OfSink, Shape, StartingSink, Startup
<1>3. ReadOf(r)' \in {ReadOf(r), {}}
    BY DEF ReadOf
<1>4. Unflushed(r)'
    BY <1>3 DEF OfSink, Unflushed, NotPaused, ToBePaused, Startup
<1>5. Rising(r)'
    BY <1>3 DEF OfSink, Rising, ToPlay, Startup
<1> QED BY <1>1, <1>2, <1>4, <1>5 DEF OfSink

\* What the client and the server tell each other.
LEMMA TalkSame ==
    ASSUME IInv, UNCHANGED <<m_clientState, m_serverPlaybackState, handling, server, bounds>>,
           \A x : Said(x)' <=> Said(x),
           \A x, y : Clear("state", x, "state", y) => Clear("state", x, "state", y)',
           \A s \in Sources : Asked("flush", s)' => Asked("flush", s)
    PROVE  /\ Agreeing' /\ Alone' /\ Answered'
           /\ \A s \in Sources : PausedToCome(s)' <=> PausedToCome(s)
BY OwedSame DEF IInv, Agreeing, Alone, Answered, PausedToCome, server, bounds

\* Order of the states.
LEMMA BusyMeans ==
    ASSUME SinkTypes, NEW s \in Sources
    PROVE  /\ gst[s] \in GstState /\ goal[s] \in {"READY"} \cup Moves /\ step \in Moves
           /\ Busy(s) <=> /\ gst[s].pending # Void
                          /\ \/ gst[s].pending = "PAUSED" \/ step = "PLAYING"
                             \/ gst[s].next = step
<1>1. gst[s] \in GstState /\ goal[s] \in {"READY"} \cup Moves /\ step \in Moves
    BY DEF SinkTypes
<1>2. gst[s].pending \in {Void, "PAUSED", "PLAYING"} /\ step \in {"PAUSED", "PLAYING"}
    BY <1>1 DEF GstState, Moves
<1>3. Order["PAUSED"] = 2 /\ Order["PLAYING"] = 3
    BY DEF Order
<1>4. ASSUME gst[s].pending # Void
      PROVE  Order[gst[s].pending] <= Order[step] <=> gst[s].pending = "PAUSED" \/ step = "PLAYING"
    BY <1>2, <1>3, <1>4
<1> QED BY <1>1, <1>4 DEF Busy

-----------------------------------------------------------------------------
LEMMA SetStateBusyStep ==
    ASSUME IInv, NEW s \in Sources, SetStateBusy(s)
    PROVE  IInv'
<1>1. /\ gst[s] \in GstState /\ goal[s] \in {"READY"} \cup Moves /\ step \in Moves
      /\ gst[s].pending # Void
      /\ gst[s].pending = "PAUSED" \/ step = "PLAYING" \/ gst[s].next = step
      /\ SinkTypes /\ ClientTypes /\ ServerTypes /\ Telling /\ OfSink(s)
    BY BusyMeans DEF IInv, SetStateBusy
<1>2. /\ gst' = [gst EXCEPT ![s].pending = step] /\ goal' = [goal EXCEPT ![s] = step]
      /\ UNCHANGED <<pipeline, thread, caps, m_isStateCommitNeeded, client, backendQueue,
                     handling, server, bounds>>
      /\ goal[s] # step /\ thread[s] = "idle"
    BY <1>1 DEF SetStateBusy, BinMoves
<1>3. ~Startup /\ goal[s] # "READY"
    BY <1>1, <1>2 DEF IInv, Starting, OfSink, StartingSink, Shape
<1>4. flushes # 0 /\ targets = 0
    BY <1>1, <1>2, <1>3 DEF IInv, Alone, OfSink, Unflushed, NotPaused, GstState, Moves
<1>5. step = "PLAYING" /\ goal[s] = "PAUSED"
    BY <1>1, <1>2, <1>3, <1>4 DEF OfSink, Rising, Moves
<1>6. /\ gst'[s] = [gst[s] EXCEPT !.pending = step] /\ goal'[s] = "PLAYING"
      /\ \A r \in Sources : r # s => gst'[r] = gst[r] /\ goal'[r] = goal[r]
      /\ gst' \in [Sources -> GstState] /\ goal' \in [Sources -> {"READY"} \cup Moves]
    BY <1>1, <1>2, <1>5 DEF SinkTypes, GstState
<1>7. gst'[s].pending = "PLAYING" /\ gst'[s].next = gst[s].next /\ gst'[s].current = gst[s].current
    BY <1>1, <1>5, <1>6 DEF GstState
<1>8. SinkTypes' /\ ClientTypes' /\ ServerTypes' /\ Telling'
    BY <1>1, <1>2, <1>6
       DEF SinkTypes, ClientTypes, ServerTypes, Telling, client, server, bounds, pipeline
<1>9. Agreeing' /\ Alone' /\ Answered' /\ \A r \in Sources : PausedToCome(r)' <=> PausedToCome(r)
    BY <1>2, TalkSame, QueueSame DEF Said, client
<1>10. Starting' /\ Started' /\ Pausing'
    BY <1>2, <1>3, <1>4, <1>6, QueueSame
       DEF IInv, Starting, Started, Pausing, Startup, client, bounds
<1>11. First'
    <2>1. ASSUME serverTarget = "PAUSED" PROVE \E r \in Sources : ToPlay(r)'
        <3>1. PICK r \in Sources : ToPlay(r)
            BY <1>3, <1>4, <1>5, <2>1 DEF IInv, First
        <3>2. CASE r = s
            <4>1. gst[s].next = "PAUSED"
                BY <1>1, <1>3, <1>4, <1>5, <2>1 DEF OfSink, Shape, Rising, GstState, Moves
            <4> QED BY <1>7, <3>2, <4>1 DEF ToPlay
        <3>3. CASE r # s
            BY <1>2, <1>6, <1>9, <3>1, <3>3 DEF ToPlay
        <3> QED BY <3>2, <3>3
    <2> QED BY <1>2, <1>5, <2>1, QueueSame, OwedSame
            DEF IInv, First, Startup, Said, client, server, bounds, pipeline
<1>12. OfSink(s)'
    <2>1. Calling(s)'
        BY <1>1, <1>2, <1>5, <1>6, QueueSame DEF OfSink, Calling, CallTypes, client, pipeline
    <2>2. Shape(s)' /\ StartingSink(s)' /\ Unflushed(s)'
        BY <1>1, <1>2, <1>3, <1>4, <1>5, <1>6, <1>7
           DEF OfSink, Shape, StartingSink, Unflushed, Startup, client, bounds, pipeline
    <2>3. ASSUME serverTarget = "PAUSED"
          PROVE  gst[s].next = "PAUSED" /\ gst[s].current # "PLAYING" /\ thread[s] # "commit"
                 /\ m_isStateCommitNeeded[s] /\ PausedToCome(s)
                 /\ \A g \in ReadOf(s) : g.next = "PAUSED"
        BY <1>1, <1>3, <1>4, <1>5, <2>3 DEF OfSink, Shape, Rising, GstState, Moves
    <2>4. ReadOf(s)' = ReadOf(s)
        BY <1>2 DEF ReadOf
    <2>5. Rising(s)'
        BY <1>2, <1>5, <1>6, <1>7, <1>9, <2>3, <2>4 DEF Rising, ToPlay, server, pipeline
    <2> QED BY <2>1, <2>2, <2>5 DEF OfSink
<1>13. ASSUME NEW r \in Sources, r # s PROVE OfSink(r)'
    BY <1>2, <1>6, <1>9, <1>13, SinkSame, QueueSame DEF IInv, client, server, bounds, pipeline
<1> QED BY <1>8, <1>9, <1>10, <1>11, <1>12, <1>13 DEF IInv

\* A state change that starts where the sink is already.
LEMMA SetStateThere ==
    ASSUME IInv, NEW s \in Sources, SetState(s),
           step = IF gst[s].pending # Void THEN gst[s].next ELSE gst[s].current
    PROVE  IInv'
<1>1. /\ gst[s] \in GstState /\ goal[s] \in {"READY"} \cup Moves /\ step \in Moves
      /\ gst[s].pending = Void /\ gst[s].current = step
      /\ SinkTypes /\ ClientTypes /\ ServerTypes /\ Telling /\ OfSink(s)
    BY BusyMeans DEF IInv, SetState
<1>2. /\ gst' = [gst EXCEPT ![s].next = Void, ![s].pending = Void] /\ goal' = [goal EXCEPT ![s] = step]
      /\ UNCHANGED <<pipeline, thread, caps, m_isStateCommitNeeded, client, backendQueue,
                     handling, server, bounds>>
      /\ goal[s] # step /\ thread[s] = "idle"
    BY <1>1 DEF SetState, BinMoves
<1>3. ~Startup /\ goal[s] # "READY"
    BY <1>1, <1>2 DEF IInv, Starting, OfSink, StartingSink, Shape, Moves
<1>4. flushes # 0 /\ targets = 0
    BY <1>1, <1>2, <1>3 DEF IInv, Alone, OfSink, Unflushed, NotPaused, GstState, Moves
<1>5. step = "PLAYING" /\ goal[s] = "PAUSED" /\ serverTarget # "PAUSED"
    BY <1>1, <1>2, <1>3, <1>4 DEF OfSink, Rising, Moves
<1>6. /\ goal'[s] = "PLAYING" /\ gst'[s] = [current |-> step, next |-> Void, pending |-> Void]
      /\ \A r \in Sources : r # s => gst'[r] = gst[r] /\ goal'[r] = goal[r]
      /\ gst' \in [Sources -> GstState] /\ goal' \in [Sources -> {"READY"} \cup Moves]
    BY <1>1, <1>2, <1>5 DEF SinkTypes, GstState, Moves
<1>7. SinkTypes'
    BY <1>1, <1>2, <1>6 DEF SinkTypes, pipeline
<1>8. ClientTypes' /\ ServerTypes' /\ Telling'
    BY <1>1, <1>2 DEF ClientTypes, ServerTypes, Telling, client, server, bounds
<1>9. Agreeing' /\ Alone' /\ Answered' /\ \A r \in Sources : PausedToCome(r)' <=> PausedToCome(r)
    BY <1>2, TalkSame, QueueSame DEF Said, client
<1>10. Starting' /\ Started' /\ Pausing' /\ First'
    BY <1>2, <1>3, <1>4, <1>5, <1>6, QueueSame
       DEF IInv, Starting, Started, Pausing, First, Startup, client, server, bounds, pipeline
<1>12. OfSink(s)'
    <2>1. Calling(s)'
        BY <1>1, <1>2, <1>5, <1>6, QueueSame DEF OfSink, Calling, CallTypes, client, pipeline
    <2>2. Shape(s)' /\ StartingSink(s)' /\ Unflushed(s)' /\ Rising(s)'
        BY <1>1, <1>2, <1>3, <1>4, <1>5, <1>6
           DEF OfSink, Shape, StartingSink, Unflushed, Rising, Startup, client, server, bounds, pipeline
    <2> QED BY <2>1, <2>2 DEF OfSink
<1>13. ASSUME NEW r \in Sources, r # s PROVE OfSink(r)'
    BY <1>2, <1>6, <1>9, <1>13, SinkSame, QueueSame DEF IInv, client, server, bounds, pipeline
<1> QED BY <1>7, <1>8, <1>9, <1>10, <1>12, <1>13 DEF IInv

\* A state change that starts.
LEMMA SetStateStarts ==
    ASSUME IInv, NEW s \in Sources, SetState(s),
           step # IF gst[s].pending # Void THEN gst[s].next ELSE gst[s].current
    PROVE  IInv'
<1> DEFINE from == IF gst[s].pending # Void THEN gst[s].next ELSE gst[s].current
           to == CASE from = "READY" -> "count" [] step = "PLAYING" -> "play" [] OTHER -> "pause"
<1>1. /\ gst[s] \in GstState /\ goal[s] \in {"READY"} \cup Moves /\ step \in Moves
      /\ SinkTypes /\ ClientTypes /\ ServerTypes /\ Telling /\ OfSink(s)
      /\ \A r \in Sources : thread[r] = "idle"
      /\ goal[s] # step \/ (gst[s].pending = Void /\ gst[s].current # step)
    BY BusyMeans DEF IInv, SetState, BinMoves
<1>2. /\ gst' = [gst EXCEPT ![s].next = step, ![s].pending = step] /\ goal' = [goal EXCEPT ![s] = step]
      /\ thread' = [thread EXCEPT ![s] = to]
      /\ UNCHANGED <<pipeline, caps, m_isStateCommitNeeded, client, backendQueue, handling,
                     server, bounds>>
    BY <1>1 DEF SetState, BinMoves
<1>3. /\ Startup => from = "READY" /\ goal[s] = "READY" /\ step = "PAUSED"
      /\ ~Startup => from # "READY" /\ goal[s] # "READY"
    <2>1. goal[s] = "READY" => from = "READY" /\ gst[s].current = "READY"
        BY <1>1 DEF OfSink, Shape
    <2>2. from = "READY" => goal[s] = "READY"
        BY <1>1 DEF OfSink, Shape, GstState, Moves, Void
    <2>3. ~Startup => goal[s] # "READY"
        BY DEF IInv, Started
    <2>4. Startup => step = "PAUSED" /\ gst[s].current = "READY"
        BY <1>1 DEF IInv, Starting, OfSink, StartingSink
    <2>5. Startup => goal[s] = "READY"
        BY <1>1, <2>4 DEF OfSink, Shape, Void
    <2> QED BY <2>1, <2>2, <2>3, <2>4, <2>5
<1>4. /\ Startup => to = "count"
      /\ ~Startup /\ step = "PLAYING" => to = "play"
      /\ ~Startup /\ step = "PAUSED" => to = "pause"
    BY <1>3
<1> HIDE DEF to, from
<1>5. to \in {"count", "play", "pause"}
    BY <1>1, <1>4 DEF Moves
<1>6. /\ goal'[s] = step /\ thread'[s] = to
      /\ gst'[s] = [current |-> gst[s].current, next |-> step, pending |-> step]
      /\ \A r \in Sources : r # s => gst'[r] = gst[r] /\ goal'[r] = goal[r] /\ thread'[r] = thread[r]
      /\ gst' \in [Sources -> GstState] /\ goal' \in [Sources -> {"READY"} \cup Moves]
      /\ thread' \in [Sources -> ThreadPlaces]
    BY <1>1, <1>2, <1>5 DEF SinkTypes, GstState, Moves, ThreadPlaces
<1>7. ~Startup /\ targets = 0 => step = "PLAYING"
    BY <1>1, <1>6 DEF OfSink, Rising, Moves
<1>8. SinkTypes' /\ ClientTypes' /\ ServerTypes' /\ Telling'
    BY <1>1, <1>2, <1>6
       DEF SinkTypes, ClientTypes, ServerTypes, Telling, client, server, bounds, pipeline
<1>9. Agreeing' /\ Alone' /\ Answered' /\ \A r \in Sources : PausedToCome(r)' <=> PausedToCome(r)
    BY <1>2, TalkSame, QueueSame DEF Said, client
<1>10. Starting' /\ Started'
    BY <1>1, <1>2, <1>4, <1>5, <1>6, QueueSame
       DEF IInv, Starting, Started, Startup, Said, client, server, pipeline, Moves
<1>11. Pausing'
    <2>1. CASE step = "PLAYING"
        BY <1>2, <2>1 DEF IInv, Pausing, client, bounds, pipeline
    <2>2. CASE step = "PAUSED"
        <3>1. \A r \in Sources : (goal[r] = "PAUSED" => goal'[r] = "PAUSED") /\ ReadOf(r)' = ReadOf(r)
            BY <1>2, <1>6, <2>2 DEF ReadOf
        <3> QED BY <1>2, <2>2, <3>1 DEF IInv, Pausing, client, bounds, pipeline
    <2> QED BY <1>1, <2>1, <2>2 DEF Moves
<1>12. First'
    <2>1. ASSUME ~Startup, targets = 0 PROVE ToPlay(s)'
        BY <1>4, <1>6, <1>7, <2>1 DEF ToPlay
    <2> QED BY <1>2, <1>7, <2>1, QueueSame, OwedSame
            DEF IInv, First, Startup, Said, client, server, bounds, pipeline
<1>13. OfSink(s)'
    <2>1. Calling(s)'
        BY <1>1, <1>2, <1>3, <1>4, <1>6, QueueSame DEF OfSink, Calling, CallTypes, client, pipeline, Moves
    <2>2. Shape(s)'
        BY <1>1, <1>2, <1>3, <1>6 DEF OfSink, Shape, Startup, pipeline, Moves, Void
    <2>3. StartingSink(s)'
        BY <1>1, <1>2, <1>3, <1>4, <1>6, QueueSame DEF OfSink, StartingSink, Startup, client
    <2>4. ReadOf(s)' = ReadOf(s)
        BY <1>2 DEF ReadOf
    <2>5. Unflushed(s)'
        <3>1. CASE Startup
            BY <1>1, <1>2, <1>3, <1>4, <1>6, <2>4, <3>1
               DEF IInv, Starting, Startup, OfSink, Unflushed, NotPaused, ToBePaused, ReadOf, NotHandling, client,
                   bounds, pipeline, Void, Played
        <3>2. CASE ~Startup /\ step = "PLAYING"
            BY <1>1, <1>2, <1>3, <1>4, <1>6, <2>4, <3>2
               DEF IInv, Pausing, OfSink, Unflushed, NotPaused, ToBePaused, Startup, client, bounds, pipeline, Void
        <3>3. CASE ~Startup /\ step = "PAUSED"
            BY <1>1, <1>2, <1>3, <1>4, <1>6, <2>4, <3>3
               DEF OfSink, Unflushed, NotPaused, ToBePaused, Startup, client, bounds, pipeline, Void
        <3> QED BY <1>1, <3>1, <3>2, <3>3 DEF Moves
    <2>6. Rising(s)'
        BY <1>1, <1>2, <1>4, <1>6, <1>7, <2>4 DEF OfSink, Rising, ToPlay, Startup, client, server, bounds, pipeline
    <2> QED BY <2>1, <2>2, <2>3, <2>5, <2>6 DEF OfSink
<1>14. ASSUME NEW r \in Sources, r # s PROVE OfSink(r)'
    BY <1>2, <1>6, <1>9, <1>14, SinkSame, QueueSame DEF IInv, client, server, bounds, pipeline
<1> QED BY <1>8, <1>9, <1>10, <1>11, <1>12, <1>13, <1>14 DEF IInv

LEMMA CommitSyncStep ==
    ASSUME IInv, NEW s \in Sources, CommitSync(s)
    PROVE  IInv'
<1>1. /\ gst[s] \in GstState /\ goal[s] \in {"READY"} \cup Moves /\ step \in Moves
      /\ SinkTypes /\ ClientTypes /\ ServerTypes /\ Telling /\ OfSink(s)
      /\ thread[s] = "commit" /\ goal[s] = step
    BY BusyMeans DEF IInv, OfSink, Calling, CommitSync
<1>2. /\ thread' = [thread EXCEPT ![s] = "idle"]
      /\ UNCHANGED <<pipeline, goal, caps, m_isStateCommitNeeded, client, backendQueue, handling,
                     server, bounds>>
    BY DEF CommitSync
<1>3. ~Startup
    BY <1>1 DEF OfSink, StartingSink
<1>4. targets = 0 => step = "PLAYING" /\ serverTarget # "PAUSED"
    BY <1>1, <1>3 DEF OfSink, Rising, Moves
<1>5. gst' = [gst EXCEPT ![s] = IF gst[s].pending = Void THEN gst[s]
                                ELSE [current |-> gst[s].next, next |-> Void, pending |-> Void]]
    BY <1>1 DEF CommitSync, SinkTypes
<1>6. /\ thread'[s] = "idle"
      /\ gst[s].pending = Void => gst'[s] = gst[s]
      /\ gst[s].pending # Void => gst'[s] = [current |-> gst[s].next, next |-> Void, pending |-> Void]
      /\ \A r \in Sources : r # s => gst'[r] = gst[r] /\ thread'[r] = thread[r]
      /\ gst' \in [Sources -> GstState] /\ thread' \in [Sources -> ThreadPlaces]
    <2>1. gst[s].pending # Void => [current |-> gst[s].next, next |-> Void, pending |-> Void] \in GstState
        BY <1>1 DEF OfSink, Shape, GstState, Moves
    <2> QED BY <1>1, <1>2, <1>5, <2>1 DEF SinkTypes, ThreadPlaces
<1>8. SinkTypes' /\ ClientTypes' /\ ServerTypes' /\ Telling'
    BY <1>1, <1>2, <1>6
       DEF SinkTypes, ClientTypes, ServerTypes, Telling, client, server, bounds, pipeline
<1>9. Agreeing' /\ Alone' /\ Answered' /\ \A r \in Sources : PausedToCome(r)' <=> PausedToCome(r)
    BY <1>2, TalkSame, QueueSame DEF Said, client
<1>10. Starting' /\ Started' /\ First'
    BY <1>2, <1>3, <1>4, <1>6, QueueSame
       DEF IInv, Starting, Started, First, Startup, Said, client, server, bounds, pipeline
<1>11. Pausing'
    BY <1>2 DEF IInv, Pausing, ReadOf, client, bounds, pipeline
<1>13. OfSink(s)'
    <2>1. Calling(s)'
        BY <1>1, <1>2, <1>6, QueueSame DEF OfSink, Calling, CallTypes, client, pipeline
    <2>2. Shape(s)'
        BY <1>1, <1>2, <1>6 DEF IInv, Started, OfSink, Shape, GstState, pipeline, Moves, Void
    <2>3. StartingSink(s)' /\ Rising(s)'
        BY <1>2, <1>3, <1>4, <1>6 DEF StartingSink, Rising, Startup, client, server, bounds, pipeline
    <2>4. ReadOf(s)' = ReadOf(s)
        BY <1>2 DEF ReadOf
    <2>5. Unflushed(s)'
        <3>1. CASE gst[s].pending = Void
            BY <1>1, <1>2, <1>3, <1>6, <2>4, <3>1
               DEF OfSink, Unflushed, NotPaused, ToBePaused, Startup, client, bounds, pipeline
        <3>2. CASE gst[s].pending # Void
            BY <1>1, <1>2, <1>3, <1>6, <2>4, <3>2
               DEF OfSink, Unflushed, NotPaused, ToBePaused, Startup, client, bounds, pipeline, Void
        <3> QED BY <3>1, <3>2
    <2> QED BY <2>1, <2>2, <2>3, <2>5 DEF OfSink
<1>14. ASSUME NEW r \in Sources, r # s PROVE OfSink(r)'
    BY <1>2, <1>6, <1>9, <1>14, SinkSame, QueueSame DEF IInv, client, server, bounds, pipeline
<1> QED BY <1>8, <1>9, <1>10, <1>11, <1>13, <1>14 DEF IInv

-----------------------------------------------------------------------------
(***************************************************************************)
(* The threads that call into the loop.                                    *)
(***************************************************************************)
LEMMA CallStep ==
    ASSUME IInv, NEW s \in Sources, Call(s)
    PROVE  IInv'
<1> DEFINE t == thread[s]
<1>1. /\ SinkTypes /\ ClientTypes /\ ServerTypes /\ Telling /\ OfSink(s)
      /\ t \in CallTypes /\ Msg(t, s) \in Message /\ backendQueue \in Seq(Message)
      /\ backendQueue' = Append(backendQueue, Msg(t, s))
    BY AreMessages DEF IInv, ClientTypes, CallTypes, Call, PostMessage
<1>2. /\ thread' = [thread EXCEPT ![s] = "waiting"]
      /\ UNCHANGED <<pipeline, gst, goal, caps, m_isStateCommitNeeded, client, handling, server,
                     bounds>>
    BY DEF Call
<1>3. /\ thread'[s] = "waiting" /\ thread' \in [Sources -> ThreadPlaces]
      /\ \A r \in Sources : r # s => thread'[r] = thread[r]
    BY <1>1, <1>2 DEF SinkTypes, ThreadPlaces
<1>4. /\ backendQueue' \in Seq(Message)
      /\ \A u, y : Asked(u, y)' <=> Asked(u, y) \/ (u = t /\ y = s)
      /\ \A u, y, v, z : (Asked(u, y) => Clear(u, y, v, z) /\ ~(v = t /\ z = s)) => Clear(u, y, v, z)'
    BY <1>1, Posted
<1>5. \A u \in CallTypes : ~Asked(u, s)
    BY <1>1 DEF OfSink, Calling, CallTypes
<1>6. t = "count" => Startup
    BY DEF IInv, Started
<1>7. ~Startup /\ targets = 0 => step = "PLAYING" /\ t = "play"
    BY <1>1, <1>6 DEF OfSink, Calling, Rising, SinkTypes, Moves, CallTypes
<1>8. t = "play" <=> step = "PLAYING"
    BY <1>1 DEF OfSink, Calling, CallTypes
<1>9. SinkTypes' /\ ClientTypes' /\ ServerTypes' /\ Telling'
    BY <1>1, <1>2, <1>3, <1>4
       DEF SinkTypes, ClientTypes, ServerTypes, Telling, client, server, bounds, pipeline
<1>10. Agreeing' /\ Alone' /\ Answered' /\ \A r \in Sources : PausedToCome(r)' <=> PausedToCome(r)
    BY <1>1, <1>2, <1>4, TalkSame DEF Said, client, CallTypes
<1>11. Starting' /\ Started'
    BY <1>1, <1>2, <1>3, <1>4, <1>6 DEF IInv, Starting, Started, Startup, Said, client, server, pipeline, CallTypes
<1>12. Pausing'
    BY <1>2 DEF IInv, Pausing, ReadOf, client, bounds, pipeline
<1>13. First'
    <2>1. ASSUME ~Startup, targets = 0 PROVE ToPlay(s)'
        BY <1>3 DEF ToPlay
    <2> QED BY <1>1, <1>2, <1>4, <2>1, OwedSame
            DEF IInv, First, Startup, Said, client, server, bounds, pipeline, CallTypes
<1>14. OfSink(s)'
    <2>1. Calling(s)'
        BY <1>1, <1>2, <1>3, <1>4, <1>5, <1>8 DEF OfSink, Calling, CallTypes, CapsTypes, client, pipeline
    <2>2. Shape(s)' /\ StartingSink(s)'
        BY <1>1, <1>2, <1>3, <1>4 DEF OfSink, Shape, StartingSink, Startup, client, pipeline, CallTypes
    <2>3. ReadOf(s)' = ReadOf(s)
        BY <1>2 DEF ReadOf
    <2>4. Unflushed(s)'
        BY <1>1, <1>2, <1>3, <1>8, <2>3
           DEF OfSink, Unflushed, NotPaused, ToBePaused, Startup, client, bounds, pipeline, CallTypes
    <2>5. Rising(s)'
        BY <1>1, <1>2, <1>3, <1>7, <1>10, <2>3
           DEF OfSink, Rising, ToPlay, Startup, client, server, bounds, pipeline
    <2> QED BY <2>1, <2>2, <2>4, <2>5 DEF OfSink
<1>15. ASSUME NEW r \in Sources, r # s PROVE OfSink(r)'
    BY <1>2, <1>3, <1>4, <1>10, <1>15, SinkSame DEF IInv, client, server, bounds, pipeline
<1> QED BY <1>9, <1>10, <1>11, <1>12, <1>13, <1>14, <1>15 DEF IInv

LEMMA AsyncStartStep ==
    ASSUME IInv, NEW s \in Sources, AsyncStart(s)
    PROVE  IInv'
<1>1. /\ SinkTypes /\ ClientTypes /\ ServerTypes /\ Telling /\ OfSink(s) /\ thread[s] = "asyncStart"
    BY DEF IInv, AsyncStart
<1>2. /\ m_isStateCommitNeeded' = [m_isStateCommitNeeded EXCEPT ![s] = TRUE]
      /\ thread' = [thread EXCEPT ![s] = "idle"]
      /\ UNCHANGED <<pipeline, gst, goal, caps, client, backendQueue, handling, server, bounds>>
    BY DEF AsyncStart
<1>3. /\ thread'[s] = "idle" /\ thread' \in [Sources -> ThreadPlaces]
      /\ m_isStateCommitNeeded' \in [Sources -> BOOLEAN]
      /\ \A r \in Sources : r # s =>
            thread'[r] = thread[r] /\ m_isStateCommitNeeded'[r] = m_isStateCommitNeeded[r]
    BY <1>1, <1>2 DEF SinkTypes, ThreadPlaces
<1>4. Startup /\ goal[s] = "PAUSED" /\ handling = NotHandling
    BY <1>1 DEF IInv, Started, Starting, OfSink, Calling
<1>5. SinkTypes' /\ ClientTypes' /\ ServerTypes' /\ Telling'
    BY <1>1, <1>2, <1>3
       DEF SinkTypes, ClientTypes, ServerTypes, Telling, client, server, bounds, pipeline
<1>6. Agreeing' /\ Alone' /\ Answered' /\ \A r \in Sources : PausedToCome(r)' <=> PausedToCome(r)
    BY <1>2, TalkSame, QueueSame DEF Said, client
<1>7. Starting' /\ Started' /\ Pausing' /\ First'
    BY <1>2, <1>3, <1>4, QueueSame
       DEF IInv, Starting, Started, Pausing, First, Startup, Said, ReadOf, client, server, bounds, pipeline
<1>8. OfSink(s)'
    <2>1. Calling(s)'
        BY <1>1, <1>2, <1>3, QueueSame DEF OfSink, Calling, CallTypes, client, pipeline
    <2>2. Shape(s)' /\ StartingSink(s)' /\ Rising(s)'
        BY <1>1, <1>2, <1>3, <1>4, QueueSame
           DEF OfSink, Shape, StartingSink, Rising, Startup, client, bounds, pipeline
    <2>3. Unflushed(s)'
        BY <1>1, <1>2, <1>3, <1>4
           DEF OfSink, Unflushed, NotPaused, ToBePaused, Startup, ReadOf, Played, NotHandling, client, bounds,
               pipeline
    <2> QED BY <2>1, <2>2, <2>3 DEF OfSink
<1>9. ASSUME NEW r \in Sources, r # s PROVE OfSink(r)'
    BY <1>2, <1>3, <1>6, <1>9, SinkSame, QueueSame DEF IInv, client, server, bounds, pipeline
<1> QED BY <1>5, <1>6, <1>7, <1>8, <1>9 DEF IInv

LEMMA CapsEventStep ==
    ASSUME IInv, NEW s \in Sources, CapsEvent(s)
    PROVE  IInv'
<1>1. /\ SinkTypes /\ ClientTypes /\ ServerTypes /\ Telling /\ OfSink(s) /\ backendQueue \in Seq(Message)
      /\ UNCHANGED <<pipeline, gst, goal, thread, m_isStateCommitNeeded, client, handling, server, bounds>>
    BY DEF IInv, ClientTypes, CapsEvent
<1>2. Startup /\ handling = NotHandling
    BY DEF IInv, CapsEvent, Started, Starting
<1>3. thread[s] = "idle" /\ goal[s] = "PAUSED" /\ gst[s].next = "PAUSED" /\ gst[s].current = "READY"
    <2>1. gst[s].current = "READY" /\ (caps[s] # "none" => thread[s] = "idle" /\ goal[s] = "PAUSED")
        BY <1>1, <1>2 DEF OfSink, StartingSink
    <2>2. goal[s] = "PAUSED" => gst[s].next = "PAUSED"
        BY <1>1, <2>1 DEF OfSink, Shape
    <2>3. gst[s].next = "PAUSED" => goal[s] = "PAUSED"
        BY <1>1, <2>1 DEF OfSink, Shape, Void
    <2> QED BY <2>1, <2>2, <2>3 DEF CapsEvent
<1>4. PICK t \in CapsTypes, c \in {"attaching", "pausing"} :
            /\ t = "attach" => caps[s] = "none" /\ c = "attaching"
            /\ t = "capsPause" => caps[s] = "attached" /\ c = "pausing"
            /\ caps' = [caps EXCEPT ![s] = c]
            /\ backendQueue' = Append(backendQueue, Msg(t, s))
    BY <1>3 DEF CapsEvent, CapsTypes, PostMessage
<1>5. /\ caps'[s] = c /\ caps' \in [Sources -> {"none", "attaching", "attached", "pausing", "done"}]
      /\ \A r \in Sources : r # s => caps'[r] = caps[r]
    BY <1>1, <1>4 DEF SinkTypes
<1>6. /\ backendQueue' \in Seq(Message)
      /\ \A u, y : Asked(u, y)' <=> Asked(u, y) \/ (u = t /\ y = s)
      /\ \A u, y, v, z : (Asked(u, y) => Clear(u, y, v, z) /\ ~(v = t /\ z = s)) => Clear(u, y, v, z)'
    BY <1>1, <1>4, Posted, AreMessages
<1>7. SinkTypes' /\ ClientTypes' /\ ServerTypes' /\ Telling'
    BY <1>1, <1>5, <1>6
       DEF SinkTypes, ClientTypes, ServerTypes, Telling, client, server, bounds, pipeline
<1>8. Agreeing' /\ Alone' /\ Answered' /\ \A r \in Sources : PausedToCome(r)' <=> PausedToCome(r)
    BY <1>1, <1>6, TalkSame DEF Said, client, CapsTypes
<1>9. Starting' /\ Started' /\ Pausing' /\ First'
    BY <1>1, <1>2, <1>4, <1>5, <1>6
       DEF IInv, Starting, Started, Pausing, First, Startup, Said, ReadOf, client, server, bounds, pipeline,
           CapsTypes
<1>10. OfSink(s)'
    <2>1. Calling(s)'
        BY <1>1, <1>3, <1>4, <1>5, <1>6 DEF OfSink, Calling, CallTypes, CapsTypes, client, pipeline
    <2>2. Shape(s)' /\ Rising(s)'
        BY <1>1, <1>2 DEF OfSink, Shape, Rising, Startup, client, bounds, pipeline
    <2>3. StartingSink(s)'
        BY <1>1, <1>3, <1>4, <1>5, <1>6 DEF OfSink, StartingSink, Startup, client, CapsTypes
    <2>4. Unflushed(s)'
        BY <1>1 DEF OfSink, Unflushed, NotPaused, ToBePaused, Startup, ReadOf, client, bounds, pipeline
    <2> QED BY <2>1, <2>2, <2>3, <2>4 DEF OfSink
<1>11. ASSUME NEW r \in Sources, r # s PROVE OfSink(r)'
    BY <1>1, <1>5, <1>6, <1>8, <1>11, SinkSame DEF IInv, client, server, bounds, pipeline
<1> QED BY <1>7, <1>8, <1>9, <1>10, <1>11 DEF IInv

LEMMA StreamCollectionStep ==
    ASSUME IInv, StreamCollection
    PROVE  IInv'
<1>1. /\ SinkTypes /\ ClientTypes /\ ServerTypes /\ Telling /\ backendQueue \in Seq(Message)
      /\ UNCHANGED <<target, step, gst, goal, thread, caps, m_isStateCommitNeeded, client,
                     handling, server, bounds>>
    BY DEF IInv, ClientTypes, StreamCollection
<1>2. PICK t \in {"collection", "sendAll"} :
            /\ backendQueue' = Append(backendQueue, Msg(t, "none"))
            /\ t = "collection" => collection = "none"
    BY DEF StreamCollection, PostMessage
<1>3. /\ backendQueue' \in Seq(Message)
      /\ \A u, y : Asked(u, y)' <=> Asked(u, y) \/ (u = t /\ y = "none")
      /\ \A u, y, v, z : (Asked(u, y) => Clear(u, y, v, z) /\ ~(v = t /\ z = "none")) => Clear(u, y, v, z)'
    BY <1>1, <1>2, Posted, AreMessages
<1>4. SinkTypes' /\ ClientTypes' /\ ServerTypes' /\ Telling'
    BY <1>1, <1>3 DEF SinkTypes, ClientTypes, ServerTypes, Telling, client, server, bounds
<1>5. Agreeing' /\ Alone' /\ Answered' /\ \A r \in Sources : PausedToCome(r)' <=> PausedToCome(r)
    BY <1>1, <1>3, TalkSame DEF Said, client
<1>6. Starting' /\ Started'
    BY <1>1, <1>2, <1>3 DEF IInv, Starting, Started, Startup, Said, client, server, Kinds
<1>7. Pausing' /\ First'
    BY <1>1, <1>3, <1>5, OwedSame
       DEF IInv, Pausing, First, ToPlay, Startup, Said, ReadOf, client, server, bounds
<1>8. ASSUME NEW r \in Sources PROVE OfSink(r)'
    BY <1>1, <1>3, <1>5, <1>8, SinkSame DEF IInv, client, server, bounds, CallTypes, CapsTypes
<1> QED BY <1>4, <1>5, <1>6, <1>7, <1>8 DEF IInv

LEMMA FlushCallStep ==
    ASSUME IInv, "mixedFlush" \notin May, NEW s \in Sources, FlushCall(s)
    PROVE  IInv'
<1>1. /\ SinkTypes /\ ClientTypes /\ ServerTypes /\ Telling /\ OfSink(s) /\ backendQueue \in Seq(Message)
      /\ UNCHANGED <<sinks, client, handling, server, targets, ends>>
      /\ backendQueue' = Append(backendQueue, Msg("flush", s))
    BY DEF IInv, ClientTypes, FlushCall, PostMessage
<1>2. flushes' \in Nat /\ flushes' # 0 /\ targets = 0 /\ ends = 0
    <2>1. targets \in Nat /\ ends \in Nat /\ flushes \in Nat
        BY <1>1 DEF ClientTypes
    <2>2. targets + ends = 0 /\ flushes' = flushes + 1
        BY DEF FlushCall
    <2> QED BY <2>1, <2>2
<1>3. ~Startup
    BY <1>1 DEF FlushCall, OfSink, StartingSink
<1>4. /\ backendQueue' \in Seq(Message)
      /\ \A u, y : Asked(u, y)' <=> Asked(u, y) \/ (u = "flush" /\ y = s)
      /\ \A u, y, v, z : (Asked(u, y) => Clear(u, y, v, z) /\ ~(v = "flush" /\ z = s)) => Clear(u, y, v, z)'
    BY <1>1, Posted, AreMessages
<1>5. SinkTypes' /\ ClientTypes' /\ ServerTypes' /\ Telling'
    BY <1>1, <1>2, <1>4
       DEF SinkTypes, ClientTypes, ServerTypes, Telling, client, server, sinks, pipeline
<1>6. \A r \in Sources : PausedToCome(r)' <=> PausedToCome(r)
    BY <1>1, <1>4, OwedSame DEF PausedToCome, Said, server
<1>7. Agreeing' /\ Alone' /\ Answered' /\ Pausing'
    BY <1>1, <1>2, <1>4 DEF IInv, Agreeing, Alone, Answered, Pausing, Said, client, server
<1>8. Starting' /\ Started'
    BY <1>1, <1>3, <1>4 DEF IInv, Starting, Started, Startup, Said, client, server, sinks, pipeline
<1>9. First'
    BY <1>1, <1>4, <1>6, OwedSame
       DEF IInv, First, ToPlay, Startup, Said, client, server, sinks, pipeline
<1>10. ASSUME NEW r \in Sources PROVE OfSink(r)'
    <2>1. OfSink(r)
        BY DEF IInv
    <2>2. Calling(r)'
        BY <1>1, <1>4, <2>1 DEF OfSink, Calling, CallTypes, CapsTypes, client, sinks, pipeline
    <2>3. Shape(r)' /\ StartingSink(r)' /\ Unflushed(r)'
        BY <1>1, <1>2, <1>3, <2>1 DEF OfSink, Shape, StartingSink, Unflushed, Startup, client, sinks, pipeline
    <2>4. Rising(r)'
        BY <1>1, <1>6, <2>1 DEF OfSink, Rising, ToPlay, ReadOf, Startup, client, server, sinks, pipeline
    <2> QED BY <2>2, <2>3, <2>4 DEF OfSink
<1> QED BY <1>5, <1>7, <1>8, <1>9, <1>10 DEF IInv

-----------------------------------------------------------------------------
(***************************************************************************)
(* The server.                                                             *)
(***************************************************************************)
LEMMA AnnounceStep ==
    ASSUME IInv, Announce
    PROVE  IInv'
<1> DEFINE x == Head(owed)
<1>1. /\ SinkTypes /\ ClientTypes /\ ServerTypes /\ Telling /\ backendQueue \in Seq(Message)
      /\ owed # <<>> /\ owed' = Tail(owed) /\ serverState' = x
      /\ UNCHANGED <<sinks, client, handling, serverTarget, bounds>>
    BY DEF IInv, ClientTypes, Announce
<1>2. /\ owed' \in Seq(Moves) /\ x \in Moves
      /\ owed' # <<>> => owed'[Len(owed')] = owed[Len(owed)]
      /\ owed' = <<>> => x = owed[Len(owed)]
      /\ Len(owed) = 1 => owed' = <<>>
      /\ Len(owed) > 1 => owed' # <<>>
      /\ \A y : Owed(y) <=> Owed(y)' \/ y = x
      /\ \A y, z : OwedClear(y, z) => OwedClear(y, z)'
      /\ \A z : OwedClear(x, z) => ~Owed(z)'
    BY <1>1, AnnouncedOne
<1>3. \/ /\ backendQueue' = Append(backendQueue, Msg("state", x))
         /\ \A u, y : Asked(u, y)' <=> Asked(u, y) \/ (u = "state" /\ y = x)
         /\ \A u, y, v, z : (Asked(u, y) => Clear(u, y, v, z) /\ ~(v = "state" /\ z = x))
                                => Clear(u, y, v, z)'
      \/ /\ backendQueue' = backendQueue /\ owed' # <<>> /\ Owed("PAUSED")'
         /\ \A u, y : Asked(u, y)' <=> Asked(u, y)
         /\ \A u, y, v, z : Clear(u, y, v, z)' <=> Clear(u, y, v, z)
    <2>1. CASE PostMessage(Msg("state", x))
        BY <1>1, <1>2, <2>1, Posted, AreMessages DEF PostMessage
    <2>2. CASE Len(owed) > 1 /\ owed[2] = "PAUSED" /\ UNCHANGED backendQueue
        <3>1. 1 \in 1..Len(owed') /\ owed'[1] = owed[2]
            BY <1>1, <2>2 DEF ServerTypes
        <3>2. Owed("PAUSED")'
            BY <2>2, <3>1 DEF Owed, In
        <3> QED BY <1>2, <2>2, <3>2, QueueSame
    <2> QED BY <2>1, <2>2 DEF Announce
<1> HIDE DEF x
<1>4. backendQueue' \in Seq(Message)
    BY <1>1, <1>2, <1>3, Posted, AreMessages
<1>5. ~Startup
    BY <1>1 DEF IInv, Starting
<1>6. owed[Len(owed)] = serverTarget
    BY <1>1 DEF IInv, Agreeing
<1>7. SinkTypes' /\ ClientTypes' /\ ServerTypes' /\ Telling'
    BY <1>1, <1>2, <1>4
       DEF SinkTypes, ClientTypes, ServerTypes, Telling, client, bounds, sinks, pipeline
<1>8. Starting' /\ Started' /\ Alone'
    BY <1>1, <1>2, <1>3, <1>5
       DEF IInv, Starting, Started, Alone, Startup, Said, client, bounds, sinks, pipeline, Moves
<1>9. Agreeing'
    BY <1>1, <1>2, <1>3, <1>6 DEF IInv, Agreeing, Said, client
<1>10. Answered'
    <2> SUFFICES ASSUME flushes = 0 PROVE Answered'
        BY <1>1 DEF Answered, bounds
    <2>1. CASE m_clientState = "AWAITING_PLAYING"
        <3>1. Len(owed) = 1 /\ ~Said("PAUSED") /\ ~Said("PLAYING") /\ ~Said("END_OF_STREAM")
            BY <1>1, <2>1 DEF IInv, Answered
        <3>2. owed' = <<>> /\ x = "PLAYING"
            BY <1>2, <1>6, <2>1, <3>1 DEF IInv, Agreeing
        <3> QED BY <1>1, <1>3, <2>1, <3>1, <3>2 DEF IInv, Answered, Said, client, Moves
    <2>2. CASE m_clientState = "AWAITING_PAUSED"
        <3>1. /\ OwedClear("PAUSED", "PAUSED") /\ OwedClear("PAUSED", "PLAYING") /\ ~Said("PAUSED")
              /\ \A y \in Moves \cup {"END_OF_STREAM"} : Clear("state", "PAUSED", "state", y)
            BY <1>1, <2>2 DEF IInv, Answered
        <3>2. x = "PAUSED" => owed' = <<>>
            <4>1. owed' # <<>> => Owed(owed[Len(owed)])'
                <5>1. owed' # <<>> => Len(owed') \in 1..Len(owed')
                    BY <1>2
                <5> QED BY <1>2, <5>1 DEF Owed, In
            <4> QED BY <1>2, <1>6, <3>1, <4>1 DEF Moves, IInv, ServerTypes, Agreeing
        <3> QED BY <1>1, <1>2, <1>3, <2>2, <3>1, <3>2 DEF IInv, Answered, Said, client, Moves
    <2> QED BY <1>1, <1>5, <2>1, <2>2 DEF IInv, Answered, ClientTypes, SinkStates, Startup, client
<1>11. Pausing'
    BY <1>1 DEF IInv, Pausing, ReadOf, client, bounds, sinks, pipeline
<1>12. \A r \in Sources : PausedToCome(r) => PausedToCome(r)'
    BY <1>1, <1>2, <1>3 DEF PausedToCome, Said
<1>13. First'
    <2>1. ASSUME targets = 0, serverTarget = "PAUSED"
          PROVE ~Said("PLAYING")' /\ ~Said("END_OF_STREAM")' /\ ~Owed("PLAYING")'
        BY <1>1, <1>2, <1>3, <1>5, <2>1 DEF IInv, First, Said, Moves
    <2>2. \A r \in Sources : ToPlay(r) => ToPlay(r)'
        BY <1>1, <1>12 DEF ToPlay, sinks, pipeline
    <2> QED BY <1>1, <2>1, <2>2 DEF IInv, First, Startup, client, bounds, sinks, pipeline
<1>14. ASSUME NEW r \in Sources PROVE OfSink(r)'
    <2>1. \A t \in CallTypes \cup CapsTypes \cup {"flush"} :
                /\ Asked(t, r)' <=> Asked(t, r)
                /\ Clear(t, r, t, r) => Clear(t, r, t, r)'
        BY <1>3 DEF CallTypes, CapsTypes
    <2> QED BY <1>1, <1>12, <2>1, SinkSame DEF IInv, client, bounds, sinks, pipeline
<1> QED BY <1>7, <1>8, <1>9, <1>10, <1>11, <1>13, <1>14 DEF IInv

LEMMA AnnounceEosStep ==
    ASSUME IInv, "mixedFlush" \notin May, AnnounceEos
    PROVE  IInv'
<1>1. /\ SinkTypes /\ ClientTypes /\ ServerTypes /\ Telling /\ backendQueue \in Seq(Message)
      /\ backendQueue' = Append(backendQueue, Msg("state", "END_OF_STREAM"))
      /\ owed = <<>> /\ serverState = "PLAYING" /\ flushes = 0 /\ ends' = ends + 1
      /\ UNCHANGED <<sinks, client, handling, server, targets, flushes>>
    BY DEF IInv, ClientTypes, AnnounceEos, PostMessage
<1>2. ends' \in Nat /\ ends' # 0
    BY <1>1 DEF ClientTypes
<1>3. /\ backendQueue' \in Seq(Message)
      /\ \A u, y : Asked(u, y)' <=> Asked(u, y) \/ (u = "state" /\ y = "END_OF_STREAM")
      /\ \A u, y, v, z : (Asked(u, y) => Clear(u, y, v, z) /\ ~(v = "state" /\ z = "END_OF_STREAM"))
                            => Clear(u, y, v, z)'
    BY <1>1, Posted, AreMessages
<1>4. serverTarget = "PLAYING" /\ m_clientState \in Played
    BY <1>1 DEF IInv, Agreeing, Played
<1>5. SinkTypes' /\ ClientTypes' /\ ServerTypes' /\ Telling'
    BY <1>1, <1>2, <1>3 DEF SinkTypes, ClientTypes, ServerTypes, Telling, client, server, sinks, pipeline
<1>6. Starting' /\ Started' /\ Alone' /\ Agreeing' /\ Pausing' /\ First'
    BY <1>1, <1>2, <1>3, <1>4
       DEF IInv, Starting, Started, Alone, Agreeing, Pausing, First, Startup, Said, Played, ReadOf, client, server,
           sinks, pipeline
<1>7. Answered'
    BY <1>1, <1>3, <1>4 DEF IInv, Answered, Said, Played, client, server
<1>8. \A r \in Sources : PausedToCome(r) => PausedToCome(r)'
    BY <1>1, <1>3, OwedSame DEF PausedToCome, Said, server
<1>9. ASSUME NEW r \in Sources PROVE OfSink(r)'
    <2>1. \A t \in CallTypes \cup CapsTypes \cup {"flush"} :
                /\ Asked(t, r)' <=> Asked(t, r)
                /\ Clear(t, r, t, r) => Clear(t, r, t, r)'
        BY <1>3 DEF CallTypes, CapsTypes
    <2> QED BY <1>1, <1>8, <2>1, SinkSame DEF IInv, client, server, sinks, pipeline
<1> QED BY <1>5, <1>6, <1>7, <1>9 DEF IInv

LEMMA HandleEosStep ==
    ASSUME IInv, HandleEos
    PROVE  IInv'
<1>1. /\ SinkTypes /\ ClientTypes /\ ServerTypes /\ Telling /\ backendQueue \in Seq(Message)
      /\ Handles("state", "END_OF_STREAM") /\ backendQueue' = Tail(backendQueue)
      /\ m_serverPlaybackState' = "END_OF_STREAM"
      /\ UNCHANGED <<sinks, m_attachedSources, m_state, m_clientState,
                     m_wasAllSourcesAttachedSent, streams, handling, server, bounds>>
    BY DEF IInv, ClientTypes, HandleEos, Done
<1>2. /\ backendQueue' \in Seq(Message) /\ Said("END_OF_STREAM") /\ handling = NotHandling
      /\ \A u, y : Asked(u, y) <=> Asked(u, y)' \/ (u = "state" /\ y = "END_OF_STREAM")
      /\ \A u, y, v, z : Clear(u, y, v, z) => Clear(u, y, v, z)'
      /\ \A u, y : Clear("state", "END_OF_STREAM", u, y) => ~Asked(u, y)'
    BY <1>1, Taken DEF Said
<1>3. ~Startup /\ ends # 0 /\ flushes = 0
    BY <1>2 DEF IInv, Starting, Alone
<1>4. m_clientState \in {"PLAYING", "AWAITING_PAUSED"}
    <2>1. ASSUME m_clientState = "AWAITING_PLAYING" PROVE FALSE
        <3>1. owed = <<>> /\ Clear("state", "END_OF_STREAM", "state", "PLAYING")
            BY <1>2, <1>3, <2>1 DEF IInv, Answered
        <3>2. Said("PLAYING")
            BY <2>1, <3>1 DEF IInv, Agreeing, Awaiting
        <3> QED BY <1>2, <3>1, <3>2 DEF Said
    <2>2. m_clientState # "PAUSED"
        BY <1>2, <1>3 DEF IInv, Answered
    <2> QED BY <1>1, <1>3, <2>1, <2>2 DEF ClientTypes, SinkStates, Startup
<1>5. SinkTypes' /\ ClientTypes' /\ ServerTypes' /\ Telling'
    BY <1>1, <1>2 DEF SinkTypes, ClientTypes, ServerTypes, Telling, server, bounds, sinks, pipeline
<1>6. Starting' /\ Started' /\ Alone' /\ Pausing'
    BY <1>1, <1>2, <1>3
       DEF IInv, Starting, Started, Alone, Pausing, Startup, Said, ReadOf, server, bounds, sinks, pipeline
<1>7. Agreeing' /\ Answered'
    BY <1>1, <1>2, <1>4, OwedSame DEF IInv, Agreeing, Answered, Said, NotHandling, server, bounds, Moves
<1>8. \A r \in Sources : PausedToCome(r) => PausedToCome(r)'
    BY <1>1, <1>2, OwedSame DEF PausedToCome, Said, server
<1>9. First'
    <2>1. targets = 0 => serverTarget # "PAUSED"
        BY <1>2, <1>3 DEF IInv, First
    <2> QED BY <1>1, <2>1 DEF IInv, First, Startup, server, bounds, sinks, pipeline
<1>10. ASSUME NEW r \in Sources PROVE OfSink(r)'
    <2>1. \A t \in CallTypes \cup CapsTypes \cup {"flush"} :
                /\ Asked(t, r)' <=> Asked(t, r)
                /\ Clear(t, r, t, r) => Clear(t, r, t, r)'
        BY <1>2 DEF CallTypes, CapsTypes
    <2> QED BY <1>1, <1>8, <2>1, SinkSame DEF IInv, server, bounds, sinks, pipeline
<1> QED BY <1>5, <1>6, <1>7, <1>9, <1>10 DEF IInv

-----------------------------------------------------------------------------
(***************************************************************************)
(* The loop handles an announcement.                                       *)
(***************************************************************************)
LEMMA HandlePlaybackStateStep ==
    ASSUME IInv, NEW state \in Moves, HandlePlaybackState(state)
    PROVE  IInv'
<1>1. /\ SinkTypes /\ ClientTypes /\ ServerTypes /\ Telling /\ backendQueue \in Seq(Message)
      /\ Handles("state", state) /\ backendQueue' = Tail(backendQueue)
      /\ m_serverPlaybackState' = state
      /\ UNCHANGED <<sinks, m_attachedSources, m_state, m_wasAllSourcesAttachedSent, streams, server, bounds>>
    BY DEF IInv, ClientTypes, HandlePlaybackState, Done
<1>2. /\ backendQueue' \in Seq(Message) /\ Said(state) /\ handling = NotHandling
      /\ \A u, y : Asked(u, y) <=> Asked(u, y)' \/ (u = "state" /\ y = state)
      /\ \A u, y, v, z : Clear(u, y, v, z) => Clear(u, y, v, z)'
      /\ \A u, y : Clear("state", state, u, y) => ~Asked(u, y)'
    BY <1>1, Taken DEF Said
<1>3. ~Startup
    BY <1>2 DEF IInv, Starting, Moves
<1>4. m_attachedSources = Sources /\ Sources # {}
    BY <1>1, <1>3, ClientAssumption DEF IInv, Started, OfSink, Calling, ClientTypes
<1>5. /\ Outdated(state) => m_clientState' = m_clientState /\ handling' = NotHandling
      /\ ~Outdated(state) => /\ m_clientState' = Reached(m_clientState, state)
                             /\ handling' = [state |-> state, todo |-> Sources, reader |-> {}, read |-> {}]
    BY <1>2, <1>4 DEF HandlePlaybackState, NotHandling
<1>6. /\ m_clientState' = m_clientState
         \/ (m_clientState = "AWAITING_PAUSED" /\ state = "PAUSED" /\ m_clientState' = "PAUSED")
         \/ (m_clientState = "AWAITING_PLAYING" /\ state = "PLAYING" /\ m_clientState' = "PLAYING")
      /\ state = "PAUSED" /\ m_clientState = "AWAITING_PAUSED" => m_clientState' = "PAUSED"
      /\ state = "PLAYING" /\ m_clientState = "AWAITING_PLAYING" => m_clientState' = "PLAYING"
    BY <1>5 DEF Reached, Outdated, Moves
<1>7. /\ Outdated(state) <=> state = "PLAYING" /\ m_clientState = "AWAITING_PAUSED"
      /\ \A r \in Sources : ReadOf(r)' = {}
      /\ handling.state = "none" /\ handling.todo = {}
      /\ handling'.state \in {"none", state}
      /\ state = "PAUSED" => handling'.state = "PAUSED" /\ handling'.todo = Sources
    BY <1>2, <1>5 DEF Outdated, ReadOf, NotHandling
<1>8. flushes = 0 => (state = "PAUSED" => m_clientState = "AWAITING_PAUSED" /\ step = "PAUSED")
                     /\ (state = "PLAYING" => m_clientState \in {"AWAITING_PLAYING", "AWAITING_PAUSED"})
    BY <1>1, <1>2, <1>3 DEF IInv, Answered, Pausing, SinkTypes, ClientTypes, SinkStates, Startup, Moves
<1>9. SinkTypes' /\ ServerTypes'
    BY <1>1 DEF SinkTypes, ServerTypes, server, sinks, pipeline
<1>10. ClientTypes'
    BY <1>1, <1>2, <1>6 DEF ClientTypes, SinkStates, Moves, bounds
<1>11. Telling'
    <2>1. CASE Outdated(state)
        BY <1>5, <2>1 DEF Telling
    <2>2. CASE ~Outdated(state)
        BY <1>1, <1>4, <1>5, <2>2 DEF Telling
    <2> QED BY <2>1, <2>2
<1>12. Starting' /\ Started' /\ Alone'
    BY <1>1, <1>2, <1>3, <1>6
       DEF IInv, Starting, Started, Alone, Startup, Said, server, bounds, sinks, pipeline, Moves
<1>13. Agreeing'
    BY <1>1, <1>2, <1>6 DEF IInv, Agreeing, Said, Awaiting, server, Moves
<1>14. Answered'
    <2> SUFFICES ASSUME flushes = 0 PROVE Answered'
        BY <1>1 DEF Answered, bounds
    <2>1. CASE state = "PAUSED"
        <3>1. owed = <<>> /\ ~Said("PAUSED")' /\ ~Said("PLAYING")' /\ ~Said("END_OF_STREAM")'
            BY <1>2, <1>8, <2>1 DEF IInv, Answered, Said, Moves
        <3> QED BY <1>1, <1>5, <1>6, <1>7, <1>8, <2>1, <3>1 DEF Answered, server
    <2>2. CASE state = "PLAYING" /\ m_clientState = "AWAITING_PLAYING"
        <3>1. owed = <<>> /\ ~Said("PAUSED")' /\ ~Said("PLAYING")'
            BY <1>2, <2>2 DEF IInv, Answered, Said, Moves
        <3> QED BY <1>1, <1>5, <1>6, <1>7, <2>2, <3>1 DEF Answered, server, Moves
    <2>3. CASE state = "PLAYING" /\ m_clientState = "AWAITING_PAUSED"
        BY <1>1, <1>2, <1>5, <1>6, <1>7, <2>3, OwedSame DEF IInv, Answered, Said, server, NotHandling, Moves
    <2> QED BY <1>8, <2>1, <2>2, <2>3 DEF Moves
<1>15. Pausing'
    <2> SUFFICES ASSUME flushes = 0 PROVE Pausing'
        BY <1>1 DEF Pausing, bounds
    <2>1. CASE state = "PAUSED"
        <3>1. PICK a \in Sources : goal[a] = "PAUSED" /\ m_state[a] = "AWAITING_PAUSED"
            BY <1>8, <2>1 DEF IInv, Pausing
        <3> QED BY <1>1, <1>6, <1>7, <1>8, <2>1, <3>1 DEF Pausing, sinks, pipeline
    <2>2. CASE state = "PLAYING"
        BY <1>1, <1>6, <1>7, <1>8, <2>2 DEF IInv, Pausing, sinks, pipeline
    <2> QED BY <2>1, <2>2 DEF Moves
<1>16. \A r \in Sources : PausedToCome(r) => PausedToCome(r)'
    BY <1>1, <1>2, <1>7, OwedSame DEF PausedToCome, Said, server, Moves
<1>17. First'
    <2>1. \A r \in Sources : ToPlay(r) => ToPlay(r)'
        BY <1>1, <1>16 DEF ToPlay, sinks, pipeline
    <2>2. Startup' <=> Startup
        BY <1>6 DEF Startup
    <2>3. targets = 0 /\ serverTarget = "PAUSED" => state = "PAUSED"
        BY <1>2, <1>3 DEF IInv, First, Moves
    <2> QED BY <1>1, <1>2, <2>1, <2>2, <2>3, OwedSame DEF IInv, First, Said, server, bounds, sinks, pipeline
<1>18. ASSUME NEW r \in Sources PROVE OfSink(r)'
    <2>1. OfSink(r) /\ ReadOf(r)' = {} /\ (Startup' <=> Startup)
        BY <1>6, <1>7 DEF IInv, Startup
    <2>2. Calling(r)'
        BY <1>1, <1>2, <2>1 DEF OfSink, Calling, CallTypes, CapsTypes, sinks, pipeline
    <2>3. Shape(r)' /\ StartingSink(r)'
        BY <1>1, <1>3, <2>1 DEF OfSink, Shape, StartingSink, sinks, pipeline
    <2>4. Unflushed(r)'
        BY <1>1, <1>3, <1>6, <1>7, <1>8, <2>1
           DEF OfSink, Unflushed, NotPaused, ToBePaused, Played, bounds, sinks, pipeline, Moves
    <2>5. Rising(r)'
        BY <1>1, <1>16, <2>1 DEF OfSink, Rising, ToPlay, server, bounds, sinks, pipeline
    <2> QED BY <2>2, <2>3, <2>4, <2>5 DEF OfSink
<1> QED BY <1>9, <1>10, <1>11, <1>12, <1>13, <1>14, <1>15, <1>17, <1>18 DEF IInv

LEMMA ReadStatesStep ==
    ASSUME IInv, NEW s \in Sources, ReadStates(s)
    PROVE  IInv'
<1>1. /\ SinkTypes /\ ClientTypes /\ ServerTypes /\ Telling /\ OfSink(s) /\ gst[s] \in GstState
      /\ s \in handling.todo /\ handling.reader = {}
      /\ m_state' = [m_state EXCEPT ![s] = Reached(m_state[s], handling.state)]
      /\ handling' = [handling EXCEPT !.reader = {s}, !.read = {gst[s]}]
      /\ UNCHANGED <<sinks, m_attachedSources, m_clientState, m_serverPlaybackState,
                     m_wasAllSourcesAttachedSent, streams, backendQueue, server, bounds>>
    BY DEF IInv, SinkTypes, ReadStates
<1>2. /\ handling \in [state : Moves, todo : SUBSET Sources, reader : SUBSET Sources,
                       read : SUBSET GstState]
      /\ handling.state \in Moves /\ handling.state = m_serverPlaybackState
    BY <1>1 DEF Telling, NotHandling
<1>3. /\ handling' = [state |-> handling.state, todo |-> handling.todo, reader |-> {s}, read |-> {gst[s]}]
      /\ handling'.state = handling.state /\ handling'.todo = handling.todo
      /\ handling'.reader = {s} /\ handling'.read = {gst[s]}
    BY <1>1, <1>2
<1>4. /\ ReadOf(s)' = {gst[s]}
      /\ \A r \in Sources : r # s => ReadOf(r)' = {}
    BY <1>3 DEF ReadOf
<1>5. /\ m_state'[s] \in SinkStates
      /\ m_state'[s] \in Played <=> m_state[s] \in Played
      /\ m_state'[s] \in {"PAUSED", "AWAITING_PAUSED"} <=> m_state[s] \in {"PAUSED", "AWAITING_PAUSED"}
      /\ \A r \in Sources : r # s => m_state'[r] = m_state[r]
      /\ m_state' \in [Sources -> SinkStates]
    <2>1. m_state[s] \in SinkStates /\ m_state'[s] = Reached(m_state[s], handling.state)
        BY <1>1 DEF ClientTypes
    <2>2. /\ m_state'[s] \in SinkStates
          /\ m_state'[s] \in Played <=> m_state[s] \in Played
          /\ m_state'[s] \in {"PAUSED", "AWAITING_PAUSED"} <=> m_state[s] \in {"PAUSED", "AWAITING_PAUSED"}
        BY <1>2, <2>1 DEF Reached, SinkStates, Played, Moves
    <2> QED BY <1>1, <2>1, <2>2 DEF ClientTypes
<1>6. ~Startup
    BY <1>1 DEF IInv, Starting, NotHandling
<1>7. SinkTypes' /\ ServerTypes' /\ ClientTypes'
    BY <1>1, <1>5 DEF SinkTypes, ServerTypes, ClientTypes, server, bounds, sinks, pipeline
<1>8. Telling'
    BY <1>1, <1>2, <1>3 DEF Telling
<1>9. Starting' /\ Started' /\ Alone' /\ Agreeing'
    BY <1>1, <1>6, QueueSame
       DEF IInv, Starting, Started, Alone, Agreeing, Startup, Said, server, bounds, sinks, pipeline
<1>10. Answered'
    BY <1>1, <1>3, QueueSame, OwedSame DEF IInv, Answered, Said, server, bounds
<1>11. Pausing'
    <2> SUFFICES ASSUME flushes = 0 PROVE Pausing'
        BY <1>1 DEF Pausing, bounds
    <2>1. m_clientState \in Moves
        BY <1>2 DEF IInv, Answered
    <2>2. ASSUME handling.state = "PAUSED"
          PROVE  \E a \in Sources :
                    /\ goal'[a] = "PAUSED" /\ m_state'[a] \in {"PAUSED", "AWAITING_PAUSED"}
                    /\ \A g \in ReadOf(a)' : g.next # "PLAYING"
        <3>1. PICK a \in Sources : goal[a] = "PAUSED" /\ m_state[a] \in {"PAUSED", "AWAITING_PAUSED"}
            BY <2>2 DEF IInv, Pausing
        <3>2. a = s => gst[s].next # "PLAYING"
            BY <1>1, <3>1 DEF OfSink, Unflushed, Void
        <3> QED BY <1>1, <1>4, <1>5, <3>1, <3>2 DEF sinks, pipeline
    <2>3. ASSUME step = "PLAYING", m_clientState = "PAUSED" PROVE \E a \in Sources : m_state'[a] \notin Played
        BY <1>5, <2>3 DEF IInv, Pausing
    <2>4. step = "PLAYING" => handling.state # "PAUSED"
        BY DEF IInv, Pausing
    <2> QED BY <1>1, <1>3, <2>1, <2>2, <2>3, <2>4 DEF Pausing, sinks, pipeline, Moves
<1>12. \A r \in Sources : PausedToCome(r)' <=> PausedToCome(r)
    BY <1>1, <1>3, QueueSame, OwedSame DEF PausedToCome, Said, server
<1>13. First'
    BY <1>1, <1>12, QueueSame, OwedSame DEF IInv, First, ToPlay, Startup, Said, server, bounds, sinks, pipeline
<1>14. OfSink(s)'
    <2>1. Calling(s)' /\ Shape(s)' /\ StartingSink(s)'
        BY <1>1, <1>6, QueueSame DEF OfSink, Calling, Shape, StartingSink, Startup, sinks, pipeline
    <2>2. Unflushed(s)'
        BY <1>1, <1>3, <1>4, <1>5, <1>6
           DEF OfSink, Unflushed, NotPaused, ToBePaused, Startup, bounds, sinks, pipeline, Void
    <2>3. gst[s].current = "READY" => step = "PAUSED"
        BY <1>1 DEF OfSink, Shape
    <2>4. gst[s].current \in {"READY", "PAUSED", "PLAYING"}
        BY <1>1 DEF GstState, Moves
    <2>5. Rising(s)'
        BY <1>1, <1>4, <1>5, <1>6, <1>12, <2>3, <2>4
           DEF OfSink, Rising, ToPlay, Startup, server, bounds, sinks, pipeline
    <2> QED BY <2>1, <2>2, <2>5 DEF OfSink
<1>15. ASSUME NEW r \in Sources, r # s PROVE OfSink(r)'
    BY <1>1, <1>3, <1>4, <1>5, <1>12, <1>15, SinkSame, QueueSame DEF IInv, server, bounds, sinks, pipeline
<1> QED BY <1>7, <1>8, <1>9, <1>10, <1>11, <1>13, <1>14, <1>15 DEF IInv

\* The loop has told a sink, and tells the others.
LEMMA Finished ==
    ASSUME IInv, NEW s \in Sources, NEW g, handling.reader = {s}, g \in handling.read, Finish(s)
    PROVE  /\ ReadOf(s) = {g} /\ g \in GstState /\ s \in handling.todo
           /\ handling.state \in Moves /\ handling.state = m_serverPlaybackState
           /\ ~Startup
           /\ \A r \in Sources : ReadOf(r)' = {}
           /\ handling'.state \in {"none", handling.state}
           /\ handling' # NotHandling => handling'.state = handling.state
           /\ s \notin handling'.todo
           /\ \A r \in Sources : r # s /\ r \in handling.todo =>
                handling'.state = handling.state /\ r \in handling'.todo
           /\ \A r \in Sources : r \in handling'.todo => r \in handling.todo
           /\ UNCHANGED m_serverPlaybackState => Telling'
<1>1. handling # NotHandling
    BY DEF NotHandling
<1>2. /\ handling \in [state : Moves, todo : SUBSET Sources, reader : SUBSET Sources,
                       read : SUBSET GstState]
      /\ handling.state = m_serverPlaybackState /\ s \in handling.todo
      /\ \E h \in GstState : handling.read = {h}
    BY <1>1 DEF IInv, Telling
<1>3. ReadOf(s) = {g} /\ g \in GstState
    BY <1>2 DEF ReadOf
<1>4. ~Startup
    BY <1>1 DEF IInv, Starting
<1>5. CASE handling.todo = {s}
    <2>1. handling' = NotHandling
        BY <1>5 DEF Finish
    <2> QED BY <1>2, <1>3, <1>4, <1>5, <2>1 DEF NotHandling, ReadOf, Telling
<1>6. CASE handling.todo # {s}
    <2>1. handling' = [handling EXCEPT !.todo = handling.todo \ {s}, !.reader = {}, !.read = {}]
        BY <1>6 DEF Finish
    <2>2. /\ handling'.state = handling.state /\ handling'.todo = handling.todo \ {s}
          /\ handling'.reader = {} /\ handling'.read = {}
          /\ handling' \in [state : Moves, todo : SUBSET Sources, reader : SUBSET Sources,
                            read : SUBSET GstState]
        BY <1>2, <2>1
    <2>3. handling'.todo # {}
        BY <1>2, <1>6, <2>2
    <2>4. UNCHANGED m_serverPlaybackState => Telling'
        BY <1>2, <2>2, <2>3 DEF Telling
    <2>5. \A r \in Sources : ReadOf(r)' = {}
        BY <2>2 DEF ReadOf
    <2>6. s \notin handling'.todo
        BY <2>2
    <2>7. \A r \in Sources : r # s /\ r \in handling.todo => r \in handling'.todo
        BY <2>2
    <2>8. \A r \in Sources : r \in handling'.todo => r \in handling.todo
        BY <2>2
    <2>9. handling.state \in Moves
        BY <1>2
    <2> HIDE <2>1
    <2> QED BY ONLY <1>2, <1>3, <1>4, <2>2, <2>4, <2>5, <2>6, <2>7, <2>8, <2>9
<1> QED BY <1>5, <1>6

\* What play() leads to.
LEMMA Plays ==
    ASSUME IInv, ~Startup, NEW s \in Sources, NEW q, NEW result, PlayIn(s, q, result)
    PROVE  /\ m_state' \in [Sources -> SinkStates] /\ m_state'[s] \in Played
           /\ \A r \in Sources : r # s => m_state'[r] = m_state[r]
           /\ m_isStateCommitNeeded' \in [Sources -> BOOLEAN]
           /\ \A r \in Sources : r # s => m_isStateCommitNeeded'[r] = m_isStateCommitNeeded[r]
           /\ \/ /\ AlreadyPlaying /\ m_clientState' \in {m_clientState, "PLAYING"}
                 /\ result = "SUCCESS_SYNC" /\ backendQueue' = q /\ NoCommand
              \/ /\ ~AlreadyPlaying /\ m_clientState = "PAUSED" /\ m_clientState' = "AWAITING_PLAYING"
                 /\ \A r \in Sources : m_state'[r] \in Played
                 /\ \/ Command("PLAYING") /\ result = "SUCCESS_ASYNC" /\ backendQueue' = q
                    \/ /\ owed = <<>> /\ owed' = owed
                       /\ serverState' = "PLAYING" /\ serverTarget' = "PLAYING"
                       /\ result = "SUCCESS_SYNC" /\ backendQueue' = Append(q, Msg("state", "PLAYING"))
              \/ /\ ~AlreadyPlaying /\ m_clientState' = m_clientState /\ NoCommand
                 /\ m_clientState # "PAUSED" \/ \E r \in Sources : m_state'[r] \notin Played
                 /\ m_isStateCommitNeeded'[s] = TRUE
                 /\ result = "SUCCESS_ASYNC" /\ backendQueue' = q
<1>1. /\ m_attachedSources = Sources /\ m_state \in [Sources -> SinkStates]
      /\ m_isStateCommitNeeded \in [Sources -> BOOLEAN]
    BY DEF IInv, Started, OfSink, Calling, ClientTypes, SinkTypes
<1>2. CASE AlreadyPlaying
    <2>1. /\ m_state' = [m_state EXCEPT ![s] = "PLAYING"] /\ m_clientState' \in {m_clientState, "PLAYING"}
          /\ result = "SUCCESS_SYNC" /\ backendQueue' = q /\ NoCommand /\ UNCHANGED m_isStateCommitNeeded
        BY <1>2 DEF PlayIn
    <2> QED BY <1>1, <1>2, <2>1 DEF SinkStates, Played
<1>3. CASE ~AlreadyPlaying
    <2> DEFINE waiting == [m_state EXCEPT ![s] = "AWAITING_PLAYING"]
               all == CheckIfAllAttachedSourcesInStates({"AWAITING_PLAYING", "PLAYING"}, waiting)
    <2>1. m_state' = waiting
        BY <1>3 DEF PlayIn
    <2>2. /\ m_state' \in [Sources -> SinkStates] /\ m_state'[s] \in Played
          /\ \A r \in Sources : r # s => m_state'[r] = m_state[r]
        BY <1>1, <2>1 DEF SinkStates, Played
    <2>3. all <=> \A r \in Sources : m_state'[r] \in Played
        BY <1>1, <2>1 DEF CheckIfAllAttachedSourcesInStates, Played
    <2>4. \/ /\ m_clientState = "PAUSED" /\ all /\ m_clientState' = "AWAITING_PLAYING"
             /\ \/ Command("PLAYING") /\ PostAsyncStart(s) /\ result = "SUCCESS_ASYNC" /\ backendQueue' = q
                \/ /\ owed = <<>> /\ owed' = owed
                   /\ serverState' = "PLAYING" /\ serverTarget' = "PLAYING"
                   /\ result = "SUCCESS_SYNC" /\ backendQueue' = Append(q, Msg("state", "PLAYING"))
                   /\ UNCHANGED m_isStateCommitNeeded
          \/ /\ m_clientState # "PAUSED" \/ ~all
             /\ NoCommand /\ m_clientState' = m_clientState /\ PostAsyncStart(s)
             /\ result = "SUCCESS_ASYNC" /\ backendQueue' = q
        BY <1>3 DEF PlayIn
    <2> HIDE DEF waiting, all
    <2>5. PostAsyncStart(s) =>
            /\ m_isStateCommitNeeded' \in [Sources -> BOOLEAN] /\ m_isStateCommitNeeded'[s] = TRUE
            /\ \A r \in Sources : r # s => m_isStateCommitNeeded'[r] = m_isStateCommitNeeded[r]
        BY <1>1 DEF PostAsyncStart
    <2> QED BY <1>1, <1>3, <2>2, <2>3, <2>4, <2>5
<1> QED BY <1>2, <1>3

-----------------------------------------------------------------------------
\* The state of the sink is committed.
LEMMA HandleCommit ==
    ASSUME IInv, NEW s \in Sources, NEW g, handling.reader = {s}, g \in handling.read, Finish(s),
           g.next = handling.state,
           gst' = [gst EXCEPT ![s] = Committed(g)],
           m_isStateCommitNeeded' = [m_isStateCommitNeeded EXCEPT ![s] = FALSE],
           UNCHANGED <<pipeline, goal, thread, caps, client, backendQueue, server, bounds>>
    PROVE  IInv'
<1>1. /\ SinkTypes /\ ClientTypes /\ ServerTypes /\ OfSink(s)
    BY DEF IInv
<1>2. /\ ReadOf(s) = {g} /\ g \in GstState /\ s \in handling.todo
      /\ handling.state \in Moves /\ handling.state = m_serverPlaybackState
      /\ ~Startup
      /\ \A r \in Sources : ReadOf(r)' = {}
      /\ handling'.state \in {"none", handling.state}
      /\ s \notin handling'.todo
      /\ \A r \in Sources : r # s /\ r \in handling.todo =>
            handling'.state = handling.state /\ r \in handling'.todo
      /\ \A r \in Sources : r \in handling'.todo => r \in handling.todo
      /\ Telling'
    BY Finished DEF client
<1>3. /\ Committed(g) \in GstState
      /\ Committed(g).current = handling.state /\ Committed(g).pending = Void
      /\ Committed(g).next = IF g.next = g.pending THEN Void ELSE g.pending
    BY <1>2 DEF Committed, GstState, Moves
<1>4. /\ gst'[s] = Committed(g) /\ gst' \in [Sources -> GstState]
      /\ m_isStateCommitNeeded' \in [Sources -> BOOLEAN]
      /\ \A r \in Sources : r # s => gst'[r] = gst[r] /\ m_isStateCommitNeeded'[r] = m_isStateCommitNeeded[r]
    BY <1>1, <1>3 DEF SinkTypes
<1>5. SinkTypes' /\ ClientTypes' /\ ServerTypes'
    BY <1>1, <1>4 DEF SinkTypes, ClientTypes, ServerTypes, client, server, bounds, pipeline
<1>6. Starting' /\ Started' /\ Alone' /\ Agreeing'
    BY <1>2, QueueSame
       DEF IInv, Starting, Started, Alone, Agreeing, Startup, Said, client, server, bounds, pipeline
<1>a. Answered'
    BY <1>2, QueueSame, OwedSame DEF IInv, Answered, Said, Moves, client, server, bounds
<1>7. Pausing'
    BY <1>2 DEF IInv, Pausing, client, bounds, pipeline
<1>8. ToPlay(s)'
    BY <1>3, <1>4 DEF ToPlay
<1>9. First'
    BY <1>8, QueueSame, OwedSame DEF IInv, First, Startup, Said, client, server, bounds, pipeline
<1>10. OfSink(s)'
    <2>1. Calling(s)'
        BY <1>1, QueueSame DEF OfSink, Calling, client, pipeline
    <2>2. Shape(s)' /\ StartingSink(s)'
        BY <1>1, <1>2, <1>3, <1>4 DEF IInv, Started, OfSink, Shape, StartingSink, Startup, client, pipeline, Moves
    <2>3. Unflushed(s)'
        <3> SUFFICES ASSUME flushes = 0 PROVE Unflushed(s)'
            BY DEF Unflushed, bounds
        <3>1. m_clientState = handling.state /\ (step = "PLAYING" => handling.state = "PLAYING")
            BY <1>2 DEF IInv, Answered, Pausing, Moves
        <3>2. /\ g.next = g.pending /\ (handling.state = "PAUSED" => goal[s] = "PAUSED")
              /\ handling.state = "PLAYING" => goal[s] = "PLAYING" \/ thread[s] \in {"pause", "waiting"}
            BY <1>1, <1>2 DEF OfSink, Unflushed
        <3>3. thread[s] # "idle" => goal[s] = step
            BY <1>1 DEF OfSink, Calling
        <3>4. gst'[s].next = Void /\ gst'[s].pending = Void /\ gst'[s].current = handling.state
            BY <1>3, <1>4, <3>2
        <3>5. NotPaused(s)' <=> handling.state # "PAUSED"
            BY <3>4 DEF NotPaused
        <3> QED BY <1>1, <1>2, <3>1, <3>2, <3>3, <3>4, <3>5
                DEF OfSink, Unflushed, ToBePaused, Played, Startup, client, bounds, pipeline, Moves
    <2>4. Rising(s)'
        <3> SUFFICES ASSUME targets = 0 PROVE Rising(s)'
            BY DEF Rising, bounds
        <3>1. serverTarget = "PAUSED" => handling.state = "PAUSED"
            BY <1>2 DEF IInv, First, Moves
        <3>2. step = "PAUSED" => serverTarget = "PAUSED" /\ g.pending # "PLAYING"
                                 /\ goal[s] = "PAUSED" /\ thread[s] = "idle"
            BY <1>1, <1>2 DEF IInv, First, OfSink, Rising
        <3>3. serverTarget = "PAUSED" => thread[s] # "commit"
            BY <1>1, <1>2 DEF OfSink, Rising
        <3> QED BY <1>2, <1>3, <1>4, <1>8, <3>1, <3>2, <3>3 DEF Rising, Startup, client, server, pipeline, Void
    <2> QED BY <2>1, <2>2, <2>3, <2>4 DEF OfSink
<1>11. ASSUME NEW r \in Sources, r # s PROVE OfSink(r)'
    <2>1. PausedToCome(r) => PausedToCome(r)'
        BY <1>2, <1>11, QueueSame, OwedSame DEF PausedToCome, Said, server
    <2> QED BY <1>2, <1>4, <1>11, <2>1, SinkSame, QueueSame DEF IInv, client, server, bounds, pipeline
<1> QED BY <1>2, <1>5, <1>6, <1>a, <1>7, <1>9, <1>10, <1>11 DEF IInv

\* Nothing is done for the sink.
LEMMA HandleNothing ==
    ASSUME IInv, NEW s \in Sources, NEW g, handling.reader = {s}, g \in handling.read, Finish(s),
           \/ ~m_isStateCommitNeeded[s]
           \/ /\ g.next # handling.state
              /\ <<handling.state, g.current, g.next>> # <<"PAUSED", "PAUSED", "PLAYING">>,
           UNCHANGED <<sinks, client, backendQueue, server, bounds>>
    PROVE  IInv'
<1>1. /\ SinkTypes /\ ClientTypes /\ ServerTypes /\ OfSink(s) /\ gst[s] \in GstState
    BY DEF IInv, SinkTypes
<1>2. /\ ReadOf(s) = {g} /\ g \in GstState /\ s \in handling.todo
      /\ handling.state \in Moves /\ handling.state = m_serverPlaybackState
      /\ ~Startup
      /\ \A r \in Sources : ReadOf(r)' = {}
      /\ handling'.state \in {"none", handling.state}
      /\ s \notin handling'.todo
      /\ \A r \in Sources : r # s /\ r \in handling.todo =>
            handling'.state = handling.state /\ r \in handling'.todo
      /\ \A r \in Sources : r \in handling'.todo => r \in handling.todo
      /\ Telling'
    BY Finished DEF client
<1>3. SinkTypes' /\ ClientTypes' /\ ServerTypes'
    BY <1>1 DEF SinkTypes, ClientTypes, ServerTypes, client, server, bounds, sinks, pipeline
<1>4. Starting' /\ Started' /\ Alone' /\ Agreeing'
    BY <1>2, QueueSame
       DEF IInv, Starting, Started, Alone, Agreeing, Startup, Said, client, server, bounds, sinks, pipeline
<1>a. Answered'
    BY <1>2, QueueSame, OwedSame DEF IInv, Answered, Said, Moves, client, server, bounds
<1>5. Pausing'
    BY <1>2 DEF IInv, Pausing, client, bounds, sinks, pipeline
<1>6. \A r \in Sources : r # s /\ PausedToCome(r) => PausedToCome(r)'
    BY <1>2, QueueSame, OwedSame DEF PausedToCome, Said, server
<1>7. ASSUME targets = 0, step = "PLAYING", serverTarget = "PAUSED"
      PROVE  /\ ToPlay(s) => ToPlay(s)'
             /\ ~(gst[s].pending # Void /\ gst[s].next = "PAUSED")
    <2>1. handling.state = "PAUSED"
        BY <1>2, <1>7 DEF IInv, First, Moves
    <2>2. ASSUME gst[s].pending # Void, gst[s].next = "PAUSED" PROVE FALSE
        BY <1>1, <1>2, <1>7, <2>1, <2>2 DEF OfSink, Rising
    <2>3. ASSUME m_isStateCommitNeeded[s], gst[s].pending # Void, thread[s] \notin {"play", "waiting"}
          PROVE  FALSE
        <3>1. gst[s].next = "PLAYING"
            BY <1>1, <2>2, <2>3 DEF OfSink, Shape, GstState, Moves
        <3>2. g.current = "PAUSED" /\ g.next = "PLAYING"
            BY <1>1, <1>2, <1>7, <2>3, <3>1 DEF OfSink, Rising
        <3> QED BY <2>1, <2>3, <3>2
    <2> QED BY <2>2, <2>3 DEF ToPlay, sinks, pipeline
<1>8. First'
    <2>1. \A r \in Sources : r # s /\ ToPlay(r) => ToPlay(r)'
        BY <1>6 DEF ToPlay, sinks, pipeline
    <2> QED BY <1>7, <2>1, QueueSame, OwedSame
            DEF IInv, First, Startup, Said, client, server, bounds, sinks, pipeline
<1>9. OfSink(s)'
    <2>1. Calling(s)' /\ Shape(s)' /\ StartingSink(s)'
        BY <1>1, QueueSame DEF OfSink, Calling, Shape, StartingSink, Startup, client, sinks, pipeline
    <2>2. Unflushed(s)'
        BY <1>1, <1>2 DEF OfSink, Unflushed, NotPaused, ToBePaused, Startup, client, bounds, sinks, pipeline
    <2>3. Rising(s)'
        BY <1>1, <1>2, <1>7 DEF OfSink, Rising, Startup, client, server, bounds, sinks, pipeline
    <2> QED BY <2>1, <2>2, <2>3 DEF OfSink
<1>10. ASSUME NEW r \in Sources, r # s PROVE OfSink(r)'
    BY <1>2, <1>6, <1>10, SinkSame, QueueSame DEF IInv, client, server, bounds, sinks, pipeline
<1> QED BY <1>2, <1>3, <1>4, <1>a, <1>5, <1>8, <1>9, <1>10 DEF IInv

\* The sink is on its way to PLAYING: it is told to play now that the
\* server has paused.
LEMMA HandlePlay ==
    ASSUME IInv, NEW s \in Sources, NEW g, handling.reader = {s}, g \in handling.read, Finish(s),
           handling.state = "PAUSED", g.current = "PAUSED", g.next = "PLAYING",
           NEW result, PlayIn(s, backendQueue, result),
           UNCHANGED <<pipeline, gst, goal, thread, caps, m_attachedSources, m_serverPlaybackState,
                       m_wasAllSourcesAttachedSent, streams, bounds>>
    PROVE  IInv'
<1>1. /\ SinkTypes /\ ClientTypes /\ ServerTypes /\ OfSink(s) /\ gst[s] \in GstState
      /\ backendQueue \in Seq(Message)
    BY DEF IInv, SinkTypes, ClientTypes
<1>2. /\ ReadOf(s) = {g} /\ g \in GstState /\ s \in handling.todo
      /\ m_serverPlaybackState = "PAUSED" /\ ~Startup
      /\ \A r \in Sources : ReadOf(r)' = {}
      /\ handling'.state \in {"none", "PAUSED"}
      /\ s \notin handling'.todo
      /\ \A r \in Sources : r # s /\ r \in handling.todo =>
            handling'.state = "PAUSED" /\ r \in handling'.todo
      /\ \A r \in Sources : r \in handling'.todo => r \in handling.todo
      /\ Telling'
    BY Finished
<1>3. ~AlreadyPlaying
    BY <1>2 DEF AlreadyPlaying
<1>4. /\ m_state' \in [Sources -> SinkStates] /\ m_state'[s] \in Played
      /\ \A r \in Sources : r # s => m_state'[r] = m_state[r]
      /\ m_isStateCommitNeeded' \in [Sources -> BOOLEAN]
      /\ \A r \in Sources : r # s => m_isStateCommitNeeded'[r] = m_isStateCommitNeeded[r]
      /\ \/ /\ m_clientState = "PAUSED" /\ m_clientState' = "AWAITING_PLAYING"
            /\ \A r \in Sources : m_state'[r] \in Played
            /\ \/ Command("PLAYING") /\ backendQueue' = backendQueue
               \/ /\ owed = <<>> /\ owed' = owed
                  /\ serverState' = "PLAYING" /\ serverTarget' = "PLAYING"
                  /\ backendQueue' = Append(backendQueue, Msg("state", "PLAYING"))
         \/ /\ m_clientState' = m_clientState /\ NoCommand
            /\ m_clientState # "PAUSED" \/ \E r \in Sources : m_state'[r] \notin Played
            /\ m_isStateCommitNeeded'[s] = TRUE /\ backendQueue' = backendQueue
    BY <1>2, <1>3, Plays
<1>5. SinkTypes'
    BY <1>1, <1>4 DEF SinkTypes, pipeline
<1>6. \A r \in Sources : OfSink(r)
    BY DEF IInv
<1>7. flushes = 0 => \E a \in Sources : /\ a # s /\ goal[a] = "PAUSED"
                                        /\ m_state[a] \in {"PAUSED", "AWAITING_PAUSED"}
    <2> SUFFICES ASSUME flushes = 0 PROVE \E a \in Sources : /\ a # s /\ goal[a] = "PAUSED"
                                        /\ m_state[a] \in {"PAUSED", "AWAITING_PAUSED"}
        OBVIOUS
    <2>1. PICK a \in Sources : /\ goal[a] = "PAUSED" /\ m_state[a] \in {"PAUSED", "AWAITING_PAUSED"}
                               /\ \A h \in ReadOf(a) : h.next # "PLAYING"
        BY DEF IInv, Pausing
    <2> QED BY <1>2, <2>1
<1>8. flushes = 0 => m_clientState' = m_clientState /\ m_clientState = "PAUSED"
    BY <1>4, <1>7 DEF IInv, Answered, Moves, Played
<1>9. targets = 0 => step = "PLAYING" /\ target = "PLAYING"
    BY <1>1, <1>2 DEF IInv, First, OfSink, Rising, SinkTypes, Moves
<1>10. CASE m_clientState' = "AWAITING_PLAYING" /\ m_clientState = "PAUSED"
    <2>1. flushes # 0 /\ targets = 0 /\ step = "PLAYING" /\ target = "PLAYING"
        BY <1>8, <1>9, <1>10 DEF IInv, Alone
    <2>2. /\ owed' \in Seq(Moves) /\ serverTarget' = "PLAYING" /\ serverState' \in Moves \cup {"IDLE"}
          /\ owed' = <<>> => serverState' = "PLAYING" /\ Said("PLAYING")'
          /\ owed' # <<>> => owed'[Len(owed')] = "PLAYING"
          /\ backendQueue' \in Seq(Message)
          /\ \A u, y : u # "state" \/ y # "PLAYING" => (Asked(u, y)' <=> Asked(u, y))
          /\ \A u, y, v, z : Clear(u, y, v, z) /\ v # "state" => Clear(u, y, v, z)'
        <3>1. CASE Command("PLAYING") /\ backendQueue' = backendQueue
            BY <1>1, <3>1, Commanded, QueueSame DEF Moves, ServerTypes
        <3>2. CASE /\ owed = <<>> /\ owed' = owed
                   /\ serverState' = "PLAYING" /\ serverTarget' = "PLAYING"
                   /\ backendQueue' = Append(backendQueue, Msg("state", "PLAYING"))
            <4>1. Msg("state", "PLAYING") \in Message
                BY AreMessages DEF Moves
            <4> QED BY <1>1, <3>2, <4>1, Posted DEF Moves, ServerTypes, Said
        <3> QED BY <1>4, <1>10, <3>1, <3>2
    <2>3. ClientTypes' /\ ServerTypes'
        BY <1>1, <1>4, <1>10, <2>2 DEF ClientTypes, ServerTypes, SinkStates, bounds
    <2>4. Starting' /\ Started' /\ Alone' /\ Answered' /\ Pausing' /\ First'
        BY <1>2, <1>10, <2>1, <2>2
           DEF IInv, Starting, Started, Alone, Answered, Pausing, First, Startup, Said, bounds, pipeline
    <2>5. Agreeing'
        BY <1>10, <2>2 DEF Agreeing
    <2>6. ASSUME NEW r \in Sources PROVE OfSink(r)'
        <3>1. Calling(r)'
            BY <1>6, <2>2 DEF OfSink, Calling, CallTypes, CapsTypes, pipeline
        <3>2. Shape(r)' /\ StartingSink(r)' /\ Unflushed(r)' /\ Rising(r)'
            BY <1>6, <1>10, <2>1, <2>2 DEF OfSink, Shape, StartingSink, Unflushed, Rising, Startup, bounds, pipeline
        <3> QED BY <3>1, <3>2 DEF OfSink
    <2> QED BY <1>2, <1>5, <2>3, <2>4, <2>5, <2>6 DEF IInv
<1>11. CASE /\ m_clientState' = m_clientState /\ NoCommand
            /\ m_clientState # "PAUSED" \/ \E r \in Sources : m_state'[r] \notin Played
            /\ m_isStateCommitNeeded'[s] = TRUE /\ backendQueue' = backendQueue
    <2>1. ClientTypes' /\ ServerTypes'
        BY <1>1, <1>4, <1>11 DEF ClientTypes, ServerTypes, NoCommand, server, bounds
    <2>2. Starting' /\ Started' /\ Alone' /\ Agreeing'
        BY <1>2, <1>11, QueueSame
           DEF IInv, Starting, Started, Alone, Agreeing, Startup, Said, NoCommand, server, bounds, pipeline
    <2>3. Answered'
        BY <1>2, <1>11, QueueSame, OwedSame DEF IInv, Answered, Said, NoCommand, server, bounds, Moves
    <2>4. Pausing'
        <3> SUFFICES ASSUME flushes = 0 PROVE Pausing'
            BY DEF Pausing, bounds
        <3>1. PICK a \in Sources : a # s /\ goal[a] = "PAUSED" /\ m_state[a] \in {"PAUSED", "AWAITING_PAUSED"}
            BY <1>7
        <3> QED BY <1>2, <1>4, <1>8, <3>1 DEF IInv, Pausing, Played, bounds, pipeline
    <2>5. \A r \in Sources : r # s /\ PausedToCome(r) => PausedToCome(r)'
        BY <1>2, <1>11, QueueSame, OwedSame DEF PausedToCome, Said, NoCommand, server
    <2>6. First'
        <3>1. ASSUME targets = 0, serverTarget = "PAUSED" PROVE \E r \in Sources : ToPlay(r)'
            <4>1. CASE m_clientState = "PAUSED"
                <5>1. PICK r \in Sources : m_state'[r] \notin Played
                    BY <1>11, <4>1
                <5>2. r # s /\ ToPlay(r)
                    BY <1>2, <1>4, <1>6, <1>9, <3>1, <5>1 DEF OfSink, Rising
                <5> QED BY <1>4, <2>5, <5>2 DEF ToPlay
            <4>2. CASE m_clientState = "AWAITING_PAUSED"
                <5>1. Owed("PAUSED") \/ Said("PAUSED")
                    BY <1>1, <3>1, <4>2, OwesLast DEF IInv, Agreeing, Awaiting
                <5>2. PausedToCome(s)'
                    BY <1>11, <5>1, QueueSame, OwedSame DEF PausedToCome, Said, NoCommand, server
                <5> QED BY <1>11, <5>2 DEF ToPlay
            <4> QED BY <3>1, <4>1, <4>2 DEF IInv, Agreeing
        <3> QED BY <1>9, <1>11, <3>1, QueueSame, OwedSame
                DEF IInv, First, Startup, Said, NoCommand, server, bounds, pipeline
    <2>7. OfSink(s)'
        <3>1. Calling(s)' /\ Shape(s)' /\ StartingSink(s)'
            BY <1>1, <1>2, <1>11, QueueSame DEF OfSink, Calling, Shape, StartingSink, Startup, pipeline
        <3>2. Unflushed(s)'
            <4> SUFFICES ASSUME flushes = 0 PROVE Unflushed(s)'
                BY DEF Unflushed, bounds
            <4>1. /\ step = "PAUSED" /\ (goal[s] = "PLAYING" \/ thread[s] \in {"pause", "waiting"})
                BY <1>1, <1>2 DEF IInv, Pausing, OfSink, Unflushed, SinkTypes, Moves
            <4> QED BY <1>1, <1>2, <1>4, <1>8, <1>11, <4>1
                    DEF OfSink, Unflushed, NotPaused, ToBePaused, Startup, Played, bounds, pipeline
        <3>3. Rising(s)'
            <4>1. targets = 0 /\ serverTarget = "PAUSED" => ~(gst[s].pending # Void /\ gst[s].next = "PAUSED")
                BY <1>1, <1>2, <1>9 DEF OfSink, Rising
            <4> QED BY <1>1, <1>2, <1>4, <1>9, <1>11, <4>1
                    DEF OfSink, Rising, Startup, NoCommand, server, bounds, pipeline
        <3> QED BY <3>1, <3>2, <3>3 DEF OfSink
    <2>8. ASSUME NEW r \in Sources, r # s PROVE OfSink(r)'
        BY <1>2, <1>4, <1>6, <1>11, <2>5, <2>8, SinkSame, QueueSame DEF NoCommand, server, bounds, pipeline
    <2> QED BY <1>2, <1>5, <2>1, <2>2, <2>3, <2>4, <2>6, <2>7, <2>8 DEF IInv
<1> QED BY <1>4, <1>10, <1>11

LEMMA HandleStateChangedStep ==
    ASSUME IInv, NEW s \in Sources, HandleStateChanged(s)
    PROVE  IInv'
<1>1. PICK g \in handling.read :
        /\ handling.reader = {s} /\ Finish(s)
        /\ \/ /\ g.next = handling.state
              /\ gst' = [gst EXCEPT ![s] = Committed(g)]
              /\ m_isStateCommitNeeded' = [m_isStateCommitNeeded EXCEPT ![s] = FALSE]
              /\ UNCHANGED <<m_state, m_clientState, backendQueue, server>>
           \/ /\ handling.state = "PAUSED" /\ g.current = "PAUSED" /\ g.next = "PLAYING"
              /\ \E result \in {"SUCCESS_SYNC", "SUCCESS_ASYNC"} : PlayIn(s, backendQueue, result)
              /\ UNCHANGED gst
           \/ /\ \/ ~m_isStateCommitNeeded[s]
                 \/ /\ g.next # handling.state
                    /\ <<handling.state, g.current, g.next>> # <<"PAUSED", "PAUSED", "PLAYING">>
              /\ UNCHANGED <<gst, m_isStateCommitNeeded, m_state, m_clientState, backendQueue, server>>
        /\ UNCHANGED <<pipeline, goal, thread, caps, m_attachedSources, m_serverPlaybackState,
                       m_wasAllSourcesAttachedSent, wasPlayingBeforeEos, streams, bounds>>
    BY DEF HandleStateChanged
<1>2. CASE /\ g.next = handling.state
           /\ gst' = [gst EXCEPT ![s] = Committed(g)]
           /\ m_isStateCommitNeeded' = [m_isStateCommitNeeded EXCEPT ![s] = FALSE]
           /\ UNCHANGED <<m_state, m_clientState, backendQueue, server>>
    BY <1>1, <1>2, HandleCommit DEF client
<1>3. CASE /\ handling.state = "PAUSED" /\ g.current = "PAUSED" /\ g.next = "PLAYING"
           /\ \E result \in {"SUCCESS_SYNC", "SUCCESS_ASYNC"} : PlayIn(s, backendQueue, result)
           /\ UNCHANGED gst
    <2>1. PICK result \in {"SUCCESS_SYNC", "SUCCESS_ASYNC"} : PlayIn(s, backendQueue, result)
        BY <1>3
    <2> QED BY <1>1, <1>3, <2>1, HandlePlay
<1>4. CASE /\ \/ ~m_isStateCommitNeeded[s]
              \/ /\ g.next # handling.state
                 /\ <<handling.state, g.current, g.next>> # <<"PAUSED", "PAUSED", "PLAYING">>
           /\ UNCHANGED <<gst, m_isStateCommitNeeded, m_state, m_clientState, backendQueue, server>>
    BY <1>1, <1>4, HandleNothing DEF client, sinks
<1> QED BY <1>1, <1>2, <1>3, <1>4

-----------------------------------------------------------------------------
(***************************************************************************)
(* The loop handles a call of play() or a flush.                           *)
(***************************************************************************)
\* The message of the thread that plays.
LEMMA PlayCalled ==
    ASSUME IInv, NEW s \in Sources, Asked("play", s), handling = NotHandling
    PROVE  /\ OfSink(s) /\ thread[s] = "waiting" /\ step = "PLAYING" /\ goal[s] = "PLAYING"
           /\ ~Startup
           /\ \A u \in CallTypes : Asked(u, s) => u = "play"
           /\ Clear("play", s, "play", s)
           /\ \A r \in Sources : ReadOf(r) = {}
           /\ flushes = 0 => m_clientState # "AWAITING_PAUSED"
           /\ AlreadyPlaying => serverTarget = "PLAYING" /\ (flushes = 0 => m_clientState = "PLAYING")
           /\ targets = 0 => target = "PLAYING"
<1>1. /\ OfSink(s) /\ thread[s] = "waiting" /\ step = "PLAYING" /\ goal[s] = "PLAYING"
      /\ \A u \in CallTypes : Asked(u, s) => u = "play"
      /\ Clear("play", s, "play", s)
    BY DEF IInv, OfSink, Calling, CallTypes
<1>2. ~Startup
    BY <1>1 DEF IInv, Starting
<1>3. \A r \in Sources : ReadOf(r) = {}
    BY DEF ReadOf, NotHandling
<1>4. flushes = 0 => m_clientState # "AWAITING_PAUSED"
    BY <1>1 DEF IInv, Pausing
<1>5. ASSUME AlreadyPlaying, flushes = 0 PROVE m_clientState = "PLAYING"
    <2>1. m_serverPlaybackState # "PAUSED"
        BY <1>5 DEF AlreadyPlaying
    <2> QED BY <1>2, <1>4, <1>5, <2>1 DEF IInv, Answered, ClientTypes, SinkStates, Startup
<1>6. ASSUME AlreadyPlaying, flushes # 0 PROVE serverTarget = "PLAYING"
    <2>1. serverTarget # "PAUSED"
        BY <1>2, <1>6 DEF IInv, Alone, First, AlreadyPlaying
    <2> QED BY <1>2, <2>1 DEF IInv, Agreeing, ServerTypes, Startup, Moves
<1>7. targets = 0 => target = "PLAYING"
    BY <1>1, <1>2 DEF IInv, First
<1> QED BY <1>1, <1>2, <1>3, <1>4, <1>5, <1>6, <1>7 DEF IInv, Agreeing

LEMMA PlayStep ==
    ASSUME IInv, NEW s \in Sources, Play(s)
    PROVE  IInv'
<1>1. /\ SinkTypes /\ ClientTypes /\ ServerTypes /\ Telling /\ backendQueue \in Seq(Message)
      /\ \A r \in Sources : OfSink(r)
    BY DEF IInv, ClientTypes
<1>2. PICK result \in {"SUCCESS_SYNC", "SUCCESS_ASYNC"} :
        /\ PlayIn(s, Tail(backendQueue), result)
        /\ thread' = [thread EXCEPT ![s] = IF result = "SUCCESS_SYNC" THEN "commit" ELSE "idle"]
    BY DEF Play
<1>3. /\ Handles("play", s) /\ handling = NotHandling
      /\ UNCHANGED <<pipeline, gst, goal, caps, m_attachedSources, m_serverPlaybackState,
                     m_wasAllSourcesAttachedSent, streams, handling, bounds>>
    BY DEF Play, Handles
<1>4. Asked("play", s)
    <2>1. 1 \in 1..Len(backendQueue) /\ backendQueue[1] = Msg("play", s)
        BY <1>1, <1>3 DEF Handles
    <2> QED BY <2>1 DEF Asked, In
<1>5. /\ OfSink(s) /\ thread[s] = "waiting" /\ step = "PLAYING" /\ goal[s] = "PLAYING"
      /\ ~Startup
      /\ \A u \in CallTypes : Asked(u, s) => u = "play"
      /\ Clear("play", s, "play", s)
      /\ \A r \in Sources : ReadOf(r) = {} /\ ReadOf(r)' = {}
      /\ flushes = 0 => m_clientState # "AWAITING_PAUSED"
      /\ AlreadyPlaying => serverTarget = "PLAYING" /\ (flushes = 0 => m_clientState = "PLAYING")
      /\ targets = 0 => target = "PLAYING"
    <2>1. \A r \in Sources : ReadOf(r)' = ReadOf(r)
        BY <1>3 DEF ReadOf
    <2> QED BY <1>3, <1>4, <2>1, PlayCalled
<1>6. /\ m_state' \in [Sources -> SinkStates] /\ m_state'[s] \in Played
      /\ \A r \in Sources : r # s => m_state'[r] = m_state[r]
      /\ m_isStateCommitNeeded' \in [Sources -> BOOLEAN]
      /\ \A r \in Sources : r # s => m_isStateCommitNeeded'[r] = m_isStateCommitNeeded[r]
      /\ \/ /\ AlreadyPlaying /\ m_clientState' \in {m_clientState, "PLAYING"}
            /\ backendQueue' = Tail(backendQueue) /\ NoCommand
         \/ /\ m_clientState = "PAUSED" /\ m_clientState' = "AWAITING_PLAYING"
            /\ \/ Command("PLAYING") /\ backendQueue' = Tail(backendQueue)
               \/ /\ owed = <<>> /\ owed' = owed
                  /\ serverState' = "PLAYING" /\ serverTarget' = "PLAYING"
                  /\ backendQueue' = Append(Tail(backendQueue), Msg("state", "PLAYING"))
         \/ /\ m_clientState' = m_clientState /\ NoCommand
            /\ m_clientState # "PAUSED" \/ \E r \in Sources : m_state'[r] \notin Played
            /\ m_isStateCommitNeeded'[s] = TRUE
            /\ result = "SUCCESS_ASYNC" /\ backendQueue' = Tail(backendQueue)
    BY <1>2, <1>5, Plays
<1>7. /\ thread'[s] \in {"commit", "idle"} /\ thread' \in [Sources -> ThreadPlaces]
      /\ result = "SUCCESS_ASYNC" => thread'[s] = "idle"
      /\ \A r \in Sources : r # s => thread'[r] = thread[r]
    BY <1>1, <1>2 DEF SinkTypes, ThreadPlaces
<1>8. /\ backendQueue' \in Seq(Message)
      /\ \A u, y : u # "state" \/ y # "PLAYING" => (Asked(u, y)' => Asked(u, y))
      /\ \A u, y : Asked(u, y) => Asked(u, y)' \/ (u = "play" /\ y = s)
      /\ \A u, y, v, z : v # "state" /\ Clear(u, y, v, z) => Clear(u, y, v, z)'
      /\ \A u \in CallTypes : ~Asked(u, s)'
    <2>1. CASE backendQueue' = Tail(backendQueue)
        <3>1. /\ backendQueue' \in Seq(Message)
              /\ \A u, y : Asked(u, y) <=> Asked(u, y)' \/ (u = "play" /\ y = s)
              /\ \A u, y, v, z : Clear(u, y, v, z) => Clear(u, y, v, z)'
              /\ \A u, y : Clear("play", s, u, y) => ~Asked(u, y)'
            BY <1>1, <1>3, <2>1, Taken
        <3> QED BY <1>5, <3>1
    <2>2. CASE backendQueue' = Append(Tail(backendQueue), Msg("state", "PLAYING"))
        <3>1. /\ backendQueue' \in Seq(Message)
              /\ \A u, y : Asked(u, y)' => Asked(u, y) \/ (u = "state" /\ y = "PLAYING")
              /\ \A u, y : Asked(u, y) => Asked(u, y)' \/ (u = "play" /\ y = s)
              /\ \A u, y : Clear("play", s, u, y) /\ ~(u = "state" /\ y = "PLAYING") => ~Asked(u, y)'
              /\ \A u, y, v, z : (Asked(u, y) => Clear(u, y, v, z) /\ ~(v = "state" /\ z = "PLAYING"))
                                    => Clear(u, y, v, z)'
            BY <1>1, <1>3, <2>2, TakenAndPosted, AreMessages DEF Moves
        <3> QED BY <1>5, <3>1 DEF CallTypes
    <2> QED BY <1>6, <2>1, <2>2
<1>9. SinkTypes' /\ Telling'
    BY <1>1, <1>3, <1>6, <1>7 DEF SinkTypes, Telling, pipeline
<1>10. Calling(s)'
    BY <1>3, <1>5, <1>7, <1>8 DEF OfSink, Calling, CallTypes, CapsTypes, pipeline
<1>11. Shape(s)'
    BY <1>3, <1>5 DEF OfSink, Shape, pipeline
<1>12. \A r \in Sources : \A t \in CallTypes \cup CapsTypes \cup {"flush"} : r # s =>
                /\ Asked(t, r)' <=> Asked(t, r)
                /\ Clear(t, r, t, r) => Clear(t, r, t, r)'
    BY <1>8 DEF CallTypes, CapsTypes
<1>13. Started' /\ Starting' /\ ~Startup'
    BY <1>3, <1>5, <1>6, <1>7, <1>8 DEF IInv, Started, Starting, Startup
<1>14. StartingSink(s)'
    BY <1>13 DEF StartingSink
<1>15. Alone'
    BY <1>3, <1>8 DEF IInv, Alone, Said, bounds
<1>16. (flushes = 0 => step = "PLAYING") /\ goal'[s] = "PLAYING"
    BY <1>3, <1>5
\* The server plays, or is told to.
<1>17. ASSUME serverTarget' = "PLAYING", serverTarget = "PLAYING" \/ serverTarget = "PAUSED",
              m_clientState' \in Played
       PROVE  /\ First' /\ Pausing' /\ \A r \in Sources : OfSink(r)'
    <2>1. First'
        BY <1>3, <1>5, <1>17 DEF First, pipeline, bounds
    <2>2. Pausing'
        BY <1>3, <1>5, <1>17 DEF IInv, Pausing, Played, NotHandling, bounds, pipeline
    <2>3. \A r \in Sources : Rising(r)'
        BY <1>3, <1>5, <1>17 DEF Rising, pipeline
    <2>4. Unflushed(s)'
        BY <1>3, <1>5, <1>6, <1>17 DEF OfSink, Unflushed, NotPaused, ToBePaused, NotHandling, bounds, pipeline
    <2>5. ASSUME NEW r \in Sources, r # s PROVE OfSink(r)'
        <3>1. Calling(r)'
            BY <1>1, <1>3, <1>7, <1>12, <2>5 DEF OfSink, Calling, CallTypes, CapsTypes, pipeline
        <3>2. Shape(r)' /\ StartingSink(r)'
            BY <1>1, <1>3, <1>13 DEF OfSink, Shape, StartingSink, pipeline
        <3>3. Unflushed(r)'
            BY <1>1, <1>3, <1>5, <1>6, <1>7, <2>5
               DEF OfSink, Unflushed, NotPaused, ToBePaused, NotHandling, bounds, pipeline
        <3> QED BY <2>3, <3>1, <3>2, <3>3 DEF OfSink
    <2> QED BY <1>10, <1>11, <1>14, <2>1, <2>2, <2>3, <2>4, <2>5 DEF OfSink
\* The server plays already.
<1>18. CASE /\ AlreadyPlaying /\ m_clientState' \in {m_clientState, "PLAYING"}
            /\ backendQueue' = Tail(backendQueue) /\ NoCommand
    <2>1. serverTarget' = "PLAYING" /\ serverTarget = "PLAYING" /\ m_clientState \in Played
          /\ m_clientState' \in Played
        BY <1>5, <1>18 DEF IInv, Agreeing, NoCommand, server, Played
    <2>2. ClientTypes' /\ ServerTypes'
        BY <1>1, <1>3, <1>6, <1>8, <1>18 DEF ClientTypes, ServerTypes, SinkStates, NoCommand, server, bounds
    <2>3. Agreeing'
        BY <1>8, <1>18, <2>1 DEF IInv, Agreeing, Said, NoCommand, server, Played, Awaiting
    <2>4. Answered'
        <3>1. \A x : Said(x)' => Said(x)
            BY <1>1, <1>3, <1>18, Taken DEF Said
        <3>2. flushes = 0 => m_clientState' = "PLAYING" /\ m_clientState = "PLAYING"
            BY <1>5, <1>18
        <3> QED BY <1>3, <1>18, <3>1, <3>2 DEF IInv, Answered, NoCommand, server, bounds, NotHandling, Moves
    <2> QED BY <1>9, <1>13, <1>15, <1>17, <2>1, <2>2, <2>3, <2>4 DEF IInv
\* The server is told to play.
<1>19. CASE m_clientState = "PAUSED" /\ m_clientState' = "AWAITING_PLAYING"
    <2>1. /\ flushes = 0 => /\ owed = <<>> /\ ~Said("PAUSED") /\ ~Said("PLAYING") /\ ~Said("END_OF_STREAM")
                            /\ m_serverPlaybackState = "PAUSED"
          /\ serverTarget = "PAUSED"
        BY <1>19 DEF IInv, Answered, Agreeing
    <2>2. CASE Command("PLAYING") /\ backendQueue' = Tail(backendQueue)
        <3>1. /\ owed' \in Seq(Moves) /\ owed' # <<>> /\ owed'[Len(owed')] = "PLAYING"
              /\ serverTarget' = "PLAYING" /\ serverState' = serverState
              /\ owed = <<>> => Len(owed') = 1
            BY <1>1, <2>2, Commanded DEF Moves
        <3>2. \A u, y, v, z : ~Asked(u, y)' => Clear(u, y, v, z)'
            BY <1>1, <1>3, <2>2, Taken
        <3>3. ClientTypes' /\ ServerTypes'
            BY <1>1, <1>3, <1>6, <1>8, <1>19, <3>1 DEF ClientTypes, ServerTypes, SinkStates, bounds, Moves
        <3>4. Agreeing'
            BY <1>19, <3>1 DEF Agreeing
        <3>5. \A u, y : Asked(u, y)' => Asked(u, y)
            BY <1>1, <1>3, <2>2, Taken
        <3>6. Answered'
            BY <1>3, <1>19, <2>1, <3>1, <3>2, <3>5 DEF Answered, Said, bounds, NotHandling, Moves
        <3> QED BY <1>9, <1>13, <1>15, <1>17, <1>19, <2>1, <3>1, <3>3, <3>4, <3>6 DEF IInv, Played
    <2>3. CASE /\ owed = <<>> /\ owed' = owed /\ serverState' = "PLAYING" /\ serverTarget' = "PLAYING"
               /\ backendQueue' = Append(Tail(backendQueue), Msg("state", "PLAYING"))
        <3>1. /\ Said("PLAYING")'
              /\ \A u, y : Asked(u, y)' => Asked(u, y) \/ (u = "state" /\ y = "PLAYING")
              /\ \A u, y, v, z : (Asked(u, y) => Clear(u, y, v, z) /\ ~(v = "state" /\ z = "PLAYING"))
                                    => Clear(u, y, v, z)'
            BY <1>1, <1>3, <2>3, TakenAndPosted, AreMessages DEF Moves, Said
        <3>2. ClientTypes' /\ ServerTypes'
            BY <1>1, <1>3, <1>6, <1>8, <1>19, <2>3 DEF ClientTypes, ServerTypes, SinkStates, bounds, Moves
        <3>3. Agreeing'
            BY <1>19, <2>3, <3>1 DEF Agreeing
        <3>4. Answered'
            BY <1>3, <1>19, <2>1, <2>3, <3>1 DEF Answered, Said, bounds, NotHandling, Moves
        <3> QED BY <1>9, <1>13, <1>15, <1>17, <1>19, <2>1, <2>3, <3>2, <3>3, <3>4 DEF IInv, Played
    <2> QED BY <1>6, <1>19, <2>2, <2>3
\* The sink waits for the others, or for PAUSED.
<1>20. CASE /\ m_clientState' = m_clientState /\ NoCommand
            /\ m_clientState # "PAUSED" \/ \E r \in Sources : m_state'[r] \notin Played
            /\ m_isStateCommitNeeded'[s] = TRUE
            /\ result = "SUCCESS_ASYNC" /\ backendQueue' = Tail(backendQueue)
    <2>1. /\ \A x : Said(x)' <=> Said(x)
          /\ \A x, y : Clear("state", x, "state", y) => Clear("state", x, "state", y)'
        BY <1>1, <1>3, <1>20, Taken DEF Said
    <2>2. Agreeing' /\ Answered' /\ \A r \in Sources : PausedToCome(r)' <=> PausedToCome(r)
        BY <1>3, <1>8, <1>20, <2>1, TalkSame DEF NoCommand
    <2>3. ClientTypes' /\ ServerTypes'
        BY <1>1, <1>3, <1>6, <1>8, <1>20 DEF ClientTypes, ServerTypes, NoCommand, server, bounds
    <2>4. Pausing'
        BY <1>3, <1>5, <1>20 DEF IInv, Pausing, NotHandling, bounds, pipeline
    <2>5. First'
        <3>1. ASSUME targets = 0, serverTarget = "PAUSED" PROVE \E r \in Sources : ToPlay(r)'
            <4>1. CASE m_clientState = "PAUSED"
                <5>1. PICK r \in Sources : m_state'[r] \notin Played
                    BY <1>20, <4>1
                <5>2. r # s /\ ToPlay(r)
                    BY <1>1, <1>5, <1>6, <3>1, <5>1 DEF OfSink, Rising
                <5> QED BY <1>3, <1>6, <1>7, <2>2, <5>2 DEF ToPlay
            <4>2. CASE m_clientState = "AWAITING_PAUSED"
                <5>1. Owed("PAUSED") \/ Said("PAUSED")
                    BY <1>1, <3>1, <4>2, OwesLast DEF IInv, Agreeing, Awaiting
                <5>2. PausedToCome(s)'
                    BY <2>2, <5>1 DEF PausedToCome
                <5> QED BY <1>20, <5>2 DEF ToPlay
            <4> QED BY <3>1, <4>1, <4>2 DEF IInv, Agreeing
        <3> QED BY <1>3, <1>5, <1>20, <2>1, <3>1, OwedSame
                DEF IInv, First, Startup, NoCommand, server, bounds, pipeline
    <2>6. Unflushed(s)'
        BY <1>3, <1>5, <1>6, <1>7, <1>20 DEF OfSink, Unflushed, NotPaused, ToBePaused, NotHandling, bounds, pipeline
    <2>7. Rising(s)'
        BY <1>3, <1>5, <1>6, <1>7, <1>20, <2>2
           DEF OfSink, Rising, Startup, NoCommand, server, bounds, pipeline
    <2>8. ASSUME NEW r \in Sources, r # s PROVE OfSink(r)'
        BY <1>1, <1>3, <1>6, <1>7, <1>12, <1>20, <2>2, <2>8, SinkSame DEF NoCommand, server, bounds, pipeline
    <2> QED BY <1>9, <1>10, <1>11, <1>13, <1>14, <1>15, <2>2, <2>3, <2>4, <2>5, <2>6, <2>7, <2>8 DEF IInv, OfSink
<1> QED BY <1>6, <1>18, <1>19, <1>20

LEMMA FlushStep ==
    ASSUME IInv, NEW s \in Sources, Flush(s)
    PROVE  IInv'
<1>1. /\ SinkTypes /\ ClientTypes /\ ServerTypes /\ Telling /\ backendQueue \in Seq(Message)
      /\ OfSink(s) /\ gst[s] \in GstState
      /\ Handles("flush", s) /\ backendQueue' = Tail(backendQueue)
      /\ UNCHANGED <<pipeline, goal, thread, caps, m_attachedSources, m_serverPlaybackState,
                     m_wasAllSourcesAttachedSent, streams, handling, bounds>>
    BY DEF IInv, SinkTypes, ClientTypes, Flush, Done
<1>2. /\ backendQueue' \in Seq(Message) /\ Asked("flush", s) /\ handling = NotHandling
      /\ \A u, y : Asked(u, y) <=> Asked(u, y)' \/ (u = "flush" /\ y = s)
      /\ \A u, y, v, z : Clear(u, y, v, z) => Clear(u, y, v, z)'
    BY <1>1, Taken
<1>3. flushes # 0 /\ targets = 0 /\ ~Startup
    BY <1>1, <1>2 DEF IInv, Alone, OfSink, StartingSink
<1>4. \A r \in Sources : ReadOf(r)' = {}
    BY <1>1, <1>2 DEF ReadOf, NotHandling
\* No state is lost.
<1>5. CASE NoCommand /\ UNCHANGED <<gst, m_isStateCommitNeeded, m_state, m_clientState>>
    <2>1. Agreeing' /\ Alone' /\ Answered' /\ \A r \in Sources : PausedToCome(r)' <=> PausedToCome(r)
        BY <1>1, <1>2, <1>5, TalkSame DEF NoCommand, Said
    <2>2. SinkTypes' /\ ClientTypes' /\ ServerTypes' /\ Telling'
        BY <1>1, <1>2, <1>5
           DEF SinkTypes, ClientTypes, ServerTypes, Telling, NoCommand, server, bounds, pipeline
    <2>3. Starting' /\ Started' /\ Pausing'
        BY <1>1, <1>2, <1>3, <1>5 DEF IInv, Starting, Started, Pausing, Startup, bounds, pipeline
    <2>4. First'
        BY <1>1, <1>2, <1>5, <2>1, OwedSame
           DEF IInv, First, ToPlay, Startup, Said, NoCommand, server, bounds, pipeline
    <2>5. ASSUME NEW r \in Sources PROVE OfSink(r)'
        <3>1. OfSink(r)
            BY DEF IInv
        <3>2. Calling(r)'
            BY <1>1, <1>2, <3>1 DEF OfSink, Calling, CallTypes, CapsTypes, pipeline
        <3>3. Shape(r)' /\ StartingSink(r)' /\ Unflushed(r)'
            BY <1>1, <1>3, <1>5, <3>1 DEF OfSink, Shape, StartingSink, Unflushed, Startup, bounds, pipeline
        <3>4. Rising(r)'
            BY <1>1, <1>4, <1>5, <2>1, <3>1
               DEF OfSink, Rising, ToPlay, Startup, NoCommand, server, bounds, pipeline
        <3> QED BY <3>2, <3>3, <3>4 DEF OfSink
    <2> QED BY <2>1, <2>2, <2>3, <2>4, <2>5 DEF IInv
\* The sink has to reach PAUSED again.
<1>6. CASE FlushLosesState(s)
    <2>1. /\ m_state' = [m_state EXCEPT ![s] = "AWAITING_PAUSED"]
          /\ m_isStateCommitNeeded' = [m_isStateCommitNeeded EXCEPT ![s] = TRUE]
          /\ serverTarget' = serverTarget /\ serverState' = serverState
          /\ serverTarget = "PLAYING" => owed' = owed \o <<"PAUSED", "PLAYING">>
          /\ serverTarget = "PAUSED" => owed' = owed \o <<"PAUSED">>
          /\ m_clientState = "PLAYING" => m_clientState' = "AWAITING_PLAYING"
          /\ m_clientState = "PAUSED" => m_clientState' = "AWAITING_PAUSED"
          /\ m_clientState \notin Moves => m_clientState' = m_clientState
        BY <1>6 DEF FlushLosesState, LostState, Owes, Moves
    <2>2. /\ m_state' \in [Sources -> SinkStates] /\ m_isStateCommitNeeded' \in [Sources -> BOOLEAN]
          /\ m_isStateCommitNeeded'[s] = TRUE
          /\ \A r \in Sources : r # s =>
                m_state'[r] = m_state[r] /\ m_isStateCommitNeeded'[r] = m_isStateCommitNeeded[r]
        BY <1>1, <2>1 DEF SinkTypes, ClientTypes, SinkStates
    <2>3. /\ gst' \in [Sources -> GstState]
          /\ gst[s].pending # Void => gst'[s] = gst[s]
          /\ gst[s].pending = Void =>
                gst'[s] = [current |-> "PAUSED", next |-> "PAUSED", pending |-> "PAUSED"]
          /\ \A r \in Sources : r # s => gst'[r] = gst[r]
        <3>1. [current |-> "PAUSED", next |-> "PAUSED", pending |-> "PAUSED"] \in GstState
            BY DEF GstState, Moves
        <3> QED BY <1>1, <1>6, <3>1 DEF FlushLosesState, LostState, SinkTypes
    <2>4. /\ serverTarget \in Moves /\ m_clientState \notin {"IDLE", "READY"}
          /\ m_clientState \in SinkStates \cup {"IDLE"}
        BY <1>1, <1>3 DEF IInv, Agreeing, ServerTypes, ClientTypes, Startup
    <2>5. /\ owed' \in Seq(Moves) /\ owed' # <<>> /\ owed'[Len(owed')] = serverTarget
          /\ Owed("PAUSED")'
          /\ serverTarget = "PAUSED" => (Owed("PLAYING")' => Owed("PLAYING"))
        <3>1. CASE serverTarget = "PLAYING"
            <4> DEFINE o == owed \o <<"PAUSED", "PLAYING">>
            <4>1. /\ o \in Seq(Moves) /\ Len(o) = Len(owed) + 2 /\ o[Len(owed) + 2] = "PLAYING"
                  /\ o[Len(owed) + 1] = "PAUSED" /\ Len(owed) \in Nat
                BY <1>1 DEF ServerTypes, Moves
            <4>2. owed' = o
                BY <2>1, <3>1
            <4> HIDE DEF o
            <4>3. Len(owed) + 1 \in 1..Len(o) /\ o # <<>>
                BY <4>1
            <4>4. Owed("PAUSED")'
                BY <4>1, <4>2, <4>3 DEF Owed, In
            <4> QED BY <3>1, <4>1, <4>2, <4>3, <4>4
        <3>2. CASE serverTarget = "PAUSED"
            <4>1. owed' = Append(owed, "PAUSED")
                BY <1>1, <2>1, <3>2 DEF ServerTypes
            <4>2. "PAUSED" \in Moves /\ owed \in Seq(Moves)
                BY <1>1 DEF ServerTypes, Moves
            <4>3. /\ Append(owed, "PAUSED") \in Seq(Moves) /\ Append(owed, "PAUSED") # <<>>
                  /\ Append(owed, "PAUSED")[Len(Append(owed, "PAUSED"))] = "PAUSED"
                  /\ \A n : In(Append(owed, "PAUSED"), n) <=> In(owed, n) \/ n = "PAUSED"
                BY <4>2, AppendedTo
            <4> QED BY <3>2, <4>1, <4>3 DEF Owed
        <3> QED BY <2>4, <3>1, <3>2 DEF Moves
    <2>6. \A r \in Sources : PausedToCome(r)'
        BY <2>5 DEF PausedToCome
    <2>7. ToPlay(s)'
        BY <2>2, <2>6 DEF ToPlay
    <2>a. SinkTypes' /\ Telling'
        BY <1>1, <2>2, <2>3 DEF SinkTypes, Telling, pipeline
    <2>8. ServerTypes'
        BY <1>1, <2>1, <2>5 DEF ServerTypes
    <2>9. ClientTypes'
        BY <1>1, <1>2, <2>1, <2>2, <2>4 DEF ClientTypes, SinkStates, Moves, bounds
    <2>10. Agreeing'
        BY <2>1, <2>4, <2>5 DEF IInv, Agreeing, Moves, SinkStates
    <2>11. ~Startup'
        BY <2>1, <2>4 DEF Startup, Moves, SinkStates
    <2>12. Starting' /\ Started'
        BY <1>1, <1>2, <1>3, <2>11 DEF IInv, Starting, Started, Startup
    <2>13. Alone' /\ Answered' /\ Pausing'
        BY <1>1, <1>2, <1>3 DEF IInv, Alone, Answered, Pausing, Said, bounds
    <2>14. First'
        BY <1>1, <1>2, <1>3, <2>1, <2>5, <2>7 DEF IInv, First, Said, bounds, pipeline
    <2>15. OfSink(s)'
        <3>1. Calling(s)'
            BY <1>1, <1>2 DEF OfSink, Calling, CallTypes, CapsTypes, pipeline
        <3>2. Shape(s)' /\ StartingSink(s)' /\ Unflushed(s)'
            BY <1>1, <1>3, <2>3, <2>11 DEF IInv, Started, OfSink, Shape, StartingSink, Unflushed, bounds, pipeline, Void
        <3>3. Rising(s)'
            BY <1>1, <1>3, <1>4, <2>1, <2>2, <2>3, <2>6, <2>7 DEF OfSink, Rising, bounds, pipeline, Void
        <3> QED BY <3>1, <3>2, <3>3 DEF OfSink
    <2>16. ASSUME NEW r \in Sources, r # s PROVE OfSink(r)'
        <3>1. OfSink(r)
            BY DEF IInv
        <3>2. Calling(r)'
            BY <1>1, <1>2, <3>1 DEF OfSink, Calling, CallTypes, CapsTypes, pipeline
        <3>3. Shape(r)' /\ StartingSink(r)' /\ Unflushed(r)'
            BY <1>1, <1>3, <2>3, <2>11, <2>16, <3>1 DEF OfSink, Shape, StartingSink, Unflushed, bounds, pipeline
        <3>4. Rising(r)'
            BY <1>1, <1>3, <1>4, <2>1, <2>2, <2>3, <2>6, <2>16, <3>1 DEF OfSink, Rising, ToPlay, bounds, pipeline
        <3> QED BY <3>2, <3>3, <3>4 DEF OfSink
    <2> QED BY <2>a, <2>8, <2>9, <2>10, <2>12, <2>13, <2>14, <2>15, <2>16 DEF IInv
<1> QED BY <1>5, <1>6 DEF Flush

-----------------------------------------------------------------------------
(***************************************************************************)
(* The loop handles the calls of the startup and pause().                  *)
(***************************************************************************)
\* The server is told to pause for the first time: every sink has its source
\* and waits for PAUSED.
LEMMA FirstCommand ==
    ASSUME IInv, Startup, Command("PAUSED"), m_clientState' = "AWAITING_PAUSED",
           m_wasAllSourcesAttachedSent' = TRUE, m_attachedSources' = Sources,
           UNCHANGED <<target, step, gst, goal, thread, m_serverPlaybackState, handling, bounds>>,
           m_state' \in [Sources -> SinkStates], backendQueue' \in Seq(Message), SinkTypes',
           \A r \in Sources : caps[r] # "none" /\ caps'[r] = "done" /\ m_state'[r] = "AWAITING_PAUSED",
           \A r \in Sources : \A t \in CapsTypes : ~Asked(t, r)',
           \A u, y : Asked(u, y)' => Asked(u, y),
           \A u, y, v, z : ~Asked(u, y)' => Clear(u, y, v, z)'
    PROVE  IInv'
<1>1. /\ ClientTypes /\ ServerTypes /\ Telling /\ \A r \in Sources : OfSink(r)
      /\ step = "PAUSED" /\ handling = NotHandling /\ owed = <<>>
      /\ ~Said("PAUSED") /\ ~Said("PLAYING") /\ ~Said("END_OF_STREAM")
      /\ m_serverPlaybackState = "IDLE" /\ serverState = "IDLE"
    BY DEF IInv, Starting
<1>2. /\ owed' \in Seq(Moves) /\ owed' # <<>> /\ owed'[Len(owed')] = "PAUSED"
      /\ serverTarget' = "PAUSED" /\ serverState' = "IDLE"
      /\ \A y : Owed(y)' <=> y = "PAUSED"
      /\ \A y, z : OwedClear(y, z)'
    <2>1. "PAUSED" \in Moves
        BY DEF Moves
    <2> QED BY <1>1, <2>1, Commanded, NothingOwed
<1>3. ASSUME NEW r \in Sources
      PROVE  /\ thread[r] = "idle" /\ goal[r] = "PAUSED"
             /\ gst[r].current = "READY" /\ gst[r].next = "PAUSED" /\ gst[r].pending = "PAUSED"
             /\ ~Asked("flush", r)
             /\ \A u \in CallTypes : ~Asked(u, r)
             /\ ReadOf(r)' = {}
    <2>1. thread[r] = "idle" /\ goal[r] = "PAUSED" /\ gst[r].current = "READY" /\ ~Asked("flush", r)
        BY <1>1 DEF OfSink, StartingSink
    <2>2. gst[r].next = "PAUSED" /\ gst[r].pending = "PAUSED"
        BY <1>1, <2>1 DEF OfSink, Shape
    <2>3. \A u \in CallTypes : ~Asked(u, r)
        BY <1>1, <2>1 DEF OfSink, Calling
    <2>4. ReadOf(r)' = {}
        BY <1>1 DEF ReadOf, NotHandling
    <2> QED BY <2>1, <2>2, <2>3, <2>4
<1>4. ServerTypes' /\ ClientTypes' /\ Telling'
    BY <1>1, <1>2 DEF ServerTypes, ClientTypes, Telling, SinkStates, Moves, bounds
<1>5. Starting' /\ Started'
    BY <1>3 DEF Starting, Started, Startup, CallTypes
<1>6. Agreeing'
    BY <1>2 DEF Agreeing
<1>7. Alone'
    BY <1>1, <1>3 DEF IInv, Alone, Said, bounds
<1>8. Answered'
    BY <1>1, <1>2 DEF Answered, Said, NotHandling, Moves
<1>9. Pausing'
    BY <1>1, <1>3, ClientAssumption DEF Pausing, NotHandling
<1>10. First'
    BY <1>1, <1>2 DEF First, Said
<1>11. ASSUME NEW r \in Sources PROVE OfSink(r)'
    <2>1. Calling(r)'
        BY <1>1, <1>3 DEF Calling, CallTypes, CapsTypes
    <2>2. Shape(r)' /\ StartingSink(r)'
        BY <1>1, <1>3 DEF Shape, StartingSink, Startup
    <2>3. Unflushed(r)'
        BY <1>1, <1>3 DEF Unflushed, NotPaused, ToBePaused, Played, NotHandling
    <2>4. Rising(r)'
        BY <1>1, <1>3 DEF Rising, Void
    <2> QED BY <2>1, <2>2, <2>3, <2>4 DEF OfSink
<1> QED BY <1>4, <1>5, <1>6, <1>7, <1>8, <1>9, <1>10, <1>11 DEF IInv

LEMMA HandleStreamCollectionStep ==
    ASSUME IInv, NEW s \in Sources, HandleStreamCollection(s)
    PROVE  IInv'
<1>1. /\ SinkTypes /\ ClientTypes /\ ServerTypes /\ Telling /\ backendQueue \in Seq(Message) /\ OfSink(s)
      /\ Handles("count", s) /\ backendQueue' = Tail(backendQueue)
      /\ thread' = [thread EXCEPT ![s] = "pause"]
      /\ UNCHANGED <<pipeline, gst, goal, caps, m_isStateCommitNeeded, m_attachedSources, m_state,
                     m_clientState, m_serverPlaybackState, m_wasAllSourcesAttachedSent,
                     handling, server, bounds>>
    BY DEF IInv, ClientTypes, HandleStreamCollection, Done
<1>2. /\ backendQueue' \in Seq(Message) /\ Asked("count", s) /\ handling = NotHandling
      /\ \A u, y : Asked(u, y) <=> Asked(u, y)' \/ (u = "count" /\ y = s)
      /\ \A u, y, v, z : Clear(u, y, v, z) => Clear(u, y, v, z)'
      /\ \A u, y : Clear("count", s, u, y) => ~Asked(u, y)'
    BY <1>1, Taken
<1>3. /\ thread'[s] = "pause" /\ thread' \in [Sources -> ThreadPlaces]
      /\ \A r \in Sources : r # s => thread'[r] = thread[r]
    BY <1>1 DEF SinkTypes, ThreadPlaces
<1>4. /\ Startup /\ thread[s] = "waiting" /\ goal[s] = "PAUSED" /\ step = "PAUSED"
      /\ \A u \in CallTypes : ~Asked(u, s)'
    BY <1>1, <1>2 DEF IInv, Started, OfSink, Calling, CallTypes
<1>5. s \notin m_attachedSources /\ caps[s] = "none"
    BY <1>1, <1>4 DEF OfSink, StartingSink, Calling
<1>6. SinkTypes' /\ ClientTypes' /\ ServerTypes' /\ Telling'
    BY <1>1, <1>2, <1>3 DEF SinkTypes, ClientTypes, ServerTypes, Telling, server, bounds, pipeline
<1>7. Agreeing' /\ Alone' /\ Answered' /\ \A r \in Sources : PausedToCome(r)' <=> PausedToCome(r)
    BY <1>1, <1>2, TalkSame DEF Said
<1>8. Starting' /\ Started'
    BY <1>1, <1>2, <1>4, <1>5 DEF IInv, Starting, Started, Startup, Said, server, pipeline
<1>9. Pausing' /\ First'
    BY <1>1, <1>4 DEF IInv, Pausing, First, Startup, ReadOf, bounds, pipeline
<1>10. OfSink(s)'
    <2>1. Calling(s)'
        BY <1>1, <1>2, <1>3, <1>4 DEF OfSink, Calling, CallTypes, CapsTypes, pipeline
    <2>2. Shape(s)' /\ Rising(s)'
        BY <1>1, <1>4 DEF OfSink, Shape, Rising, Startup, bounds, pipeline
    <2>3. StartingSink(s)'
        BY <1>1, <1>2, <1>3, <1>5 DEF OfSink, StartingSink, Startup
    <2>4. Unflushed(s)'
        BY <1>1, <1>3, <1>4
           DEF OfSink, Unflushed, NotPaused, ToBePaused, Startup, ReadOf, bounds, pipeline
    <2> QED BY <2>1, <2>2, <2>3, <2>4 DEF OfSink
<1>11. ASSUME NEW r \in Sources, r # s PROVE OfSink(r)'
    BY <1>1, <1>2, <1>3, <1>7, <1>11, SinkSame DEF IInv, server, bounds, pipeline
<1> QED BY <1>6, <1>7, <1>8, <1>9, <1>10, <1>11 DEF IInv

LEMMA AttachSourceStep ==
    ASSUME IInv, NEW s \in Sources, AttachSource(s)
    PROVE  IInv'
<1>1. /\ SinkTypes /\ ClientTypes /\ ServerTypes /\ Telling /\ backendQueue \in Seq(Message)
      /\ \A r \in Sources : OfSink(r)
      /\ Handles("attach", s) /\ backendQueue' = Tail(backendQueue)
      /\ m_attachedSources' = m_attachedSources \cup {s}
      /\ SendAllSourcesAttached(m_attachedSources \cup {s}, streams)
      /\ caps' = [caps EXCEPT ![s] = "attached"]
      /\ UNCHANGED <<pipeline, gst, goal, thread, m_isStateCommitNeeded, m_state,
                     m_serverPlaybackState, streams, handling, bounds>>
    BY DEF IInv, ClientTypes, AttachSource, Done
<1>2. /\ backendQueue' \in Seq(Message) /\ Asked("attach", s) /\ handling = NotHandling
      /\ \A u, y : Asked(u, y) <=> Asked(u, y)' \/ (u = "attach" /\ y = s)
      /\ \A u, y, v, z : Clear(u, y, v, z) => Clear(u, y, v, z)'
      /\ \A u, y : Clear("attach", s, u, y) => ~Asked(u, y)'
    BY <1>1, Taken
<1>3. /\ caps'[s] = "attached" /\ caps' \in [Sources -> {"none", "attaching", "attached", "pausing", "done"}]
      /\ \A r \in Sources : r # s => caps'[r] = caps[r]
    BY <1>1 DEF SinkTypes
<1>4. caps[s] = "attaching" /\ s \notin m_attachedSources /\ ~Asked("attach", s)' /\ ~Asked("capsPause", s)
    BY <1>1, <1>2 DEF OfSink, Calling, CapsTypes
<1>5. /\ Startup /\ m_state[s] = "READY" /\ m_clientState = "IDLE" /\ ~m_wasAllSourcesAttachedSent
      /\ thread[s] = "idle" /\ goal[s] = "PAUSED" /\ step = "PAUSED"
    BY <1>1, <1>4 DEF IInv, Started, Starting, OfSink, StartingSink, Startup
<1>6. /\ NoCommand
      /\ \/ /\ m_clientState' = "IDLE" /\ m_wasAllSourcesAttachedSent' = FALSE
            /\ ~(m_attachedSources' = Sources /\ streams = Kinds)
         \/ /\ m_clientState' = "READY" /\ m_wasAllSourcesAttachedSent' = TRUE
            /\ m_attachedSources' = Sources
    BY <1>1, <1>5 DEF SendAllSourcesAttached, AreAllStreamsAttached, IInv, ClientTypes
<1>7. SinkTypes' /\ ClientTypes' /\ ServerTypes' /\ Telling'
    BY <1>1, <1>2, <1>3, <1>6
       DEF SinkTypes, ClientTypes, ServerTypes, Telling, SinkStates, NoCommand, server, bounds, pipeline
<1>8. Startup'
    BY <1>6 DEF Startup
<1>9. Starting' /\ Started'
    BY <1>1, <1>2, <1>3, <1>5, <1>6, <1>8 DEF IInv, Starting, Started, Startup, Said, NoCommand, server, pipeline
<1>10. Agreeing' /\ Alone'
    BY <1>1, <1>2, <1>5, <1>6 DEF IInv, Agreeing, Alone, Awaiting, Said, NoCommand, server, bounds
<1>11. Answered' /\ Pausing' /\ First'
    BY <1>1, <1>2, <1>5, <1>6, <1>8
       DEF IInv, Answered, Pausing, First, NotHandling, Moves, Played, pipeline
<1>12. ASSUME NEW r \in Sources PROVE OfSink(r)'
    <2>1. Calling(r)'
        BY <1>1, <1>2, <1>3, <1>4 DEF OfSink, Calling, CallTypes, CapsTypes, pipeline
    <2>2. Shape(r)' /\ Rising(r)'
        BY <1>1, <1>8 DEF OfSink, Shape, Rising, pipeline
    <2>3. StartingSink(r)'
        BY <1>1, <1>2, <1>3, <1>4, <1>5 DEF OfSink, StartingSink
    <2>4. Unflushed(r)'
        BY <1>1, <1>2, <1>5, <1>6, <1>8
           DEF OfSink, Unflushed, NotPaused, ReadOf, NotHandling, Played, bounds, pipeline
    <2> QED BY <2>1, <2>2, <2>3, <2>4 DEF OfSink
<1> QED BY <1>7, <1>9, <1>10, <1>11, <1>12 DEF IInv

LEMMA HandleCollectionEventStep ==
    ASSUME IInv, HandleCollectionEvent
    PROVE  IInv'
<1>1. /\ SinkTypes /\ ClientTypes /\ ServerTypes /\ Telling /\ backendQueue \in Seq(Message)
      /\ \A r \in Sources : OfSink(r)
    BY DEF IInv, ClientTypes
<1>2. ASSUME UNCHANGED <<target, step, gst, goal, thread, caps, m_isStateCommitNeeded, m_attachedSources, m_state,
                         m_clientState, m_serverPlaybackState, m_wasAllSourcesAttachedSent, handling, server,
                         bounds>>,
             NEW t \in {"collection", "sendAll"}, Handles(t, "none"), backendQueue' = Tail(backendQueue),
             Starting'
      PROVE  IInv'
    <2>1. /\ backendQueue' \in Seq(Message)
          /\ \A u, y : Asked(u, y) <=> Asked(u, y)' \/ (u = t /\ y = "none")
          /\ \A u, y, v, z : Clear(u, y, v, z) => Clear(u, y, v, z)'
        BY <1>1, <1>2, Taken
    <2>2. SinkTypes' /\ ClientTypes' /\ ServerTypes' /\ Telling'
        BY <1>1, <1>2, <2>1 DEF SinkTypes, ClientTypes, ServerTypes, Telling, server, bounds
    <2>3. Agreeing' /\ Alone' /\ Answered' /\ \A r \in Sources : PausedToCome(r)' <=> PausedToCome(r)
        BY <1>2, <2>1, TalkSame DEF Said
    <2>4. Started' /\ Pausing'
        BY <1>2, <2>1 DEF IInv, Started, Pausing, Startup, ReadOf, bounds
    <2>5. First'
        BY <1>2, <2>1, <2>3, OwedSame DEF IInv, First, ToPlay, Startup, Said, server, bounds
    <2>6. ASSUME NEW r \in Sources PROVE OfSink(r)'
        BY <1>1, <1>2, <2>1, <2>3, <2>6, SinkSame DEF server, bounds, CallTypes, CapsTypes
    <2> QED BY <1>2, <2>2, <2>3, <2>4, <2>5, <2>6 DEF IInv
<1>3. CASE Handles("collection", "none") /\ collection' = "counted"
    <2>1. /\ UNCHANGED <<target, step, gst, goal, thread, caps, m_isStateCommitNeeded, m_attachedSources, m_state,
                         m_clientState, m_serverPlaybackState, m_wasAllSourcesAttachedSent, handling, server,
                         bounds>>
          /\ backendQueue' = Tail(backendQueue)
        BY <1>3, SameMessage DEF HandleCollectionEvent, Done, Handles
    <2>2. \A u, y : Asked(u, y) <=> Asked(u, y)' \/ (u = "collection" /\ y = "none")
        BY <1>1, <1>3, <2>1, Taken
    <2>3. Starting'
        BY <1>3, <2>1, <2>2 DEF IInv, Starting, Startup, Said, server
    <2> QED BY <1>2, <1>3, <2>1, <2>3
<1>4. CASE /\ Handles("sendAll", "none") /\ backendQueue' = Tail(backendQueue)
           /\ SendAllSourcesAttached(m_attachedSources, streams)
           /\ UNCHANGED <<sinks, m_attachedSources, m_state, m_serverPlaybackState, streams, handling, bounds>>
    <2>1. /\ backendQueue' \in Seq(Message) /\ handling = NotHandling
          /\ \A u, y : Asked(u, y) <=> Asked(u, y)' \/ (u = "sendAll" /\ y = "none")
          /\ \A u, y, v, z : Clear(u, y, v, z) => Clear(u, y, v, z)'
          /\ \A u, y, v, z : ~Asked(u, y)' => Clear(u, y, v, z)'
        BY <1>1, <1>4, Taken
    <2>2. CASE /\ m_wasAllSourcesAttachedSent \/ ~AreAllStreamsAttached(m_attachedSources, streams)
               /\ UNCHANGED <<m_wasAllSourcesAttachedSent, m_clientState>> /\ NoCommand
        <3>1. Starting'
            BY <1>4, <2>1, <2>2
               DEF IInv, Starting, Started, Startup, Said, AreAllStreamsAttached, NoCommand, server, sinks, pipeline
        <3> QED BY <1>2, <1>4, <2>2, <3>1 DEF NoCommand, sinks, pipeline
    <2>3. CASE ~m_wasAllSourcesAttachedSent /\ AreAllStreamsAttached(m_attachedSources, streams)
        <3>1. m_clientState = "IDLE" /\ Startup /\ m_attachedSources = Sources /\ m_wasAllSourcesAttachedSent' = TRUE
            BY <1>4, <2>3 DEF IInv, Started, Startup, AreAllStreamsAttached, SendAllSourcesAttached
        <3>2. ASSUME NEW r \in Sources
              PROVE  /\ caps[r] \notin {"none", "attaching"}
                     /\ m_state[r] = "AWAITING_PAUSED" <=> caps[r] = "done"
            BY <1>1, <3>1 DEF OfSink, Calling, StartingSink
        <3>3. CASE Command("PAUSED") /\ m_clientState' = "AWAITING_PAUSED"
                   /\ \A r \in m_attachedSources : m_state[r] = "AWAITING_PAUSED"
            <4>1. \A r \in Sources : caps[r] = "done" /\ m_state[r] = "AWAITING_PAUSED"
                BY <3>1, <3>2, <3>3
            <4>2. \A r \in Sources : \A u \in CapsTypes : ~Asked(u, r)'
                BY <1>1, <2>1, <4>1 DEF OfSink, Calling, CapsTypes
            <4>3. SinkTypes' /\ m_state' \in [Sources -> SinkStates]
                BY <1>1, <1>4 DEF SinkTypes, ClientTypes, sinks, pipeline
            <4>4. \A u, y : Asked(u, y)' => Asked(u, y)
                BY <2>1
            <4> QED BY <1>4, <2>1, <3>1, <3>3, <4>1, <4>2, <4>3, <4>4, FirstCommand DEF sinks, pipeline
        <3>4. CASE NoCommand /\ m_clientState' = "READY" /\ \E r \in m_attachedSources : m_state[r] # "AWAITING_PAUSED"
            <4>1. \E r \in Sources : caps[r] # "done"
                BY <3>1, <3>2, <3>4
            <4>2. Startup'
                BY <3>4 DEF Startup
            <4>3. SinkTypes' /\ ClientTypes' /\ ServerTypes' /\ Telling'
                BY <1>1, <1>4, <2>1, <3>1, <3>4
                   DEF SinkTypes, ClientTypes, ServerTypes, Telling, SinkStates, NoCommand, server, bounds, sinks,
                       pipeline
            <4>4. Starting' /\ Started'
                BY <1>4, <2>1, <3>1, <3>4, <4>1
                   DEF IInv, Starting, Started, Startup, Said, NoCommand, server, sinks, pipeline
            <4>5. Agreeing' /\ Alone'
                BY <1>4, <2>1, <3>1, <3>4 DEF IInv, Agreeing, Alone, Awaiting, Said, NoCommand, server, bounds
            <4>6. step = "PAUSED"
                BY <3>1 DEF IInv, Starting
            <4>7. Answered' /\ Pausing' /\ First'
                BY <1>4, <2>1, <3>4, <4>2, <4>6
                   DEF Answered, Pausing, First, NotHandling, Moves, sinks, pipeline
            <4>8. ASSUME NEW r \in Sources PROVE OfSink(r)'
                <5>1. Calling(r)'
                    BY <1>1, <1>4, <2>1 DEF OfSink, Calling, CallTypes, CapsTypes, sinks, pipeline
                <5>2. Shape(r)' /\ Rising(r)'
                    BY <1>1, <1>4, <4>2 DEF OfSink, Shape, Rising, sinks, pipeline
                <5>3. StartingSink(r)'
                    BY <1>1, <1>4, <2>1, <3>1 DEF OfSink, StartingSink, sinks, pipeline
                <5>4. Unflushed(r)'
                    BY <1>1, <1>4, <2>1, <3>4, <4>2, <4>6
                       DEF OfSink, Unflushed, NotPaused, ReadOf, NotHandling, Played, bounds, sinks, pipeline
                <5> QED BY <5>1, <5>2, <5>3, <5>4 DEF OfSink
            <4> QED BY <4>3, <4>4, <4>5, <4>7, <4>8 DEF IInv
        <3> QED BY <1>4, <2>3, <3>3, <3>4 DEF SendAllSourcesAttached
    <2> QED BY <1>4, <2>2, <2>3 DEF SendAllSourcesAttached
<1> QED BY <1>3, <1>4 DEF HandleCollectionEvent, Done


\* pause() of a thread: the sink has asked for it, and when the server has
\* been told anything before it is because the pipeline was set to PAUSED.
LEMMA PauseCalled ==
    ASSUME IInv, NEW s \in Sources, Asked("pause", s)
    PROVE  /\ OfSink(s) /\ thread[s] = "waiting" /\ step = "PAUSED" /\ goal[s] = "PAUSED"
           /\ \A u \in CallTypes : Asked(u, s) => u = "pause"
           /\ Clear("pause", s, "pause", s)
           /\ Startup => s \notin m_attachedSources /\ caps[s] = "none"
           /\ ~Startup => flushes = 0 /\ targets # 0 /\ s \in m_attachedSources
<1>1. /\ OfSink(s) /\ thread[s] = "waiting" /\ step = "PAUSED" /\ goal[s] = "PAUSED"
      /\ \A u \in CallTypes : Asked(u, s) => u = "pause"
      /\ Clear("pause", s, "pause", s)
    BY DEF IInv, OfSink, Calling, CallTypes
<1>2. Startup => s \notin m_attachedSources /\ caps[s] = "none"
    BY <1>1 DEF OfSink, Calling, StartingSink
<1>3. ASSUME ~Startup PROVE flushes = 0 /\ targets # 0 /\ s \in m_attachedSources
    <2>1. targets # 0
        BY <1>1, <1>3 DEF OfSink, Rising
    <2>2. flushes = 0
        BY <2>1 DEF IInv, Alone
    <2>3. s \in m_attachedSources
        BY <1>1, <1>3 DEF IInv, Started, OfSink, Calling
    <2> QED BY <2>1, <2>2, <2>3
<1> QED BY <1>1, <1>2, <1>3

LEMMA PauseStep ==
    ASSUME IInv, NEW s \in Sources, Pause(s)
    PROVE  IInv'
<1>1. /\ SinkTypes /\ ClientTypes /\ ServerTypes /\ Telling /\ backendQueue \in Seq(Message)
      /\ \A r \in Sources : OfSink(r)
      /\ Handles("pause", s) /\ backendQueue' = Tail(backendQueue)
      /\ UNCHANGED <<pipeline, gst, goal, caps, m_attachedSources, m_serverPlaybackState,
                     m_wasAllSourcesAttachedSent, streams, handling, bounds>>
    BY DEF IInv, ClientTypes, Pause, Done
<1>2. /\ backendQueue' \in Seq(Message) /\ Asked("pause", s) /\ handling = NotHandling
      /\ \A u, y : Asked(u, y) <=> Asked(u, y)' \/ (u = "pause" /\ y = s)
      /\ \A u, y, v, z : Clear(u, y, v, z) => Clear(u, y, v, z)'
      /\ \A u, y : Clear("pause", s, u, y) => ~Asked(u, y)'
      /\ \A u, y, v, z : ~Asked(u, y)' => Clear(u, y, v, z)'
    BY <1>1, Taken
<1>3. /\ OfSink(s) /\ thread[s] = "waiting" /\ step = "PAUSED" /\ goal[s] = "PAUSED"
      /\ \A u \in CallTypes : Asked(u, s) => u = "pause"
      /\ Clear("pause", s, "pause", s)
      /\ Startup => s \notin m_attachedSources /\ caps[s] = "none"
      /\ ~Startup => flushes = 0 /\ targets # 0 /\ s \in m_attachedSources
    BY <1>2, PauseCalled
<1>4. \A u \in CallTypes : ~Asked(u, s)'
    BY <1>2, <1>3
<1>5. /\ \A x : Said(x)' <=> Said(x)
      /\ \A r \in Sources : \A t \in CallTypes \cup CapsTypes \cup {"flush"} : r # s =>
            /\ Asked(t, r)' <=> Asked(t, r)
            /\ Clear(t, r, t, r) => Clear(t, r, t, r)'
      /\ \A r \in Sources : Asked("flush", r)' <=> Asked("flush", r)
      /\ Asked("sendAll", "none")' <=> Asked("sendAll", "none")
    BY <1>2 DEF Said
<1>6. /\ Alone' /\ Telling'
      /\ \A r \in Sources : ReadOf(r)' = {}
    BY <1>1, <1>2, <1>5 DEF IInv, Alone, Telling, ReadOf, NotHandling, bounds
\* The sink has no source: only its thread goes on.
<1>7. CASE /\ s \notin m_attachedSources /\ thread' = [thread EXCEPT ![s] = "asyncStart"]
           /\ NoCommand /\ UNCHANGED <<m_state, m_clientState, m_isStateCommitNeeded>>
    <2>1. Startup /\ caps[s] = "none"
        BY <1>3, <1>7
    <2>2. /\ thread'[s] = "asyncStart" /\ thread' \in [Sources -> ThreadPlaces]
          /\ \A r \in Sources : r # s => thread'[r] = thread[r]
        BY <1>1, <1>7 DEF SinkTypes, ThreadPlaces
    <2>3. SinkTypes' /\ ClientTypes' /\ ServerTypes'
        BY <1>1, <1>2, <1>7, <2>2 DEF SinkTypes, ClientTypes, ServerTypes, NoCommand, server, bounds, pipeline
    <2>4. Agreeing' /\ Answered' /\ \A r \in Sources : PausedToCome(r)' <=> PausedToCome(r)
        BY <1>1, <1>2, <1>5, <1>7, TalkSame DEF NoCommand
    <2>5. Starting' /\ Started'
        BY <1>1, <1>5, <1>7, <2>1 DEF IInv, Starting, Started, Startup, NoCommand, server, pipeline
    <2>6. Pausing' /\ First'
        BY <1>1, <1>7, <2>1 DEF IInv, Pausing, First, Startup, ReadOf, bounds, pipeline
    <2>7. OfSink(s)'
        <3>1. Calling(s)'
            BY <1>1, <1>2, <1>3, <1>4, <2>2 DEF OfSink, Calling, CallTypes, CapsTypes, pipeline
        <3>2. Shape(s)' /\ Rising(s)'
            BY <1>1, <1>3, <1>7, <2>1 DEF OfSink, Shape, Rising, Startup, bounds, pipeline
        <3>3. StartingSink(s)'
            BY <1>1, <1>2, <1>3, <1>7, <2>1, <2>2 DEF OfSink, StartingSink, Startup
        <3>4. Unflushed(s)'
            BY <1>1, <1>2, <1>3, <1>6, <1>7, <2>1
               DEF OfSink, Unflushed, NotPaused, Startup, Played, NotHandling, bounds, pipeline
        <3> QED BY <3>1, <3>2, <3>3, <3>4 DEF OfSink
    <2>8. ASSUME NEW r \in Sources, r # s PROVE OfSink(r)'
        BY <1>1, <1>5, <1>7, <2>2, <2>4, <2>8, SinkSame DEF NoCommand, server, bounds, pipeline
    <2> QED BY <1>6, <2>3, <2>4, <2>5, <2>6, <2>7, <2>8 DEF IInv
<1>8. ASSUME s \in m_attachedSources
      PROVE  ~Startup /\ flushes = 0 /\ targets # 0 /\ m_clientState \in SinkStates \ {"READY"}
    BY <1>1, <1>3, <1>8 DEF ClientTypes, Startup
\* The server has paused already.
<1>9. CASE PauseSync(s) /\ thread' = [thread EXCEPT ![s] = "commit"]
    <2>1. /\ ~Startup /\ flushes = 0 /\ targets # 0 /\ m_clientState = "PAUSED"
        BY <1>8, <1>9 DEF PauseSync, AlreadyPaused, Awaiting, SinkStates, IInv, Answered
    <2>2. m_clientState' = m_clientState /\ NoCommand /\ UNCHANGED m_isStateCommitNeeded
        BY <1>9, <2>1 DEF PauseSync
    <2>3. /\ thread'[s] = "commit" /\ thread' \in [Sources -> ThreadPlaces]
          /\ m_state'[s] = "PAUSED" /\ m_state' \in [Sources -> SinkStates]
          /\ \A r \in Sources : r # s => thread'[r] = thread[r] /\ m_state'[r] = m_state[r]
        BY <1>1, <1>9 DEF PauseSync, SinkTypes, ClientTypes, ThreadPlaces, SinkStates
    <2>4. SinkTypes' /\ ClientTypes' /\ ServerTypes'
        BY <1>1, <1>2, <2>2, <2>3 DEF SinkTypes, ClientTypes, ServerTypes, NoCommand, server, bounds, pipeline
    <2>5. Agreeing' /\ Answered' /\ \A r \in Sources : PausedToCome(r)' <=> PausedToCome(r)
        BY <1>1, <1>2, <1>5, <2>2, TalkSame DEF NoCommand
    <2>6. ~Startup' /\ Starting' /\ Started' /\ First'
        BY <1>1, <1>2, <2>1, <2>2, <2>3 DEF IInv, Starting, Started, First, Startup, bounds
    <2>7. Pausing'
        BY <1>1, <1>2, <1>3, <2>1, <2>2 DEF Pausing, NotHandling, pipeline
    <2>8. OfSink(s)'
        <3>1. Calling(s)'
            BY <1>1, <1>2, <1>3, <1>4, <2>3 DEF OfSink, Calling, CallTypes, CapsTypes, pipeline
        <3>2. Shape(s)' /\ StartingSink(s)' /\ Rising(s)'
            BY <1>1, <1>3, <2>1, <2>6 DEF OfSink, Shape, StartingSink, Rising, bounds, pipeline
        <3>3. Unflushed(s)'
            BY <1>1, <1>2, <1>3, <1>6, <2>1, <2>2, <2>3
               DEF OfSink, Unflushed, NotPaused, NotHandling, Played, pipeline
        <3> QED BY <3>1, <3>2, <3>3 DEF OfSink
    <2>9. ASSUME NEW r \in Sources, r # s PROVE OfSink(r)'
        BY <1>1, <1>5, <2>2, <2>3, <2>5, <2>9, SinkSame DEF NoCommand, server, bounds, pipeline
    <2> QED BY <1>6, <2>4, <2>5, <2>6, <2>7, <2>8, <2>9 DEF IInv
\* The sink is going to pause when the server does.
<1>10. CASE PauseAsync(s) /\ thread' = [thread EXCEPT ![s] = "idle"]
    <2>1. /\ ~Startup /\ flushes = 0 /\ targets # 0 /\ m_clientState \in Played \cup {"AWAITING_PAUSED"}
        BY <1>8, <1>10 DEF PauseAsync, AlreadyPaused, Awaiting, SinkStates, Played, IInv, Answered
    <2>2. /\ m_clientState' = "AWAITING_PAUSED"
          /\ \/ m_clientState = "AWAITING_PAUSED" /\ NoCommand
             \/ m_clientState \in Played /\ Command("PAUSED")
        BY <1>10, <2>1 DEF PauseAsync, ShouldPause, Played
    <2>3. /\ thread'[s] = "idle" /\ thread' \in [Sources -> ThreadPlaces]
          /\ m_state'[s] = "AWAITING_PAUSED" /\ m_state' \in [Sources -> SinkStates]
          /\ m_isStateCommitNeeded' \in [Sources -> BOOLEAN]
          /\ \A r \in Sources : r # s =>
                /\ thread'[r] = thread[r] /\ m_state'[r] = m_state[r]
                /\ m_isStateCommitNeeded'[r] = m_isStateCommitNeeded[r]
        BY <1>1, <1>10 DEF PauseAsync, PostAsyncStart, SinkTypes, ClientTypes, ThreadPlaces, SinkStates
    <2>4. SinkTypes' /\ ClientTypes'
        BY <1>1, <1>2, <2>2, <2>3 DEF SinkTypes, ClientTypes, SinkStates, bounds, pipeline
    <2>5. ~Startup' /\ Starting' /\ Started' /\ First'
        BY <1>1, <1>2, <2>1, <2>2, <2>3 DEF IInv, Starting, Started, First, Startup, bounds
    <2>6. Pausing'
        BY <1>1, <1>2, <1>3, <2>3 DEF Pausing, NotHandling, pipeline
    <2>7. ASSUME NEW r \in Sources PROVE Calling(r)' /\ Shape(r)' /\ StartingSink(r)' /\ Rising(r)'
        <3>1. Calling(r)'
            BY <1>1, <1>2, <1>3, <1>4, <2>3 DEF OfSink, Calling, CallTypes, CapsTypes, pipeline
        <3>2. Shape(r)' /\ StartingSink(r)' /\ Rising(r)'
            BY <1>1, <2>1, <2>5 DEF OfSink, Shape, StartingSink, Rising, bounds, pipeline
        <3> QED BY <3>1, <3>2
    <2>8. ASSUME NEW r \in Sources PROVE Unflushed(r)'
        <3>1. ToBePaused(r)
            BY <1>1, <1>3, <2>1 DEF OfSink, Unflushed, ToBePaused, NotPaused, Shape, Calling, Played
        <3>2. ToBePaused(r)'
            BY <1>1, <1>3, <2>3, <3>1 DEF ToBePaused, NotPaused
        <3> QED BY <1>1, <1>2, <1>3, <1>6, <2>1, <2>2, <2>3, <3>2
                DEF OfSink, Unflushed, NotPaused, NotHandling, Played, bounds, pipeline
    <2>9. CASE m_clientState = "AWAITING_PAUSED" /\ NoCommand
        <3>1. ServerTypes'
            BY <1>1, <2>9 DEF ServerTypes, NoCommand, server
        <3>2. Agreeing' /\ Answered'
            BY <1>1, <1>2, <1>5, <2>2, <2>9, TalkSame DEF NoCommand
        <3> QED BY <1>6, <2>4, <2>5, <2>6, <2>7, <2>8, <3>1, <3>2 DEF IInv, OfSink
    <2>10. CASE m_clientState \in Played /\ Command("PAUSED")
        <3>1. /\ owed' \in Seq(Moves) /\ owed' # <<>> /\ owed'[Len(owed')] = "PAUSED"
              /\ serverTarget' = "PAUSED" /\ serverState' = serverState
              /\ \A y, z : (Owed(y) => OwedClear(y, z) /\ z # "PAUSED") => OwedClear(y, z)'
            BY <1>1, <2>10, Commanded DEF Moves
        <3>2. ServerTypes'
            BY <1>1, <3>1 DEF ServerTypes, Moves
        <3>3. Agreeing'
            BY <2>2, <3>1 DEF Agreeing
        <3>4. ~Said("PAUSED") /\ (owed # <<>> => Len(owed) = 1 /\ serverTarget = "PLAYING")
            BY <2>1, <2>10 DEF IInv, Answered, Agreeing, Played
        <3>5. ~Owed("PAUSED")
            BY <1>1, <3>4, NothingOwed, OwesLast DEF IInv, Agreeing
        <3>6. OwedClear("PAUSED", "PAUSED")' /\ OwedClear("PAUSED", "PLAYING")'
            BY <3>1, <3>5
        <3>7. Answered'
            BY <1>1, <1>2, <1>5, <2>2, <3>4, <3>6 DEF Answered, NotHandling, Moves, Said
        <3> QED BY <1>6, <2>4, <2>5, <2>6, <2>7, <2>8, <3>2, <3>3, <3>7 DEF IInv, OfSink
    <2> QED BY <2>2, <2>9, <2>10
<1> QED BY <1>7, <1>9, <1>10 DEF Pause

\* pause() after CAPS, for the first PAUSED.
LEMMA CapsPauseCalled ==
    ASSUME IInv, NEW s \in Sources, CapsPause(s), Asked("capsPause", s)
    PROVE  /\ Startup /\ OfSink(s) /\ caps[s] = "pausing" /\ m_state[s] = "READY"
           /\ Clear("capsPause", s, "capsPause", s) /\ ~Asked("attach", s)
           /\ step = "PAUSED" /\ PauseAsync(s)
<1>1. /\ OfSink(s) /\ caps[s] = "pausing" /\ Clear("capsPause", s, "capsPause", s) /\ ~Asked("attach", s)
    BY DEF IInv, OfSink, Calling, CapsTypes
<1>2. Startup
    BY <1>1 DEF IInv, Started
<1>3. m_state[s] = "READY" /\ step = "PAUSED" /\ m_serverPlaybackState = "IDLE"
    BY <1>1, <1>2 DEF IInv, Starting, OfSink, StartingSink
<1>4. PauseAsync(s)
    BY <1>3 DEF CapsPause, PauseSync, AlreadyPaused
<1> QED BY <1>1, <1>2, <1>3, <1>4

LEMMA CapsPauseStep ==
    ASSUME IInv, NEW s \in Sources, CapsPause(s)
    PROVE  IInv'
<1>1. /\ SinkTypes /\ ClientTypes /\ ServerTypes /\ Telling /\ backendQueue \in Seq(Message)
      /\ \A r \in Sources : OfSink(r)
      /\ Handles("capsPause", s) /\ backendQueue' = Tail(backendQueue)
      /\ caps' = [caps EXCEPT ![s] = "done"]
      /\ UNCHANGED <<pipeline, gst, goal, thread, m_attachedSources, m_serverPlaybackState,
                     m_wasAllSourcesAttachedSent, streams, handling, bounds>>
    BY DEF IInv, ClientTypes, CapsPause, Done
<1>2. /\ backendQueue' \in Seq(Message) /\ Asked("capsPause", s) /\ handling = NotHandling
      /\ \A u, y : Asked(u, y) <=> Asked(u, y)' \/ (u = "capsPause" /\ y = s)
      /\ \A u, y, v, z : Clear(u, y, v, z) => Clear(u, y, v, z)'
      /\ \A u, y : Clear("capsPause", s, u, y) => ~Asked(u, y)'
      /\ \A u, y, v, z : ~Asked(u, y)' => Clear(u, y, v, z)'
    BY <1>1, Taken
<1>3. /\ Startup /\ OfSink(s) /\ caps[s] = "pausing" /\ m_state[s] = "READY"
      /\ Clear("capsPause", s, "capsPause", s) /\ ~Asked("attach", s)
      /\ step = "PAUSED" /\ PauseAsync(s)
    BY <1>2, CapsPauseCalled
<1>4. /\ caps'[s] = "done" /\ caps' \in [Sources -> {"none", "attaching", "attached", "pausing", "done"}]
      /\ m_state'[s] = "AWAITING_PAUSED" /\ m_state' \in [Sources -> SinkStates]
      /\ m_isStateCommitNeeded' \in [Sources -> BOOLEAN]
      /\ \A r \in Sources : r # s =>
            /\ caps'[r] = caps[r] /\ m_state'[r] = m_state[r]
            /\ m_isStateCommitNeeded'[r] = m_isStateCommitNeeded[r]
    BY <1>1, <1>3 DEF PauseAsync, PostAsyncStart, SinkTypes, ClientTypes, SinkStates
<1>5. SinkTypes'
    BY <1>1, <1>4 DEF SinkTypes, pipeline
<1>6. \A r \in Sources : m_state'[r] = "AWAITING_PAUSED" <=> caps'[r] = "done"
    BY <1>1, <1>3, <1>4 DEF OfSink, StartingSink
<1>7. \A t \in CapsTypes : ~Asked(t, s)'
    BY <1>2, <1>3 DEF CapsTypes
\* All of them wait for PAUSED now.
<1>8. CASE ShouldPause(m_state') /\ Command("PAUSED") /\ m_clientState' = "AWAITING_PAUSED"
    <2>1. /\ m_clientState = "READY" /\ m_attachedSources = Sources /\ m_wasAllSourcesAttachedSent = TRUE
          /\ \A r \in Sources : m_state'[r] = "AWAITING_PAUSED"
        BY <1>3, <1>8
           DEF ShouldPause, CheckIfAllAttachedSourcesInStates, Startup, IInv, Starting, Started, ClientTypes
    <2>2. \A r \in Sources : caps'[r] = "done" /\ caps[r] # "none"
        BY <1>3, <1>4, <1>6, <2>1
    <2>3. \A r \in Sources : \A t \in CapsTypes : ~Asked(t, r)'
        BY <1>1, <1>2, <1>4, <1>7, <2>2 DEF OfSink, Calling, CapsTypes
    <2>4. \A u, y : Asked(u, y)' => Asked(u, y)
        BY <1>2
    <2> QED BY <1>1, <1>2, <1>3, <1>4, <1>5, <1>8, <2>1, <2>2, <2>3, <2>4, FirstCommand DEF pipeline
\* The others, or a source, are still missing.
<1>9. CASE ~ShouldPause(m_state') /\ NoCommand /\ UNCHANGED m_clientState
    <2>1. m_clientState = "READY" => \E r \in Sources : caps'[r] # "done"
        BY <1>6, <1>9 DEF IInv, Starting, ShouldPause, CheckIfAllAttachedSourcesInStates
    <2>2. \A x : Said(x)' <=> Said(x)
        BY <1>2 DEF Said
    <2>3. Startup'
        BY <1>3, <1>9 DEF Startup
    <2>4. ClientTypes' /\ ServerTypes' /\ Telling'
        BY <1>1, <1>2, <1>4, <1>9 DEF ClientTypes, ServerTypes, Telling, NoCommand, server, bounds
    <2>5. Agreeing' /\ Alone' /\ Answered'
        BY <1>1, <1>2, <1>9, <2>2, TalkSame DEF NoCommand
    <2>6. Starting' /\ Started'
        BY <1>1, <1>2, <1>9, <2>1, <2>2, <2>3
           DEF IInv, Starting, Started, Startup, NoCommand, server, pipeline
    <2>7. Pausing' /\ First'
        BY <1>1, <1>2, <1>3, <2>3 DEF Pausing, First, Startup, NotHandling, pipeline
    <2>8. ASSUME NEW r \in Sources PROVE OfSink(r)'
        <3>1. Calling(r)'
            BY <1>1, <1>2, <1>3, <1>4, <1>7 DEF OfSink, Calling, CallTypes, CapsTypes, pipeline
        <3>2. Shape(r)' /\ Rising(r)'
            BY <1>1, <2>3 DEF OfSink, Shape, Rising, pipeline
        <3>3. StartingSink(r)'
            BY <1>1, <1>2, <1>3, <1>4 DEF OfSink, StartingSink
        <3>4. Unflushed(r)'
            BY <1>1, <1>2, <1>3, <1>9, <2>3
               DEF OfSink, Unflushed, NotPaused, ReadOf, Startup, Played, NotHandling, bounds, pipeline
        <3> QED BY <3>1, <3>2, <3>3, <3>4 DEF OfSink
    <2> QED BY <1>5, <2>4, <2>5, <2>6, <2>7, <2>8 DEF IInv
<1> QED BY <1>3, <1>8, <1>9 DEF PauseAsync

-----------------------------------------------------------------------------
(***************************************************************************)
(* The invariants.                                                         *)
(***************************************************************************)
LEMMA InitStep == Init => IInv
<1> SUFFICES ASSUME Init PROVE IInv
    OBVIOUS
<1>1. (\A t, x : ~Asked(t, x)) /\ (\A t, x, u, y : Clear(t, x, u, y))
    BY DEF Init, Asked, Clear, In, NoneAfter
<1>2. SinkTypes /\ ClientTypes /\ ServerTypes /\ Telling
    <2>1. gst \in [Sources -> GstState]
        BY DEF Init, GstState, Moves
    <2>2. SinkTypes
        BY <2>1 DEF Init, SinkTypes, ThreadPlaces, Moves
    <2>3. <<>> \in Seq(Message) /\ <<>> \in Seq(Moves)
        OBVIOUS
    <2>4. ClientTypes /\ ServerTypes /\ Telling
        BY <2>3 DEF Init, ClientTypes, ServerTypes, Telling, SinkStates
    <2> QED BY <2>2, <2>4
<1>3. Startup
    BY DEF Init, Startup
<1>4. Starting /\ Started
    BY <1>1, <1>3, ClientAssumption DEF Init, Starting, Started, Startup, Said
<1>5. Agreeing /\ Alone /\ Answered
    BY <1>1 DEF Init, Agreeing, Alone, Answered, Awaiting, Said, NotHandling, Moves
<1>6. Pausing /\ First
    BY <1>3 DEF Init, Pausing, First, NotHandling
<1>7. ASSUME NEW s \in Sources PROVE OfSink(s)
    <2>1. Calling(s)
        BY <1>1 DEF Init, Calling
    <2>2. Shape(s) /\ StartingSink(s) /\ Rising(s)
        BY <1>1, <1>3 DEF Init, Shape, StartingSink, Rising
    <2>3. Unflushed(s)
        BY <1>3 DEF Init, Unflushed, ReadOf, NotHandling, Played
    <2> QED BY <2>1, <2>2, <2>3 DEF OfSink
<1> QED BY <1>2, <1>4, <1>5, <1>6, <1>7 DEF IInv

LEMMA StutterStep == ASSUME IInv, UNCHANGED vars PROVE IInv'
<1>1. UNCHANGED <<target, step, collection, gst, goal, thread, caps, m_isStateCommitNeeded, m_attachedSources,
                  m_state, m_clientState, m_serverPlaybackState, m_wasAllSourcesAttachedSent, streams,
                  backendQueue, handling, server, bounds>>
    BY DEF vars, sinks, pipeline, client
<1>2. /\ \A u, y : Asked(u, y)' <=> Asked(u, y)
      /\ \A u, y, v, z : Clear(u, y, v, z)' <=> Clear(u, y, v, z)
      /\ \A x : Owed(x)' <=> Owed(x)
    BY <1>1, QueueSame, OwedSame DEF server
<1>3. Agreeing' /\ Alone' /\ Answered' /\ \A r \in Sources : PausedToCome(r)' <=> PausedToCome(r)
    BY <1>1, <1>2, TalkSame DEF Said
<1>4. SinkTypes' /\ ClientTypes' /\ ServerTypes' /\ Telling'
    BY <1>1 DEF IInv, SinkTypes, ClientTypes, ServerTypes, Telling, server, bounds
<1>5. Starting' /\ Started'
    BY <1>1, <1>2 DEF IInv, Starting, Started, Startup, Said, server
<1>6. Pausing'
    BY <1>1 DEF IInv, Pausing, ReadOf, bounds
<1>7. First'
    BY <1>1, <1>2, <1>3 DEF IInv, First, ToPlay, Startup, Said, server, bounds
<1>8. ASSUME NEW r \in Sources PROVE OfSink(r)'
    BY <1>1, <1>2, <1>3, SinkSame DEF IInv, server, bounds
<1> QED BY <1>3, <1>4, <1>5, <1>6, <1>7, <1>8 DEF IInv

LEMMA NextStep ==
    ASSUME "mixedFlush" \notin May, IInv, Next
    PROVE  IInv'
<1>1. CASE SetTarget \/ BinStep \/ StreamCollection
    BY <1>1, SetTargetStep, BinStepStep, StreamCollectionStep
<1>2. ASSUME NEW s \in Sources, SinkStep(s) PROVE IInv'
    <2>1. CASE SetState(s)
        <3>1. CASE step = IF gst[s].pending # Void THEN gst[s].next ELSE gst[s].current
            BY <2>1, <3>1, SetStateThere
        <3>2. CASE step # IF gst[s].pending # Void THEN gst[s].next ELSE gst[s].current
            BY <2>1, <3>2, SetStateStarts
        <3> QED BY <3>1, <3>2
    <2> QED BY <1>2, <2>1, SetStateBusyStep, CommitSyncStep, CallStep, AsyncStartStep DEF SinkStep
<1>3. ASSUME NEW s \in Sources, CapsEvent(s) \/ FlushCall(s) PROVE IInv'
    BY <1>3, CapsEventStep, FlushCallStep
<1>4. ASSUME LoopStep PROVE IInv'
    <2>1. ASSUME NEW s \in Sources,
                 \/ HandleStreamCollection(s) \/ AttachSource(s) \/ Pause(s) \/ CapsPause(s)
                 \/ Play(s) \/ Flush(s) \/ ReadStates(s) \/ HandleStateChanged(s)
          PROVE  IInv'
        BY <2>1, HandleStreamCollectionStep, AttachSourceStep, PauseStep, CapsPauseStep, PlayStep, FlushStep,
           ReadStatesStep, HandleStateChangedStep
    <2>2. ASSUME NEW state \in Moves, HandlePlaybackState(state) PROVE IInv'
        BY <2>2, HandlePlaybackStateStep
    <2> QED BY <1>4, <2>1, <2>2, HandleCollectionEventStep, HandleEosStep DEF LoopStep, Moves
<1>5. CASE Announce \/ AnnounceEos
    BY <1>5, AnnounceStep, AnnounceEosStep
<1> QED BY <1>1, <1>2, <1>3, <1>4, <1>5 DEF Next

LEMMA Invariance ==
    ASSUME "mixedFlush" \notin May PROVE Spec => []IInv
<1>1. IInv /\ [Next]_vars => IInv'
    BY NextStep, StutterStep
<1> QED BY <1>1, InitStep, PTL DEF Spec

\* Everything the server said was handled.
LEMMA HeardMeans ==
    ASSUME IInv, Heard
    PROVE  /\ \A x : ~Said(x) /\ ~Owed(x)
           /\ handling = NotHandling /\ owed = <<>> /\ serverState = serverTarget
           /\ \A s \in Sources : ~PausedToCome(s)
           /\ m_clientState \notin Awaiting
<1>1. handling = NotHandling /\ owed = <<>> /\ StateMessages = {}
    BY DEF Heard
<1>2. \A x : ~Owed(x)
    BY <1>1, NothingOwed
<1>3. ASSUME NEW x PROVE ~Said(x)
    BY <1>1 DEF StateMessages, Said, Asked, In, Msg
<1>4. \A s \in Sources : ~PausedToCome(s)
    BY <1>1, <1>2, <1>3 DEF PausedToCome, NotHandling
<1> QED BY <1>1, <1>2, <1>3, <1>4 DEF IInv, Agreeing

\* Unless flushes mix with state changes or ends of stream: when the server has
\* nothing more to say and the loop has handled all of it, the client's state
\* is the server's and none that it still waits for.  play() and pause() send a
\* command for each state they go to and the server announces the last one, so
\* handlePlaybackStateChange() may leave out the outdated ones.
THEOREM AgreesWithServer ==
    ASSUME "mixedFlush" \notin May PROVE Spec => []ClientAgreesWithServer
<1>1. IInv => ClientAgreesWithServer
    BY HeardMeans DEF ClientAgreesWithServer, IInv, Agreeing
<1> QED BY <1>1, Invariance, PTL

\* Nothing is left to do: the startup is over.
LEMMA QuietIsStarted ==
    ASSUME IInv, Quiet PROVE ~Startup
<1>1. /\ Heard /\ backendQueue = <<>> /\ streams = Kinds /\ collection # "counted"
      /\ \A s \in Sources : caps[s] = "done" /\ OfSink(s)
    BY DEF Quiet, IInv
<1>2. \A t, x : ~Asked(t, x)
    BY <1>1 DEF Asked, In
<1>3. m_attachedSources = Sources
    BY <1>1 DEF IInv, ClientTypes, OfSink, Calling
<1> QED BY <1>1, <1>2, <1>3 DEF IInv, Starting, Startup

\* Unless flushes mix with state changes or ends of stream: when nothing is
\* left to do the server is in the state the pipeline was set to.  The sinks
\* call play() and pause() one after the other and only the last of them sends
\* the command, so this says that the last one always comes: in pause() as soon
\* as the client has left PAUSED, in play() or in handleStateChanged() when the
\* others wait already.
THEOREM ReachesTarget ==
    ASSUME "mixedFlush" \notin May PROVE Spec => []ServerReachesTarget
<1>1. ASSUME IInv, Quiet PROVE serverState = target
    <2>1. /\ Heard /\ step = target /\ handling = NotHandling /\ serverState = serverTarget
          /\ m_clientState \notin Awaiting /\ ~Startup
          /\ \A s \in Sources : ~PausedToCome(s)
        BY <1>1, HeardMeans, QuietIsStarted DEF Quiet
    <2>2. ASSUME NEW s \in Sources
          PROVE  /\ OfSink(s) /\ thread[s] = "idle" /\ goal[s] = step
                 /\ gst[s].pending # Void \/ gst[s].current = step
        BY <1>1 DEF Quiet, IInv
    <2>3. m_clientState \in Moves /\ serverTarget = m_clientState
        BY <1>1, <2>1 DEF IInv, ClientTypes, SinkStates, Startup, Awaiting, Agreeing, Moves
    <2>4. CASE flushes = 0
        <3>1. CASE step = "PAUSED"
            <4>1. PICK s \in Sources : TRUE
                BY ClientAssumption
            <4>2. m_clientState \notin Played
                BY <2>2, <2>4, <3>1 DEF OfSink, Unflushed
            <4> QED BY <2>1, <2>3, <3>1, <4>2 DEF Moves, Played
        <3>2. CASE step = "PLAYING"
            <4>1. \A s \in Sources : m_state[s] \in Played
                BY <2>1, <2>2, <2>4, <3>2 DEF OfSink, Unflushed
            <4>2. m_clientState # "PAUSED"
                BY <1>1, <2>4, <3>2, <4>1 DEF IInv, Pausing
            <4> QED BY <2>1, <2>3, <3>2, <4>2 DEF Moves
        <3> QED BY <1>1, <3>1, <3>2 DEF IInv, SinkTypes, Moves
    <2>5. CASE flushes # 0
        <3>1. targets = 0
            BY <1>1, <2>5 DEF IInv, Alone
        <3>2. step = "PAUSED" => serverTarget = "PAUSED"
            BY <1>1, <2>1, <3>1 DEF IInv, First
        <3>3. ASSUME step = "PLAYING", serverTarget = "PAUSED" PROVE FALSE
            <4>1. PICK s \in Sources : ToPlay(s)
                BY <1>1, <2>1, <3>1, <3>3 DEF IInv, First
            <4>2. gst[s].pending # Void /\ gst[s].next # "PAUSED"
                BY <2>1, <2>2, <3>1, <3>3 DEF OfSink, Rising
            <4> QED BY <2>1, <2>2, <3>3, <4>1, <4>2 DEF ToPlay
        <3> QED BY <1>1, <2>1, <2>3, <3>2, <3>3 DEF IInv, SinkTypes, Moves
    <2> QED BY <2>4, <2>5
<1>2. IInv => ServerReachesTarget
    BY <1>1 DEF ServerReachesTarget
<1> QED BY <1>2, Invariance, PTL
=============================================================================

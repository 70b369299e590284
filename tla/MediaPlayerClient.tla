-------------------------- MODULE MediaPlayerClient --------------------------
(***************************************************************************)
(* The playback state of a client and of its sinks:                        *)
(* GStreamerMSEMediaPlayerClient (play, pause, flush, attachSource,        *)
(* allSourcesAttached, the server's playback states) and the state changes *)
(* of PullModePlaybackDelegate.                                            *)
(*                                                                         *)
(* GStreamer keeps three states of a sink, the current one, the next one   *)
(* and the one that is pending in the end.  A state change is started by   *)
(* the thread that calls gst_element_set_state and, when the client        *)
(* answers SUCCESS_ASYNC, finished by the event loop, which writes the     *)
(* three fields itself and takes no lock for it.                           *)
(*                                                                         *)
(* External: gst_element_set_state, gst_element_continue_state and         *)
(* gst_element_lost_state, the bin that moves its sinks to the pipeline's  *)
(* state, and the server, which announces the states it reaches.           *)
(***************************************************************************)
EXTENDS Naturals, Sequences, FiniteSets

CONSTANTS Sources,       \* the sinks; each has one stream
          MaxTargets,    \* bound on state changes of the pipeline
          MaxFlushes,    \* bound on flushes
          MaxEos,        \* bound on END_OF_STREAM announcements
          May            \* what the surroundings may do, of Whims

Whims == {"syncPlay",       \* the server plays at once
          "collection",     \* a kind of stream is missing, which an event tells (playbin3)
          "raceCommit",     \* set_state between the loop's reads and its writes
          "mixedFlush"}     \* flushes next to state changes or END_OF_STREAM

ASSUME ClientAssumption ==
    /\ MaxTargets \in Nat /\ MaxFlushes \in Nat /\ MaxEos \in Nat
    /\ IsFiniteSet(Sources) /\ Sources # {} /\ May \subseteq Whims

VARIABLES
    \* the pipeline and its sinks
    target,         \* the state the pipeline was set to
    step,           \* the state the bin is moving its sinks to
    gst,            \* current, next and pending state of every sink
    goal,           \* the step every sink was last moved to
    thread,         \* where the thread that changes a sink's state is
    caps,           \* where the CAPS event of a sink is
    collection,     \* where the STREAM_COLLECTION event is
    m_isStateCommitNeeded,
    \* the client
    m_attachedSources, m_state, m_clientState, m_serverPlaybackState,
    m_wasAllSourcesAttachedSent, wasPlayingBeforeEos,
    streams,        \* kinds of streams whose number is known
    backendQueue,
    handling,       \* the announcement the loop is telling the delegates
    \* the server
    owed,           \* states it is going to announce
    serverState, serverTarget,
    \* bounds
    targets, flushes, ends

pipeline == <<target, step, collection>>
sinks == <<pipeline, gst, goal, thread, caps, m_isStateCommitNeeded>>
client == <<m_attachedSources, m_state, m_clientState, m_serverPlaybackState,
            m_wasAllSourcesAttachedSent, wasPlayingBeforeEos, streams>>
server == <<owed, serverState, serverTarget>>
bounds == <<targets, flushes, ends>>
vars == <<sinks, client, backendQueue, handling, server, bounds>>

Order == [READY |-> 1, PAUSED |-> 2, PLAYING |-> 3]
Void == "VOID_PENDING"
Awaiting == {"AWAITING_PAUSED", "AWAITING_PLAYING"}

NotHandling == [state |-> "none", todo |-> {}, reader |-> {}, read |-> {}]

Init ==
    /\ target \in {"PAUSED", "PLAYING"} /\ step = "PAUSED"
    /\ gst = [s \in Sources |-> [current |-> "READY", next |-> Void, pending |-> Void]]
    /\ goal = [s \in Sources |-> "READY"]
    /\ thread = [s \in Sources |-> "idle"]
    /\ caps = [s \in Sources |-> "none"]
    /\ collection = "none"
    /\ m_isStateCommitNeeded = [s \in Sources |-> FALSE]
    /\ m_attachedSources = {} /\ m_state = [s \in Sources |-> "READY"]
    /\ m_clientState = "IDLE" /\ m_serverPlaybackState = "IDLE"
    /\ m_wasAllSourcesAttachedSent = FALSE /\ wasPlayingBeforeEos = FALSE
    /\ streams = {}
    /\ backendQueue = <<>> /\ handling = NotHandling
    /\ owed = <<>> /\ serverState = "IDLE" /\ serverTarget = "IDLE"
    /\ targets = 0 /\ flushes = 0 /\ ends = 0

\* m_audioStreams, m_videoStreams and m_subtitleStreams: one kind for every
\* source and, if a kind has no stream, one more.
Kinds == Sources \cup IF "collection" \in May THEN {"absent"} ELSE {}

Msg(type, x) == [type |-> type, arg |-> x]

PostMessage(m) == backendQueue' = Append(backendQueue, m)

(***************************************************************************)
(* GStreamer                                                               *)
(***************************************************************************)
\* The state lock is free: every sink was told of the last step.
LockFree == \A s \in Sources : goal[s] = step /\ thread[s] = "idle"

\* The pipeline is told to go to another state.
SetTarget ==
    /\ LockFree /\ targets < MaxTargets /\ targets' = targets + 1
    /\ flushes = 0 \/ "mixedFlush" \in May
    /\ target' \in {"PAUSED", "PLAYING"} \ {target}
    /\ UNCHANGED <<step, collection, gst, goal, thread, caps, m_isStateCommitNeeded, client,
                   backendQueue, handling, server, flushes, ends>>

\* The bin moves its sinks state by state: down at once, up when all of
\* them have arrived.
BinStep ==
    /\ LockFree /\ step # target /\ step' = target
    /\ step = "PLAYING" \/ \A s \in Sources : gst[s].pending = Void /\ gst[s].current = step
    /\ UNCHANGED <<target, collection, gst, goal, thread, caps, m_isStateCommitNeeded, client,
                   backendQueue, handling, server, bounds>>

\* One sink after the other; one that lost its state is moved again when it
\* has reached PAUSED.
BinMoves(s) ==
    /\ \A r \in Sources : thread[r] = "idle"
    /\ goal[s] # step \/ (gst[s].pending = Void /\ gst[s].current # step)
    /\ handling.reader = {s} => "raceCommit" \in May
    /\ goal' = [goal EXCEPT ![s] = step]

\* gst_element_set_state(): a change that is under way just goes further.
Busy(s) == /\ gst[s].pending # Void
           /\ Order[gst[s].pending] <= Order[step] \/ gst[s].next = step

SetStateBusy(s) ==
    /\ BinMoves(s) /\ Busy(s)
    /\ gst' = [gst EXCEPT ![s].pending = step]
    /\ UNCHANGED <<pipeline, thread, caps, m_isStateCommitNeeded, client, backendQueue,
                   handling, server, bounds>>

\* Otherwise the change starts; going down again it starts from the state
\* the sink was on its way to.
SetState(s) ==
    LET from == IF gst[s].pending # Void THEN gst[s].next ELSE gst[s].current IN
    /\ BinMoves(s) /\ ~Busy(s)
    /\ \/ /\ from = step
          /\ gst' = [gst EXCEPT ![s].next = Void, ![s].pending = Void]
          /\ UNCHANGED thread
       \/ /\ from # step
          /\ gst' = [gst EXCEPT ![s].next = step, ![s].pending = step]
          /\ thread' = [thread EXCEPT ![s] = CASE from = "READY" -> "count"
                                              [] step = "PLAYING" -> "play"
                                              [] OTHER -> "pause"]
    /\ UNCHANGED <<pipeline, caps, m_isStateCommitNeeded, client, backendQueue, handling,
                   server, bounds>>

\* gst_element_continue_state() after SUCCESS_SYNC.
CommitSync(s) ==
    /\ thread[s] = "commit"
    /\ handling.reader = {s} => "raceCommit" \in May
    /\ thread' = [thread EXCEPT ![s] = "idle"]
    /\ gst' = IF gst[s].pending = Void THEN gst
              ELSE [gst EXCEPT ![s] = [current |-> gst[s].next, next |-> Void, pending |-> Void]]
    /\ UNCHANGED <<pipeline, goal, caps, m_isStateCommitNeeded, client, backendQueue, handling,
                   server, bounds>>

\* Mutant: lostState() does not ask for a commit.
LostStateUncommitted(s) ==
    /\ UNCHANGED m_isStateCommitNeeded
    /\ gst' = IF gst[s].pending # Void THEN gst
              ELSE [gst EXCEPT ![s] = [current |-> "PAUSED", next |-> "PAUSED", pending |-> "PAUSED"]]

\* gst_element_lost_state(): the sink has to reach PAUSED again, unless it
\* is changing its state anyway.
LostState(s) ==
    /\ m_isStateCommitNeeded' = [m_isStateCommitNeeded EXCEPT ![s] = TRUE]
    /\ gst' = IF gst[s].pending # Void THEN gst
              ELSE [gst EXCEPT ![s] = [current |-> "PAUSED", next |-> "PAUSED", pending |-> "PAUSED"]]

(***************************************************************************)
(* The threads outside the loop                                            *)
(***************************************************************************)
\* changeState() calls the client and waits: handleStreamCollection (on the
\* way to PAUSED for the first time), pause or play.
Call(s) ==
    /\ thread[s] \in {"count", "pause", "play"}
    /\ PostMessage(Msg(thread[s], s))
    /\ thread' = [thread EXCEPT ![s] = "waiting"]
    /\ UNCHANGED <<pipeline, gst, goal, caps, m_isStateCommitNeeded, client, handling, server,
                   bounds>>

\* READY -> PAUSED without a source: postAsyncStart() in this thread.
AsyncStart(s) ==
    /\ thread[s] = "asyncStart"
    /\ m_isStateCommitNeeded' = [m_isStateCommitNeeded EXCEPT ![s] = TRUE]
    /\ thread' = [thread EXCEPT ![s] = "idle"]
    /\ UNCHANGED <<pipeline, gst, goal, caps, client, backendQueue, handling, server, bounds>>

\* GST_EVENT_CAPS, once the pad is active: attachSource, and afterwards a
\* pause when the sink is still to reach PAUSED.
CapsEvent(s) ==
    /\ \/ /\ caps[s] = "none" /\ thread[s] = "idle" /\ gst[s].next = "PAUSED"
          /\ PostMessage(Msg("attach", s))
          /\ caps' = [caps EXCEPT ![s] = "attaching"]
       \/ /\ caps[s] = "attached" /\ gst[s].next = "PAUSED"
          /\ PostMessage(Msg("capsPause", s))
          /\ caps' = [caps EXCEPT ![s] = "pausing"]
       \/ /\ caps[s] = "attached" /\ gst[s].next # "PAUSED"
          /\ caps' = [caps EXCEPT ![s] = "done"]
          /\ UNCHANGED backendQueue
    /\ UNCHANGED <<pipeline, gst, goal, thread, m_isStateCommitNeeded, client, handling, server,
                   bounds>>

\* GST_EVENT_STREAM_COLLECTION, once: two calls into the loop.
StreamCollection ==
    /\ "collection" \in May
    /\ \/ /\ collection = "none" /\ \E s \in Sources : gst[s].next = "PAUSED" /\ thread[s] = "idle"
          /\ PostMessage(Msg("collection", "none")) /\ collection' = "counting"
       \/ /\ collection = "counted"
          /\ PostMessage(Msg("sendAll", "none")) /\ collection' = "sending"
    /\ UNCHANGED <<target, step, gst, goal, thread, caps, m_isStateCommitNeeded, client,
                   handling, server, bounds>>

\* FLUSH_STOP ends with a flush in the loop.
FlushCall(s) ==
    /\ caps[s] = "done" /\ gst[s].current # "READY"
    /\ flushes < MaxFlushes /\ flushes' = flushes + 1
    /\ targets + ends = 0 \/ "mixedFlush" \in May
    /\ PostMessage(Msg("flush", s))
    /\ UNCHANGED <<sinks, client, handling, server, targets, ends>>

(***************************************************************************)
(* The event loop                                                          *)
(***************************************************************************)
Handles(type, s) ==
    /\ handling = NotHandling /\ backendQueue # <<>>
    /\ Head(backendQueue) = Msg(type, s)

Done == backendQueue' = Tail(backendQueue)

CheckIfAllAttachedSourcesInStates(states, m) == \A s \in m_attachedSources : m[s] \in states

\* The commands to the server; it will announce what they lead to.
Owes(announcements) == owed' = owed \o announcements

Command(state) ==
    /\ Owes(<<state>>)
    /\ serverTarget' = state
    /\ UNCHANGED serverState

NoCommand == UNCHANGED server

PostAsyncStart(s) == m_isStateCommitNeeded' = [m_isStateCommitNeeded EXCEPT ![s] = TRUE]

\* handleStreamCollection() for a sink on its way to PAUSED: the default
\* tells the number of its own streams, a context or playbin that of all.
HandleStreamCollection(s) ==
    /\ Handles("count", s) /\ Done
    /\ streams' \in {streams \cup {s}, Kinds}
    /\ thread' = [thread EXCEPT ![s] = "pause"]
    /\ UNCHANGED <<pipeline, gst, goal, caps, m_isStateCommitNeeded, m_attachedSources, m_state,
                   m_clientState, m_serverPlaybackState, m_wasAllSourcesAttachedSent,
                   wasPlayingBeforeEos, handling, server, bounds>>

AreAllStreamsAttached(attached, known) == attached = Sources /\ known = Kinds

\* sendAllSourcesAttachedIfPossibleInternal()
SendAllSourcesAttached(attached, known) ==
    \/ /\ m_wasAllSourcesAttachedSent \/ ~AreAllStreamsAttached(attached, known)
       /\ UNCHANGED <<m_wasAllSourcesAttachedSent, m_clientState>> /\ NoCommand
    \/ /\ ~m_wasAllSourcesAttachedSent /\ AreAllStreamsAttached(attached, known)
       /\ m_wasAllSourcesAttachedSent' = TRUE
       /\ \/ /\ \A s \in attached : m_state[s] = "AWAITING_PAUSED"
             /\ Command("PAUSED") /\ m_clientState' = "AWAITING_PAUSED"
          \/ /\ \E s \in attached : m_state[s] # "AWAITING_PAUSED"
             /\ NoCommand /\ m_clientState' = "READY"

\* attachSource(), when the server accepts it.
AttachSource(s) ==
    /\ Handles("attach", s) /\ Done
    /\ m_attachedSources' = m_attachedSources \cup {s}
    /\ SendAllSourcesAttached(m_attachedSources \cup {s}, streams)
    /\ caps' = [caps EXCEPT ![s] = "attached"]
    /\ UNCHANGED <<pipeline, gst, goal, thread, m_isStateCommitNeeded, m_state,
                   m_serverPlaybackState, wasPlayingBeforeEos, streams, handling, bounds>>

\* handleStreamCollection() and sendAllSourcesAttachedIfPossible()
HandleCollectionEvent ==
    \/ /\ Handles("collection", "none") /\ Done
       /\ streams' = Kinds
       /\ collection' = "counted"
       /\ UNCHANGED <<target, step, gst, goal, thread, caps, m_isStateCommitNeeded,
                      m_attachedSources, m_state, m_clientState, m_serverPlaybackState,
                      m_wasAllSourcesAttachedSent, wasPlayingBeforeEos, handling, server, bounds>>
    \/ /\ Handles("sendAll", "none") /\ Done
       /\ SendAllSourcesAttached(m_attachedSources, streams)
       /\ UNCHANGED <<sinks, m_attachedSources, m_state, m_serverPlaybackState,
                      wasPlayingBeforeEos, streams, handling, bounds>>

\* Mutant: pause() looks at the server only.
PausedByServer == m_serverPlaybackState = "PAUSED"

\* pause(): the server is there already.
AlreadyPaused == m_serverPlaybackState = "PAUSED" /\ m_clientState \notin Awaiting

PauseSync(s) ==
    /\ s \in m_attachedSources /\ AlreadyPaused
    /\ m_state' = [m_state EXCEPT ![s] = "PAUSED"]
    /\ m_clientState' = IF CheckIfAllAttachedSourcesInStates({"PAUSED"}, m_state')
                        THEN "PAUSED" ELSE m_clientState
    /\ NoCommand /\ UNCHANGED m_isStateCommitNeeded

ShouldPause(m) ==
    \/ m_clientState = "READY" /\ CheckIfAllAttachedSourcesInStates({"AWAITING_PAUSED"}, m)
    \/ m_clientState \in {"AWAITING_PLAYING", "PLAYING"}

PauseAsync(s) ==
    /\ s \in m_attachedSources /\ ~AlreadyPaused
    /\ m_state' = [m_state EXCEPT ![s] = "AWAITING_PAUSED"]
    /\ PostAsyncStart(s)
    /\ \/ ShouldPause(m_state') /\ Command("PAUSED") /\ m_clientState' = "AWAITING_PAUSED"
       \/ ~ShouldPause(m_state') /\ NoCommand /\ UNCHANGED m_clientState

\* pause() of the thread that changes the state of the sink.
Pause(s) ==
    /\ Handles("pause", s) /\ Done
    /\ \/ PauseSync(s) /\ thread' = [thread EXCEPT ![s] = "commit"]
       \/ PauseAsync(s) /\ thread' = [thread EXCEPT ![s] = "idle"]
       \/ /\ s \notin m_attachedSources
          /\ thread' = [thread EXCEPT ![s] = "asyncStart"]
          /\ NoCommand /\ UNCHANGED <<m_state, m_clientState, m_isStateCommitNeeded>>
    /\ UNCHANGED <<pipeline, gst, goal, caps, m_attachedSources, m_serverPlaybackState,
                   m_wasAllSourcesAttachedSent, wasPlayingBeforeEos, streams, handling, bounds>>

\* pause() after CAPS: nobody looks at the result.
CapsPause(s) ==
    /\ Handles("capsPause", s) /\ Done
    /\ PauseSync(s) \/ PauseAsync(s)
    /\ caps' = [caps EXCEPT ![s] = "done"]
    /\ UNCHANGED <<pipeline, gst, goal, thread, m_attachedSources, m_serverPlaybackState,
                   m_wasAllSourcesAttachedSent, wasPlayingBeforeEos, streams, handling, bounds>>

\* play(): the server is there already.
AlreadyPlaying ==
    \/ m_serverPlaybackState = "PLAYING"
    \/ m_serverPlaybackState = "END_OF_STREAM" /\ wasPlayingBeforeEos

\* What play() does, its queue given the messages q, and its result.
PlayIn(s, q, result) ==
    LET waiting == [m_state EXCEPT ![s] = "AWAITING_PLAYING"] IN
    \/ /\ AlreadyPlaying
       /\ m_state' = [m_state EXCEPT ![s] = "PLAYING"]
       /\ m_clientState' = IF CheckIfAllAttachedSourcesInStates({"PLAYING"}, m_state')
                           THEN "PLAYING" ELSE m_clientState
       /\ result = "SUCCESS_SYNC"
       /\ backendQueue' = q
       /\ NoCommand /\ UNCHANGED m_isStateCommitNeeded
    \/ /\ ~AlreadyPlaying
       /\ m_state' = waiting
       /\ \/ /\ m_clientState = "PAUSED"
             /\ CheckIfAllAttachedSourcesInStates({"AWAITING_PLAYING", "PLAYING"}, waiting)
             /\ m_clientState' = "AWAITING_PLAYING"
             /\ \/ /\ Command("PLAYING") /\ PostAsyncStart(s)
                   /\ result = "SUCCESS_ASYNC" /\ backendQueue' = q
                \/ /\ "syncPlay" \in May /\ owed = <<>>
                   /\ serverState' = "PLAYING" /\ serverTarget' = "PLAYING"
                   /\ result = "SUCCESS_SYNC"
                   /\ backendQueue' = Append(q, Msg("state", "PLAYING"))
                   /\ UNCHANGED <<owed, m_isStateCommitNeeded>>
          \/ /\ \/ m_clientState # "PAUSED"
                \/ ~CheckIfAllAttachedSourcesInStates({"AWAITING_PLAYING", "PLAYING"}, waiting)
             /\ NoCommand /\ UNCHANGED m_clientState
             /\ PostAsyncStart(s) /\ result = "SUCCESS_ASYNC" /\ backendQueue' = q

Play(s) ==
    /\ Handles("play", s)
    /\ \E result \in {"SUCCESS_SYNC", "SUCCESS_ASYNC"} :
        /\ PlayIn(s, Tail(backendQueue), result)
        /\ thread' = [thread EXCEPT ![s] = IF result = "SUCCESS_SYNC" THEN "commit" ELSE "idle"]
    /\ UNCHANGED <<pipeline, gst, goal, caps, m_attachedSources, m_serverPlaybackState,
                   m_wasAllSourcesAttachedSent, wasPlayingBeforeEos, streams, handling, bounds>>

\* flush() in the loop, when the server takes it and loses its state: it
\* reaches PAUSED again and, if it played, PLAYING.
FlushLosesState(s) ==
    /\ LostState(s)
    /\ m_state' = [m_state EXCEPT ![s] = "AWAITING_PAUSED"]
    /\ m_clientState' = CASE m_clientState = "PLAYING" -> "AWAITING_PLAYING"
                          [] m_clientState = "PAUSED" -> "AWAITING_PAUSED"
                          [] OTHER -> m_clientState
    /\ Owes(CASE serverTarget = "PLAYING" -> <<"PAUSED", "PLAYING">>
              [] serverTarget = "PAUSED" -> <<"PAUSED">>
              [] OTHER -> <<>>)
    /\ UNCHANGED <<serverState, serverTarget>>

\* A flush that the server refuses, or does at once, loses no state.
Flush(s) ==
    /\ Handles("flush", s) /\ Done
    /\ wasPlayingBeforeEos' = FALSE
    /\ \/ FlushLosesState(s)
       \/ NoCommand /\ UNCHANGED <<gst, m_isStateCommitNeeded, m_state, m_clientState>>
    /\ UNCHANGED <<pipeline, goal, thread, caps, m_attachedSources, m_serverPlaybackState,
                   m_wasAllSourcesAttachedSent, streams, handling, bounds>>

(***************************************************************************)
(* handlePlaybackStateChange()                                             *)
(***************************************************************************)
\* Mutant: every announcement is outdated while the client waits for PAUSED.
OutdatedWhilePausing(state) == m_clientState = "AWAITING_PAUSED"

Outdated(state) == state = "PLAYING" /\ m_clientState = "AWAITING_PAUSED"

Reached(awaiting, state) == IF awaiting = (IF state = "PAUSED" THEN "AWAITING_PAUSED"
                                           ELSE "AWAITING_PLAYING") THEN state ELSE awaiting

\* The client's own part; the delegates are told one after the other.
HandlePlaybackState(state) ==
    /\ Handles("state", state) /\ state \in {"PAUSED", "PLAYING"} /\ Done
    /\ m_serverPlaybackState' = state
    /\ wasPlayingBeforeEos' = FALSE
    /\ \/ /\ Outdated(state)
          /\ UNCHANGED <<m_clientState, handling>>
       \/ /\ ~Outdated(state)
          /\ m_clientState' = Reached(m_clientState, state)
          /\ handling' = IF m_attachedSources = {} THEN NotHandling
                         ELSE [NotHandling EXCEPT !.state = state, !.todo = m_attachedSources]
    /\ UNCHANGED <<sinks, m_attachedSources, m_state, m_wasAllSourcesAttachedSent, streams, server,
                   bounds>>

HandleEos ==
    /\ Handles("state", "END_OF_STREAM") /\ Done
    /\ m_serverPlaybackState' = "END_OF_STREAM"
    /\ wasPlayingBeforeEos' = (wasPlayingBeforeEos \/ m_serverPlaybackState = "PLAYING")
    /\ UNCHANGED <<sinks, m_attachedSources, m_state, m_clientState,
                   m_wasAllSourcesAttachedSent, streams, handling, server, bounds>>

\* The next source: its state and, in handleStateChanged(), what GStreamer
\* has of it.
ReadStates(s) ==
    /\ s \in handling.todo /\ handling.reader = {}
    /\ m_state' = [m_state EXCEPT ![s] = Reached(m_state[s], handling.state)]
    /\ handling' = [handling EXCEPT !.reader = {s}, !.read = {gst[s]}]
    /\ UNCHANGED <<sinks, m_attachedSources, m_clientState, m_serverPlaybackState,
                   m_wasAllSourcesAttachedSent, wasPlayingBeforeEos, streams, backendQueue,
                   server, bounds>>

Finish(s) == handling' = IF handling.todo = {s} THEN NotHandling
                         ELSE [handling EXCEPT !.todo = @ \ {s}, !.reader = {}, !.read = {}]

\* The state is committed: three writes and async-done.
Committed(read) == [current |-> read.next,
                    next |-> IF read.next = read.pending THEN Void ELSE read.pending,
                    pending |-> Void]

HandleStateChanged(s) ==
    \E read \in handling.read :
    /\ handling.reader = {s}
    /\ Finish(s)
    /\ \/ /\ m_isStateCommitNeeded[s] /\ read.next = handling.state
          /\ gst' = [gst EXCEPT ![s] = Committed(read)]
          /\ m_isStateCommitNeeded' = [m_isStateCommitNeeded EXCEPT ![s] = FALSE]
          /\ UNCHANGED <<m_state, m_clientState, backendQueue, server>>
       \/ /\ m_isStateCommitNeeded[s] /\ handling.state = "PAUSED"
          /\ read.current = "PAUSED" /\ read.next = "PLAYING"
          /\ \E result \in {"SUCCESS_SYNC", "SUCCESS_ASYNC"} : PlayIn(s, backendQueue, result)
          /\ UNCHANGED gst
       \/ /\ \/ ~m_isStateCommitNeeded[s]
             \/ /\ read.next # handling.state
                /\ <<handling.state, read.current, read.next>> # <<"PAUSED", "PAUSED", "PLAYING">>
          /\ UNCHANGED <<gst, m_isStateCommitNeeded, m_state, m_clientState, backendQueue,
                         server>>
    /\ UNCHANGED <<pipeline, goal, thread, caps, m_attachedSources, m_serverPlaybackState,
                   m_wasAllSourcesAttachedSent, wasPlayingBeforeEos, streams, bounds>>

(***************************************************************************)
(* The server announces the states it reaches; one that is left again for  *)
(* PAUSED before it was reached may go unannounced.                        *)
(***************************************************************************)
Announce ==
    /\ owed # <<>> /\ owed' = Tail(owed)
    /\ serverState' = Head(owed)
    /\ \/ PostMessage(Msg("state", Head(owed)))
       \/ Len(owed) > 1 /\ owed[2] = "PAUSED" /\ UNCHANGED backendQueue
    /\ UNCHANGED <<sinks, client, handling, serverTarget, bounds>>

AnnounceEos ==
    /\ ends < MaxEos /\ ends' = ends + 1
    /\ flushes = 0 \/ "mixedFlush" \in May
    /\ owed = <<>> /\ serverState = "PLAYING"
    /\ PostMessage(Msg("state", "END_OF_STREAM"))
    /\ UNCHANGED <<sinks, client, handling, server, targets, flushes>>

LoopStep ==
    \/ HandleCollectionEvent \/ HandleEos
    \/ \E state \in {"PAUSED", "PLAYING"} : HandlePlaybackState(state)
    \/ \E s \in Sources :
        \/ HandleStreamCollection(s) \/ AttachSource(s) \/ Pause(s) \/ CapsPause(s)
        \/ Play(s) \/ Flush(s) \/ ReadStates(s) \/ HandleStateChanged(s)

SinkStep(s) == SetStateBusy(s) \/ SetState(s) \/ CommitSync(s) \/ Call(s) \/ AsyncStart(s)

Next ==
    \/ SetTarget \/ BinStep \/ StreamCollection
    \/ \E s \in Sources : SinkStep(s) \/ CapsEvent(s) \/ FlushCall(s)
    \/ LoopStep \/ Announce \/ AnnounceEos

Fairness ==
    /\ WF_vars(BinStep) /\ WF_vars(LoopStep) /\ WF_vars(Announce) /\ WF_vars(StreamCollection)
    /\ \A s \in Sources : WF_vars(SinkStep(s)) /\ WF_vars(CapsEvent(s))

Spec == Init /\ [][Next]_vars /\ Fairness

-----------------------------------------------------------------------------
(***************************************************************************)
(* Properties                                                              *)
(***************************************************************************)
StateMessages == {i \in 1..Len(backendQueue) : backendQueue[i].type = "state"}

\* The server has nothing more to say, and everything it said was handled.
Heard == owed = <<>> /\ StateMessages = {} /\ handling = NotHandling

\* When everything the server had to say was handled the client waits for
\* no state any more, and the state it has is the server's: no command is
\* outstanding that nobody will answer, whatever play(), pause() and late
\* announcements came between.
ClientAgreesWithServer == Heard =>
    /\ m_clientState \notin Awaiting
    /\ m_clientState \in {"PAUSED", "PLAYING"} => m_clientState = serverState

\* Nothing is going to happen by itself.
Quiet ==
    /\ Heard /\ backendQueue = <<>> /\ step = target /\ streams = Kinds
    /\ collection # "counted"
    /\ \A s \in Sources : /\ thread[s] = "idle" /\ caps[s] = "done"
                          /\ goal[s] = step
                          /\ gst[s].pending # Void \/ gst[s].current = step

\* When nothing is left to do the server has the state the application
\* asked of the pipeline: play() and pause() leave out a command only when
\* the server is there without it.
ServerReachesTarget == Quiet => serverState = target

\* Every sink gets to the state the pipeline was set to in the end: no
\* sink waits for the others in play(), or for an announcement that the
\* server made before the sink was ready for it.
TargetReached == <>[](\A s \in Sources : gst[s].current = target /\ gst[s].pending = Void)
=============================================================================

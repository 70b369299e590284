---------------------------- MODULE PullModeFlow ----------------------------
(***************************************************************************)
(* The data path of the MSE sinks and the flushes that cross it:           *)
(* PullModePlaybackDelegate (sample queue, flush flags), the data part of  *)
(* GStreamerMSEMediaPlayerClient (attached sources, flush, the NeedData,   *)
(* PullBuffer and HaveData messages) and FlushAndDataSynchronizer.         *)
(*                                                                         *)
(* Per source there are three threads: the streaming thread (buffers and   *)
(* serialized events), the thread that flushes the sink or takes it back   *)
(* to READY, and the puller.  They share the client's event loop, a FIFO   *)
(* (module EventLoop).  The Rialto server and what GStreamer guarantees    *)
(* about pads (a flushing pad lets nothing in, FLUSH_STOP holds the stream *)
(* lock) are external.                                                     *)
(***************************************************************************)
EXTENDS FlushAndDataSynchronizer, Naturals, Sequences, FiniteSets

CONSTANTS Sources,
          UnknownId,       \* m_sourceId before the source is attached (-1)
          MaxSamples,      \* kMaxInternalBuffersQueueSize
          FrameCount,      \* frames a need-data request asks for
          MaxBuffers,      \* bound on accepted buffers, per source
          MaxFlushes,      \* bound on flushes, per source
          May              \* what the surroundings may do, of Whims

Whims == {"refuseFlush",      \* the server fails a flush
          "flushUnattached",  \* a sink is flushed before it has a source
          "badBuffer",        \* a buffer cannot be mapped or parsed
          "overtakeEos",      \* FLUSH_START passes an EOS event that is inside the sink
          "remove"}           \* a sink goes back to READY

ASSUME FlowAssumption ==
    /\ UnknownId \notin Sources
    /\ MaxSamples \in Nat \ {0} /\ FrameCount \in Nat \ {0}
    /\ MaxBuffers \in Nat /\ MaxFlushes \in Nat
    /\ May \subseteq Whims

VARIABLES
    \* PullModePlaybackDelegate
    m_sourceId, m_samples, m_isEos, m_segmentSet, m_isSinkFlushOngoing, m_isServerFlushOngoing,
    streaming,      \* where the streaming thread is
    control,        \* where the thread that flushes or removes is
    \* GStreamerMSEMediaPlayerClient
    backendQueue, m_attachedSources, m_isFlushing,
    \* BufferPuller and PullBufferMessage
    pullQueue, puller,
    \* the server
    request,        \* the need-data request it waits on, 0 when none
    flushing,       \* how many "source flushed" it owes
    endOfStream,    \* it was told that the stream ended
    delivered,      \* the samples it accepted since its last flush
    \* counters and history
    accepted,       \* buffers queued so far; a sample is its number
    flushes,
    floor,          \* samples accepted before the server's last flush
    dropped         \* samples popped though the server did not accept them

delegate == <<m_sourceId, m_samples, m_isEos, m_segmentSet, m_isSinkFlushOngoing,
              m_isServerFlushOngoing>>
client == <<backendQueue, m_attachedSources, m_isFlushing>>
server == <<request, flushing, endOfStream, delivered>>
history == <<accepted, flushes, floor, dropped>>
vars == <<m_sourceStates, delegate, streaming, control, client, pullQueue, puller, server,
          history>>

Idle == [pc |-> "idle", req |-> 0, frame |-> 0, added |-> 0, eos |-> FALSE, held |-> 0]

Msg(type, s, req, status) == [type |-> type, src |-> s, req |-> req, status |-> status]

PostMessage(m) == backendQueue' = Append(backendQueue, m)

Init ==
    /\ SyncInit
    /\ m_sourceId = [s \in Sources |-> UnknownId]
    /\ m_samples = [s \in Sources |-> <<>>]
    /\ m_isEos = [s \in Sources |-> FALSE]
    /\ m_segmentSet = [s \in Sources |-> FALSE]
    /\ m_isSinkFlushOngoing = [s \in Sources |-> FALSE]
    /\ m_isServerFlushOngoing = [s \in Sources |-> FALSE]
    /\ streaming = [s \in Sources |-> "caps"]
    /\ control = [s \in Sources |-> "idle"]
    /\ backendQueue = <<>> /\ m_attachedSources = {}
    /\ m_isFlushing = [s \in Sources |-> FALSE]
    /\ pullQueue = [s \in Sources |-> <<>>]
    /\ puller = [s \in Sources |-> Idle]
    /\ request = [s \in Sources |-> 0]
    /\ flushing = [s \in Sources |-> 0]
    /\ endOfStream = [s \in Sources |-> FALSE]
    /\ delivered = [s \in Sources |-> <<>>]
    /\ accepted = [s \in Sources |-> 0]
    /\ flushes = [s \in Sources |-> 0]
    /\ floor = [s \in Sources |-> 0]
    /\ dropped = [s \in Sources |-> {}]

(***************************************************************************)
(* The streaming thread.  It enters the sink only while the pad is not     *)
(* flushing and no FLUSH_STOP holds the stream lock; a flush that starts   *)
(* then does not make it leave.                                            *)
(***************************************************************************)
Enter(s, from, to) ==
    /\ streaming[s] = from /\ control[s] \in {"idle", "removing", "removeClear"}
    /\ streaming' = [streaming EXCEPT ![s] = to]

\* GST_EVENT_CAPS: the source is attached in the event loop.
CapsEvent(s) ==
    /\ control[s] = "idle"
    /\ Enter(s, "caps", "attaching")
    /\ PostMessage(Msg("attach", s, 0, "none"))
    /\ UNCHANGED <<m_sourceStates, delegate, control, m_attachedSources, m_isFlushing, pullQueue,
                   puller, server, history>>

\* A segment, a buffer or an EOS event comes in.
EnterSink(s) ==
    /\ \/ Enter(s, "noSegment", "segment")
       \/ Enter(s, "run", "buffer") /\ accepted[s] < MaxBuffers
       \/ Enter(s, "noSegment", "eosEvent")
       \/ Enter(s, "run", "eosEvent")
    /\ UNCHANGED <<m_sourceStates, delegate, control, client, pullQueue, puller, server, history>>

\* setSegment() after setSourcePosition ran in the event loop: the flag is
\* written without m_sinkMutex.
SetSegment(s) ==
    /\ streaming[s] = "segment"
    /\ m_segmentSet' = [m_segmentSet EXCEPT ![s] = TRUE]
    /\ streaming' = [streaming EXCEPT ![s] = "run"]
    /\ UNCHANGED <<m_sourceStates, m_sourceId, m_samples, m_isEos, m_isSinkFlushOngoing,
                   m_isServerFlushOngoing, control, client, pullQueue, puller, server, history>>

\* As in MessageQueue, an operator that stands before another one with
\* nearly its name is a slip in the code, used only to show that the
\* properties can fail.
HasSpaceOffByOne(s) == Len(m_samples[s]) <= MaxSamples
HasSpace(s) == Len(m_samples[s]) < MaxSamples

PushInFront(s) == m_samples' = [m_samples EXCEPT ![s] = <<accepted[s] + 1>> \o @]
Push(s) == m_samples' = [m_samples EXCEPT ![s] = Append(@, accepted[s] + 1)]

\* handleBuffer(), under m_sinkMutex.  A thread that waited for space does
\* not look at the size again.
HandleBuffer(s) ==
    /\ \/ streaming[s] = "buffer" /\ HasSpace(s)
       \/ streaming[s] = "woken"
    /\ streaming' = [streaming EXCEPT ![s] = "run"]
    /\ \/ /\ m_isSinkFlushOngoing[s]
          /\ UNCHANGED <<m_sourceStates, m_samples, accepted>>
       \/ /\ ~m_isSinkFlushOngoing[s]
          /\ accepted' = [accepted EXCEPT ![s] = @ + 1]
          /\ Push(s)
          /\ NotifyDataReceived(m_sourceId[s])
    /\ UNCHANGED <<m_sourceId, m_isEos, m_segmentSet, m_isSinkFlushOngoing, m_isServerFlushOngoing,
                   control, client, pullQueue, puller, server, flushes, floor, dropped>>

WaitForSpace(s) ==
    /\ streaming[s] = "buffer" /\ ~HasSpace(s)
    /\ streaming' = [streaming EXCEPT ![s] = "full"]
    /\ UNCHANGED <<m_sourceStates, delegate, control, client, pullQueue, puller, server, history>>

\* m_needDataCondVariable.notify_all()
NoWake(s) == UNCHANGED streaming
Wake(s) == streaming' = [streaming EXCEPT ![s] = IF @ = "full" THEN "woken" ELSE @]

EosEvent(s) ==
    /\ streaming[s] = "eosEvent"
    /\ m_isEos' = [m_isEos EXCEPT ![s] = TRUE]
    /\ NotifyDataReceived(m_sourceId[s])
    /\ streaming' = [streaming EXCEPT ![s] = "eos"]
    /\ UNCHANGED <<m_sourceId, m_samples, m_segmentSet, m_isSinkFlushOngoing,
                   m_isServerFlushOngoing, control, client, pullQueue, puller, server, history>>

(***************************************************************************)
(* The thread that flushes: FLUSH_START is startFlushing(), FLUSH_STOP is  *)
(* stopFlushing() with flushServer() and the client's flush() inside.      *)
(***************************************************************************)
ControlStep(s, from, to) == control[s] = from /\ control' = [control EXCEPT ![s] = to]

FlushStart(s) ==
    /\ ControlStep(s, "idle", "startWait")
    /\ s \in m_attachedSources \/ ("flushUnattached" \in May /\ streaming[s] = "caps")
    /\ flushes[s] < MaxFlushes /\ flushes' = [flushes EXCEPT ![s] = @ + 1]
    /\ UNCHANGED <<m_sourceStates, delegate, streaming, client, pullQueue, puller, server,
                   accepted, floor, dropped>>

\* waitIfRequired() is called before m_sinkMutex is taken.
WaitIfRequired(s) == MayStartFlush(m_sourceId[s])

FlushStartWaited(s) ==
    /\ ControlStep(s, "startWait", "startClear")
    /\ WaitIfRequired(s)
    /\ UNCHANGED <<m_sourceStates, delegate, streaming, client, pullQueue, puller, server, history>>

\* clearBuffersUnlocked(): also tells a blocked streaming thread to leave.
KeepBuffers(s) ==
    /\ m_isSinkFlushOngoing' = [m_isSinkFlushOngoing EXCEPT ![s] = TRUE]
    /\ UNCHANGED m_samples
    /\ Wake(s)
ClearBuffersUnlocked(s) ==
    /\ m_isSinkFlushOngoing' = [m_isSinkFlushOngoing EXCEPT ![s] = TRUE]
    /\ m_samples' = [m_samples EXCEPT ![s] = <<>>]
    /\ Wake(s)

StartFlushing(s) ==
    /\ ControlStep(s, "startClear", "started")
    /\ streaming[s] = "eosEvent" => "overtakeEos" \in May
    /\ \/ /\ ~m_isSinkFlushOngoing[s]
          /\ m_isEos' = [m_isEos EXCEPT ![s] = FALSE]
          /\ m_segmentSet' = [m_segmentSet EXCEPT ![s] = FALSE]
          /\ ClearBuffersUnlocked(s)
       \/ /\ m_isSinkFlushOngoing[s]
          /\ UNCHANGED <<m_isEos, m_segmentSet, m_isSinkFlushOngoing, m_samples, streaming>>
    /\ UNCHANGED <<m_sourceStates, m_sourceId, m_isServerFlushOngoing, client, pullQueue, puller,
                   server, history>>

\* FLUSH_STOP needs the stream lock; flushServer() marks the flush.
FlushServer(s) ==
    /\ ControlStep(s, "started", "notify")
    /\ streaming[s] \in {"caps", "noSegment", "run", "eos"}
    /\ m_isServerFlushOngoing' = [m_isServerFlushOngoing EXCEPT ![s] = TRUE]
    /\ UNCHANGED <<m_sourceStates, m_sourceId, m_samples, m_isEos, m_segmentSet,
                   m_isSinkFlushOngoing, streaming, client, pullQueue, puller, server, history>>

\* flush(): the synchronizer is told before anything is checked.
FlushNotify(s) ==
    /\ ControlStep(s, "notify", "post")
    /\ NotifyFlushStarted(m_sourceId[s])
    /\ UNCHANGED <<delegate, streaming, client, pullQueue, puller, server, history>>

FlushCall(s) ==
    /\ ControlStep(s, "post", "inLoop")
    /\ PostMessage(Msg("flush", s, 0, "none"))
    /\ UNCHANGED <<m_sourceStates, delegate, streaming, m_attachedSources, m_isFlushing, pullQueue,
                   puller, server, history>>

StopFlushing(s) ==
    /\ ControlStep(s, "stopEnd", "idle")
    /\ m_isSinkFlushOngoing' = [m_isSinkFlushOngoing EXCEPT ![s] = FALSE]
    /\ streaming' = [streaming EXCEPT ![s] = IF @ = "caps" THEN "caps" ELSE "noSegment"]
    /\ UNCHANGED <<m_sourceStates, m_sourceId, m_samples, m_isEos, m_segmentSet,
                   m_isServerFlushOngoing, client, pullQueue, puller, server, history>>

\* PAUSED -> READY: removeSource in the event loop, then the buffers go.
RemoveSource(s) ==
    /\ "remove" \in May /\ s \in m_attachedSources
    /\ ControlStep(s, "idle", "removing")
    /\ PostMessage(Msg("remove", s, 0, "none"))
    /\ UNCHANGED <<m_sourceStates, delegate, streaming, m_attachedSources, m_isFlushing, pullQueue,
                   puller, server, history>>

RemoveClear(s) ==
    /\ ControlStep(s, "removeClear", "removed")
    /\ ClearBuffersUnlocked(s)
    /\ UNCHANGED <<m_sourceStates, m_sourceId, m_isEos, m_segmentSet, m_isServerFlushOngoing,
                   client, pullQueue, puller, server, history>>

(***************************************************************************)
(* The client's event loop: one message at a time, in order.               *)
(***************************************************************************)
Handles(type, s) ==
    /\ backendQueue # <<>>
    /\ Head(backendQueue).type = type /\ Head(backendQueue).src = s

Done == backendQueue' = Tail(backendQueue)

\* attachSource(), when the server accepts the source.
AttachSource(s) ==
    /\ Handles("attach", s) /\ Done
    /\ m_attachedSources' = m_attachedSources \cup {s}
    /\ m_sourceId' = [m_sourceId EXCEPT ![s] = s]
    /\ AddSource(s)
    /\ streaming' = [streaming EXCEPT ![s] = "noSegment"]
    /\ UNCHANGED <<m_samples, m_isEos, m_segmentSet, m_isSinkFlushOngoing, m_isServerFlushOngoing,
                   control, m_isFlushing, pullQueue, puller, server, history>>

\* NeedDataMessage: requestPullBuffer(), or an ERROR answer to a source
\* that is gone.
NeedData(s) ==
    LET req == Head(backendQueue).req IN
    /\ Handles("needData", s)
    /\ \/ /\ s \in m_attachedSources
          /\ pullQueue' = [pullQueue EXCEPT ![s] = Append(@, req)]
          /\ Done
       \/ /\ s \notin m_attachedSources
          /\ backendQueue' = Append(Tail(backendQueue), Msg("haveData", s, req, "ERROR"))
          /\ UNCHANGED pullQueue
    /\ UNCHANGED <<m_sourceStates, delegate, streaming, control, m_attachedSources, m_isFlushing,
                   puller, server, history>>

\* HaveDataMessage: the answer reaches the server if the source is still
\* attached; the server ignores an answer to a request it gave up.
HaveData(s) ==
    /\ Handles("haveData", s) /\ Done
    /\ \/ /\ s \in m_attachedSources /\ Head(backendQueue).req = request[s]
          /\ request' = [request EXCEPT ![s] = 0]
          /\ endOfStream' = [endOfStream EXCEPT ![s] = @ \/ Head(backendQueue).status = "EOS"]
       \/ /\ s \notin m_attachedSources \/ Head(backendQueue).req # request[s]
          /\ UNCHANGED <<request, endOfStream>>
    /\ UNCHANGED <<m_sourceStates, delegate, streaming, control, m_attachedSources, m_isFlushing,
                   pullQueue, puller, flushing, delivered, history>>

\* What the server does with a flush: it gives up the request, forgets the
\* data and owes a "source flushed".
ServerFlush(s) ==
    /\ request' = [request EXCEPT ![s] = 0]
    /\ endOfStream' = [endOfStream EXCEPT ![s] = FALSE]
    /\ delivered' = [delivered EXCEPT ![s] = <<>>]
    /\ flushing' = [flushing EXCEPT ![s] = @ + 1]
    /\ floor' = [floor EXCEPT ![s] = accepted[s]]
    /\ dropped' = [dropped EXCEPT ![s] = {}]

\* The function flush() runs in the event loop.
Flush(s) ==
    /\ Handles("flush", s) /\ Done
    /\ ControlStep(s, "inLoop", "stopEnd")
    /\ \/ /\ s \in m_attachedSources
          /\ ServerFlush(s)
          /\ m_isFlushing' = [m_isFlushing EXCEPT ![s] = TRUE]
       \/ /\ s \notin m_attachedSources \/ "refuseFlush" \in May
          /\ UNCHANGED <<server, floor, dropped, m_isFlushing>>
    /\ UNCHANGED <<m_sourceStates, delegate, streaming, m_attachedSources, pullQueue, puller,
                   accepted, flushes>>

\* handleSourceFlushed(), with the delegate's handleFlushCompleted().
HandleSourceFlushed(s) ==
    /\ Handles("sourceFlushed", s) /\ Done
    /\ \/ /\ s \in m_attachedSources /\ m_isFlushing[s]
          /\ m_isFlushing' = [m_isFlushing EXCEPT ![s] = FALSE]
          /\ m_isServerFlushOngoing' = [m_isServerFlushOngoing EXCEPT ![s] = FALSE]
          /\ NotifyFlushCompleted(s)
       \/ /\ s \notin m_attachedSources \/ ~m_isFlushing[s]
          /\ UNCHANGED <<m_isFlushing, m_isServerFlushOngoing, m_sourceStates>>
    /\ UNCHANGED <<m_sourceId, m_samples, m_isEos, m_segmentSet, m_isSinkFlushOngoing, streaming,
                   control, m_attachedSources, pullQueue, puller, server, history>>

\* removeSource(): the server first, then the entry; the puller goes with
\* it, once it has handled its messages (MessageQueue's StopDrains).
RemoveFromServer(s) ==
    /\ Handles("remove", s)
    /\ backendQueue' = <<Msg("erase", s, 0, "none")>> \o Tail(backendQueue)
    /\ request' = [request EXCEPT ![s] = 0]
    /\ flushing' = [flushing EXCEPT ![s] = 0]
    /\ UNCHANGED <<m_sourceStates, delegate, streaming, control, m_attachedSources, m_isFlushing,
                   pullQueue, puller, endOfStream, delivered, history>>

EraseSource(s) ==
    /\ Handles("erase", s) /\ Done
    /\ pullQueue[s] = <<>> /\ puller[s] = Idle
    /\ m_attachedSources' = m_attachedSources \ {s}
    /\ m_isFlushing' = [m_isFlushing EXCEPT ![s] = FALSE]
    /\ SyncRemoveSource(s)
    /\ ControlStep(s, "removing", "removeClear")
    /\ UNCHANGED <<delegate, streaming, pullQueue, puller, server, history>>

EventLoopStep(s) ==
    \/ AttachSource(s) \/ NeedData(s) \/ HaveData(s) \/ Flush(s)
    \/ HandleSourceFlushed(s) \/ RemoveFromServer(s) \/ EraseSource(s)

(***************************************************************************)
(* PullBufferMessage::handle() in the puller's thread.  Every call of the  *)
(* delegate takes m_sinkMutex for itself.                                  *)
(***************************************************************************)
PullStart(s) ==
    /\ puller[s].pc = "idle" /\ pullQueue[s] # <<>>
    /\ puller' = [puller EXCEPT ![s] = [Idle EXCEPT !.pc = "ready", !.req = Head(pullQueue[s])]]
    /\ pullQueue' = [pullQueue EXCEPT ![s] = Tail(@)]
    /\ UNCHANGED <<m_sourceStates, delegate, streaming, control, client, server, history>>

PullerAt(s, from) == puller[s].pc = from

\* Goes to another place without changing anything that is shared.
PullerGoes(s, p) ==
    /\ puller' = [puller EXCEPT ![s] = p]
    /\ UNCHANGED <<m_sourceStates, delegate, streaming, control, client, pullQueue, server, history>>

\* The loop condition and isReadyToSendData().
IsReadyToSendData(s) == m_isEos[s] \/ m_segmentSet[s]

PullNext(s) ==
    /\ PullerAt(s, "ready")
    /\ PullerGoes(s, [puller[s] EXCEPT !.pc =
            IF puller[s].frame < FrameCount /\ IsReadyToSendData(s) THEN "front" ELSE "finish"])

\* getFrontSample()
GetFrontSample(s) == ~m_isServerFlushOngoing[s] /\ m_samples[s] # <<>>

PullFront(s) ==
    /\ PullerAt(s, "front")
    /\ \/ /\ GetFrontSample(s)
          /\ PullerGoes(s, [puller[s] EXCEPT !.pc = "add", !.held = Head(m_samples[s])])
       \/ /\ ~GetFrontSample(s)
          /\ PullerGoes(s, [puller[s] EXCEPT !.pc = "eos"])

\* isEos()
IsEosEarly(s) == m_isEos[s]
IsEos(s) == m_samples[s] = <<>> /\ m_isEos[s]

PullEos(s) ==
    /\ PullerAt(s, "eos")
    /\ PullerGoes(s, [puller[s] EXCEPT !.pc = "finish", !.eos = IsEos(s)])

\* Mapping, parsing and addSegment().  The server takes a segment for the
\* request it waits on; there is space for the first one of a request.
AddSegment(s) ==
    /\ PullerAt(s, "add")
    /\ \/ /\ puller[s].req = request[s]
          /\ delivered' = [delivered EXCEPT ![s] = Append(@, puller[s].held)]
          /\ puller' = [puller EXCEPT ![s].pc = "pop", ![s].added = @ + 1]
       \/ /\ puller[s].req # request[s]
          /\ puller' = [puller EXCEPT ![s].pc = "pop", ![s].added = @ + 1]
          /\ UNCHANGED delivered
       \/ /\ "badBuffer" \in May
          /\ puller' = [puller EXCEPT ![s].pc = "pop"]
          /\ UNCHANGED delivered
       \/ /\ puller[s].added > 0   \* NO_SPACE
          /\ puller' = [puller EXCEPT ![s].pc = "finish"]
          /\ UNCHANGED delivered
    /\ UNCHANGED <<m_sourceStates, delegate, streaming, control, client, pullQueue, request,
                   flushing, endOfStream, history>>

\* popSample(): whatever is at the front by now.
PopAll(s) == m_samples' = [m_samples EXCEPT ![s] = <<>>]
Pop(s) == m_samples' = [m_samples EXCEPT ![s] = IF @ = <<>> THEN @ ELSE Tail(@)]

Delivered(s) == {delivered[s][i] : i \in 1..Len(delivered[s])}
Samples(s) == {m_samples[s][i] : i \in 1..Len(m_samples[s])}

PopSample(s) ==
    /\ PullerAt(s, "pop")
    /\ Pop(s)
    /\ Wake(s)
    /\ dropped' = [dropped EXCEPT ![s] =
            @ \cup {n \in Samples(s) : n = Head(m_samples[s]) /\ n \notin Delivered(s)}]
    /\ puller' = [puller EXCEPT ![s].pc = "ready", ![s].frame = @ + 1, ![s].held = 0]
    /\ UNCHANGED <<m_sourceStates, m_sourceId, m_isEos, m_segmentSet, m_isSinkFlushOngoing,
                   m_isServerFlushOngoing, control, client, pullQueue, server, accepted, flushes,
                   floor>>

Status(p) == IF p.eos THEN "EOS" ELSE IF p.added = 0 THEN "NO_AVAILABLE_SAMPLES" ELSE "OK"

PullFinish(s) ==
    /\ PullerAt(s, "finish")
    /\ puller' = [puller EXCEPT ![s].pc = "post"]
    /\ \/ Status(puller[s]) \in {"OK", "EOS"} /\ NotifyDataPushed(s)
       \/ Status(puller[s]) = "NO_AVAILABLE_SAMPLES" /\ UNCHANGED m_sourceStates
    /\ UNCHANGED <<delegate, streaming, control, client, pullQueue, server, history>>

AnswerOnlyData(s) ==
    IF Status(puller[s]) = "NO_AVAILABLE_SAMPLES" THEN UNCHANGED backendQueue
    ELSE PostMessage(Msg("haveData", s, puller[s].req, Status(puller[s])))
Answer(s) == PostMessage(Msg("haveData", s, puller[s].req, Status(puller[s])))

PullPost(s) ==
    /\ PullerAt(s, "post")
    /\ Answer(s)
    /\ puller' = [puller EXCEPT ![s] = Idle]
    /\ UNCHANGED <<m_sourceStates, delegate, streaming, control, m_attachedSources, m_isFlushing,
                   pullQueue, server, history>>

PullBuffer(s) ==
    \/ PullStart(s) \/ PullNext(s) \/ PullFront(s) \/ PullEos(s) \/ AddSegment(s)
    \/ PopSample(s) \/ PullFinish(s) \/ PullPost(s)

(***************************************************************************)
(* The server: one request at a time per source, none while it flushes or  *)
(* after the end of the stream.                                            *)
(***************************************************************************)
Queued == {backendQueue[i] : i \in 1..Len(backendQueue)}

\* The requests of source s that are still on their way, wherever they are.
InFlight(s) ==
    {m.req : m \in {q \in Queued : q.src = s /\ q.type \in {"needData", "haveData"}}}
      \cup {pullQueue[s][i] : i \in 1..Len(pullQueue[s])}
      \cup {puller[s].req}

\* Bound: the numbers of requests.  A number is free again when nothing on
\* its way carries it; a request is given up only by a flush or a removal, so
\* that there is always a free one.
RequestIds == 1..(MaxFlushes + 2)
FreeIds(s) == RequestIds \ InFlight(s)

SendNeedData(s) ==
    /\ s \in m_attachedSources /\ Msg("erase", s, 0, "none") \notin Queued
    /\ request[s] = 0 /\ flushing[s] = 0 /\ ~endOfStream[s]
    /\ FreeIds(s) # {}
    /\ LET new == CHOOSE n \in FreeIds(s) : TRUE IN
       /\ request' = [request EXCEPT ![s] = new]
       /\ PostMessage(Msg("needData", s, new, "none"))
    /\ UNCHANGED <<m_sourceStates, delegate, streaming, control, m_attachedSources, m_isFlushing,
                   pullQueue, puller, flushing, endOfStream, delivered, history>>

NotifySourceFlushed(s) ==
    /\ flushing[s] > 0
    /\ flushing' = [flushing EXCEPT ![s] = @ - 1]
    /\ PostMessage(Msg("sourceFlushed", s, 0, "none"))
    /\ UNCHANGED <<m_sourceStates, delegate, streaming, control, m_attachedSources, m_isFlushing,
                   pullQueue, puller, request, endOfStream, delivered, history>>

StreamingStep(s) == SetSegment(s) \/ HandleBuffer(s) \/ WaitForSpace(s) \/ EosEvent(s)

FlushStep(s) == \/ FlushStartWaited(s) \/ StartFlushing(s) \/ FlushServer(s) \/ FlushNotify(s)
                \/ FlushCall(s) \/ StopFlushing(s) \/ RemoveClear(s)

Next == \E s \in Sources :
    \/ CapsEvent(s) \/ EnterSink(s) \/ StreamingStep(s)
    \/ FlushStart(s) \/ FlushStep(s) \/ RemoveSource(s)
    \/ EventLoopStep(s) \/ PullBuffer(s)
    \/ SendNeedData(s) \/ NotifySourceFlushed(s)

\* Threads that can run do run, a FLUSH_STOP follows its FLUSH_START, and
\* the server asks for data and finishes its flushes.  Nothing is assumed
\* about when buffers, EOS events or flushes come.
Fairness == \A s \in Sources :
    /\ WF_vars(StreamingStep(s)) /\ WF_vars(FlushStep(s))
    /\ WF_vars(EventLoopStep(s)) /\ WF_vars(PullBuffer(s))
    /\ WF_vars(SendNeedData(s)) /\ WF_vars(NotifySourceFlushed(s))

Spec == Init /\ [][Next]_vars /\ Fairness
-----------------------------------------------------------------------------
(***************************************************************************)
(* Properties                                                              *)
(***************************************************************************)
StreamingPcs == {"caps", "attaching", "noSegment", "segment", "run", "buffer", "full", "woken",
                 "eosEvent", "eos"}
ControlPcs == {"idle", "startWait", "startClear", "started", "notify", "post", "inLoop", "stopEnd",
               "removing", "removeClear", "removed"}
PullerPcs == {"idle", "ready", "front", "eos", "add", "pop", "finish", "post"}

\* Types, with the limits of the two bounded structures: a sink never keeps
\* more than kMaxInternalBuffersQueueSize samples, although handleBuffer
\* does not look at the size again after its wait, and a pull never adds
\* more frames than were asked for.
TypeOK ==
    /\ \A i \in DOMAIN m_sourceStates : i \in Sources \cup {UnknownId} /\ m_sourceStates[i] \in SourceState
    /\ m_sourceId \in [Sources -> Sources \cup {UnknownId}]
    /\ \A f \in {m_isEos, m_segmentSet, m_isSinkFlushOngoing, m_isServerFlushOngoing, m_isFlushing,
                 endOfStream} : f \in [Sources -> BOOLEAN]
    /\ streaming \in [Sources -> StreamingPcs] /\ control \in [Sources -> ControlPcs]
    /\ m_attachedSources \subseteq Sources
    /\ \A s \in Sources :
        /\ Samples(s) \subseteq 1..MaxBuffers /\ Len(m_samples[s]) <= MaxSamples
        /\ puller[s].pc \in PullerPcs /\ puller[s].added <= FrameCount
        /\ puller[s].req \in 0..(MaxFlushes + 2) /\ puller[s].held \in 0..MaxBuffers
        /\ flushing[s] \in 0..MaxFlushes /\ request[s] \in 0..(MaxFlushes + 2)

\* What the server got since its last flush is in order, without a repeat,
\* and nothing of it was queued before that flush: no pull that was under
\* way when the flush overtook it brings an old sample to the server.
DeliveredInOrder == \A s \in Sources :
    /\ \A i, j \in 1..Len(delivered[s]) : i < j => delivered[s][i] < delivered[s][j]
    /\ Delivered(s) \subseteq (floor[s] + 1)..accepted[s]

\* A flush or removal of s is past the point where the samples are cleared
\* and has not yet reached the server.
Clearing(s) == control[s] \in {"started", "notify", "post", "inLoop", "removed"}

\* Whatever a sink accepted since the server's last flush has been delivered
\* or is still queued, unless popSample took it unsent.
NothingSkipped == \A s \in Sources :
    ~Clearing(s) /\ (control[s] = "stopEnd" => "refuseFlush" \notin May) =>
        (floor[s] + 1)..accepted[s] = Delivered(s) \cup dropped[s] \cup Samples(s)

\* popSample takes the very sample that was sent, as long as the server
\* still waits on the request the pull belongs to: only a pull that a flush
\* overtook may pop another one.
PopsWhatItSent == [][\A s \in Sources :
    PopSample(s) /\ puller[s].req = request[s] /\ ~Clearing(s) =>
        m_samples[s] # <<>> /\ Head(m_samples[s]) = puller[s].held]_vars

\* The server is told that a stream ended only when it has everything that
\* was queued before the EOS event.
EosAfterAllSamples == \A s \in Sources : endOfStream[s] =>
    (floor[s] + 1)..accepted[s] \subseteq Delivered(s) \cup dropped[s]

\* Every request the server waits on is somewhere on its way, in exactly one
\* place: it is neither lost nor answered twice, across flushes and removal.
RequestInOnePlace == \A s \in Sources :
    LET inLoop == {i \in 1..Len(backendQueue) :
                     backendQueue[i].src = s /\ backendQueue[i].type \in {"needData", "haveData"}}
        inPull == 1..Len(pullQueue[s])
    IN  /\ request[s] # 0 => request[s] \in InFlight(s)
        /\ Cardinality(InFlight(s) \ {0})
             = Cardinality(inLoop) + Cardinality(inPull) + (IF puller[s].req = 0 THEN 0 ELSE 1)

\* The synchronizer says that a source flushes (and the client drops the
\* playback info it is sent) only while a flush is being called or the
\* server has not reported its end.
FlushOngoing(s) == control[s] \in {"post", "inLoop"} \/ m_isFlushing[s]
FlushingMeansOngoing == IsAnySourceFlushing => \E s \in Sources : FlushOngoing(s)

\* startFlushing() gets past waitIfRequired() only when the previous flush
\* of the source is complete.
WaitsForPreviousFlush == \A s \in Sources : control[s] = "started" => ~m_isFlushing[s]

\* A FLUSH_START does not block for ever in waitIfRequired().
FlushStartReturns == \A s \in Sources : control[s] = "startWait" ~> control[s] # "startWait"

\* A streaming thread blocked on a full queue gets on, and a flush or a
\* removal that waits for it gets its stream lock.
StreamingReleased == \A s \in Sources : streaming[s] = "full" ~> streaming[s] # "full"

\* Every need-data request is answered or given up by a flush or removal.
NeedDataAnswered == \A s \in Sources : request[s] # 0 ~> request[s] = 0
=============================================================================

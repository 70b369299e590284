---------------------------- MODULE WebAudioPlayer ----------------------------
(***************************************************************************)
(* The web audio sink in push mode: PushModeAudioPlaybackDelegate, the     *)
(* GStreamerWebAudioPlayerClient it drives, and the client's Timer.  The   *)
(* streaming thread opens the player with CAPS, queues samples and sends   *)
(* EOS; the application changes the state and sets the volume; the event   *)
(* loop writes samples as far as the server has room and tries again when  *)
(* the timer expires; the server announces its states from a thread of its *)
(* own.  What runs in the event loop is one step, except pushSamples,      *)
(* whose iterations are steps and which keeps the loop busy.               *)
(*                                                                         *)
(* External: gst_element_set_state and what follows a changeState(), the   *)
(* bin that moves the sink state by state, up when it has arrived and down *)
(* at once; a buffer that comes in has no other owner; the server, whose   *)
(* player is not destroyed before a notification under way has returned.   *)
(*                                                                         *)
(* A buffer is a sequence of bytes, a byte the number it was fed with.     *)
(* Next to some definitions stands what a slip in the code would make of   *)
(* them (the mutants of PROJECT.json); no action uses those.               *)
(***************************************************************************)
EXTENDS Integers, Sequences, FiniteSets, FiniteSetsExt, SequencesExt

CONSTANTS FrameSize,   \* m_frameSize, in bytes
          Sizes,       \* the sizes of the buffers that come in
          MaxBytes,    \* bound: the bytes fed in a behaviour
          MaxQueue,    \* kMaxQueueSize
          MaxRoom,     \* the frames the server can hold
          MaxCalls,    \* bound: the application's changes of state and volume
          MaxEvents    \* bound: refused calls, a stop, a flush, a new format, a
                       \* buffer that ends inside a frame

ASSUME WebAudioAssumption ==
    /\ {FrameSize, MaxQueue, MaxRoom} \subseteq Nat \ {0}
    /\ Sizes \subseteq Nat \ {0}
    /\ {MaxBytes, MaxCalls, MaxEvents} \subseteq Nat

VARIABLES
    m_isOpen, m_dataBuffers, m_isEos,      \* the client
    m_pushSamplesTimer,  \* a timer is running
    expired,             \* pushSamples calls expired timers have scheduled
    push,                \* pushSamples: "idle", "loop", "end"; or "crashed"
    m_isPlayingDelayed, m_isStateCommitNeeded, m_volume, m_isVolumeQueued, \* the delegate
    state, next, pending,  \* GST_STATE, GST_STATE_NEXT and GST_STATE_PENDING of the sink
    pad,                 \* its pad is active
    notify,              \* where handleStateChanged() is, and what it has read
    server,              \* the server's player: "none", "IDLE", "PLAYING", "PAUSED"
    room,                \* frames it can take
    written,             \* what it was given
    serverEos,           \* it was told that there is no more
    volume,              \* its volume
    notes,               \* announcements under way
    app, stream,         \* where the two threads are
    size,                \* the size of the buffer the streaming thread brings
    fed, eosSent,        \* bytes fed so far; the EOS event was sent
    discarded,           \* bytes given up after a failed call
    freed,               \* bytes of buffers that were freed and are still queued, or were
    targets, events, failures, wantedVolume,
    excused              \* what the code does not cope with, and has met

client == <<m_isOpen, m_dataBuffers, m_isEos, m_pushSamplesTimer, expired, push>>
fields == <<state, next, pending>>
playing == <<m_isPlayingDelayed, m_isStateCommitNeeded, fields, pad, targets>>
vol == <<m_volume, m_isVolumeQueued, volume, wantedVolume>>
serverVars == <<server, room, written, serverEos, notes, notify>>
counts == <<size, fed, eosSent, discarded, freed, events, failures>>
vars == <<client, playing, vol, serverVars, app, stream, counts, excused>>

Void == "VOID_PENDING"
NotNotifying == [at |-> "idle", next |-> Void, pending |-> Void]

Init ==
    /\ m_isOpen = FALSE /\ m_dataBuffers = <<>> /\ m_isEos = FALSE
    /\ m_pushSamplesTimer = FALSE /\ expired = 0 /\ push = "idle"
    /\ m_isPlayingDelayed = FALSE /\ m_isStateCommitNeeded = FALSE
    /\ state = "READY" /\ next = Void /\ pending = Void /\ targets = 0
    /\ m_volume = 0 /\ m_isVolumeQueued = FALSE /\ volume = 0 /\ wantedVolume = 0
    /\ server = "none" /\ room = MaxRoom /\ written = <<>> /\ serverEos = FALSE /\ notes = <<>>
    /\ notify = NotNotifying
    /\ app = "idle" /\ stream = "idle" /\ pad = FALSE
    /\ size = 0 /\ fed = 0 /\ eosSent = FALSE /\ discarded = {} /\ freed = {}
    /\ events = 0 /\ failures = 0
    /\ excused = {}

LoopFree == push = "idle"
Excuse(cond, what) == excused' = IF cond THEN excused \cup {what} ELSE excused

CallsLeft == targets + wantedVolume < MaxCalls
EventsLeft == events + failures < MaxEvents

\* A call of the backend fails.
Refused == EventsLeft /\ failures' = failures + 1
Accepted == UNCHANGED failures

\* play() and pause() also fail when there is no player.
Succeeds == m_isOpen /\ Accepted
Fails == IF m_isOpen THEN Refused ELSE UNCHANGED failures

-----------------------------------------------------------------------------
(***************************************************************************)
(* pushSamples(), one iteration a step.                                    *)
(***************************************************************************)
PushStarts == push' = IF m_isOpen /\ m_dataBuffers' # <<>> THEN "loop" ELSE "idle"

Continue(avail) == push' = IF m_dataBuffers' # <<>> /\ avail # 0 THEN "loop" ELSE "end"

Queued == UNION {ToSet(m_dataBuffers[i]) : i \in DOMAIN m_dataBuffers}

\* getBufferAvailable() fails: the queue is emptied.
GetBufferAvailableFails ==
    /\ push = "loop" /\ Refused
    /\ discarded' = discarded \cup Queued
    /\ m_dataBuffers' = <<>>
    /\ push' = "end"
    /\ UNCHANGED <<m_isOpen, m_isEos, m_pushSamplesTimer, expired, playing, vol, serverVars, app,
                   stream, size, fed, eosSent, freed, events, excused>>

\* There is no room: the loop ends.
NoRoom ==
    /\ push = "loop" /\ room = 0
    /\ push' = "end"
    /\ UNCHANGED <<m_isOpen, m_dataBuffers, m_isEos, m_pushSamplesTimer, expired, playing, vol,
                   serverVars, app, stream, counts, excused>>

FramesToWrite(bytes) == Min({room, bytes \div FrameSize})

\* The code's uint32_t wraps around at 2^32, where TLC's integers have ended.
\* This one wraps around at a smaller width, beyond all bytes of a behaviour,
\* so that both wrap in the same place: below zero.
Width == 65536
ASSUME WidthAssumption == MaxBytes + MaxRoom * FrameSize < Width

Uint(n) == n % Width

LeftoverInFrames(bytes) == Uint(bytes - room)
LeftoverOneFrameShort(bytes) == Uint(bytes - (room + 1) * FrameSize)
LeftoverData(bytes) == Uint(bytes - room * FrameSize)

\* gst_buffer_resize() leaves a buffer as it is that is too short.  (Its
\* sizes have 64 bits; in 32 a leftover that wrapped around is a negative one.)
Resize(b, offset, len) ==
    IF offset + len <= Len(b) THEN SubSeq(b, offset + 1, offset + len) ELSE b

\* What becomes of the queue after a successful write of part of its front.
\* A rest that is smaller than a frame is put before the next buffer:
\* gst_buffer_append() hands the front back with both contents, and the
\* gst_buffer_unref() that follows frees it, the queue's first buffer now.
KeepLeftover(b) ==
    LET rest == Resize(b, FramesToWrite(Len(b)) * FrameSize, LeftoverData(Len(b)))
    IN IF LeftoverData(Len(b)) \div FrameSize = 0 /\ Len(m_dataBuffers) > 1
       THEN /\ m_dataBuffers' = <<rest \o m_dataBuffers[2]>> \o Tail(Tail(m_dataBuffers))
            /\ freed' = freed \cup ToSet(rest) \cup ToSet(m_dataBuffers[2])
       ELSE m_dataBuffers' = <<rest>> \o Tail(m_dataBuffers) /\ UNCHANGED freed

\* Bound: a rest that is written again and again ends here.
WrittenBound == Len(written) <= MaxBytes

\* One iteration with room.  A front that was freed may still be as it was.
WriteBuffer ==
    LET b == Head(m_dataBuffers)
        n == FramesToWrite(Len(b)) * FrameSize
    IN /\ push = "loop" /\ room # 0 /\ WrittenBound
       /\ written' = written \o SubSeq(b, 1, n)
       /\ room' = room - FramesToWrite(Len(b))
       /\ IF n < Len(b) THEN KeepLeftover(b)
          ELSE m_dataBuffers' = Tail(m_dataBuffers) /\ UNCHANGED freed
       /\ Continue(room)
       /\ UNCHANGED <<m_isOpen, m_isEos, m_pushSamplesTimer, expired, playing, vol, server,
                      serverEos, notes, notify, app, stream, size, fed, eosSent, discarded, events,
                      failures, excused>>

\* Or what was freed is gone, and the process ends.
ReadFreed ==
    /\ push = "loop" /\ room # 0 /\ ToSet(Head(m_dataBuffers)) \cap freed # {}
    /\ push' = "crashed"
    /\ UNCHANGED <<m_isOpen, m_dataBuffers, m_isEos, m_pushSamplesTimer, expired, playing, vol,
                   serverVars, app, stream, counts, excused>>

\* The buffer cannot be mapped, or writeBuffer() fails: it is dropped.
WriteFails ==
    /\ push = "loop" /\ room # 0 /\ FramesToWrite(Len(Head(m_dataBuffers))) > 0 /\ Refused
    /\ discarded' = discarded \cup ToSet(Head(m_dataBuffers))
    /\ m_dataBuffers' = Tail(m_dataBuffers)
    /\ Continue(room)
    /\ UNCHANGED <<m_isOpen, m_isEos, m_pushSamplesTimer, expired, playing, vol, serverVars, app,
                   stream, size, fed, eosSent, freed, events, excused>>

\* What is left waits for the timer; when nothing is left, a pending EOS
\* goes to the server.  The timer that ran before is cancelled.
NoTimer == m_pushSamplesTimer' = FALSE
StartTimer == m_pushSamplesTimer' = TRUE

PushEnds ==
    /\ push = "end" /\ push' = "idle"
    /\ IF m_dataBuffers # <<>>
       THEN StartTimer /\ UNCHANGED serverEos
       ELSE serverEos' = (serverEos \/ m_isEos) /\ UNCHANGED m_pushSamplesTimer
    /\ stream' = IF stream = "pushing" THEN "idle" ELSE stream
    /\ UNCHANGED <<m_isOpen, m_dataBuffers, m_isEos, expired, playing, vol, server, room, written,
                   notes, notify, app, counts, excused>>

\* The timer's thread calls notifyPushSamplesTimerExpired().
TimerExpires ==
    /\ m_pushSamplesTimer
    /\ m_pushSamplesTimer' = FALSE /\ expired' = expired + 1
    /\ UNCHANGED <<m_isOpen, m_dataBuffers, m_isEos, push, playing, vol, serverVars, app, stream,
                   counts, excused>>

PushAfterTimer ==
    /\ LoopFree /\ expired > 0 /\ expired' = expired - 1
    /\ UNCHANGED m_dataBuffers /\ PushStarts
    /\ UNCHANGED <<m_isOpen, m_isEos, m_pushSamplesTimer, playing, vol, serverVars, app, stream,
                   counts, excused>>

PushSamples == NoRoom \/ WriteBuffer \/ PushEnds

-----------------------------------------------------------------------------
(***************************************************************************)
(* The streaming thread.  The pad lets it in while it is active.           *)
(***************************************************************************)
\* handleBuffer(): the thread comes with a buffer of some size.  Buffers
\* follow a CAPS event, and none follows EOS.
HandleBuffer ==
    /\ stream = "idle" /\ pad /\ ~eosSent /\ m_isOpen
    /\ \E s \in Sizes :
        /\ fed + s <= MaxBytes
        /\ stream' = "wait" /\ size' = s
        /\ IF s % FrameSize = 0
           THEN UNCHANGED <<events, excused>>
           ELSE EventsLeft /\ events' = events + 1 /\ excused' = excused \cup {"partial"}
    /\ UNCHANGED <<client, playing, vol, serverVars, app, fed, eosSent, discarded, freed, failures>>

InWait == stream = "wait"

\* notifyNewSample(): wait for room in the queue, then, in the event loop,
\* cancel the timer, queue the buffer and push.
QueueLimitOff == Len(m_dataBuffers) <= MaxQueue
QueueLimit == Len(m_dataBuffers) < MaxQueue

NotifyNewSample ==
    /\ InWait /\ QueueLimit /\ LoopFree
    /\ m_dataBuffers' = Append(m_dataBuffers, [i \in 1..size |-> fed + i])
    /\ fed' = fed + size /\ size' = 0
    /\ m_pushSamplesTimer' = FALSE
    /\ PushStarts
    /\ stream' = IF m_isOpen THEN "pushing" ELSE "idle"
    /\ UNCHANGED <<m_isOpen, m_isEos, expired, playing, vol, serverVars, app, eosSent, discarded,
                   freed, events, failures, excused>>

\* setEos(): dropped without a player; told at once when nothing is queued.
TellEosAtOnce == TRUE
NothingQueued == m_dataBuffers = <<>>

SetEos ==
    /\ stream = "idle" /\ pad /\ LoopFree /\ ~eosSent
    /\ eosSent' = TRUE
    /\ IF m_isEos \/ ~m_isOpen
       THEN UNCHANGED <<m_isEos, serverEos, push, stream>>
       ELSE /\ m_isEos' = TRUE
            /\ IF NothingQueued
               THEN serverEos' = TRUE /\ UNCHANGED <<push, stream>>
               ELSE push' = "loop" /\ stream' = "pushing" /\ UNCHANGED serverEos
    /\ UNCHANGED <<m_isOpen, m_dataBuffers, m_pushSamplesTimer, expired, playing, vol, server, room,
                   written, notes, notify, app, size, fed, discarded, freed, events, failures,
                   excused>>

\* CAPS: open() creates the server's player, after it has destroyed the one
\* an old format had.  Caps that change nothing do nothing (and are refused).
\* The new player has no samples, no volume of its own and stands still.
NewPlayer(s) ==
    /\ server' = s /\ m_isOpen' = (s # "none")
    /\ room' = MaxRoom /\ volume' = 0 /\ serverEos' = FALSE /\ notes' = <<>>

Open ==
    /\ stream = "idle" /\ pad /\ ~eosSent /\ LoopFree
    /\ m_isOpen => EventsLeft /\ notify.at = "idle"
    /\ events' = IF m_isOpen THEN events + 1 ELSE events
    /\ \/ Accepted /\ NewPlayer("IDLE") /\ stream' = "vol"
       \/ Refused /\ NewPlayer("none") /\ UNCHANGED stream
    /\ excused' = excused
        \cup (IF app \in {"volCheck", "volQueue", "volCall", "volGet"} THEN {"volumeRace"} ELSE {})
        \cup (IF app = "delay" THEN {"capsRace"} ELSE {})
        \cup (IF m_isOpen THEN {"newFormat"} ELSE {})
        \cup (IF app = "closed" THEN {"closeEarly"} ELSE {})
    /\ UNCHANGED <<m_dataBuffers, m_isEos, m_pushSamplesTimer, expired, push, playing, m_volume,
                   m_isVolumeQueued, wantedVolume, written, notify, app, size, fed, eosSent,
                   discarded, freed>>

\* A flush ends the EOS condition of the pad.  The sink does not handle it:
\* the client keeps its samples and m_isEos.
Flush ==
    /\ stream = "idle" /\ pad /\ eosSent /\ EventsLeft
    /\ events' = events + 1 /\ eosSent' = FALSE
    /\ Excuse(m_isEos, "closeEarly")
    /\ UNCHANGED <<client, playing, vol, serverVars, app, stream, size, fed, discarded,
                   freed, failures>>

\* The rest of the CAPS event: the queued volume and the delayed play, each
\* kept for another time when the call fails.
VolumeInFlight == app \in {"volCheck", "volQueue", "volCall", "volGet"}

CapsVolume ==
    /\ stream = "vol" /\ LoopFree
    /\ m_isVolumeQueued => m_isOpen
    /\ \/ m_isVolumeQueued /\ Accepted /\ volume' = m_volume /\ stream' = "volClear"
       \/ m_isVolumeQueued /\ Refused /\ UNCHANGED volume /\ stream' = "play"
       \/ ~m_isVolumeQueued /\ Accepted /\ UNCHANGED volume /\ stream' = "play"
    /\ Excuse(VolumeInFlight, "volumeRace")
    /\ UNCHANGED <<client, playing, m_volume, m_isVolumeQueued, wantedVolume, serverVars, app,
                   size, fed, eosSent, discarded, freed, events>>

CapsVolumeClear ==
    /\ stream = "volClear" /\ stream' = "play"
    /\ m_isVolumeQueued' = FALSE
    /\ Excuse(VolumeInFlight, "volumeRace")
    /\ UNCHANGED <<client, playing, m_volume, volume, wantedVolume, serverVars, app, counts>>

\* play() and pause(): the server announces the state it reaches.
Announce(s) == server' = s /\ notes' = Append(notes, s)

SkipDelayedPlay == FALSE
DelayedPlay == m_isPlayingDelayed

CapsPlay ==
    /\ stream = "play" /\ LoopFree
    /\ \/ DelayedPlay /\ Succeeds /\ Announce("PLAYING") /\ stream' = "playClear"
       \/ DelayedPlay /\ Fails /\ UNCHANGED <<server, notes>> /\ stream' = "idle"
       \/ ~DelayedPlay /\ Accepted /\ UNCHANGED <<server, notes>> /\ stream' = "idle"
    /\ Excuse(app = "delay", "capsRace")
    /\ UNCHANGED <<client, playing, vol, room, written, serverEos, notify, app, size, fed,
                   eosSent, discarded, freed, events>>

CapsPlayClear ==
    /\ stream = "playClear" /\ stream' = "idle"
    /\ m_isPlayingDelayed' = FALSE
    /\ UNCHANGED <<client, m_isStateCommitNeeded, fields, pad, targets, vol, serverVars, app,
                   counts, excused>>

-----------------------------------------------------------------------------
(***************************************************************************)
(* The application's thread: changeState() and setProperty().              *)
(***************************************************************************)
\* gst_element_set_state(): the fields say where the sink is going.  When it
\* goes down again before it has arrived, it starts from where it was going.
SetStates(to) == next' = to /\ pending' = to /\ UNCHANGED state
From == IF pending # Void THEN next ELSE state

\* A change has come to its end (or failed, and the sink stays): nothing is
\* done when none is pending any more.
Arrive(s) ==
    /\ state' = IF pending = Void THEN state ELSE s
    /\ next' = IF pending = Void THEN next ELSE Void
    /\ pending' = Void

\* Between the reads and the writes of handleStateChanged().
CommitRace == IF notify.at = "write" THEN {"commitRace"} ELSE {}

ReadyToPaused ==
    /\ app = "idle" /\ state = "READY" /\ pending = Void
    /\ state' = "PAUSED" /\ next' = Void /\ pending' = Void /\ pad' = TRUE
    /\ UNCHANGED <<client, m_isPlayingDelayed, m_isStateCommitNeeded, targets, vol, serverVars, app,
                   stream, counts, excused>>

\* PAUSED -> PLAYING: isOpen() first, in the event loop.
PausedToPlaying ==
    /\ app = "idle" /\ state = "PAUSED" /\ pending = Void /\ LoopFree
    /\ CallsLeft /\ targets' = targets + 1
    /\ SetStates("PLAYING")
    /\ app' = IF m_isOpen THEN "play" ELSE "delay"
    /\ excused' = excused \cup CommitRace
    /\ UNCHANGED <<client, m_isPlayingDelayed, m_isStateCommitNeeded, pad, vol, serverVars, stream,
                   counts>>

Delay ==
    /\ app = "delay" /\ app' = "asyncStart"
    /\ m_isPlayingDelayed' = TRUE
    /\ UNCHANGED <<client, m_isStateCommitNeeded, fields, pad, targets, vol, serverVars, stream,
                   counts, excused>>

\* PLAYING -> PAUSED, also when PLAYING has not been reached.  A play that
\* waits for CAPS is not taken back.
PlayingToPaused ==
    /\ app = "idle" /\ From = "PLAYING"
    /\ CallsLeft /\ targets' = targets + 1
    /\ SetStates("PAUSED") /\ app' = "pause"
    /\ excused' = excused \cup CommitRace
                          \cup (IF m_isPlayingDelayed THEN {"withdrawn"} ELSE {})
    /\ UNCHANGED <<client, m_isPlayingDelayed, m_isStateCommitNeeded, pad, vol, serverVars, stream,
                   counts>>

\* play() or pause() in the event loop; when it fails, so does the change.
Command(call, s) ==
    /\ app = call /\ LoopFree
    /\ \/ Succeeds /\ Announce(s) /\ app' = "asyncStart" /\ UNCHANGED fields
       \/ Fails /\ Arrive(state) /\ app' = "idle" /\ UNCHANGED <<server, notes>>
    /\ UNCHANGED <<client, m_isPlayingDelayed, m_isStateCommitNeeded, pad, targets, vol, room,
                   written, serverEos, notify, stream, size, fed, eosSent, discarded, freed, events,
                   excused>>

PostAsyncStart == m_isStateCommitNeeded' = TRUE

\* handleStateChanged() may be about to clear the flag.
AsyncStart ==
    /\ app = "asyncStart" /\ app' = "idle"
    /\ PostAsyncStart
    /\ Excuse(notify.at # "idle", "commitRace")
    /\ UNCHANGED <<client, m_isPlayingDelayed, fields, pad, targets, vol, serverVars, stream,
                   counts>>

\* PAUSED -> READY
PausedToReady ==
    /\ app = "idle" /\ From = "PAUSED"
    /\ EventsLeft /\ events' = events + 1
    /\ SetStates("READY") /\ app' = "close"
    /\ excused' = excused \cup CommitRace
    /\ UNCHANGED <<client, m_isPlayingDelayed, m_isStateCommitNeeded, pad, targets, vol, serverVars,
                   stream, size, fed, eosSent, discarded, freed, failures>>

\* close() in the event loop.  It keeps m_dataBuffers, m_isEos and
\* m_isPlayingDelayed, and wakes nobody.
Close ==
    /\ app = "close" /\ LoopFree /\ notify.at = "idle"
    /\ app' = "closed"
    /\ m_isOpen' = FALSE /\ m_pushSamplesTimer' = FALSE
    /\ server' = "none" /\ serverEos' = FALSE /\ notes' = <<>>
    /\ excused' = excused
        \cup (IF m_dataBuffers # <<>> \/ m_isEos \/ stream # "idle" THEN {"closeEarly"} ELSE {})
        \cup (IF m_isOpen /\ wantedVolume > 0 THEN {"closeVolume"} ELSE {})
    /\ UNCHANGED <<m_dataBuffers, m_isEos, expired, push, playing, vol, room, written, notify,
                   stream, counts>>

\* The parent class deactivates the pad, then waits for the streaming thread.
DeactivatePad ==
    /\ app = "closed" /\ app' = "deactivate"
    /\ pad' = FALSE
    /\ UNCHANGED <<client, m_isPlayingDelayed, m_isStateCommitNeeded, fields, targets, vol,
                   serverVars, stream, counts, excused>>

PadDeactivated ==
    /\ app = "deactivate" /\ stream = "idle" /\ app' = "idle"
    /\ Arrive("READY") /\ eosSent' = FALSE
    /\ UNCHANGED <<client, m_isPlayingDelayed, m_isStateCommitNeeded, pad, targets, vol,
                   serverVars, stream, size, fed, discarded, freed, events, failures, excused>>

\* The volume: stored, then isOpen() in the event loop, then queued or set.
SetVolume ==
    /\ app = "idle" /\ CallsLeft
    /\ wantedVolume' = wantedVolume + 1 /\ m_volume' = wantedVolume + 1
    /\ app' = "volCheck"
    /\ Excuse(stream \in {"vol", "volClear"}, "volumeRace")
    /\ UNCHANGED <<client, playing, m_isVolumeQueued, volume, serverVars, stream, counts>>

VolumeCheck ==
    /\ app = "volCheck" /\ LoopFree
    /\ app' = IF m_isOpen THEN "volCall" ELSE "volQueue"
    /\ UNCHANGED <<client, playing, vol, serverVars, stream, counts, excused>>

ForgetVolume == m_isVolumeQueued' = m_isVolumeQueued
EnqueueVolume == m_isVolumeQueued' = TRUE

VolumeQueue ==
    /\ app = "volQueue" /\ app' = "idle"
    /\ EnqueueVolume
    /\ UNCHANGED <<client, playing, m_volume, volume, wantedVolume, serverVars, stream, counts,
                   excused>>

VolumeCall ==
    /\ app = "volCall" /\ LoopFree /\ m_isOpen /\ app' = "idle"
    /\ \/ Accepted /\ volume' = m_volume
       \/ Refused /\ UNCHANGED volume
    /\ UNCHANGED <<client, playing, m_volume, m_isVolumeQueued, wantedVolume, serverVars, stream,
                   size, fed, eosSent, discarded, freed, events, excused>>

\* getProperty(): the volume of an open player becomes the known one.
GetVolume ==
    /\ app = "idle" /\ LoopFree /\ m_isOpen /\ m_volume # volume
    /\ app' = "volGet"
    /\ UNCHANGED <<client, playing, vol, serverVars, stream, counts, excused>>

VolumeGet ==
    /\ app = "volGet" /\ LoopFree /\ m_isOpen /\ app' = "idle"
    /\ \/ Accepted /\ m_volume' = volume
       \/ Refused /\ UNCHANGED m_volume
    /\ Excuse(stream = "vol", "volumeRace")
    /\ UNCHANGED <<client, playing, m_isVolumeQueued, volume, wantedVolume, serverVars, stream,
                   size, fed, eosSent, discarded, freed, events>>

\* setVolume() and getVolume() of the client do not look at m_isOpen, as the
\* other calls do: in the event loop, without a player, they go through a
\* null pointer.
VolumeWithoutPlayer ==
    /\ (stream = "vol" /\ m_isVolumeQueued) \/ app \in {"volCall", "volGet"}
    /\ LoopFree /\ ~m_isOpen
    /\ push' = "crashed"
    /\ UNCHANGED <<m_isOpen, m_dataBuffers, m_isEos, m_pushSamplesTimer, expired, playing, vol,
                   serverVars, app, stream, counts, excused>>

-----------------------------------------------------------------------------
(***************************************************************************)
(* The server.                                                             *)
(***************************************************************************)
Consume ==
    /\ server = "PLAYING" /\ room < MaxRoom /\ room' = room + 1
    /\ UNCHANGED <<client, playing, vol, server, written, serverEos, notes, notify, app, stream,
                   counts, excused>>

\* Everything has been played: END_OF_STREAM.
Ends ==
    /\ server = "PLAYING" /\ serverEos /\ room = MaxRoom
    /\ serverEos' = FALSE /\ notes' = Append(notes, "END_OF_STREAM")
    /\ UNCHANGED <<client, playing, vol, server, room, written, notify, app, stream, counts,
                   excused>>

\* handleStateChanged() commits the state the sink is changing to.
Commits(s) == m_isStateCommitNeeded /\ s = next

\* notifyState() in the server's thread.  END_OF_STREAM posts EOS and ends
\* m_isEos.  Any other state goes to handleStateChanged(), which takes no
\* lock: it reads, then writes, then clears the flag (postAsyncDone()).
NotifyState ==
    /\ notify.at = "idle" /\ notes # <<>> /\ notes' = Tail(notes)
    /\ LET s == Head(notes)
       IN /\ notify' = IF Commits(s) THEN [at |-> "write", next |-> next, pending |-> pending]
                       ELSE notify
          /\ m_isEos' = (m_isEos /\ s # "END_OF_STREAM")
          /\ Excuse(app = "asyncStart" /\ s = next /\ ~Commits(s), "earlyNotify")
    /\ UNCHANGED <<m_isOpen, m_dataBuffers, m_pushSamplesTimer, expired, push, playing, vol, server,
                   room, written, serverEos, app, stream, counts>>

\* GST_STATE_PENDING was read after GST_STATE_NEXT: a set_state that came
\* since may have been before that read or after it.
WriteStates ==
    /\ state' = notify.next
    /\ \E read \in {notify.pending, pending} : next' = IF read = notify.next THEN Void ELSE read
    /\ pending' = Void

NotifyWrite ==
    /\ notify.at = "write" /\ notify' = [NotNotifying EXCEPT !.at = "clear"]
    /\ WriteStates
    /\ UNCHANGED <<client, m_isPlayingDelayed, m_isStateCommitNeeded, pad, targets, vol, server,
                   room, written, serverEos, notes, app, stream, counts, excused>>

NotifyClear ==
    /\ notify.at = "clear" /\ notify' = NotNotifying
    /\ m_isStateCommitNeeded' = FALSE
    /\ UNCHANGED <<client, m_isPlayingDelayed, fields, pad, targets, vol, server, room, written,
                   serverEos, notes, app, stream, counts, excused>>

-----------------------------------------------------------------------------
StreamSteps == NotifyNewSample \/ CapsVolume \/ CapsVolumeClear \/ CapsPlay \/ CapsPlayClear
AppSteps == \/ Delay \/ Command("play", "PLAYING") \/ Command("pause", "PAUSED") \/ AsyncStart
            \/ Close \/ DeactivatePad \/ PadDeactivated
            \/ VolumeCheck \/ VolumeQueue \/ VolumeCall \/ VolumeGet
LoopSteps == PushSamples \/ PushAfterTimer

Next ==
    \/ LoopSteps \/ GetBufferAvailableFails \/ WriteFails \/ ReadFreed \/ TimerExpires
    \/ HandleBuffer \/ SetEos \/ Open \/ Flush \/ StreamSteps
    \/ ReadyToPaused \/ PausedToPlaying \/ PlayingToPaused \/ PausedToReady
    \/ SetVolume \/ GetVolume \/ VolumeWithoutPlayer
    \/ AppSteps
    \/ Consume \/ Ends \/ NotifyState \/ NotifyWrite \/ NotifyClear

Spec == Init /\ [][Next]_vars

-----------------------------------------------------------------------------
(***************************************************************************)
(* Properties                                                              *)
(***************************************************************************)
\* Types, and that the queue keeps to its limit: kMaxQueueSize buffers,
\* none of them empty.
TypeOK ==
    /\ {m_isOpen, m_isEos, m_pushSamplesTimer, m_isPlayingDelayed, m_isStateCommitNeeded,
        m_isVolumeQueued, serverEos, eosSent, pad} \subseteq BOOLEAN
    /\ Len(m_dataBuffers) <= MaxQueue
    /\ \A i \in DOMAIN m_dataBuffers : m_dataBuffers[i] # <<>>
    /\ Queued \cup freed \subseteq 1..fed
    /\ fed \in 0..MaxBytes /\ room \in 0..MaxRoom /\ expired \in Nat
    /\ push \in {"idle", "loop", "end", "crashed"}
    /\ push \in {"loop", "end"} => m_isOpen
    /\ state \in {"READY", "PAUSED", "PLAYING"}
    /\ {next, pending} \subseteq {"READY", "PAUSED", "PLAYING", Void}
    /\ notify.at \in {"idle", "write", "clear"} /\ (notify.at # "idle" => m_isOpen)
    /\ server \in {"none", "IDLE", "PLAYING", "PAUSED"}
    /\ server = "none" <=> ~m_isOpen
    /\ {m_volume, volume, wantedVolume} \subseteq 0..MaxCalls
    /\ excused \subseteq {"partial", "volumeRace", "capsRace", "earlyNotify", "closeEarly",
                          "closeVolume", "newFormat", "withdrawn", "commitRace"}

Increasing(s) == \A i \in 1..(Len(s) - 1) : s[i] < s[i + 1]

\* The server gets the bytes in the order in which they came, none twice,
\* however they were cut into writes by the room it had, as long as the
\* buffers hold whole frames.
WrittenInOrder == "partial" \notin excused => Increasing(written)

\* The same for buffers that end inside a frame: "If the leftover data is
\* smaller than a frame, it must be processed with the next buffer".
LeftoverWrittenOnce == Increasing(written)

\* No byte disappears: it has been written, or waits in the queue, or was
\* given up because a call failed, or was in a buffer pushSamples() combined
\* and freed.
EveryByteAccounted == 1..fed = ToSet(written) \cup Queued \cup discarded \cup freed

\* The server is told that the stream has ended only when it has been given
\* everything that came before the EOS event.
EosAfterAllSamples == serverEos /\ "closeEarly" \notin excused => m_dataBuffers = <<>>

Quiet == app = "idle" /\ stream = "idle" /\ notes = <<>> /\ notify.at = "idle" /\ LoopFree

\* When all is quiet, an open player does what the sink was asked for, and
\* the sink has committed the state: the play that waited for CAPS was made
\* up for, a PLAYING that became a PAUSED on its way too, and no announcement
\* passed unused, unless a state change came between the reads of
\* handleStateChanged() and its writes or an async-start before its end.
PlayerFollowsSink ==
    Quiet /\ m_isOpen /\ failures = 0
    /\ excused \cap {"capsRace", "earlyNotify", "newFormat", "withdrawn",
                      "commitRace"} = {}
    => /\ pending = Void
       /\ state = "PLAYING" <=> server = "PLAYING"

\* When all is quiet, an open player has the volume set last, whether it was
\* set before the player was opened or after.
VolumeReachesPlayer ==
    /\ Quiet /\ m_isOpen /\ failures = 0
    /\ excused \cap {"volumeRace", "closeVolume", "newFormat"} = {}
    => volume = wantedVolume

\* No wake-up is lost: while buffers wait and pushSamples does not run, a
\* timer runs or an expired one has scheduled the next attempt, so that a
\* streaming thread that waits for room in the queue (and a PAUSED -> READY
\* that waits for that thread) gets on when the server has room again.  Not
\* so for what is left of a player that was closed or replaced.
RetryPending ==
    /\ LoopFree /\ m_dataBuffers # <<>>
    /\ excused \cap {"closeEarly", "newFormat"} = {}
    => m_pushSamplesTimer \/ expired > 0
=============================================================================

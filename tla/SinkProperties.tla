---------------------------- MODULE SinkProperties ----------------------------
(***************************************************************************)
(* How the value of a property set on a MSE sink reaches the Rialto        *)
(* server.  The sink keeps it in m_queuedProperties while it has no        *)
(* delegate, the delegate keeps it in a member with a "queued" flag while  *)
(* there is no client or no source, and a state change or the CAPS event   *)
(* hands it on.  A behaviour is about one property, `type`, of one sink.   *)
(* A value is the number of the set that wrote it, 0 the default; a value  *)
(* that may be missing is a set of at most one.                            *)
(*                                                                         *)
(* Three threads take part: "app" sets and gets, "state" changes the       *)
(* sink's state, "stream" delivers CAPS.  A call of the client runs in its *)
(* event loop and the caller waits for it, so it is one step.              *)
(* Next to some definitions stands what a slip in the code would make of   *)
(* them (the mutants of PROJECT.json); no action uses those.               *)
(***************************************************************************)
EXTENDS Naturals, FiniteSets

CONSTANTS Types,     \* the properties looked at
          MaxSets    \* bound: how often the property is set in one session

VARIABLES
    type,
    wanted,          \* the last value the application has set
    got,             \* what it read since, with nothing else going on
    state,           \* the sink's state
    m_delegate,      \* the sink has a delegate
    m_queuedProperties,
    m_value,         \* the delegate's member: m_mute, m_targetVolume, ...
    m_isQueued,      \* its flag: m_isMuteQueued, m_isVolumeQueued, ...
    m_rialtoClientState, \* ControlBackend: RUNNING or not
    m_client,        \* the manager has a client
    m_sourceAttached,
    source,          \* client and server know the source
    server,          \* the value the server works with
    m_playbackInfo,  \* the client's copy of the volume
    info,            \* the PlaybackInfo the server has sent, as long as it is under way
    crossed,         \* the one that came last was older than the volume set last
    pc,              \* where each thread is
    reg,             \* the value each thread has read
    sawClient,       \* the setter's copy of the client pointer was not null
    excused          \* what the code does not protect the last value from

sink == <<state, m_delegate, m_queuedProperties, m_rialtoClientState>>
member == <<m_value, m_isQueued>>
attachment == <<m_client, m_sourceAttached, source>>
ghost == <<wanted, got, excused>>
player == <<server, m_playbackInfo, info, crossed>>
vars == <<type, sink, member, attachment, player, pc, reg, sawClient, ghost>>

-----------------------------------------------------------------------------
(***************************************************************************)
(* The properties of the sinks, by what the code does with them.           *)
(***************************************************************************)
AudioSinkProperties == {"Volume", "Mute", "LowLatency", "Sync", "SyncOff", "StreamSyncMode",
                        "AudioFade", "LimitBufferingMs", "UseBuffering"}
VideoSinkProperties == {"WindowSet", "MaxVideoWidth", "MaxVideoHeight", "ImmediateOutput",
                        "SyncmodeStreaming", "ShowVideoWindow"}
\* "PtsOffset" is set with the event set-pts-offset.
SubtitleSinkProperties == {"SubtitleMute", "TextTrackIdentifier", "PtsOffset"}
BaseSinkProperties == {"IsSinglePathStream", "NumberOfStreams", "HasDrm"}

\* The properties get_property answers.
AudioReadable == AudioSinkProperties \ {"LowLatency", "SyncOff", "AudioFade"}
VideoReadable == VideoSinkProperties \ {"SyncmodeStreaming", "ShowVideoWindow"}
SubtitleReadable == SubtitleSinkProperties \ {"PtsOffset"}
BaseReadable == BaseSinkProperties

\* setProperty: what is queued as long as there is no source.
AudioForSource == {"Volume", "Mute", "StreamSyncMode"}
VideoForSource == {"ShowVideoWindow"}
SubtitleForSource == {"SubtitleMute", "TextTrackIdentifier"}
PtsOffsetForSource == {"PtsOffset"}

\* setProperty: what is only stored, for a later use.
VideoStored == {"MaxVideoWidth", "MaxVideoHeight"}
BaseStored == BaseSinkProperties

\* What is handed on in READY -> PAUSED and at the CAPS event.
AudioAtPaused == {"Volume", "AudioFade"}
VideoAtPaused == {"WindowSet"}
AudioAtCaps == {"Mute", "LowLatency", "Sync", "SyncOff", "StreamSyncMode", "LimitBufferingMs",
                "UseBuffering"}
VideoAtCaps == {"ImmediateOutput", "SyncmodeStreaming", "ShowVideoWindow"}
SubtitleAtCaps == {"SubtitleMute", "TextTrackIdentifier", "PtsOffset"}

\* Store and check in one critical section, which the hand-over takes too.
VideoLocked == {"WindowSet", "ImmediateOutput", "SyncmodeStreaming", "ShowVideoWindow"}
SubtitleLocked == {"TextTrackIdentifier"}

\* What createMediaSource() puts into the source that is attached.
InMediaSource == {"HasDrm", "TextTrackIdentifier"}

\* Calls that name the source: they do nothing while it is not attached.
AudioNamesSource == {"Mute", "StreamSyncMode"}
VideoNamesSource == {"ImmediateOutput", "SyncmodeStreaming", "ShowVideoWindow"}
SubtitleNamesSource == {"SubtitleMute", "PtsOffset"}

AllTypes == AudioSinkProperties \cup VideoSinkProperties \cup SubtitleSinkProperties
            \cup BaseSinkProperties
Readable == AudioReadable \cup VideoReadable \cup SubtitleReadable \cup BaseReadable
ForSource == AudioForSource \cup VideoForSource \cup SubtitleForSource \cup PtsOffsetForSource
Stored == VideoStored \cup BaseStored
AtPaused == AudioAtPaused \cup VideoAtPaused
AtCaps == AudioAtCaps \cup VideoAtCaps \cup SubtitleAtCaps
Locked == VideoLocked \cup SubtitleLocked
NamesSource == AudioNamesSource \cup VideoNamesSource \cup SubtitleNamesSource

ASSUME TypesAssumption == Types \subseteq AllTypes
ASSUME MaxSetsAssumption == MaxSets \in Nat \ {0}

Threads == {"app", "state", "stream"}
Idle(th) == pc[th] = "idle"
Goto(th, l) == pc' = [pc EXCEPT ![th] = l]

Init ==
    /\ type \in Types
    /\ wanted = 0 /\ got = {} /\ excused = {}
    /\ state = "NULL" /\ m_delegate = FALSE /\ m_queuedProperties = {}
    /\ m_rialtoClientState = FALSE
    /\ m_value = 0 /\ m_isQueued = FALSE
    /\ m_client = FALSE /\ m_sourceAttached = FALSE /\ source = FALSE
    /\ server = 0 /\ m_playbackInfo = 0 /\ info = {} /\ crossed = FALSE
    /\ pc = [th \in Threads |-> "idle"] /\ reg = [th \in Threads |-> 0]
    /\ sawClient = FALSE

-----------------------------------------------------------------------------
(***************************************************************************)
(* What the code does not protect a value from; the properties below are   *)
(* stated for the values it does protect.  A new set starts afresh, except *)
(* after what lasts.                                                       *)
(***************************************************************************)
\* CAPS beside PAUSED -> READY leaves m_sourceAttached wrong; a race can
\* leave an old value in m_queuedOffset, which a later direct set does not
\* overwrite, for the next CAPS.
Lasting == {"lateCaps"} \cup (IF type = "PtsOffset" THEN {"raceCaps", "raceState"} ELSE {})
\* A setter without the lock runs beside the hand-over of the CAPS event.
RaceCaps == IF type \notin Locked THEN {"raceCaps"} ELSE {}
\* There is a client and no source: the volume is queued for a READY ->
\* PAUSED that is over, and the two video properties go to a source id the
\* server does not know.  What is only stored has been used already.
Unattached ==
    IF \/ m_client /\ ~m_sourceAttached
          /\ type \in {"Volume", "ImmediateOutput", "SyncmodeStreaming"}
       \/ m_client /\ type \in Stored \ {"HasDrm"}
       \/ source /\ type = "HasDrm"
    THEN {"unattached"} ELSE {}

Circumstances ==
    (IF Idle("stream") THEN {} ELSE RaceCaps)
    \cup (IF Idle("state") THEN {} ELSE {"raceState"})
    \cup Unattached

-----------------------------------------------------------------------------
(***************************************************************************)
(* The client's setters, in its event loop.  The server keeps a value as   *)
(* long as the client exists.  setVolume() also writes the client's copy,  *)
(* which is all getCachedVolume() looks at.                                *)
(***************************************************************************)
CacheLeftToServer(v) == UNCHANGED m_playbackInfo
CacheVolume(v) == m_playbackInfo' = IF type = "Volume" THEN v ELSE m_playbackInfo

SendTo(v) ==
    /\ server' = IF type \in NamesSource /\ ~source THEN server ELSE v
    /\ CacheVolume(v)
    /\ crossed' = FALSE /\ UNCHANGED info

(***************************************************************************)
(* The server reports the volume with the position, from a thread of its   *)
(* own, while the application sets and reads it.  The report replaces the  *)
(* client's copy, or is dropped because some source is being flushed (a    *)
(* choice here: flushes are not in this module).                           *)
(***************************************************************************)
SendPlaybackInfo ==
    /\ type = "Volume" /\ m_client /\ info = {}
    /\ info' = {server}
    /\ UNCHANGED <<type, sink, member, attachment, server, m_playbackInfo, crossed, pc, reg,
                   sawClient, ghost>>

NotifyPlaybackInfo ==
    /\ \E v \in info, flushing \in BOOLEAN :
        /\ m_playbackInfo' = IF flushing THEN m_playbackInfo ELSE v
        /\ crossed' = IF flushing THEN crossed ELSE v # server
    /\ info' = {}
    /\ UNCHANGED <<type, sink, member, attachment, server, pc, reg, sawClient, ghost>>

(***************************************************************************)
(* set_property.  Without a delegate the value waits in the sink.          *)
(***************************************************************************)
QueueInSink(v) == m_queuedProperties' = {v}

SetBegin ==
    /\ wanted < MaxSets /\ wanted' = wanted + 1
    /\ got' = {}
    /\ excused' = (excused \cap Lasting) \cup Circumstances

SetWithoutDelegate ==
    /\ Idle("app") /\ ~m_delegate /\ Idle("state")
    /\ SetBegin
    /\ QueueInSink(wanted + 1)
    /\ UNCHANGED <<type, state, m_delegate, m_rialtoClientState, member, attachment, player, pc,
                   reg, sawClient>>

\* setProperty of the delegate, up to the copy of the client pointer.
SetWithDelegate ==
    /\ Idle("app") /\ m_delegate
    /\ SetBegin
    /\ sawClient' = m_client
    /\ Goto("app", IF type = "PtsOffset" THEN "check" ELSE "store")
    /\ UNCHANGED <<type, sink, member, attachment, player, reg>>

HasToWaitForClient == ~sawClient
HasToWait == ~sawClient \/ (type \in ForSource /\ ~m_sourceAttached)

\* Without a lock: store, check, and then queue or call, each a step.
Store ==
    /\ pc["app"] = "store" /\ type \notin Locked
    /\ m_value' = wanted
    /\ Goto("app", IF type \in Stored THEN "idle" ELSE "check")
    /\ UNCHANGED <<type, sink, m_isQueued, attachment, player, reg, sawClient, ghost>>

Check ==
    /\ pc["app"] = "check"
    /\ Goto("app", IF HasToWait THEN "queue" ELSE "call")
    /\ UNCHANGED <<type, sink, member, attachment, player, reg, sawClient, ghost>>

\* m_queuedOffset is value and flag in one.
Queue ==
    /\ pc["app"] = "queue"
    /\ m_isQueued' = TRUE
    /\ m_value' = IF type = "PtsOffset" THEN wanted ELSE m_value
    /\ Goto("app", "idle")
    /\ UNCHANGED <<type, sink, attachment, player, reg, sawClient, ghost>>

\* With m_propertyMutex or m_mutex: store, check and queue in one step.  The
\* subtitle delegate makes the call with the mutex held, the video delegate
\* after it.
StoreLocked ==
    /\ pc["app"] = "store" /\ type \in Locked
    /\ m_value' = wanted
    /\ IF HasToWait
       THEN m_isQueued' = TRUE /\ Goto("app", "idle") /\ UNCHANGED player
       ELSE /\ UNCHANGED m_isQueued
            /\ IF type \in SubtitleLocked
               THEN SendTo(wanted) /\ Goto("app", "idle")
               ELSE Goto("app", "call") /\ UNCHANGED player
    /\ UNCHANGED <<type, sink, attachment, reg, sawClient, ghost>>

Call ==
    /\ pc["app"] = "call"
    /\ SendTo(wanted)
    /\ Goto("app", "idle")
    /\ UNCHANGED <<type, sink, member, attachment, reg, sawClient, ghost>>

(***************************************************************************)
(* get_property.                                                           *)
(***************************************************************************)
\* What the delegate's getter returns.
Answer ==
    IF type \in Stored \/ ~m_client THEN m_value
    ELSE IF type \in NamesSource /\ ~source
         THEN IF type = "ImmediateOutput" THEN m_value ELSE 0
         ELSE IF type = "Volume" THEN m_playbackInfo ELSE server

GetWithoutDelegate ==
    /\ Idle("app") /\ ~m_delegate /\ Idle("state") /\ type \in Readable
    /\ got' = IF m_queuedProperties = {} THEN {0} ELSE m_queuedProperties
    /\ UNCHANGED <<type, sink, member, attachment, player, pc, reg, sawClient, wanted, excused>>

\* The getter of the volume writes what it read to m_targetVolume; two of
\* the video getters queue the value they return.  The answer is noted when
\* no hand-over is under way, the value is not waiting for a source, and no
\* PlaybackInfo that is older than the last set was the last to come.
GetWithDelegate ==
    /\ Idle("app") /\ m_delegate /\ type \in Readable
    /\ got' = IF /\ excused = {} /\ Idle("state") /\ Idle("stream")
                 /\ m_client => m_sourceAttached \/ type \in Stored
                 /\ ~crossed
              THEN {Answer} ELSE {}
    /\ m_value' = IF type = "Volume" /\ m_client THEN m_playbackInfo ELSE m_value
    /\ m_isQueued' = (m_isQueued \/ (type \in {"WindowSet", "ImmediateOutput"} /\ ~m_client))
    /\ excused' = excused
        \cup (IF type = "Volume" /\ ~Idle("state") THEN {"raceState"} ELSE {})
        \cup (IF m_client /\ m_isQueued /\ crossed THEN {"oldInfo"} ELSE {})
    /\ UNCHANGED <<type, sink, attachment, player, pc, reg, sawClient, wanted>>

-----------------------------------------------------------------------------
(***************************************************************************)
(* The hand-over of a queued value, in READY -> PAUSED and at CAPS.        *)
(***************************************************************************)
After(th) == IF th = "state" THEN "done" ELSE "idle"

ForgetFlag == m_isQueued' = m_isQueued
ClearFlag == m_isQueued' = FALSE

HandOverLocked(th) ==
    /\ pc[th] = "apply" /\ type \in Locked
    /\ IF m_isQueued THEN SendTo(m_value) /\ ClearFlag ELSE UNCHANGED <<player, m_isQueued>>
    /\ Goto(th, After(th))
    /\ UNCHANGED <<type, sink, m_value, attachment, reg, sawClient, ghost>>

HandOverRead(th) ==
    /\ pc[th] = "apply" /\ type \notin Locked
    /\ Goto(th, IF m_isQueued THEN "send" ELSE After(th))
    /\ reg' = [reg EXCEPT ![th] = IF m_isQueued THEN m_value ELSE 0]
    /\ UNCHANGED <<type, sink, member, attachment, player, sawClient, ghost>>

HandOverSend(th) ==
    /\ pc[th] = "send"
    /\ SendTo(reg[th])
    /\ Goto(th, "clear") /\ reg' = [reg EXCEPT ![th] = 0]
    /\ UNCHANGED <<type, sink, member, attachment, sawClient, ghost>>

HandOverClear(th) ==
    /\ pc[th] = "clear"
    /\ ClearFlag
    /\ Goto(th, After(th))
    /\ UNCHANGED <<type, sink, m_value, attachment, player, reg, sawClient, ghost>>

HandOver(th) == HandOverLocked(th) \/ HandOverRead(th) \/ HandOverSend(th) \/ HandOverClear(th)

(***************************************************************************)
(* State changes.  NULL <-> READY is the application's own, so it does not *)
(* start beside one of its sets; READY <-> PAUSED may (an autoplugger).    *)
(***************************************************************************)
\* A state change that starts beside a set, or beside a CAPS event.
Beside ==
    excused' = excused \cup (IF Idle("app") THEN {} ELSE {"raceState"})
                       \cup (IF Idle("stream") THEN {} ELSE {"lateCaps"})

KeepQueuedProperties == UNCHANGED m_queuedProperties
ClearQueuedProperties == m_queuedProperties' = {}

\* initialise_delegate(): a new delegate, which gets the queued properties.
\* One that a failed NULL -> READY left behind takes what it was given.
GiveQueued ==
    /\ m_value' = IF m_queuedProperties = {} THEN 0 ELSE CHOOSE v \in m_queuedProperties : TRUE
    /\ m_isQueued' = (m_queuedProperties # {} /\ type \notin Stored)

NullToReady ==
    /\ Idle("state") /\ Idle("app") /\ state = "NULL"
    /\ m_delegate' = TRUE
    /\ GiveQueued
    /\ ClearQueuedProperties
    /\ m_rialtoClientState' \in BOOLEAN
    /\ excused' = IF m_delegate THEN excused \cup {"retry"} ELSE excused
    /\ got' = {}
    /\ Goto("state", "wait")
    /\ UNCHANGED <<type, state, attachment, player, reg, sawClient, wanted>>

\* notifyApplicationState, while waitForRunning waits for it.
OnApplicationStateChanged ==
    /\ pc["state"] = "wait"
    /\ m_rialtoClientState' = ~m_rialtoClientState
    /\ UNCHANGED <<type, state, m_delegate, m_queuedProperties, member, attachment, player, pc,
                   reg, sawClient, ghost>>

\* waitForRunning(): RUNNING, or a second has passed and the change failed.
WaitOnlyForRunning == m_rialtoClientState /\ state' = "READY"
WaitForRunning == state' = IF m_rialtoClientState THEN "READY" ELSE "NULL"

NullToReadyEnd ==
    /\ pc["state"] = "wait"
    /\ WaitForRunning
    /\ Goto("state", "idle")
    /\ UNCHANGED <<type, m_delegate, m_queuedProperties, m_rialtoClientState, member, attachment,
                   player, reg, sawClient, ghost>>

\* attachToMediaClientAndSetStreamsNumber().  What is stored is used when
\* the client is created; `mine`: this sink is the first of its bin.
UseStored(mine) ==
    IF ~m_client /\ type \in Stored \ {"HasDrm"} /\ (mine \/ type = "NumberOfStreams")
    THEN server' = m_value /\ UNCHANGED <<m_playbackInfo, info, crossed>> ELSE UNCHANGED player

ReadyToPaused ==
    /\ Idle("state") /\ state = "READY"
    /\ \E mine \in BOOLEAN :
        /\ UseStored(mine)
        /\ excused' = excused \cup (IF Idle("app") THEN {} ELSE {"raceState"})
                              \cup (IF mine \/ m_client \/ type \notin Stored THEN {}
                                   ELSE {"otherSink"})
    /\ m_client' = TRUE
    /\ Goto("state", IF type \in AtPaused THEN "apply" ELSE "done")
    /\ UNCHANGED <<type, sink, member, m_sourceAttached, source, reg, sawClient, wanted, got>>

\* The rest of changeState; the parent class then activates the pad.
ReadyToPausedEnd ==
    /\ pc["state"] = "done" /\ state' = "PAUSED"
    /\ Goto("state", "idle")
    /\ UNCHANGED <<type, m_delegate, m_queuedProperties, m_rialtoClientState, member, attachment,
                   player, reg, sawClient, ghost>>

\* removeSource() in the event loop, then m_sourceAttached = false, then the
\* parent class lets no more event in and waits for the streaming thread.
\* The second takes m_sinkMutex, which set-pts-offset holds from its check on.
PausedToReady ==
    /\ Idle("state") /\ state = "PAUSED"
    /\ Beside
    /\ source' = FALSE
    /\ Goto("state", "removed")
    /\ UNCHANGED <<type, sink, member, m_client, m_sourceAttached, player, reg, sawClient, wanted,
                   got>>

PausedToReadyForget ==
    /\ pc["state"] = "removed"
    /\ type = "PtsOffset" => pc["app"] \notin {"queue", "call"}
    /\ m_sourceAttached' = FALSE
    /\ Goto("state", "forgotten")
    /\ UNCHANGED <<type, sink, member, m_client, source, player, reg, sawClient, ghost>>

PadDeactivate ==
    /\ pc["state"] = "forgotten"
    /\ Goto("state", "deactivate")
    /\ UNCHANGED <<type, sink, member, attachment, player, reg, sawClient, ghost>>

PausedToReadyEnd ==
    /\ pc["state"] = "deactivate" /\ Idle("stream") /\ state' = "READY"
    /\ Goto("state", "idle")
    /\ UNCHANGED <<type, m_delegate, m_queuedProperties, m_rialtoClientState, member, attachment,
                   player, reg, sawClient, ghost>>

\* releaseMediaPlayerClient(), removeControlBackend(), m_delegate.reset():
\* nothing of this session is left.
ReadyToNull ==
    /\ Idle("state") /\ Idle("app") /\ state = "READY" /\ state' = "NULL"
    /\ m_client' = FALSE /\ m_sourceAttached' = FALSE /\ source' = FALSE
    /\ server' = 0 /\ m_playbackInfo' = 0 /\ info' = {} /\ crossed' = FALSE
    /\ m_delegate' = FALSE /\ m_value' = 0 /\ m_isQueued' = FALSE
    /\ wanted' = 0 /\ got' = {} /\ excused' = {}
    /\ UNCHANGED <<type, m_queuedProperties, m_rialtoClientState, pc, reg, sawClient>>

(***************************************************************************)
(* The CAPS event, on an active pad.  With a source already attached it    *)
(* does nothing.  createMediaSource() reads the members that go into the   *)
(* source; attachSource() may fail.                                        *)
(***************************************************************************)
Caps ==
    /\ Idle("stream") /\ ~m_sourceAttached
    /\ state = "PAUSED" /\ pc["state"] # "deactivate"
    /\ reg' = [reg EXCEPT !["stream"] = IF type \in InMediaSource THEN m_value ELSE 0]
    /\ excused' = excused \cup (IF Idle("app") THEN {} ELSE RaceCaps)
                          \cup (IF Idle("state") THEN {} ELSE {"lateCaps"})
    /\ Goto("stream", "attach")
    /\ UNCHANGED <<type, sink, member, attachment, player, sawClient, wanted, got>>

CapsAttach ==
    /\ pc["stream"] = "attach"
    /\ \E ok \in BOOLEAN :
        /\ source' = (source \/ ok)
        /\ server' = IF ok /\ type \in InMediaSource THEN reg["stream"] ELSE server
        /\ Goto("stream", IF ok THEN "mark" ELSE "idle")
    /\ UNCHANGED <<type, sink, member, m_client, m_sourceAttached, m_playbackInfo, info, crossed, reg,
                   sawClient, ghost>>

CapsMark ==
    /\ pc["stream"] = "mark"
    /\ m_sourceAttached' = TRUE
    /\ Goto("stream", IF type \in AtCaps THEN "apply" ELSE "idle")
    /\ UNCHANGED <<type, sink, member, m_client, source, player, reg, sawClient, ghost>>

-----------------------------------------------------------------------------
AppSteps == Store \/ Check \/ Queue \/ StoreLocked \/ Call
StateSteps == \/ HandOver("state") \/ NullToReadyEnd \/ ReadyToPausedEnd
              \/ PausedToReadyForget \/ PadDeactivate \/ PausedToReadyEnd
StreamSteps == HandOver("stream") \/ CapsAttach \/ CapsMark

Next ==
    \/ SetWithoutDelegate \/ SetWithDelegate \/ AppSteps
    \/ GetWithoutDelegate \/ GetWithDelegate
    \/ NullToReady \/ OnApplicationStateChanged \/ ReadyToPaused \/ PausedToReady \/ ReadyToNull
    \/ StateSteps
    \/ SendPlaybackInfo \/ NotifyPlaybackInfo
    \/ Caps \/ StreamSteps

\* A thread that can run does run; the one-second wait ends.
Fairness == WF_vars(AppSteps) /\ WF_vars(StateSteps) /\ WF_vars(StreamSteps)

Spec == Init /\ [][Next]_vars /\ Fairness

-----------------------------------------------------------------------------
(***************************************************************************)
(* Properties                                                              *)
(***************************************************************************)
Values == 0..MaxSets

\* Types, and what goes with what: a value waits in the sink only while no
\* delegate exists, and a sink beyond READY has its delegate and its client.
TypeOK ==
    /\ type \in Types /\ {wanted, server, m_value, m_playbackInfo} \subseteq Values
    /\ info \subseteq Values /\ Cardinality(info) <= 1
    /\ got \subseteq Values /\ Cardinality(got) <= 1
    /\ m_queuedProperties \subseteq Values /\ Cardinality(m_queuedProperties) <= 1
    /\ state \in {"NULL", "READY", "PAUSED"}
    /\ {m_delegate, m_isQueued, m_client, m_sourceAttached, source, sawClient,
        m_rialtoClientState, crossed} \subseteq BOOLEAN
    /\ pc \in [Threads -> {"idle", "store", "check", "queue", "call", "apply", "send", "clear",
                           "wait", "done", "removed", "forgotten", "deactivate", "attach", "mark"}]
    /\ reg \in [Threads -> Values]
    /\ excused \subseteq {"raceCaps", "raceState", "unattached", "retry", "otherSink", "lateCaps",
                          "oldInfo"}
    /\ m_delegate => m_queuedProperties = {}
    /\ state # "NULL" => m_delegate
    /\ state = "PAUSED" => m_client

\* The sink plays and no thread is in the middle of anything.
Settled == state = "PAUSED" /\ m_sourceAttached /\ \A th \in Threads : Idle(th)

\* Whatever the state in which a property was set, and through however many
\* state changes, the server ends with the value that was set last: none is
\* left in a queue that nobody looks at again, none is overwritten by an
\* older one.  (excused names the cases the code does not protect.)
LastValueReachesServer == Settled /\ excused = {} => server = wanted

\* What get_property returns is what was set last, whether it comes from
\* the sink's queue, from the delegate's member, from the server or, for the
\* volume, from the client's copy; not so the volume between a PlaybackInfo
\* the server sent before the set and the next one.
ReadYourWrite == got # {} => got = {wanted}

\* The server never goes back to an older value, except by what is excused
\* and when the session ends.
NoOlderValue == [][server' >= server \/ excused' # {} \/ state' = "NULL"]_vars

\* Every state change comes to an end, whatever the application state the
\* server announces, and whoever is in the middle of a CAPS event.
StateChangeReturns == ~Idle("state") ~> Idle("state")

\* "Enqueue volume setting": a volume that is queued because there is no
\* source yet is set once there is one.
QueuedVolumeApplied ==
    type = "Volume" /\ Settled /\ excused \subseteq {"unattached"} => server = wanted
=============================================================================

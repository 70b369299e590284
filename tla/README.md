# A TLA+ verification of rialto-gstreamer

rialto-gstreamer is a GStreamer plugin: its sinks take audio, video and
subtitle streams from a pipeline and hand them to a Rialto server in another
process. Almost everything hard in it is concurrency. A sink is entered by a
streaming thread, by threads that flush it or change its state, by an event
loop that serves the server's notifications and by a thread that pulls its
samples, and several sinks share one client.

This directory holds TLA+ modules that model those parts, TLC configurations
that check them on small instances, and proofs that TLAPS checks for every
value of the constants. `PROJECT.json` is the index: components, runs, map from
definitions to source lines, hazards, findings and theorems.

Contents: [inventory](#inventory) · [modules](#modules) · [runs](#runs) ·
[fairness](#fairness) · [findings](#findings) · [proofs](#proofs) ·
[limits](#what-is-not-modelled) · [plan](#plan)

## Inventory

Paths are below `source/`.

| Component | State | Operations | Hard behaviour | What makes it correct |
|---|---|---|---|---|
| `MessageQueue` | deque, `m_running`, `m_acceptingMessages`, worker thread, `m_done` of every call | `start`, `stop`, `clear`, `postMessage`, `callInEventLoop`, `scheduleInEventLoop`, `processMessages` | flags read outside the mutex, stop from the worker itself, calls that wait | order, nothing lost or run twice, nobody waits for ever, stop drains |
| `FlushAndDataSynchronizer` | flush state and data state per source id | `addSource`, `removeSource`, `notifyFlushStarted/Completed`, `notifyDataReceived/Pushed`, `waitIfRequired`, `isAnySourceFlushing` | a thread blocks on what four others report, possibly in the wrong order | FLUSH_START waits for the previous flush, and not for ever |
| `PullModePlaybackDelegate` | samples, `m_isEos`, `m_segmentSet`, the flush flags, `m_sourceId`, `m_isStateCommitNeeded` | buffers and events, flush start and stop, state changes, what the puller and the client call back | every call takes `m_sinkMutex` for itself; a flush passes between two of them | the server gets the accepted samples, in order, once; EOS after the last; no old sample after a flush |
| `GStreamerMSEMediaPlayerClient` | attached sources with their states, `m_clientState`, `m_serverPlaybackState`, stream numbers, playback info | attach, remove, flush, play, pause, the server's notifications, about 30 forwards | commands and notifications cross each other; sources change state one by one | no request lost, play and pause reach the server when all sources want them, outdated notifications are discarded |
| `BufferPuller` and its messages | a queue of its own, requests | `PullBufferMessage`, `NeedDataMessage`, `HaveDataMessage` | a pull is overtaken by a flush or a removal | every request is answered once |
| `MediaPlayerManager` | map from bin to client, controller and count, under a static mutex | attach, release, `hasControl` | unlocked reads, release and create in two sections, a stop that blocks with the mutex held | exact count, one client per bin, the controller is a user, nobody uses a stopped client |
| Audio, video, subtitle delegates and sinks | properties and "queued" flags | property setters and getters, CAPS | properties set before there is a delegate or a client | no property is lost |
| Web audio: `GStreamerWebAudioPlayerClient`, `PushModeAudioPlaybackDelegate`, `Timer` | up to 40 buffers, `m_isOpen`, a one-shot timer | open, close, play, pause, new buffer, EOS, the timer's push | blocking producer, timer against close, frame arithmetic | every frame is written once and in order, EOS after them |
| `ControlBackend` | application state | wait until running | a timed wait | a state change wakes the wait |
| `BufferParser`, `GStreamer*Utils` | none | conversions of metadata and caps | none | – |
| `MediaPlayerClientBackend`, `WebAudioClientBackend` | a pointer | one-line forwards to the Rialto client library | none | – |
| Logging, plugin registration | none | – | – | – |

How they interact: a sink's delegate asks its `MediaPlayerManager` for the
client and calls it. Nearly every call becomes a function that runs in the
client's `MessageQueue` while the caller waits. The server's notifications are
posted to the same queue. A need-data request goes from there to the queue of
the source's `BufferPuller`, whose thread takes samples from the delegate, adds
them to the server's request and posts the answer back. `FlushAndDataSynchronizer`
is written by the streaming thread, the flushing thread, the event loop and the
puller, and blocks FLUSH_START.

## Modules

| Module | Models | Uses |
|---|---|---|
| `EventLoop` | what a message queue promises (abstract specification) | – |
| `MessageQueue` | `MessageQueue.cpp` | instance of `EventLoop` |
| `MessageQueueProofs` | theorems about `MessageQueue` | `MessageQueue` |
| `FlushAndDataSynchronizer` | `FlushAndDataSynchronizer.cpp`, an operator per operation | – |
| `PullModeFlow` | the data path and the flushes: delegate, client, puller, synchronizer and server composed | `FlushAndDataSynchronizer` |
| `PullModeFlowProofs` | theorems about `PullModeFlow` | `PullModeFlow` |
| `MediaPlayerManager` | `MediaPlayerManager.cpp` | – |
| `MediaPlayerManagerProofs` | theorems about `MediaPlayerManager` | `MediaPlayerManager` |
| `MediaPlayerClient` | the playback states: play, pause, attach, flush and the announcements in `GStreamerMSEMediaPlayerClient.cpp`, the state changes of `PullModePlaybackDelegate.cpp` | – |
| `MediaPlayerClientProofs` | theorems about `MediaPlayerClient` | `MediaPlayerClient` |
| `SinkProperties` | what becomes of a property set on a MSE sink: the three sinks and their base, the three delegates, the client's setters, `ControlBackend` | – |
| `SinkPropertiesProofs` | theorems about `SinkProperties` | `SinkProperties` |
| `WebAudioPlayer` | the web audio sink: `PushModeAudioPlaybackDelegate.cpp`, `GStreamerWebAudioPlayerClient.cpp`, `Timer.cpp` | – |
| `WebAudioPlayerProofs` | theorems about `WebAudioPlayer` | `WebAudioPlayer` |

An operator marked *mutant*, or standing right before another one with nearly
its name (`PushFront` before `Push`), is the other operator with a slip a
programmer could make. No action uses it; `PROJECT.json` says which property
notices which slip.

### MessageQueue

`m_running`, `m_acceptingMessages` and `m_queue` are the members of the class.
`joinable` is `m_workerThread.joinable()`, `workerPc` is where the worker is in
`processMessages`, `pc[t]` where another thread is in an operation and
`waitFor[t]` the message it waits on. A message is the number of its acceptance.
`handled`, `skipped` and `stopMsgs` are history. Each section under `m_mutex` is
one step. Steps of their own are: the read of `m_running` at the start of
`doStop` (`StopCall`), the waits (`CallReturn`, `StopDone`), the join, and, when
the worker stops itself, each of its unlocked writes (`SelfStop`,
`SelfStopDetach`, `SelfStopClear`).

A refused post and a stop of a queue that does not run change nothing and have
no action. `callInEventLoop` called by the worker runs its function in place and
is part of handling a message. A queue has one stopper
(`StoppersAssumption`): in the code it is the owner, or a function in the loop
that drops the last reference to the owner. With two stoppers that both see
`m_running` set the second one's message would never be handled.

`Stoppers = {w}`, the worker's stop, is what happens when a client is destroyed
by a message it handles.

### FlushAndDataSynchronizer and PullModeFlow

Per source there are three threads.

* The *streaming thread* (`streaming[s]`) delivers CAPS, segment, buffers and
  EOS. Entering the sink (`EnterSink`) is a step before the handler runs, so a
  flush may come in between: GStreamer's FLUSH_START does not wait for the
  streaming thread.
* The *control thread* (`control[s]`) delivers FLUSH_START and FLUSH_STOP or
  takes the sink from PAUSED to READY. `FlushStart`, `FlushStartWaited` and
  `StartFlushing` are `startFlushing()` up to, at and after the blocking
  `waitIfRequired`; `FlushServer`, `FlushNotify`, `FlushCall`, `Flush` and
  `StopFlushing` are `stopFlushing()` with what it calls.
* The *puller* (`puller[s]`) runs `PullBufferMessage::handle()`, one step per
  call of the delegate or the server.

They share the event loop: `backendQueue` is a FIFO whose head is handled in one
step, which is what `EventLoop` promises and `MessageQueueProofs` proves. Only
`removeSource` takes two, because it joins the puller in the middle.

A sample is the number of its acceptance. `delivered`, `floor` and `dropped`
remember what the server has got since its last flush, which samples are older
than that flush and which were popped without being sent.

External, and modelled from how the code uses it:

* GStreamer lets nothing enter a flushing pad, and FLUSH_STOP and the state
  change to READY hold the stream lock or come after the pad is deactivated.
* The server has one need-data request per source at a time, and none while the
  source flushes or after its end of stream. A flush makes it give up the
  request, and it ignores answers and segments for requests it gave up. There
  is space for the first segment of a request.
* Every accepted flush is reported once with "source flushed".

`May` names what the surroundings may do beyond that, so that each run says what
it allows: refuse a flush, flush a sink that has no source yet, deliver a buffer
that cannot be mapped or parsed, let FLUSH_START overtake an EOS event that is
inside the sink, go back to READY.

Removal ends a source's life in this module; a source that is attached again is in
the plan.

### MediaPlayerManager

`m_client`, `m_currentGstBinParent` and `m_mediaPlayerClientsInfo` are the
members. A client is a number; `phase` follows its shutdown. `Attach` is the
first locked section of `attachMediaPlayerClient`; what it decides is done in
later sections (`JoinClient`, `CreateClient`, `CreateFails`, and before them
`ReleaseShared` or `ReleaseLast` when the sink moved), so other managers come in
between. The last user holds the mutex while the client stops (`ReleaseLast`,
`StopReturns`, `DestroyClient`). `hasControl()` may be asked by another thread
than the one that attaches and releases; it reads `m_client` unlocked
(`HasControlCall`). The branch of `releaseMediaPlayerClient` that finds no entry
in the map has no action: `OneClientPerParent` shows that it cannot be reached.
The weak pointer is read as a whole: what a torn read of it would give is not
modelled.

### MediaPlayerClient

`m_clientState`, `m_serverPlaybackState`, `m_attachedSources`,
`m_wasAllSourcesAttachedSent` and `wasPlayingBeforeEos` are the client's members,
`m_state[s]` that of an attached source, and `streams` stands for the three optional
numbers of streams: the kinds whose number is known. `gst[s]` holds GStreamer's
`GST_STATE`, `GST_STATE_NEXT` and `GST_STATE_PENDING`.

The thread that changes a sink's state (`thread[s]`) is in `changeState()`; `Call`
posts what it asks of the client, and the loop's handler (`HandleStreamCollection`,
`Pause`, `Play`) releases it. CAPS (`caps[s]`) attaches the source and pauses it
afterwards, two calls with room between them. STREAM_COLLECTION is two calls as well.
`HandlePlaybackState` is the client's part of an announcement; then every attached
source is told, and for each one `ReadStates` (the reads of `handleStateChanged()`)
and `HandleStateChanged` (its decision and its writes) are separate steps, because no
lock is held. `PlayIn` is `play()` as its two callers need it: a thread, and
`handleStateChanged()` in the loop itself.

External, and modelled from how the code uses it:

* *GStreamer* keeps its documented meaning of the three states:
  `gst_element_set_state` of a sink that is changing its state only moves the pending
  state, or starts from the next one when it goes down; `gst_element_lost_state` makes
  a settled sink reach PAUSED again. The reads of the three fields are one step, and
  so are the writes.
* *The bin* (`step`, `goal`) moves one sink after the other, down at once, up when all
  sinks have arrived. A sink that reached PAUSED again after a flush is moved on. What
  a bin does with an async-start that has no async-done is not modelled: the sinks of
  the model keep running.
* *The server* announces each state it was told to reach, in order; an announcement
  that is followed by PAUSED may be left out. A flush that loses the state makes it
  announce PAUSED and, when it was playing or about to, PLAYING, as
  `GstreamerMseBaseSinkTests.cpp` has it in `LostStateWhenTransitioningToPlaying`.

`May` allows the server to play at once (`syncPlay`), a kind of stream that does not
exist and is known only from the collection (`collection`), `set_state` between the
reads and the writes of the loop (`raceCommit`), and flushes in one behaviour with
changes of mind or an END_OF_STREAM (`mixedFlush`). Not modelled: PAUSED to READY,
`renderFrame`, an `attachSource` the server refuses, and FAILURE announcements.

### SinkProperties

A behaviour is about one property, `type`, of one sink, and TLC takes every one of the
21 in turn. What the code does with it is said by membership in sets that are read off
the sources: whether it is queued for the client or for the source (`ForSource`),
handed on in READY to PAUSED (`AtPaused`) or at CAPS (`AtCaps`), put into the source
that is attached (`InMediaSource`), only stored (`Stored`), stored and checked under a
mutex (`Locked`), sent with a source id (`NamesSource`), readable (`Readable`). Where the
setters of two properties differ in one line, they differ in one membership.

`m_queuedProperties`, `m_delegate`, `m_sourceAttached` are the members; `m_value` and
`m_isQueued` are the delegate's member and flag for this property; a value is the number
of the `set_property` that wrote it. The application's thread (`pc["app"]`) copies the
client pointer, stores, checks, and queues or calls, each a step unless a mutex makes
them one; the thread of the state change and the streaming thread with CAPS hand a
queued value on in three steps: read, send, clear the flag. NULL to READY creates the
delegate, gives it what the sink has queued and waits for the application to run;
`OnApplicationStateChanged` may come and go meanwhile, and the wait may time out.

The volume is read from the client's copy, `m_playbackInfo`, which `setVolume()` writes and
which every PlaybackInfo of the server replaces, from the server's thread. `SendPlaybackInfo`
and `NotifyPlaybackInfo` are the two ends of one, so that a set may fall between them; that
it is dropped while some source is being flushed is a choice, because flushes are not in
this module. The getter also stores what it read in `m_targetVolume` (`GetWithDelegate`).
After a PlaybackInfo that is older than the last set (`crossed`) the volume is read wrong
until the next one comes; `ReadYourWrite` leaves these reads out.

The code does not protect every value, and `excused` says from what: a setter beside the
hand-over of CAPS (`raceCaps`) or beside a state change (`raceState`), a value set with a
client and no source (`unattached`), after a failed NULL to READY (`retry`), a size set
on a sink that is not the first of its bin (`otherSink`), CAPS beside PAUSED to READY
(`lateCaps`), an old volume that was read from a crossed PlaybackInfo into the member while
the member waits for its hand-over (`oldInfo`). Each was found by TLC as a counterexample before it was named, each is in
the list of hazards, and the properties are about all the rest.

### WebAudioPlayer

`m_isOpen`, `m_dataBuffers`, `m_isEos` and `m_pushSamplesTimer` are the client's members,
`m_isPlayingDelayed`, `m_isStateCommitNeeded`, `m_volume` and `m_isVolumeQueued` the
delegate's. A buffer is the sequence of its bytes, a byte the number it came with, so that
`written` shows what the server got. What runs in the event loop is one step, except
`pushSamples`: each of its iterations is one (`GetBufferAvailableFails`, `NoRoom`,
`WriteBuffer`, `WriteFails`), `PushEnds` is the rest, and the loop is busy in between.
The arithmetic of the leftover is unsigned as in the code (`Uint`). TLC's integers end
where `uint32_t` does, so `Width` is smaller; no sum of the model reaches it
(`WidthAssumption`), and both widths wrap in the same place, below zero.
`gst_buffer_resize` leaves a buffer alone that is too short, as it does where `gssize` has
64 bits. `gst_buffer_append` takes both buffers and gives the first one back, and the
`gst_buffer_unref` after it drops the last reference to it: the bytes of the combined
buffer are in `freed` from then on, though the queue still has them. The next iteration may
find the memory as it was (`WriteBuffer`) or gone (`ReadFreed`, where the behaviour ends).
`TimerExpires` is the timer's thread, `PushAfterTimer` the call it scheduled.

CAPS is `Open`, `CapsVolume`, `CapsVolumeClear`, `CapsPlay` and `CapsPlayClear`, and the
application may act between them; `PausedToPlaying` and `SetVolume` ask `isOpen()` in the
loop and decide afterwards. The EOS of a player that is not open is dropped (`SetEos`).
`setVolume()` and `getVolume()` without a player go through a null pointer
(`VolumeWithoutPlayer`), where the behaviour ends.

`state`, `next` and `pending` are the `GST_STATE` fields of the sink. A `set_state` writes
the last two when it begins; play, pause or close follow in the loop, then the async-start.
PAUSED to READY is `PausedToReady`, `Close`, `DeactivatePad` and `PadDeactivated`; as long
as the pad is active CAPS, buffers and EOS still come in, after `close()` too.
`notifyState()` runs in the server's thread without a lock: `NotifyState` is the reads of
`handleStateChanged()`, `NotifyWrite` its writes, and `NotifyClear` the end of
`m_isStateCommitNeeded` in `postAsyncDone()`; the application may do anything between
them. Adjacent writes are one step, and so are the reads, except that
`GST_STATE_PENDING` may be read before or after a `set_state` that comes in (`WriteStates`).

External, and modelled from how the code uses it: a sink that goes down before it has
arrived starts from where it was going, and one that goes up waits until it has arrived (the
bin does so); a buffer that comes in has no other owner; destroying the server's player
waits for a notification that is under way; the server announces each state it was told to
reach, in order.

`excused` again names what the code does not cope with: a buffer that ends inside a frame
(`partial`), the races of CAPS with `isOpen()` (`capsRace`, `volumeRace`), an announcement
before `postAsyncStart()` (`earlyNotify`), a `set_state` between the reads and the writes of
`handleStateChanged()` or an async-start before its end (`commitRace`: the commit undoes the
first and wipes out the second), a `close()` with samples, an EOS or a streaming thread
inside, CAPS between `close()` and the end of the pad, or a flush that leaves `m_isEos`
(`closeEarly`), a volume set before `close()` (`closeVolume`), a new format (`newFormat`), a
PLAYING taken back before its CAPS (`withdrawn`). Taking any of them out of the property
that names it makes TLC find a counterexample.

## Runs

| Run | Instance | Shows |
|---|---|---|
| `queue_external` | 3 threads, 4 posts, 2 sessions, the owner stops; 54,799 states | `FifoOrder`, `EveryMessageAccounted`, `NoLostWaiter`, `StopDrains`; calls return, stop terminates; the queue implements `EventLoop` |
| `queue_self` | the same, the worker stops itself; 9,077 states | every call returns after a stop from inside the loop |
| `flow` | 1 source, queue of 2, 2 frames per request, 3 buffers, 2 flushes, bad buffers and removal; 1.6 million states | `DeliveredInOrder`, `NothingSkipped`, `EosAfterAllSamples`, `RequestInOnePlace`, `FlushingMeansOngoing`, `PopsWhatItSent` |
| `flow_live` | 1 source, queue of 1, 1 frame, 2 buffers, 2 flushes; 169,000 states | FLUSH_START returns, a blocked streaming thread is released, requests are answered |
| `manager` | 3 managers, 2 bins, 2 clients; 109,755 states | `RefCountExact`, `OneClientPerParent`, `ControllerIsUser`, `StoppedIsUnused`, `OperationsReturn` |
| `states` | audio and video, 3 changes of mind and 1 END_OF_STREAM or 2 flushes, playing at once, the unlocked commit and the collection event allowed; 226,000 states | `ClientAgreesWithServer`, `ServerReachesTarget`; every sink gets to its target |
| `sink_properties` | each of 21 properties, 3 sets per session, one PlaybackInfo under way; 441,000 states | `LastValueReachesServer`, `ReadYourWrite`, `NoOlderValue`; every state change returns |
| `web` | frames of 2 bytes, buffers of 2 to 4, 9 bytes, queue of 2, room for 2 frames, 2 calls of the application, 1 event out of a refused call, a stop, a flush, a new format and a partial frame; 5.0 million states | `WrittenInOrder`, `EveryByteAccounted`, `EosAfterAllSamples`, `PlayerFollowsSink`, `VolumeReachesPlayer`, `RetryPending` |
| `flow_previous_flush`, `flush_then_pause`, `sink_volume`, `web_leftover` | smallest instances that fail | the findings below |

Why the bounds are enough to be interesting. *Queue*: two callers and the stopper
may all have messages in the queue, one of them posted by a handler, and a second
session starts on what the first left. *Flow*: a queue of 2 with 3 buffers fills,
blocks and drains; a request of 2 frames can be served by one, two or no sample
and can be cut by a flush after the first; the second flush meets the pulls,
requests and "source flushed" messages the first one left behind. *Manager*: with 3
managers on 2 bins a client is shared while a third manager moves in or out, and
a bin can be given up and taken again. *Client*: two sinks are what it takes to
wait for each other; three changes of mind are pause, play and pause again while the
first announcement is still on its way. Flushes and changes of mind are in different
behaviours of `states`, because the two together are finding 2. *Properties*: three
values are one in each of the three places it can be (the server, the member, the sink's
queue), and the state changes are not bounded: sessions, failed ones too, follow each
other without end. *Web*: nine bytes fill the queue of two while the server holds two
frames and one is being cut, and are what it takes to combine a rest with the next buffer
and to touch the result (4, 3 and 2 bytes); the timer runs, is cancelled by the next buffer, or expires
too late; a restart meets what the first session left.

`CHECK_DEADLOCK FALSE` is set where the bounded systems really may stop: no more posts,
buffers, flushes or changes of mind. In `manager` and `sink_properties` deadlock is
checked.

## Fairness

Only steps that a running thread takes by itself are weakly fair. *Queue*: the
worker takes a message when there is one and the function it runs returns; a
woken thread goes on. Nothing says that anybody posts, starts or stops. *Flow*:
the streaming thread leaves the sink, the event loop and the puller run, a
FLUSH_STOP follows its FLUSH_START (GStreamer sends them in pairs), the server
keeps asking for data and finishes its flushes. Nothing says that buffers, EOS
events or flushes come. *Manager*: a thread that can take the mutex does, and a
client's stop returns, which is `StopTerminates` of the queue. Weak fairness is
enough there, because the model bounds the number of clients; with any number of
competing threads a mutex may be unfair. *Client*: the bin moves its sinks, their
threads go on, the loop runs, CAPS and the collection event arrive, and the server
announces what it was told to do. Nothing says that the application changes its mind,
flushes or reaches the end of the stream. *Properties*: each of the three threads goes
on with what it has begun, and the wait of one second ends; nothing says that a set, a
state change or CAPS comes, nor that the application state ever is RUNNING. *Web* states
no fairness: TLC is too slow for temporal properties of that size, and what its progress
rests on is an invariant, `RetryPending`: with samples queued, a timer runs or the next
attempt is scheduled.

`flow_live` leaves bad buffers out. With them FLUSH_START may really block for
ever: if no buffer since the flush could be parsed, nothing was pushed, the
synchronizer still says DATA_RECEIVED and the flushing pad lets no other buffer
in. Nothing in the repository says what should happen then; it is listed as a
hazard.

## Findings

Four runs are expected to fail.

1. `flow_previous_flush`: `notifyDataPushed()` sets the flush state to IDLE
   whatever it was. A pull that began before a flush and ends after
   `notifyFlushStarted()` wipes out FLUSHING; the next FLUSH_START does not wait
   although the test `ShouldWaitForPreviousFlushCompletion` says it does.
2. `flush_then_pause`: a PLAYING that was on its way when a flush was sent is taken
   for the one after the flush. The client is PLAYING, the flush's PAUSED comes, and
   a pause now "does not need to send the command": the server goes on to PLAYING in
   a paused pipeline.
3. `sink_volume`: a volume set in PAUSED before CAPS is queued ("Enqueue volume
   setting"), but the queue is looked at in READY to PAUSED only, which is over. The CAPS
   handler applies the mute queued in the same situation and forgets the volume.
4. `web_leftover`: what is left of a buffer is computed from the room the server had
   instead of the frames that were written. When the buffer ends inside a frame and
   there is more room than data, the unsigned difference wraps around,
   `gst_buffer_resize` refuses (where `gssize` has 64 bits), and the same frames are
   written again. (A rest of less than a frame that stands alone also makes `pushSamples`
   go round without end.)

Corners of the same kind that have no run of their own, because no line of the
repository is contradicted or because another run stands for them; the first two are
whims of `PullModeFlow`, the next ones of `MediaPlayerClient`:

* A flush the server refuses (`refuseFlush`), or of a sink without a source
  (`flushUnattached`), leaves the source FLUSHING: `FlushingMeansOngoing` fails.
* An EOS event inside the sink when FLUSH_START passes it (`overtakeEos`) sets `m_isEos`
  after the flush cleared it.
* "We are not in async" in `pause()` is decided by the client's state: the PAUSED the
  first sink asked for may arrive before the second sink's `pause()`, which then gets
  SUCCESS_SYNC with the async-start of its PLAYING unanswered.
* `handleStateChanged()` takes no lock: a `gst_element_set_state` between its reads and
  its writes (`raceCommit`) is undone, and the async-start it posted may stay unanswered.
* A flush after END_OF_STREAM that the server refuses clears `wasPlayingBeforeEos`, and
  a later `play()` waits for a PLAYING that was announced before (`mixedFlush`).
* A rest of less than a frame "must be processed with the next buffer"
  (`GStreamerWebAudioPlayerClient.cpp`, line 372). `gst_buffer_append` takes the rest and the
  next buffer and returns the first of them with both contents; it becomes the front of the
  queue, and `gst_buffer_unref(buffer)` then frees it. The queue holds a freed buffer, and
  what was in it is read from freed memory or not at all (`freed`, `ReadFreed`). The test
  `ShouldAppendBuffer` ends before the combined buffer is touched. `EveryByteAccounted`
  excepts these bytes; asked to find them in buffers that are still there (`Queued \ freed`
  and no exception) TLC violates it.
* A PlaybackInfo that crosses a `setVolume()` brings the old volume back into the client's
  copy, and `get_property` returns it until the next one comes (`crossed`).
* What `excused` names in `SinkProperties` and `WebAudioPlayer`.

## Proofs

Every safety invariant that a run checks is a theorem, proved for every value of the
constants that meets the named assumptions: any set of threads, managers, sources and
properties, any limits of the queues, any bound on sets, state changes and flushes. So are
the action properties `NoOlderValue` and `PopsWhatItSent`, and the refinement of
`EventLoop`.

None of the invariants is inductive alone. Each proof module states an `IInv`, which TLC
checked on the run's instance before the proof was tried, a lemma per action that the
action keeps it, and the theorems at the end. What `IInv` adds, and what for:

### MessageQueueProofs

`TypeOK`, `FifoOrder`, `EveryMessageAccounted`, `NoLostWaiter`, `StopDrains`, and that
`MessageQueue` implements `EventLoop`. Assumptions: `StoppersAssumption` (one stopper) and
`BoundsAssumption`.

* `StopperOnly`: only the stopper is in `doStop`, and not at the same time as the
  worker stops itself. Without it two stops would have to be followed.
* `StopMessageIsLast`: a stop message is behind everything else in the queue, and
  as long as it is pending its sender waits and the loop runs. This is what makes
  `StopDrains` true: when the stop message is taken the queue is empty.
* `StopProgress`: what the flags, the queue and the worker can be at each place of
  `doStop`; it carries the fact that the worker has left from the stop message to
  the final `doClear`.
* `Session`: how the two flags and the thread go together outside a stop. It says
  that a queue that does not run is empty, so a new session inherits nothing, and
  that messages are accepted only while a worker is there to serve them: the core
  of `NoLostWaiter`.
* `DoneIsFinished`: `m_done` is set exactly for the handled and skipped messages,
  so a waiter whose message left the queue is awake.

`StepSimulation` maps every step to a step of `EventLoop` or a stutter, with
`open <- Accepting`; the invariant is needed because opening requires that nothing of the
previous session is left.

### MediaPlayerManagerProofs

`TypeOK`, `RefCountExact`, `OneClientPerParent`, `ControllerIsUser`, `StoppedIsUnused`.

* `ThreadsAgree`: a manager creates only without a client and releases only the one it has.
* `ListedRuns`: a listed client was created and runs, unless the holder of the mutex is
  shutting it down.
* `Alone`: the manager that shuts a client down is its only user. This is where
  `RefCountExact` is used: the count that fell to zero says so.

### SinkPropertiesProofs

`TypeOK`, `LastValueReachesServer`, `ReadYourWrite`, and the action property `NoOlderValue`,
for every kind of property.

* `Places`: where the three threads can be and what they can count on there.
* `NoneTooNew`: nobody has a value that was not set yet, and what goes to the server under
  a lock is never older than what the server has. This gives `NoOlderValue`.
* `SourceAgreed` and `Undisturbed`: delegate, client and server agree on the source, and a
  set finds client and source as it saw them, as long as none of the races in `excused`
  happened.
* `Located`, `LocatedStored`: where the last value is. It is with the server, or marked for
  a hand-over that is still to come; this is `LastValueReachesServer` before it settles.
* `Cached`: the client's copy of the volume is the server's value, unless the PlaybackInfo
  that came last was sent before the last set; this gives `ReadYourWrite` for the volume.
  `Overwritten` is why `Located` does not count on `m_targetVolume` after a read: the getter
  may have stored an old volume in it, which nothing hands over.
* `OffsetHandedOver`: the offset of `set-pts-offset`, which lives in a member of its own.

### WebAudioPlayerProofs

`TypeOK`, `WrittenInOrder`, `EveryByteAccounted`, `EosAfterAllSamples`, `PlayerFollowsSink`,
`VolumeReachesPlayer` and `RetryPending`. Assumptions: `WebAudioAssumption`
and `WidthAssumption`, that all bytes of a behaviour and of the server's room together are
below `Width`, so that a difference wraps around only where it is negative. (The width of the
code is larger and wraps there too.)

* `Flags`, `Numbers`, `Control`, `Places`: the types, and where the three threads can be.
* `Contents`: the queued bytes are consecutive up to the last one that came.
* `Ordered`: everything written came before what is queued, as long as every buffer is of
  whole frames (a buffer that is not is written twice in part: run `web_leftover`).
* `Retrying`: buffers wait only for an open player and never without a timer.
* `EosOnce`: END_OF_STREAM is announced once, and no buffer is queued from EOS to then.
* `Following`: a state change is followed from the call, or the play that waits for CAPS, to
  its one announcement, which finds the sink waiting for it. `Asked` says which change the
  application's thread has begun; `Announced`, that the announcements come in turn (`InTurn`)
  and the last one is the one that is pending; `Committed`, that a pending change has its flag
  set and its announcement ahead of it, still to be read (`Awaited`) or in
  `handleStateChanged()`, which has read the fields as they are and has not come to clearing
  the flag. This last part is what `commitRace` breaks.
* `VolumeKept`: the last volume is with the player or marked for the CAPS event.

### PullModeFlowProofs

`TypeOK`, `DeliveredInOrder`, `NothingSkipped`, `EosAfterAllSamples`, `RequestInOnePlace`,
`FlushingMeansOngoing`, and the action property `PopsWhatItSent`, for any set of sources:
what TLC cannot reach with two of them is proved here. `TypeOK`, `DeliveredInOrder` and
`RequestInOnePlace` hold whatever the surroundings do. The others have a hypothesis on
`May`, in the theorem: no `refuseFlush` for all four, besides that no `overtakeEos` for
`EosAfterAllSamples` and no `flushUnattached` for `FlushingMeansOngoing`. TLC shows for
each of them that the property fails with it (see above).

* `DelegateTypes`, `ClientTypes`, `ServerTypes`, `SyncTypes`: the types.
* `Places`: the streaming thread, the flushing thread and the client agree on whether the
  source is attached, and `m_isSinkFlushOngoing` is set exactly from clearing to the end.
* `Queue`, `Pulling`: what waits is in order, newer than the last flush of the server, and
  empty during a flush; the puller's counters go with its place.
* `Delivering`: what waits comes after what was delivered, but for the first sample between
  `addSegment` and `popSample`; so does the sample held for a request the server waits on. A
  pull that a flush overtook is harmless because its request is not the server's any more.
* `Keeping`: nothing is skipped, and the held sample is the first one.
* `Ending`: an EOS on its way to the server, in the puller or in the loop's queue, has
  everything delivered, and no buffer comes before a flush has reached the server.
* `Requests`: the identifiers in the loop's queue, the puller's queue and the puller are
  different, which turns `RequestInOnePlace` into an equation between cardinalities.
* `Owing`: a flush that is not answered is one of those that were counted, so that there is
  always a free identifier (`RequestIds`) for the next request.
* `Marked`: FLUSHING in the synchronizer means a flush under way.

The frame lemmas (`Elsewhere` and those that end in `Kept`) say that a step of one source
leaves the parts of the other ones alone; the queue lemmas (`Posted`, `Taken`, `PutInFront`,
`Replaced`) what a message put into the shared queue or taken from it changes for a source.

### MediaPlayerClientProofs

`ClientAgreesWithServer` and `ServerReachesTarget`, for any non-empty set of sinks and any
number of state changes, flushes and ends of stream. Assumption: `ClientAssumption`; there is
a sink, because the client is created for one. Both theorems have the hypothesis that
`mixedFlush` is not in `May`: state changes and ends of stream may come in any number and order,
and so may flushes, but not both in one behaviour. With `mixedFlush` TLC violates both invariants, in the
way of the run `flush_then_pause`: `pause()` takes the PAUSED of a flush for the one it wants,
and the PLAYING that ends the flush comes after it.

The two ways of using the client need different reasons, so `IInv` has parts that hold always,
parts that hold as long as nothing was flushed, and parts that hold as long as the pipeline was
not set to another state.

Always:

* `SinkTypes`, `ClientTypes`, `ServerTypes`, `Telling`: the types; what the loop tells the
  delegates is the announcement it took last.
* `Calling(s)`: a thread that waits has exactly one message in the loop's queue, and what it asks
  for is the step of the bin. Without it a `play()` could be handled after the pipeline has
  gone down.
* `Shape(s)`, `StartingSink(s)`, `Starting`, `Started`: before its first command the server has
  said nothing, a sink waits for PAUSED exactly if its CAPS event is done, and a client that is
  READY still waits for a sink. So the first command is not left out.
* `Agreeing`: the server's last command is the one the client's state stands for; it is the last
  announcement the server owes, and as long as the client waits the announcement is still to
  come. This is `ClientAgreesWithServer` before the queue is empty.
* `Alone`: a flush excludes the others.

Without flushes:

* `Answered`: each command has one announcement. A client in PAUSED or PLAYING has heard all of
  it; one that waits for PLAYING has no other announcement before it; after the PAUSED of one
  that waits for PAUSED nothing comes. It says that `Outdated` skips exactly the announcements
  of commands given up.
* `Unflushed(s)`: how GStreamer's three fields, the thread and the delegate's state go together,
  also in what `handleStateChanged()` has read and will use later. While the client waits for
  PAUSED, or the loop tells the delegates of it, every sink is still to be paused
  (`ToBePaused`).
* `Pausing`: the bin goes up only when the client has reached PAUSED, and one sink that does not
  play keeps `play()` from sending PLAYING meanwhile.

As long as the pipeline stays at its first state:

* `Rising(s)`: sinks only go up. A sink that does not ask for PLAYING yet will do so
  (`ToPlay`): by its thread, or when a PAUSED that is still to come (`PausedToCome`) commits it
  or makes `handleStateChanged()` call `play()`.
* `First`: as long as the server was not told to play there is such a sink, so its command is
  still to come.

The lemmas `Posted`, `Taken`, `TakenAndPosted`, `Commanded` and `AnnouncedOne` say what the queues
have after a step in terms of which message is there and which comes after which; `SinkSame` and
`TalkSame` say what a step leaves alone. No other lemma looks inside a queue.

### Only model-checked

Liveness (`OperationsReturn`, `StateChangeReturns`, `TargetReached` and the like): the prover
has no fairness. The properties of the runs that end in a violation.

## What is not modelled

* Contents: samples of the MSE sinks, caps, metadata, positions, rates. Parsing is one
  outcome, success or failure. `BufferParser` and the `GStreamer*Utils` are conversions
  without state; checking them would mean writing them down a second time.
* Properties that are commands rather than values (gap, frame step on preroll), the
  statistics and the last sample; two properties that act on the same value (volume and
  audio fade); `set_property` from another thread beside NULL to READY.
* The deadlock of set-pts-offset, which holds `m_sinkMutex` while it waits for the event
  loop, with a handler that takes the mutex: the two sides are in different modules.
* Two sources that wait for each other's data in `waitIfRequired`: with two
  sources the interleavings of `PullModeFlow` are beyond TLC as it stands. The
  module is written for any set of sources.
* A source that is attached again after PAUSED to READY, `renderFrame`, a refused
  `attachSource` and FAILURE announcements in `MediaPlayerClient`; QoS, underflow,
  first-frame and error messages, which change no state of the client.
* Flushes beside the PlaybackInfo notifications: `SinkProperties` lets any of them be dropped.
  `AudioFade`, which sets the volume too, is a property of its own there.
* In `WebAudioPlayer`, a single write of `handleStateChanged()` between two writes of a
  `set_state`: both are one step. What a read of a freed buffer gives, other than the old
  contents or the end of the process.
* Spurious wake-ups of the condition variables, exceptions, out of memory. Time: the
  timer may expire at any moment, its ten milliseconds are not there, and neither is the
  lost notification of `Timer::doCancel`, which only makes it wait them out.
* GObject and plugin registration, logging, and the one-line forwards to the Rialto client
  library beyond what the modules above say of them.

## Plan

1. `FlushSync`: the synchronizer with two or more sources and an abstract data path
   per source, small enough for the cross-source wait; `PullModeFlow` shown to
   implement it for one.
2. `MediaPlayerClient`, the rest: PAUSED to READY and `removeSource`, a source that
   is attached again with the `m_isEos` and `m_segmentSet` of its first life.

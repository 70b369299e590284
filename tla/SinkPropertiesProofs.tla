------------------------- MODULE SinkPropertiesProofs -------------------------
(***************************************************************************)
(* The invariants of SinkProperties for every set of properties and any    *)
(* number of sets, state changes and CAPS events.                          *)
(***************************************************************************)
EXTENDS SinkProperties, FiniteSetTheorems, TLAPS

HandingOver == {"apply", "send", "clear"}
InTransition == {"removed", "forgotten", "deactivate"}

\* Where the threads can be, and what they can count on there.
Places ==
    /\ pc["app"] \in {"idle", "store", "check", "queue", "call"}
    /\ pc["state"] \in {"idle", "wait", "done"} \cup HandingOver \cup InTransition
    /\ pc["stream"] \in {"idle", "attach", "mark"} \cup HandingOver
    /\ pc["app"] # "idle" => m_delegate /\ (sawClient => m_client)
    /\ pc["app"] = "store" => type # "PtsOffset"
    /\ pc["app"] \in {"check", "queue"} => type \notin Locked \cup Stored
    /\ pc["app"] = "call" => type \notin Stored \cup InMediaSource /\ m_client
    /\ pc["state"] = "wait" => state = "NULL" /\ m_delegate
    /\ pc["state"] \in {"done"} \cup HandingOver => state = "READY" /\ m_client
    /\ pc["state"] \in HandingOver => type \in AtPaused
    /\ pc["state"] \in InTransition => state = "PAUSED"
    /\ pc["stream"] # "idle" => state = "PAUSED"
    /\ pc["stream"] \in {"attach", "mark"} => ~m_sourceAttached
    /\ pc["stream"] \in HandingOver => type \in AtCaps
    /\ pc["state"] \in {"send", "clear"} \/ pc["stream"] \in {"send", "clear"} => type \notin Locked
    /\ ~m_client => server = 0 /\ ~source /\ ~m_sourceAttached
    /\ state = "NULL" => ~m_client

\* Nobody has a value that was not set yet; without a delegate the sink has
\* the last one; and what goes to the server in one step with a lock, or
\* inside the source, is never older than what the server has.
NoneTooNew ==
    /\ m_value <= wanted /\ server <= wanted
    /\ ~m_delegate => /\ m_queuedProperties = (IF wanted = 0 THEN {} ELSE {wanted})
                      /\ ~m_isQueued
    /\ pc["state"] = "send" => reg["state"] <= wanted
    /\ pc["stream"] \in {"send", "attach"} => reg["stream"] <= wanted
    /\ type \in Locked \cup {"HasDrm"} /\ m_delegate => server <= m_value
    /\ type \in InMediaSource /\ pc["stream"] = "attach" =>
        server <= reg["stream"] /\ reg["stream"] <= m_value
    /\ type \in Locked /\ pc["app"] = "call" => m_value = wanted

\* As long as no CAPS event ran beside PAUSED -> READY, delegate, client and
\* server agree on the source, except in the middle of a step.
SourceAgreed == "lateCaps" \notin excused =>
    /\ pc["stream"] # "idle" => pc["state"] = "idle"
    /\ m_sourceAttached => source \/ pc["state"] = "removed"
    /\ m_sourceAttached => state = "PAUSED" /\ pc["state"] \in {"idle", "removed"}
    /\ source => state = "PAUSED" /\ pc["state"] = "idle"
    /\ source => m_sourceAttached \/ pc["stream"] = "mark"
    /\ pc["stream"] = "mark" => source
    /\ pc["stream"] \in HandingOver => m_sourceAttached

\* A protected set runs beside no state change, beside a CAPS event only
\* with the lock, and finds the client and the source as it saw them.
Undisturbed == excused = {} =>
    /\ pc["app"] # "idle" =>
        /\ pc["state"] = "idle" /\ (sawClient <=> m_client)
        /\ type \notin Locked => pc["stream"] = "idle"
        /\ type \in {"Volume", "ImmediateOutput", "SyncmodeStreaming"} /\ m_client => m_sourceAttached
        /\ type \in Stored \ {"HasDrm"} => ~m_client
        /\ type = "HasDrm" => ~source
    /\ pc["app"] = "queue" => ~m_client \/ (type \in ForSource /\ ~m_sourceAttached)
    /\ pc["app"] = "call" => m_client /\ (type \in ForSource => m_sourceAttached)

\* The getter of the volume may have left an old value in the member, which
\* is not waiting for a hand-over.
Overwritten == type = "Volume" /\ m_client /\ pc["app"] = "idle" /\ ~m_isQueued

\* Where the last protected value is: in the member, and, if not with the
\* server, marked for a hand-over that is still to come.
Located == excused = {} =>
    /\ m_delegate /\ type # "PtsOffset" /\ pc["app"] # "store" /\ ~Overwritten => m_value = wanted
    /\ type = "PtsOffset" /\ m_isQueued /\ pc["app"] = "idle" => m_value = wanted
    /\ pc["state"] = "send" => reg["state"] = wanted
    /\ pc["stream"] = "send" => reg["stream"] = wanted
    /\ pc["state"] = "clear" \/ pc["stream"] = "clear" => server = wanted
    /\ type \in AtPaused /\ pc["app"] = "idle" /\ m_delegate =>
        server = wanted \/ (m_isQueued /\ (~m_client \/ pc["state"] \in {"apply", "send"}))
    /\ type \in AtCaps /\ pc["app"] = "idle" /\ m_delegate =>
        server = wanted \/ (m_isQueued /\ (~m_sourceAttached \/ pc["stream"] \in {"apply", "send"}))

\* The same for what is used when the client or the source is created.
LocatedStored == excused = {} =>
    /\ type \in Stored \ {"HasDrm"} /\ m_client => server = wanted
    /\ type = "HasDrm" /\ source => server = wanted
    /\ type = "HasDrm" /\ pc["stream"] = "attach" => reg["stream"] = wanted
    /\ type = "TextTrackIdentifier" /\ pc["stream"] = "attach" /\ pc["app"] = "idle" =>
        reg["stream"] = wanted \/ m_isQueued

\* The client's copy of the volume is the server's, unless the PlaybackInfo
\* that came last was sent before the last call of setVolume().
Cached ==
    /\ m_playbackInfo <= wanted /\ \A v \in info : v <= wanted
    /\ type = "Volume" /\ ~crossed => m_playbackInfo = server
    /\ type # "Volume" => ~crossed /\ info = {}
    /\ ~m_client => m_playbackInfo = 0 /\ info = {} /\ ~crossed

\* An offset waits in m_queuedOffset only until the CAPS event: a later set
\* does not overwrite it.
OffsetHandedOver == type = "PtsOffset" =>
    /\ excused \cap {"unattached", "otherSink", "oldInfo"} = {}
    /\ excused \subseteq {"retry"} =>
        /\ m_sourceAttached /\ pc["stream"] \notin HandingOver => ~m_isQueued
        /\ pc["app"] # "idle" => excused = {}

IInv ==
    /\ TypeOK /\ Places /\ NoneTooNew /\ SourceAgreed /\ Undisturbed /\ Located /\ LocatedStored
    /\ Cached /\ OffsetHandedOver /\ ReadYourWrite

-----------------------------------------------------------------------------
\* What the sets of properties have to do with each other.
LEMMA Kinds ==
    ASSUME TypeOK
    PROVE  /\ type \in Stored \/ type \in AtPaused \/ type \in AtCaps
           /\ ~(type \in Stored /\ type \in AtPaused) /\ ~(type \in Stored /\ type \in AtCaps)
           /\ ~(type \in AtPaused /\ type \in AtCaps)
           /\ type \in Locked => type \notin Stored
           /\ type \in NamesSource => /\ type \in AtCaps
                                      /\ type \notin InMediaSource
                                      /\ \/ type \in ForSource
                                         \/ type \in {"ImmediateOutput", "SyncmodeStreaming"}
           /\ type \in ForSource /\ type \in AtPaused => type = "Volume"
           /\ type \in ForSource => type \notin Stored
           /\ type \in InMediaSource <=> type \in {"HasDrm", "TextTrackIdentifier"}
           /\ type \in SubtitleLocked <=> type = "TextTrackIdentifier"
<1> USE DEF AudioSinkProperties, VideoSinkProperties, SubtitleSinkProperties, BaseSinkProperties,
            AudioForSource, VideoForSource, SubtitleForSource, PtsOffsetForSource, VideoStored,
            BaseStored, AudioAtPaused, VideoAtPaused, AudioAtCaps, VideoAtCaps, SubtitleAtCaps,
            VideoLocked, SubtitleLocked, InMediaSource, AudioNamesSource, VideoNamesSource,
            SubtitleNamesSource, ForSource, Stored, AtPaused, AtCaps, Locked, NamesSource
<1>1. type \in AllTypes BY TypesAssumption DEF TypeOK
<1> QED BY <1>1 DEF AllTypes

\* The properties that are named one by one.
LEMMA Particular ==
    /\ "PtsOffset" \in AtCaps /\ "PtsOffset" \in ForSource /\ "PtsOffset" \in NamesSource
    /\ "PtsOffset" \notin Locked /\ "PtsOffset" \notin Readable /\ "PtsOffset" \notin Stored
    /\ "Volume" \in AtPaused /\ "Volume" \in ForSource /\ "Volume" \notin Locked
    /\ "Volume" \notin NamesSource /\ "Volume" \notin Stored
    /\ "HasDrm" \in Stored /\ "HasDrm" \notin Locked /\ "HasDrm" \notin NamesSource
    /\ "TextTrackIdentifier" \in AtCaps /\ "TextTrackIdentifier" \in ForSource
    /\ "TextTrackIdentifier" \in Locked /\ "TextTrackIdentifier" \notin NamesSource
    /\ "TextTrackIdentifier" \notin Stored
    /\ "ImmediateOutput" \in Locked /\ "ImmediateOutput" \in AtCaps
    /\ "SyncmodeStreaming" \in Locked /\ "SyncmodeStreaming" \in AtCaps
    /\ "WindowSet" \in AtPaused
BY DEF AudioSinkProperties, VideoSinkProperties, SubtitleSinkProperties, BaseSinkProperties,
       AudioForSource, VideoForSource, SubtitleForSource, PtsOffsetForSource, VideoStored,
       BaseStored, AudioAtPaused, VideoAtPaused, AudioAtCaps, VideoAtCaps, SubtitleAtCaps,
       VideoLocked, SubtitleLocked, AudioNamesSource, VideoNamesSource, SubtitleNamesSource,
       ForSource, Stored, AtPaused, AtCaps, Locked, NamesSource, Readable, AudioReadable,
       VideoReadable, SubtitleReadable, BaseReadable

\* A set of at most one value.
LEMMA AtMostOne == ASSUME NEW v PROVE Cardinality({v}) <= 1 /\ Cardinality({}) <= 1
BY FS_Singleton, FS_EmptySet

Labels == {"idle", "store", "check", "queue", "call", "apply", "send", "clear", "wait", "done",
           "removed", "forgotten", "deactivate", "attach", "mark"}
Excuses == {"raceCaps", "raceState", "unattached", "retry", "otherSink", "lateCaps", "oldInfo"}

\* The type invariant in four parts: values, sets of at most one value,
\* flags, and where everything stands.
TypedValues == /\ type \in Types /\ wanted \in Values /\ server \in Values /\ m_value \in Values
               /\ m_playbackInfo \in Values /\ reg \in [Threads -> Values]
TypedSets == /\ info \subseteq Values /\ Cardinality(info) <= 1
             /\ got \subseteq Values /\ Cardinality(got) <= 1
             /\ m_queuedProperties \subseteq Values /\ Cardinality(m_queuedProperties) <= 1
TypedFlags == /\ m_delegate \in BOOLEAN /\ m_isQueued \in BOOLEAN /\ m_client \in BOOLEAN
              /\ m_sourceAttached \in BOOLEAN /\ source \in BOOLEAN /\ sawClient \in BOOLEAN
              /\ m_rialtoClientState \in BOOLEAN /\ crossed \in BOOLEAN
TypedControl == /\ state \in {"NULL", "READY", "PAUSED"}
                /\ pc \in [Threads -> Labels] /\ excused \subseteq Excuses
                /\ m_delegate => m_queuedProperties = {}
                /\ state # "NULL" => m_delegate
                /\ state = "PAUSED" => m_client

LEMMA TypeParts == TypeOK <=> TypedValues /\ TypedSets /\ TypedFlags /\ TypedControl
<1> DEFINE Flags == {m_delegate, m_isQueued, m_client, m_sourceAttached, source, sawClient,
                     m_rialtoClientState, crossed}
<1>1. Flags \subseteq BOOLEAN <=> TypedFlags BY DEF TypedFlags
<1>2. TypeOK => TypedValues /\ TypedSets /\ TypedFlags /\ TypedControl
  <2> SUFFICES ASSUME TypeOK PROVE TypedValues /\ TypedSets /\ TypedFlags /\ TypedControl OBVIOUS
  <2>1. TypedValues BY DEF TypeOK, TypedValues
  <2>2. TypedSets BY DEF TypeOK, TypedSets
  <2>3. TypedFlags BY <1>1 DEF TypeOK
  <2>4. TypedControl BY DEF TypeOK, TypedControl, Labels, Excuses
  <2> QED BY <2>1, <2>2, <2>3, <2>4
<1>3. TypedValues /\ TypedSets /\ TypedFlags /\ TypedControl => TypeOK
  <2> SUFFICES ASSUME TypedValues, TypedSets, TypedFlags, TypedControl PROVE TypeOK OBVIOUS
  <2>1. Flags \subseteq BOOLEAN BY <1>1
  <2> QED BY <2>1 DEF TypeOK, TypedValues, TypedSets, TypedControl, Labels, Excuses
<1> QED BY <1>2, <1>3

LEMMA TypeFromParts ==
    ASSUME TypedValues', TypedSets', TypedFlags', TypedControl' PROVE TypeOK'
<1> DEFINE Flags == {m_delegate, m_isQueued, m_client, m_sourceAttached, source, sawClient,
                     m_rialtoClientState, crossed}
<1>1. Flags' \subseteq BOOLEAN BY DEF TypedFlags
<1> QED BY <1>1 DEF TypeOK, TypedValues, TypedSets, TypedControl, Labels, Excuses

LEMMA InitIInv == Init => IInv
<1> SUFFICES ASSUME Init PROVE IInv OBVIOUS
<1> USE DEF Init
<1>1. TypedValues BY MaxSetsAssumption DEF TypedValues, Values
<1>2. TypedSets BY FS_EmptySet DEF TypedSets
<1>3. TypedFlags BY DEF TypedFlags
<1>4. TypedControl BY DEF TypedControl, Labels
<1>5. Places /\ NoneTooNew BY DEF Places, NoneTooNew, Threads, HandingOver, InTransition
<1>6. SourceAgreed /\ Undisturbed BY DEF SourceAgreed, Undisturbed, Threads, HandingOver
<1>7. Located /\ LocatedStored BY DEF Located, LocatedStored, Threads
<1>8. Cached BY DEF Cached
<1>9. OffsetHandedOver /\ ReadYourWrite BY DEF OffsetHandedOver, ReadYourWrite, Threads
<1> QED BY <1>1, <1>2, <1>3, <1>4, <1>5, <1>6, <1>7, <1>9, <1>8, TypeParts DEF IInv

\* The parts of the invariant one at a time.
LEMMA Parts ==
    ASSUME IInv
    PROVE  /\ TypeOK /\ TypedValues /\ TypedSets /\ TypedFlags /\ TypedControl /\ Places /\ NoneTooNew
           /\ SourceAgreed /\ Undisturbed /\ Located /\ LocatedStored /\ Cached
           /\ OffsetHandedOver /\ ReadYourWrite
BY TypeParts DEF IInv

\* A thread moves, and the two others stay where they are.
LEMMA GotoApp ==
    ASSUME TypedControl, NEW l \in Labels, Goto("app", l)
    PROVE  /\ pc' \in [Threads -> Labels] /\ pc'["app"] = l
           /\ pc'["state"] = pc["state"] /\ pc'["stream"] = pc["stream"]
BY DEF TypedControl, Goto, Threads

LEMMA GotoState ==
    ASSUME TypedControl, NEW l \in Labels, Goto("state", l)
    PROVE  /\ pc' \in [Threads -> Labels] /\ pc'["state"] = l
           /\ pc'["app"] = pc["app"] /\ pc'["stream"] = pc["stream"]
BY DEF TypedControl, Goto, Threads

LEMMA GotoStream ==
    ASSUME TypedControl, NEW l \in Labels, Goto("stream", l)
    PROVE  /\ pc' \in [Threads -> Labels] /\ pc'["stream"] = l
           /\ pc'["app"] = pc["app"] /\ pc'["state"] = pc["state"]
BY DEF TypedControl, Goto, Threads

\* What a set starts from: the new value is the last one, and when nothing
\* excuses it, no state change is under way, no CAPS event unless the lock
\* is taken, and it is not too late for the value.
LEMMA SetBegins ==
    ASSUME IInv, SetBegin
    PROVE  /\ wanted' = wanted + 1 /\ wanted' \in Values /\ wanted \in Nat /\ got' = {}
           /\ excused' \subseteq Excuses
           /\ "lateCaps" \notin excused' => "lateCaps" \notin excused
           /\ excused' = {} =>
                /\ pc["state"] = "idle" /\ (type \notin Locked => pc["stream"] = "idle")
                /\ type \in {"Volume", "ImmediateOutput", "SyncmodeStreaming"} /\ m_client
                        => m_sourceAttached
                /\ type \in Stored \ {"HasDrm"} => ~m_client
                /\ type = "HasDrm" => ~source
           /\ type = "PtsOffset" => /\ excused' \cap {"unattached", "otherSink", "oldInfo"} = {}
                                    /\ excused' \subseteq {"retry"} =>
                                            excused' = {} /\ excused \subseteq {"retry"}
<1> USE DEF SetBegin
<1>1. wanted' = wanted + 1 /\ wanted' \in Values /\ wanted \in Nat /\ got' = {}
  BY Parts, MaxSetsAssumption DEF TypedValues, Values
<1>2. Circumstances \subseteq {"raceCaps", "raceState", "unattached"}
  BY DEF Circumstances, RaceCaps, Unattached
<1>3. excused' \subseteq Excuses /\ ("lateCaps" \notin excused' => "lateCaps" \notin excused)
  BY <1>2, Parts DEF TypedControl, Excuses, Lasting
<1>4. ASSUME excused' = {}
      PROVE  /\ pc["state"] = "idle" /\ (type \notin Locked => pc["stream"] = "idle")
             /\ type \in {"Volume", "ImmediateOutput", "SyncmodeStreaming"} /\ m_client
                     => m_sourceAttached
             /\ type \in Stored \ {"HasDrm"} => ~m_client
             /\ type = "HasDrm" => ~source
  <2>1. Circumstances = {} BY <1>4
  <2>2. Unattached = {} BY <2>1 DEF Circumstances
  <2>3. pc["state"] = "idle" BY <2>1 DEF Circumstances, Idle
  <2>4. type \notin Locked => pc["stream"] = "idle" BY <2>1 DEF Circumstances, Idle, RaceCaps
  <2> QED BY <2>2, <2>3, <2>4 DEF Unattached
<1>5. ASSUME type = "PtsOffset", excused' \subseteq {"retry"}
      PROVE  excused' = {} /\ excused \subseteq {"retry"}
  <2>1. "retry" \notin excused' BY <1>2 DEF Lasting
  <2>2. excused' = {} BY <1>5, <2>1
  <2>3. Lasting = {"lateCaps", "raceCaps", "raceState"} BY <1>5 DEF Lasting
  <2>4. excused \cap {"lateCaps", "raceCaps", "raceState"} = {} BY <2>2, <2>3
  <2> QED BY <1>5, <2>2, <2>4, Parts DEF TypedControl, Excuses, OffsetHandedOver
<1>6. type = "PtsOffset" => excused' \cap {"unattached", "otherSink", "oldInfo"} = {}
  <2>1. type = "PtsOffset" => type \notin Stored BY Particular
  <2>2. type = "PtsOffset" => Unattached = {} BY <2>1 DEF Unattached
  <2> QED BY <2>2 DEF Circumstances, RaceCaps, Lasting
<1> QED BY <1>1, <1>3, <1>4, <1>5, <1>6

LEMMA SetWithoutDelegateStep == ASSUME IInv, SetWithoutDelegate PROVE IInv'
<1> USE Parts, SetBegins DEF SetWithoutDelegate, QueueInSink, Idle, attachment, member, player
<1>1. TypedValues' BY DEF TypedValues
<1>2. TypedSets' BY AtMostOne DEF TypedSets
<1>3. TypedFlags' BY DEF TypedFlags
<1>4. TypedControl' BY DEF TypedControl
<1>5. Places' BY DEF Places
<1>6. NoneTooNew' BY DEF TypedValues, Values, TypedControl, Places, NoneTooNew
<1>7. SourceAgreed' BY DEF SourceAgreed
<1>8. Undisturbed' BY DEF Undisturbed
<1>9. Located' BY DEF Located, Overwritten, Places, NoneTooNew
<1>10. LocatedStored' BY DEF LocatedStored, Places, TypedControl
<1>11. OffsetHandedOver' BY DEF OffsetHandedOver
<1>12. ReadYourWrite' BY DEF ReadYourWrite
<1>13. Cached' BY DEF Cached, TypedValues, TypedSets, Values
<1> QED
  BY <1>1, <1>2, <1>3, <1>4, <1>5, <1>6, <1>7, <1>8, <1>9, <1>10, <1>11, <1>12, <1>13, TypeFromParts
       DEF IInv

\* set_property reaches the delegate.
LEMMA SetWithDelegateStep == ASSUME IInv, SetWithDelegate PROVE IInv'
<1> USE Parts, SetBegins, Particular DEF SetWithDelegate, Idle, sink, attachment, member, player
<1>1. /\ pc' \in [Threads -> Labels] /\ pc["app"] = "idle"
      /\ pc'["app"] = (IF type = "PtsOffset" THEN "check" ELSE "store")
      /\ pc'["state"] = pc["state"] /\ pc'["stream"] = pc["stream"]
  BY GotoApp DEF Labels
<1>2. TypedValues' BY <1>1 DEF TypedValues
<1>3. TypedSets' BY AtMostOne DEF TypedSets
<1>4. TypedFlags' BY <1>1 DEF TypedFlags
<1>5. TypedControl' BY <1>1 DEF TypedControl
<1>6. Places' BY <1>1 DEF Places, TypedFlags
<1>7. NoneTooNew'
  <2>1. server <= wanted' /\ m_value <= wanted' BY DEF NoneTooNew, TypedValues, Values
  <2>2. /\ pc["state"] = "send" => reg["state"] <= wanted'
        /\ pc["stream"] \in {"send", "attach"} => reg["stream"] <= wanted'
    BY DEF NoneTooNew, TypedValues, Values, Threads
  <2> QED BY <1>1, <2>1, <2>2 DEF NoneTooNew
<1>8. SourceAgreed' BY <1>1 DEF SourceAgreed, Places
<1>9. Undisturbed' BY <1>1 DEF Undisturbed, Places
<1>10. Located' BY <1>1 DEF Located, Overwritten, Places, NoneTooNew, Undisturbed, SourceAgreed
<1>11. LocatedStored' BY <1>1 DEF LocatedStored, Places, Undisturbed, SourceAgreed
<1>12. OffsetHandedOver' BY <1>1 DEF OffsetHandedOver, Places, Undisturbed
<1>13. ReadYourWrite' BY <1>1 DEF ReadYourWrite
<1>14. Cached' BY <1>1 DEF Cached, TypedValues, TypedSets, Values
<1> QED BY <1>2, <1>3, <1>4, <1>5, <1>6, <1>7, <1>8, <1>9, <1>10, <1>11, <1>12, <1>13,
       <1>14, TypeFromParts DEF IInv

\* A setter without a lock stores the value.
LEMMA StoreStep == ASSUME IInv, Store PROVE IInv'
<1> USE Parts, Kinds, Particular DEF Store, sink, attachment, ghost, player
<1>1. /\ pc' \in [Threads -> Labels] /\ pc["app"] = "store"
      /\ pc'["app"] = (IF type \in Stored THEN "idle" ELSE "check")
      /\ pc'["state"] = pc["state"] /\ pc'["stream"] = pc["stream"]
  BY GotoApp DEF Labels
<1>2. TypedValues' BY <1>1 DEF TypedValues
<1>3. TypedSets' BY <1>1 DEF TypedSets
<1>4. TypedFlags' BY <1>1 DEF TypedFlags
<1>5. TypedControl' BY <1>1 DEF TypedControl
<1>6. Places' BY <1>1 DEF Places, TypedFlags
<1>7. NoneTooNew' BY <1>1 DEF NoneTooNew, Places, TypedValues, Values
<1>8. SourceAgreed' BY <1>1 DEF SourceAgreed, Places
<1>9. Undisturbed' BY <1>1 DEF Undisturbed, Places
<1>10. Located' BY <1>1 DEF Located, Overwritten, Places, NoneTooNew, Undisturbed, SourceAgreed
<1>11. LocatedStored' BY <1>1 DEF LocatedStored, Places, Undisturbed, SourceAgreed
<1>12. OffsetHandedOver' BY <1>1 DEF OffsetHandedOver, Places, Undisturbed
<1>13. ReadYourWrite' BY <1>1 DEF ReadYourWrite
<1>14. Cached' BY <1>1 DEF Cached, Places, NoneTooNew, TypedValues, Values
<1> QED BY <1>2, <1>3, <1>4, <1>5, <1>6, <1>7, <1>8, <1>9, <1>10, <1>11, <1>12, <1>13,
       <1>14, TypeFromParts DEF IInv

\* It looks for the client and the source.
LEMMA CheckStep == ASSUME IInv, Check PROVE IInv'
<1> USE Parts, Kinds, Particular DEF Check, HasToWait, sink, member, attachment, ghost, player
<1>1. /\ pc' \in [Threads -> Labels] /\ pc["app"] = "check"
      /\ pc'["app"] = (IF HasToWait THEN "queue" ELSE "call")
      /\ pc'["state"] = pc["state"] /\ pc'["stream"] = pc["stream"]
  BY GotoApp DEF Labels
<1>2. TypedValues' BY <1>1 DEF TypedValues
<1>3. TypedSets' BY <1>1 DEF TypedSets
<1>4. TypedFlags' BY <1>1 DEF TypedFlags
<1>5. TypedControl' BY <1>1 DEF TypedControl
<1>6. Places' BY <1>1 DEF Places, TypedFlags
<1>7. NoneTooNew' BY <1>1 DEF NoneTooNew, Places, TypedValues, Values
<1>8. SourceAgreed' BY <1>1 DEF SourceAgreed, Places
<1>9. Undisturbed' BY <1>1 DEF Undisturbed, Places
<1>10. Located' BY <1>1 DEF Located, Overwritten, Places, NoneTooNew, Undisturbed, SourceAgreed
<1>11. LocatedStored' BY <1>1 DEF LocatedStored, Places, Undisturbed, SourceAgreed
<1>12. OffsetHandedOver' BY <1>1 DEF OffsetHandedOver, Places, Undisturbed
<1>13. ReadYourWrite' BY <1>1 DEF ReadYourWrite
<1>14. Cached' BY <1>1 DEF Cached, Places, NoneTooNew, TypedValues, Values
<1> QED BY <1>2, <1>3, <1>4, <1>5, <1>6, <1>7, <1>8, <1>9, <1>10, <1>11, <1>12, <1>13,
       <1>14, TypeFromParts DEF IInv

\* It marks the value for the hand-over.
LEMMA QueueStep == ASSUME IInv, Queue PROVE IInv'
<1> USE Parts, Kinds, Particular DEF Queue, sink, attachment, ghost, player
<1>1. /\ pc' \in [Threads -> Labels] /\ pc["app"] = "queue" /\ pc'["app"] = "idle"
      /\ pc'["state"] = pc["state"] /\ pc'["stream"] = pc["stream"]
  BY GotoApp DEF Labels
<1>2. TypedValues' BY <1>1 DEF TypedValues
<1>3. TypedSets' BY <1>1 DEF TypedSets
<1>4. TypedFlags' BY <1>1 DEF TypedFlags
<1>5. TypedControl' BY <1>1 DEF TypedControl
<1>6. Places' BY <1>1 DEF Places, TypedFlags
<1>7. NoneTooNew' BY <1>1 DEF NoneTooNew, Places, TypedValues, Values
<1>8. SourceAgreed' BY <1>1 DEF SourceAgreed, Places
<1>9. Undisturbed' BY <1>1 DEF Undisturbed, Places
<1>10. Located' BY <1>1 DEF Located, Overwritten, Places, NoneTooNew, Undisturbed, SourceAgreed
<1>11. LocatedStored' BY <1>1 DEF LocatedStored, Places, Undisturbed, SourceAgreed
<1>12. OffsetHandedOver' BY <1>1 DEF OffsetHandedOver, Places, Undisturbed
<1>13. ReadYourWrite' BY <1>1 DEF ReadYourWrite
<1>14. Cached' BY <1>1 DEF Cached, Places, NoneTooNew, TypedValues, Values
<1> QED BY <1>2, <1>3, <1>4, <1>5, <1>6, <1>7, <1>8, <1>9, <1>10, <1>11, <1>12, <1>13,
       <1>14, TypeFromParts DEF IInv

\* A setter with the lock stores, checks and queues in one step.
LEMMA StoreLockedStep == ASSUME IInv, StoreLocked PROVE IInv'
<1> USE Parts, Kinds, Particular DEF StoreLocked, HasToWait, SendTo, CacheVolume, sink, attachment,
           ghost, player
<1>1. /\ pc' \in [Threads -> Labels] /\ pc["app"] = "store" /\ pc'["app"] \in {"idle", "call"}
      /\ pc'["app"] = "call" <=> ~HasToWait /\ type \notin SubtitleLocked
      /\ pc'["state"] = pc["state"] /\ pc'["stream"] = pc["stream"]
  BY GotoApp DEF Labels
<1>2. TypedValues' BY <1>1 DEF TypedValues
<1>3. TypedSets' BY <1>1 DEF TypedSets
<1>4. TypedFlags' BY <1>1 DEF TypedFlags
<1>5. TypedControl' BY <1>1 DEF TypedControl
<1>6. Places' BY <1>1 DEF Places, TypedFlags
<1>7. NoneTooNew' BY <1>1 DEF NoneTooNew, Places, TypedValues, Values
<1>8. SourceAgreed' BY <1>1 DEF SourceAgreed, Places
<1>9. Undisturbed' BY <1>1 DEF Undisturbed, Places
<1>10. Located' BY <1>1 DEF Located, Overwritten, Places, NoneTooNew, Undisturbed, SourceAgreed
<1>11. LocatedStored' BY <1>1 DEF LocatedStored, Places, Undisturbed, SourceAgreed
<1>12. OffsetHandedOver' BY <1>1 DEF OffsetHandedOver, Places, Undisturbed
<1>13. ReadYourWrite' BY <1>1 DEF ReadYourWrite
<1>14. Cached' BY <1>1 DEF Cached, Places, NoneTooNew, TypedValues, Values
<1> QED BY <1>2, <1>3, <1>4, <1>5, <1>6, <1>7, <1>8, <1>9, <1>10, <1>11, <1>12, <1>13,
       <1>14, TypeFromParts DEF IInv

\* The value goes to the client directly.
LEMMA CallStep == ASSUME IInv, Call PROVE IInv'
<1> USE Parts, Kinds, Particular DEF Call, SendTo, CacheVolume, sink, member, attachment, ghost,
           player
<1>1. /\ pc' \in [Threads -> Labels] /\ pc["app"] = "call" /\ pc'["app"] = "idle"
      /\ pc'["state"] = pc["state"] /\ pc'["stream"] = pc["stream"]
  BY GotoApp DEF Labels
<1>2. server' \in {server, wanted} /\ m_client BY <1>1 DEF Places
<1>3. excused = {} => server' = wanted BY <1>1 DEF Undisturbed, SourceAgreed
<1>4. TypedValues' BY <1>1 DEF TypedValues
<1>5. TypedSets' BY <1>1 DEF TypedSets
<1>6. TypedFlags' BY <1>1 DEF TypedFlags
<1>7. TypedControl' BY <1>1 DEF TypedControl
<1>8. Places' BY <1>1, <1>2 DEF Places, TypedFlags
<1>9. NoneTooNew' BY <1>1, <1>2 DEF NoneTooNew, Places, TypedValues, Values
<1>10. SourceAgreed' BY <1>1 DEF SourceAgreed, Places
<1>11. Undisturbed' BY <1>1 DEF Undisturbed, Places
<1>12. Located' BY <1>1, <1>3 DEF Located, Overwritten, Places, OffsetHandedOver, Undisturbed
<1>13. LocatedStored' BY <1>1 DEF LocatedStored, Places, Undisturbed, SourceAgreed
<1>14. OffsetHandedOver' BY <1>1 DEF OffsetHandedOver, Places, Undisturbed
<1>15. ReadYourWrite' BY <1>1 DEF ReadYourWrite
<1>16. Cached' BY <1>1 DEF Cached, Places, NoneTooNew, TypedValues, Values
<1> QED BY <1>4, <1>5, <1>6, <1>7, <1>8, <1>9, <1>10, <1>11, <1>12, <1>13, <1>14, <1>15,
       <1>16, TypeFromParts DEF IInv

\* get_property without a delegate reads the queue of the sink.
LEMMA GetWithoutDelegateStep == ASSUME IInv, GetWithoutDelegate PROVE IInv'
<1> USE Parts, Kinds, Particular DEF GetWithoutDelegate, Idle, sink, member, attachment, player
<1>1. pc' = pc /\ pc \in [Threads -> Labels]
  BY DEF TypedControl
<1>2. TypedValues' BY <1>1 DEF TypedValues, Threads
<1>3. TypedSets' BY AtMostOne, <1>1, MaxSetsAssumption DEF TypedSets, Values
<1>4. TypedFlags' BY <1>1 DEF TypedFlags
<1>5. TypedControl' BY <1>1 DEF TypedControl, Excuses, Places, HandingOver, InTransition
<1>6. Places' BY <1>1 DEF Places, TypedFlags, TypedControl, HandingOver, InTransition
<1>7. NoneTooNew'
  BY <1>1 DEF NoneTooNew, Places, HandingOver, TypedValues, TypedControl, Values, Threads
<1>8. SourceAgreed' BY <1>1 DEF SourceAgreed, Places, HandingOver, InTransition
<1>9. Undisturbed' BY <1>1 DEF Undisturbed, Places
<1>10. Located'
  BY <1>1 DEF Located, Overwritten, LocatedStored, Places, NoneTooNew, Undisturbed, SourceAgreed,
     HandingOver
<1>11. LocatedStored'
  BY <1>1 DEF LocatedStored, Located, Overwritten, Places, Undisturbed, SourceAgreed, TypedControl,
     HandingOver
<1>12. OffsetHandedOver' BY <1>1 DEF OffsetHandedOver, Places, Undisturbed, HandingOver
<1>13. ReadYourWrite' BY DEF ReadYourWrite, NoneTooNew
<1>14. Cached' BY <1>1 DEF Cached, Places, NoneTooNew, TypedValues, Values
<1> QED BY <1>2, <1>3, <1>4, <1>5, <1>6, <1>7, <1>8, <1>9, <1>10,
       <1>11, <1>12, <1>13, <1>14, TypeFromParts DEF IInv

\* get_property asks the delegate.
LEMMA GetWithDelegateStep == ASSUME IInv, GetWithDelegate PROVE IInv'
<1> USE Parts, Kinds, Particular DEF GetWithDelegate, Idle, sink, attachment, player
<1>1. pc' = pc /\ pc \in [Threads -> Labels]
  BY DEF TypedControl
<1>2. Answer \in Values BY MaxSetsAssumption DEF Answer, TypedValues, Values
<1>3. ASSUME excused = {}, pc["state"] = "idle", pc["stream"] = "idle",
             m_client => m_sourceAttached \/ type \in Stored, ~crossed
      PROVE  Answer = wanted
  <2>1. type \in Stored \/ ~m_client => Answer = wanted
    BY <1>3 DEF Answer, Located, Overwritten
  <2>2. m_client /\ type \notin Stored => source BY <1>3 DEF SourceAgreed
  <2>3. m_client /\ type \notin Stored => server = wanted BY <1>3 DEF Located
  <2> QED BY <1>3, <2>1, <2>2, <2>3 DEF Answer, Cached
<1>4. type = "Volume" /\ m_client /\ m_isQueued /\ excused' = {} => m_playbackInfo = wanted
  BY DEF Located, Cached
<1>5. TypedValues' BY <1>1, <1>2, <1>3, <1>4 DEF TypedValues, Threads
<1>6. TypedSets' BY <1>2, AtMostOne DEF TypedSets
<1>7. TypedFlags' BY <1>1, <1>2, <1>3, <1>4 DEF TypedFlags
<1>8. TypedControl'
  BY <1>1, <1>2, <1>3, <1>4 DEF TypedControl, Excuses, Places, HandingOver, InTransition
<1>9. Places'
  BY <1>1, <1>2, <1>3, <1>4 DEF Places, TypedFlags, TypedControl, HandingOver, InTransition
<1>10. NoneTooNew'
  BY <1>1, <1>2, <1>3, <1>4 DEF NoneTooNew, Cached, Places, HandingOver, TypedValues, TypedControl,
     Values, Threads
<1>11. SourceAgreed' BY <1>1, <1>2, <1>3, <1>4 DEF SourceAgreed, Places, HandingOver, InTransition
<1>12. Undisturbed' BY <1>1, <1>2, <1>3, <1>4 DEF Undisturbed, Places
<1>13. Located'
  BY <1>1, <1>2, <1>3, <1>4 DEF Located, Overwritten, LocatedStored, Places, NoneTooNew,
     Undisturbed, SourceAgreed, HandingOver
<1>14. LocatedStored'
  BY <1>1, <1>2, <1>3, <1>4 DEF LocatedStored, Located, Overwritten, Places, Undisturbed,
     SourceAgreed, TypedControl, HandingOver
<1>15. OffsetHandedOver'
  BY <1>1, <1>2, <1>3, <1>4 DEF OffsetHandedOver, Places, Undisturbed, HandingOver
<1>16. ReadYourWrite' BY <1>3 DEF ReadYourWrite
<1>17. Cached' BY <1>1 DEF Cached, Places, NoneTooNew, TypedValues, Values
<1> QED BY <1>5, <1>6, <1>7, <1>8, <1>9, <1>10, <1>11, <1>12, <1>13,
       <1>14, <1>15, <1>16, <1>17, TypeFromParts DEF IInv

\* The hand-over with the lock, in READY -> PAUSED.
LEMMA HandOverLockedStateStep == ASSUME IInv, HandOverLocked("state") PROVE IInv'
<1> USE Parts, Kinds, Particular DEF HandOverLocked, SendTo, CacheVolume, ClearFlag, sink,
           attachment, ghost, player
<1>1. /\ pc' \in [Threads -> Labels] /\ pc["state"] = "apply"
      /\ pc'["state"] = "done"
      /\ pc'["app"] = pc["app"] /\ pc'["stream"] = pc["stream"]
  BY GotoState DEF Labels, After
<1>2. TypedValues' BY <1>1 DEF TypedValues, Threads
<1>3. TypedSets' BY <1>1 DEF TypedSets
<1>4. TypedFlags' BY <1>1 DEF TypedFlags
<1>5. TypedControl' BY <1>1 DEF TypedControl, Excuses, Places, HandingOver, InTransition
<1>6. Places' BY <1>1 DEF Places, TypedFlags, TypedControl, HandingOver, InTransition
<1>7. NoneTooNew'
  BY <1>1 DEF NoneTooNew, Places, HandingOver, TypedValues, TypedControl, Values, Threads
<1>8. SourceAgreed' BY <1>1 DEF SourceAgreed, Places, HandingOver, InTransition
<1>9. Undisturbed' BY <1>1 DEF Undisturbed, Places
<1>10. Located'
  BY <1>1 DEF Located, Overwritten, LocatedStored, Places, NoneTooNew, Undisturbed, SourceAgreed,
     HandingOver
<1>11. LocatedStored'
  BY <1>1 DEF LocatedStored, Located, Overwritten, Places, Undisturbed, SourceAgreed, TypedControl,
     HandingOver
<1>12. OffsetHandedOver' BY <1>1 DEF OffsetHandedOver, Places, Undisturbed, HandingOver
<1>13. ReadYourWrite' BY <1>1 DEF ReadYourWrite
<1>14. Cached' BY <1>1 DEF Cached, Places, NoneTooNew, TypedValues, Values
<1> QED BY <1>2, <1>3, <1>4, <1>5, <1>6, <1>7, <1>8, <1>9, <1>10,
       <1>11, <1>12, <1>13, <1>14, TypeFromParts DEF IInv

\* Without it: the flag and the value are read.
LEMMA HandOverReadStateStep == ASSUME IInv, HandOverRead("state") PROVE IInv'
<1> USE Parts, Kinds, Particular DEF HandOverRead, sink, member, attachment, ghost, player
<1>1. /\ pc' \in [Threads -> Labels] /\ pc["state"] = "apply"
      /\ pc'["state"] = (IF m_isQueued THEN "send" ELSE "done")
      /\ pc'["app"] = pc["app"] /\ pc'["stream"] = pc["stream"]
  BY GotoState DEF Labels, After
<1>2. /\ reg' \in [Threads -> Values] /\ reg'["state"] = (IF m_isQueued THEN m_value ELSE 0)
      /\ reg'["stream"] = reg["stream"]
  BY MaxSetsAssumption DEF TypedValues, Values, Threads
<1>3. TypedValues' BY <1>1, <1>2 DEF TypedValues, Threads
<1>4. TypedSets' BY <1>1, <1>2 DEF TypedSets
<1>5. TypedFlags' BY <1>1, <1>2 DEF TypedFlags
<1>6. TypedControl' BY <1>1, <1>2 DEF TypedControl, Excuses, Places, HandingOver, InTransition
<1>7. Places' BY <1>1, <1>2 DEF Places, TypedFlags, TypedControl, HandingOver, InTransition
<1>8. NoneTooNew'
  BY <1>1, <1>2 DEF NoneTooNew, Places, HandingOver, TypedValues, TypedControl, Values, Threads
<1>9. SourceAgreed' BY <1>1, <1>2 DEF SourceAgreed, Places, HandingOver, InTransition
<1>10. Undisturbed' BY <1>1, <1>2 DEF Undisturbed, Places
<1>11. Located'
  BY <1>1, <1>2 DEF Located, Overwritten, LocatedStored, Places, NoneTooNew, Undisturbed,
     SourceAgreed, HandingOver
<1>12. LocatedStored'
  BY <1>1, <1>2 DEF LocatedStored, Located, Overwritten, Places, Undisturbed, SourceAgreed,
     TypedControl, HandingOver
<1>13. OffsetHandedOver' BY <1>1, <1>2 DEF OffsetHandedOver, Places, Undisturbed, HandingOver
<1>14. ReadYourWrite' BY <1>1, <1>2 DEF ReadYourWrite
<1>15. Cached' BY <1>1, <1>2 DEF Cached, Places, NoneTooNew, TypedValues, Values
<1> QED BY <1>3, <1>4, <1>5, <1>6, <1>7, <1>8, <1>9, <1>10, <1>11,
       <1>12, <1>13, <1>14, <1>15, TypeFromParts DEF IInv

\* The value goes to the client.
LEMMA HandOverSendStateStep == ASSUME IInv, HandOverSend("state") PROVE IInv'
<1> USE Parts, Kinds, Particular DEF HandOverSend, SendTo, CacheVolume, sink, member, attachment,
           ghost, player
<1>1. /\ pc' \in [Threads -> Labels] /\ pc["state"] = "send"
      /\ pc'["state"] = "clear"
      /\ pc'["app"] = pc["app"] /\ pc'["stream"] = pc["stream"]
  BY GotoState DEF Labels
<1>2. /\ reg' \in [Threads -> Values] /\ reg'["state"] = 0 /\ reg'["stream"] = reg["stream"]
       /\ reg["state"] \in Values
  BY MaxSetsAssumption DEF TypedValues, Values, Threads
<1>3. TypedValues' BY <1>1, <1>2 DEF TypedValues, Threads
<1>4. TypedSets' BY <1>1, <1>2 DEF TypedSets
<1>5. TypedFlags' BY <1>1, <1>2 DEF TypedFlags
<1>6. TypedControl' BY <1>1, <1>2 DEF TypedControl, Excuses, Places, HandingOver, InTransition
<1>7. Places' BY <1>1, <1>2 DEF Places, TypedFlags, TypedControl, HandingOver, InTransition
<1>8. NoneTooNew'
  BY <1>1, <1>2 DEF NoneTooNew, Places, HandingOver, TypedValues, TypedControl, Values, Threads
<1>9. SourceAgreed' BY <1>1, <1>2 DEF SourceAgreed, Places, HandingOver, InTransition
<1>10. Undisturbed' BY <1>1, <1>2 DEF Undisturbed, Places
<1>11. Located'
  BY <1>1, <1>2 DEF Located, Overwritten, LocatedStored, Places, NoneTooNew, Undisturbed,
     SourceAgreed, HandingOver
<1>12. LocatedStored'
  BY <1>1, <1>2 DEF LocatedStored, Located, Overwritten, Places, Undisturbed, SourceAgreed,
     TypedControl, HandingOver
<1>13. OffsetHandedOver' BY <1>1, <1>2 DEF OffsetHandedOver, Places, Undisturbed, HandingOver
<1>14. ReadYourWrite' BY <1>1, <1>2 DEF ReadYourWrite
<1>15. /\ type = "Volume" => m_playbackInfo' = reg["state"] /\ server' = reg["state"]
       /\ type # "Volume" => m_playbackInfo' = m_playbackInfo
       /\ info' = info /\ ~crossed' /\ reg["state"] <= wanted /\ m_client
  BY <1>1 DEF NoneTooNew, Places, TypedControl, HandingOver
<1>16. Cached' BY <1>15 DEF Cached
<1> QED BY <1>3, <1>4, <1>5, <1>6, <1>7, <1>8, <1>9, <1>10, <1>11,
       <1>12, <1>13, <1>14, <1>16, TypeFromParts DEF IInv

\* The flag is cleared.
LEMMA HandOverClearStateStep == ASSUME IInv, HandOverClear("state") PROVE IInv'
<1> USE Parts, Kinds, Particular DEF HandOverClear, ClearFlag, sink, attachment, ghost, player
<1>1. /\ pc' \in [Threads -> Labels] /\ pc["state"] = "clear"
      /\ pc'["state"] = "done"
      /\ pc'["app"] = pc["app"] /\ pc'["stream"] = pc["stream"]
  BY GotoState DEF Labels, After
<1>2. TypedValues' BY <1>1 DEF TypedValues, Threads
<1>3. TypedSets' BY <1>1 DEF TypedSets
<1>4. TypedFlags' BY <1>1 DEF TypedFlags
<1>5. TypedControl' BY <1>1 DEF TypedControl, Excuses, Places, HandingOver, InTransition
<1>6. Places' BY <1>1 DEF Places, TypedFlags, TypedControl, HandingOver, InTransition
<1>7. NoneTooNew'
  BY <1>1 DEF NoneTooNew, Places, HandingOver, TypedValues, TypedControl, Values, Threads
<1>8. SourceAgreed' BY <1>1 DEF SourceAgreed, Places, HandingOver, InTransition
<1>9. Undisturbed' BY <1>1 DEF Undisturbed, Places
<1>10. Located'
  BY <1>1 DEF Located, Overwritten, LocatedStored, Places, NoneTooNew, Undisturbed, SourceAgreed,
     HandingOver
<1>11. LocatedStored'
  BY <1>1 DEF LocatedStored, Located, Overwritten, Places, Undisturbed, SourceAgreed, TypedControl,
     HandingOver
<1>12. OffsetHandedOver' BY <1>1 DEF OffsetHandedOver, Places, Undisturbed, HandingOver
<1>13. ReadYourWrite' BY <1>1 DEF ReadYourWrite
<1>14. Cached' BY <1>1 DEF Cached, Places, NoneTooNew, TypedValues, Values
<1> QED BY <1>2, <1>3, <1>4, <1>5, <1>6, <1>7, <1>8, <1>9, <1>10,
       <1>11, <1>12, <1>13, <1>14, TypeFromParts DEF IInv

\* The hand-over with the lock, at CAPS.
LEMMA HandOverLockedStreamStep == ASSUME IInv, HandOverLocked("stream") PROVE IInv'
<1> USE Parts, Kinds, Particular DEF HandOverLocked, SendTo, CacheVolume, ClearFlag, sink,
           attachment, ghost, player
<1>1. /\ pc' \in [Threads -> Labels] /\ pc["stream"] = "apply"
      /\ pc'["stream"] = "idle"
      /\ pc'["app"] = pc["app"] /\ pc'["state"] = pc["state"]
  BY GotoStream DEF Labels, After
<1>2. TypedValues' BY <1>1 DEF TypedValues, Threads
<1>3. TypedSets' BY <1>1 DEF TypedSets
<1>4. TypedFlags' BY <1>1 DEF TypedFlags
<1>5. TypedControl' BY <1>1 DEF TypedControl, Excuses, Places, HandingOver, InTransition
<1>6. Places' BY <1>1 DEF Places, TypedFlags, TypedControl, HandingOver, InTransition
<1>7. NoneTooNew'
  BY <1>1 DEF NoneTooNew, Places, HandingOver, TypedValues, TypedControl, Values, Threads
<1>8. SourceAgreed' BY <1>1 DEF SourceAgreed, Places, HandingOver, InTransition
<1>9. Undisturbed' BY <1>1 DEF Undisturbed, Places
<1>10. Located'
  BY <1>1 DEF Located, Overwritten, LocatedStored, Places, NoneTooNew, Undisturbed, SourceAgreed,
     HandingOver
<1>11. LocatedStored'
  BY <1>1 DEF LocatedStored, Located, Overwritten, Places, Undisturbed, SourceAgreed, TypedControl,
     HandingOver
<1>12. OffsetHandedOver' BY <1>1 DEF OffsetHandedOver, Places, Undisturbed, HandingOver
<1>13. ReadYourWrite' BY <1>1 DEF ReadYourWrite
<1>14. Cached' BY <1>1 DEF Cached, Places, NoneTooNew, TypedValues, Values
<1> QED BY <1>2, <1>3, <1>4, <1>5, <1>6, <1>7, <1>8, <1>9, <1>10,
       <1>11, <1>12, <1>13, <1>14, TypeFromParts DEF IInv

\* Without it: the flag and the value are read.
LEMMA HandOverReadStreamStep == ASSUME IInv, HandOverRead("stream") PROVE IInv'
<1> USE Parts, Kinds, Particular DEF HandOverRead, sink, member, attachment, ghost, player
<1>1. /\ pc' \in [Threads -> Labels] /\ pc["stream"] = "apply"
      /\ pc'["stream"] = (IF m_isQueued THEN "send" ELSE "idle")
      /\ pc'["app"] = pc["app"] /\ pc'["state"] = pc["state"]
  BY GotoStream DEF Labels, After
<1>2. /\ reg' \in [Threads -> Values] /\ reg'["stream"] = (IF m_isQueued THEN m_value ELSE 0)
      /\ reg'["state"] = reg["state"]
  BY MaxSetsAssumption DEF TypedValues, Values, Threads
<1>3. TypedValues' BY <1>1, <1>2 DEF TypedValues, Threads
<1>4. TypedSets' BY <1>1, <1>2 DEF TypedSets
<1>5. TypedFlags' BY <1>1, <1>2 DEF TypedFlags
<1>6. TypedControl' BY <1>1, <1>2 DEF TypedControl, Excuses, Places, HandingOver, InTransition
<1>7. Places' BY <1>1, <1>2 DEF Places, TypedFlags, TypedControl, HandingOver, InTransition
<1>8. NoneTooNew'
  BY <1>1, <1>2 DEF NoneTooNew, Places, HandingOver, TypedValues, TypedControl, Values, Threads
<1>9. SourceAgreed' BY <1>1, <1>2 DEF SourceAgreed, Places, HandingOver, InTransition
<1>10. Undisturbed' BY <1>1, <1>2 DEF Undisturbed, Places
<1>11. Located'
  BY <1>1, <1>2 DEF Located, Overwritten, LocatedStored, Places, NoneTooNew, Undisturbed,
     SourceAgreed, HandingOver
<1>12. LocatedStored'
  BY <1>1, <1>2 DEF LocatedStored, Located, Overwritten, Places, Undisturbed, SourceAgreed,
     TypedControl, HandingOver
<1>13. OffsetHandedOver' BY <1>1, <1>2 DEF OffsetHandedOver, Places, Undisturbed, HandingOver
<1>14. ReadYourWrite' BY <1>1, <1>2 DEF ReadYourWrite
<1>15. Cached' BY <1>1, <1>2 DEF Cached, Places, NoneTooNew, TypedValues, Values
<1> QED BY <1>3, <1>4, <1>5, <1>6, <1>7, <1>8, <1>9, <1>10, <1>11,
       <1>12, <1>13, <1>14, <1>15, TypeFromParts DEF IInv

\* The value goes to the client.
LEMMA HandOverSendStreamStep == ASSUME IInv, HandOverSend("stream") PROVE IInv'
<1> USE Parts, Kinds, Particular DEF HandOverSend, SendTo, CacheVolume, sink, member, attachment,
           ghost, player
<1>1. /\ pc' \in [Threads -> Labels] /\ pc["stream"] = "send"
      /\ pc'["stream"] = "clear"
      /\ pc'["app"] = pc["app"] /\ pc'["state"] = pc["state"]
  BY GotoStream DEF Labels
<1>2. /\ reg' \in [Threads -> Values] /\ reg'["stream"] = 0 /\ reg'["state"] = reg["state"]
       /\ reg["stream"] \in Values
  BY MaxSetsAssumption DEF TypedValues, Values, Threads
<1>3. TypedValues' BY <1>1, <1>2 DEF TypedValues, Threads
<1>4. TypedSets' BY <1>1, <1>2 DEF TypedSets
<1>5. TypedFlags' BY <1>1, <1>2 DEF TypedFlags
<1>6. TypedControl' BY <1>1, <1>2 DEF TypedControl, Excuses, Places, HandingOver, InTransition
<1>7. Places' BY <1>1, <1>2 DEF Places, TypedFlags, TypedControl, HandingOver, InTransition
<1>8. NoneTooNew'
  BY <1>1, <1>2 DEF NoneTooNew, Places, HandingOver, TypedValues, TypedControl, Values, Threads
<1>9. SourceAgreed' BY <1>1, <1>2 DEF SourceAgreed, Places, HandingOver, InTransition
<1>10. Undisturbed' BY <1>1, <1>2 DEF Undisturbed, Places
<1>11. Located'
  BY <1>1, <1>2 DEF Located, Overwritten, LocatedStored, Places, NoneTooNew, Undisturbed,
     SourceAgreed, HandingOver
<1>12. LocatedStored'
  BY <1>1, <1>2 DEF LocatedStored, Located, Overwritten, Places, Undisturbed, SourceAgreed,
     TypedControl, HandingOver
<1>13. OffsetHandedOver' BY <1>1, <1>2 DEF OffsetHandedOver, Places, Undisturbed, HandingOver
<1>14. ReadYourWrite' BY <1>1, <1>2 DEF ReadYourWrite
<1>15. /\ type = "Volume" => m_playbackInfo' = reg["stream"] /\ server' = reg["stream"]
       /\ type # "Volume" => m_playbackInfo' = m_playbackInfo
       /\ info' = info /\ ~crossed' /\ reg["stream"] <= wanted /\ m_client
  BY <1>1 DEF NoneTooNew, Places, TypedControl, HandingOver
<1>16. Cached' BY <1>15 DEF Cached
<1> QED BY <1>3, <1>4, <1>5, <1>6, <1>7, <1>8, <1>9, <1>10, <1>11,
       <1>12, <1>13, <1>14, <1>16, TypeFromParts DEF IInv

\* The flag is cleared.
LEMMA HandOverClearStreamStep == ASSUME IInv, HandOverClear("stream") PROVE IInv'
<1> USE Parts, Kinds, Particular DEF HandOverClear, ClearFlag, sink, attachment, ghost, player
<1>1. /\ pc' \in [Threads -> Labels] /\ pc["stream"] = "clear"
      /\ pc'["stream"] = "idle"
      /\ pc'["app"] = pc["app"] /\ pc'["state"] = pc["state"]
  BY GotoStream DEF Labels, After
<1>2. TypedValues' BY <1>1 DEF TypedValues, Threads
<1>3. TypedSets' BY <1>1 DEF TypedSets
<1>4. TypedFlags' BY <1>1 DEF TypedFlags
<1>5. TypedControl' BY <1>1 DEF TypedControl, Excuses, Places, HandingOver, InTransition
<1>6. Places' BY <1>1 DEF Places, TypedFlags, TypedControl, HandingOver, InTransition
<1>7. NoneTooNew'
  BY <1>1 DEF NoneTooNew, Places, HandingOver, TypedValues, TypedControl, Values, Threads
<1>8. SourceAgreed' BY <1>1 DEF SourceAgreed, Places, HandingOver, InTransition
<1>9. Undisturbed' BY <1>1 DEF Undisturbed, Places
<1>10. Located'
  BY <1>1 DEF Located, Overwritten, LocatedStored, Places, NoneTooNew, Undisturbed, SourceAgreed,
     HandingOver
<1>11. LocatedStored'
  BY <1>1 DEF LocatedStored, Located, Overwritten, Places, Undisturbed, SourceAgreed, TypedControl,
     HandingOver
<1>12. OffsetHandedOver' BY <1>1 DEF OffsetHandedOver, Places, Undisturbed, HandingOver
<1>13. ReadYourWrite' BY <1>1 DEF ReadYourWrite
<1>14. Cached' BY <1>1 DEF Cached, Places, NoneTooNew, TypedValues, Values
<1> QED BY <1>2, <1>3, <1>4, <1>5, <1>6, <1>7, <1>8, <1>9, <1>10,
       <1>11, <1>12, <1>13, <1>14, TypeFromParts DEF IInv

\* A new delegate takes what waited in the sink.
LEMMA NullToReadyStep == ASSUME IInv, NullToReady PROVE IInv'
<1> USE Parts, Kinds, Particular DEF NullToReady, GiveQueued, ClearQueuedProperties, Idle,
           attachment, player
<1>1. /\ pc' \in [Threads -> Labels] /\ pc["state"] = "idle"
      /\ pc'["state"] = "wait"
      /\ pc'["app"] = pc["app"] /\ pc'["stream"] = pc["stream"]
  BY GotoState DEF Labels
<1>2. m_queuedProperties = {} \/ m_queuedProperties = {wanted} BY DEF NoneTooNew, TypedControl
<1>3. m_value' = (IF m_queuedProperties = {} THEN 0 ELSE wanted) BY <1>2
<1>4. m_value' \in Values
  <2>1. 0 \in Values /\ wanted \in Values BY MaxSetsAssumption DEF Values, TypedValues
  <2> QED BY <1>3, <2>1
<1>5. TypedValues' BY <1>4 DEF TypedValues
<1>6. TypedSets' BY AtMostOne DEF TypedSets
<1>7. TypedFlags' BY <1>1, <1>2, <1>3, <1>4 DEF TypedFlags
<1>8. TypedControl'
  BY <1>1, <1>2, <1>3, <1>4 DEF TypedControl, Excuses, Places, HandingOver, InTransition
<1>9. Places'
  BY <1>1, <1>2, <1>3, <1>4 DEF Places, TypedFlags, TypedControl, HandingOver, InTransition
<1>10. NoneTooNew'
  BY <1>1, <1>2, <1>3, <1>4 DEF NoneTooNew, Places, HandingOver, TypedValues, TypedControl, Values,
     Threads
<1>11. SourceAgreed' BY <1>1, <1>2, <1>3, <1>4 DEF SourceAgreed, Places, HandingOver, InTransition
<1>12. Undisturbed' BY <1>1, <1>2, <1>3, <1>4 DEF Undisturbed, Places
<1>13. Located'
  BY <1>1, <1>2, <1>3, <1>4 DEF Located, Overwritten, LocatedStored, Places, NoneTooNew,
     Undisturbed, SourceAgreed, HandingOver
<1>14. LocatedStored'
  BY <1>1, <1>2, <1>3, <1>4 DEF LocatedStored, Located, Overwritten, Places, Undisturbed,
     SourceAgreed, TypedControl, HandingOver
<1>15. OffsetHandedOver'
  BY <1>1, <1>2, <1>3, <1>4 DEF OffsetHandedOver, Places, Undisturbed, HandingOver
<1>16. ReadYourWrite' BY <1>1, <1>2, <1>3, <1>4 DEF ReadYourWrite
<1>17. Cached' BY <1>1 DEF Cached, Places, NoneTooNew, TypedValues, Values
<1> QED BY <1>5, <1>6, <1>7, <1>8, <1>9, <1>10, <1>11, <1>12, <1>13,
       <1>14, <1>15, <1>16, <1>17, TypeFromParts DEF IInv

\* The server announces an application state.
LEMMA OnApplicationStateChangedStep == ASSUME IInv, OnApplicationStateChanged PROVE IInv'
<1> USE Parts, Kinds, Particular DEF OnApplicationStateChanged, member, attachment, ghost, player
<1>1. pc' = pc /\ pc \in [Threads -> Labels]
  BY DEF TypedControl
<1>2. TypedValues' BY <1>1 DEF TypedValues, Threads
<1>3. TypedSets' BY <1>1 DEF TypedSets
<1>4. TypedFlags' BY <1>1 DEF TypedFlags
<1>5. TypedControl' BY <1>1 DEF TypedControl, Excuses, Places, HandingOver, InTransition
<1>6. Places' BY <1>1 DEF Places, TypedFlags, TypedControl, HandingOver, InTransition
<1>7. NoneTooNew'
  BY <1>1 DEF NoneTooNew, Places, HandingOver, TypedValues, TypedControl, Values, Threads
<1>8. SourceAgreed' BY <1>1 DEF SourceAgreed, Places, HandingOver, InTransition
<1>9. Undisturbed' BY <1>1 DEF Undisturbed, Places
<1>10. Located'
  BY <1>1 DEF Located, Overwritten, LocatedStored, Places, NoneTooNew, Undisturbed, SourceAgreed,
     HandingOver
<1>11. LocatedStored'
  BY <1>1 DEF LocatedStored, Located, Overwritten, Places, Undisturbed, SourceAgreed, TypedControl,
     HandingOver
<1>12. OffsetHandedOver' BY <1>1 DEF OffsetHandedOver, Places, Undisturbed, HandingOver
<1>13. ReadYourWrite' BY <1>1 DEF ReadYourWrite
<1>14. Cached' BY <1>1 DEF Cached, Places, NoneTooNew, TypedValues, Values
<1> QED BY <1>2, <1>3, <1>4, <1>5, <1>6, <1>7, <1>8, <1>9, <1>10,
       <1>11, <1>12, <1>13, <1>14, TypeFromParts DEF IInv

\* The wait for RUNNING is over, with READY or with NULL.
LEMMA NullToReadyEndStep == ASSUME IInv, NullToReadyEnd PROVE IInv'
<1> USE Parts, Kinds, Particular DEF NullToReadyEnd, WaitForRunning, member, attachment, ghost,
           player
<1>1. /\ pc' \in [Threads -> Labels] /\ pc["state"] = "wait"
      /\ pc'["state"] = "idle"
      /\ pc'["app"] = pc["app"] /\ pc'["stream"] = pc["stream"]
  BY GotoState DEF Labels
<1>2. TypedValues' BY <1>1 DEF TypedValues, Threads
<1>3. TypedSets' BY <1>1 DEF TypedSets
<1>4. TypedFlags' BY <1>1 DEF TypedFlags
<1>5. TypedControl' BY <1>1 DEF TypedControl, Excuses, Places, HandingOver, InTransition
<1>6. Places' BY <1>1 DEF Places, TypedFlags, TypedControl, HandingOver, InTransition
<1>7. NoneTooNew'
  BY <1>1 DEF NoneTooNew, Places, HandingOver, TypedValues, TypedControl, Values, Threads
<1>8. SourceAgreed' BY <1>1 DEF SourceAgreed, Places, HandingOver, InTransition
<1>9. Undisturbed' BY <1>1 DEF Undisturbed, Places
<1>10. Located'
  BY <1>1 DEF Located, Overwritten, LocatedStored, Places, NoneTooNew, Undisturbed, SourceAgreed,
     HandingOver
<1>11. LocatedStored'
  BY <1>1 DEF LocatedStored, Located, Overwritten, Places, Undisturbed, SourceAgreed, TypedControl,
     HandingOver
<1>12. OffsetHandedOver' BY <1>1 DEF OffsetHandedOver, Places, Undisturbed, HandingOver
<1>13. ReadYourWrite' BY <1>1 DEF ReadYourWrite
<1>14. Cached' BY <1>1 DEF Cached, Places, NoneTooNew, TypedValues, Values
<1> QED BY <1>2, <1>3, <1>4, <1>5, <1>6, <1>7, <1>8, <1>9, <1>10,
       <1>11, <1>12, <1>13, <1>14, TypeFromParts DEF IInv

\* The sink gets its client.
LEMMA ReadyToPausedStep == ASSUME IInv, ReadyToPaused PROVE IInv'
<1> USE Parts, Kinds, Particular DEF ReadyToPaused, UseStored, Idle, sink, member, player
<1>1. /\ pc' \in [Threads -> Labels] /\ pc["state"] = "idle"
      /\ pc'["state"] = (IF type \in AtPaused THEN "apply" ELSE "done")
      /\ pc'["app"] = pc["app"] /\ pc'["stream"] = pc["stream"]
  BY GotoState DEF Labels
<1>2. TypedValues' BY <1>1 DEF TypedValues, Threads
<1>3. TypedSets' BY <1>1 DEF TypedSets
<1>4. TypedFlags' BY <1>1 DEF TypedFlags
<1>5. TypedControl' BY <1>1 DEF TypedControl, Excuses, Places, HandingOver, InTransition
<1>6. Places' BY <1>1 DEF Places, TypedFlags, TypedControl, HandingOver, InTransition
<1>7. NoneTooNew'
  BY <1>1 DEF NoneTooNew, Places, HandingOver, TypedValues, TypedControl, Values, Threads
<1>8. SourceAgreed' BY <1>1 DEF SourceAgreed, Places, HandingOver, InTransition
<1>9. Undisturbed' BY <1>1 DEF Undisturbed, Places
<1>10. Located'
  BY <1>1 DEF Located, Overwritten, LocatedStored, Places, NoneTooNew, Undisturbed, SourceAgreed,
     HandingOver
<1>11. LocatedStored'
  BY <1>1 DEF LocatedStored, Located, Overwritten, Places, Undisturbed, SourceAgreed, TypedControl,
     HandingOver
<1>12. OffsetHandedOver' BY <1>1 DEF OffsetHandedOver, Places, Undisturbed, HandingOver
<1>13. ReadYourWrite' BY <1>1 DEF ReadYourWrite
<1>14. Cached' BY <1>1 DEF Cached, Places, NoneTooNew, TypedValues, Values
<1> QED BY <1>2, <1>3, <1>4, <1>5, <1>6, <1>7, <1>8, <1>9, <1>10,
       <1>11, <1>12, <1>13, <1>14, TypeFromParts DEF IInv

\* READY -> PAUSED is over.
LEMMA ReadyToPausedEndStep == ASSUME IInv, ReadyToPausedEnd PROVE IInv'
<1> USE Parts, Kinds, Particular DEF ReadyToPausedEnd, member, attachment, ghost, player
<1>1. /\ pc' \in [Threads -> Labels] /\ pc["state"] = "done"
      /\ pc'["state"] = "idle"
      /\ pc'["app"] = pc["app"] /\ pc'["stream"] = pc["stream"]
  BY GotoState DEF Labels
<1>2. TypedValues' BY <1>1 DEF TypedValues, Threads
<1>3. TypedSets' BY <1>1 DEF TypedSets
<1>4. TypedFlags' BY <1>1 DEF TypedFlags
<1>5. TypedControl' BY <1>1 DEF TypedControl, Excuses, Places, HandingOver, InTransition
<1>6. Places' BY <1>1 DEF Places, TypedFlags, TypedControl, HandingOver, InTransition
<1>7. NoneTooNew'
  BY <1>1 DEF NoneTooNew, Places, HandingOver, TypedValues, TypedControl, Values, Threads
<1>8. SourceAgreed' BY <1>1 DEF SourceAgreed, Places, HandingOver, InTransition
<1>9. Undisturbed' BY <1>1 DEF Undisturbed, Places
<1>10. Located'
  BY <1>1 DEF Located, Overwritten, LocatedStored, Places, NoneTooNew, Undisturbed, SourceAgreed,
     HandingOver
<1>11. LocatedStored'
  BY <1>1 DEF LocatedStored, Located, Overwritten, Places, Undisturbed, SourceAgreed, TypedControl,
     HandingOver
<1>12. OffsetHandedOver' BY <1>1 DEF OffsetHandedOver, Places, Undisturbed, HandingOver
<1>13. ReadYourWrite' BY <1>1 DEF ReadYourWrite
<1>14. Cached' BY <1>1 DEF Cached, Places, NoneTooNew, TypedValues, Values
<1> QED BY <1>2, <1>3, <1>4, <1>5, <1>6, <1>7, <1>8, <1>9, <1>10,
       <1>11, <1>12, <1>13, <1>14, TypeFromParts DEF IInv

\* The source is removed.
LEMMA PausedToReadyStep == ASSUME IInv, PausedToReady PROVE IInv'
<1> USE Parts, Kinds, Particular DEF PausedToReady, Beside, Idle, sink, member, player
<1>1. /\ pc' \in [Threads -> Labels] /\ pc["state"] = "idle"
      /\ pc'["state"] = "removed"
      /\ pc'["app"] = pc["app"] /\ pc'["stream"] = pc["stream"]
  BY GotoState DEF Labels
<1>2. TypedValues' BY <1>1 DEF TypedValues, Threads
<1>3. TypedSets' BY <1>1 DEF TypedSets
<1>4. TypedFlags' BY <1>1 DEF TypedFlags
<1>5. TypedControl' BY <1>1 DEF TypedControl, Excuses, Places, HandingOver, InTransition
<1>6. Places' BY <1>1 DEF Places, TypedFlags, TypedControl, HandingOver, InTransition
<1>7. NoneTooNew'
  BY <1>1 DEF NoneTooNew, Places, HandingOver, TypedValues, TypedControl, Values, Threads
<1>8. SourceAgreed' BY <1>1 DEF SourceAgreed, Places, HandingOver, InTransition
<1>9. Undisturbed' BY <1>1 DEF Undisturbed, Places
<1>10. Located'
  BY <1>1 DEF Located, Overwritten, LocatedStored, Places, NoneTooNew, Undisturbed, SourceAgreed,
     HandingOver
<1>11. LocatedStored'
  BY <1>1 DEF LocatedStored, Located, Overwritten, Places, Undisturbed, SourceAgreed, TypedControl,
     HandingOver
<1>12. OffsetHandedOver' BY <1>1 DEF OffsetHandedOver, Places, Undisturbed, HandingOver
<1>13. ReadYourWrite' BY <1>1 DEF ReadYourWrite
<1>14. Cached' BY <1>1 DEF Cached, Places, NoneTooNew, TypedValues, Values
<1> QED BY <1>2, <1>3, <1>4, <1>5, <1>6, <1>7, <1>8, <1>9, <1>10,
       <1>11, <1>12, <1>13, <1>14, TypeFromParts DEF IInv

\* The delegate forgets the source.
LEMMA PausedToReadyForgetStep == ASSUME IInv, PausedToReadyForget PROVE IInv'
<1> USE Parts, Kinds, Particular DEF PausedToReadyForget, sink, member, ghost, player
<1>1. /\ pc' \in [Threads -> Labels] /\ pc["state"] = "removed"
      /\ pc'["state"] = "forgotten"
      /\ pc'["app"] = pc["app"] /\ pc'["stream"] = pc["stream"]
  BY GotoState DEF Labels
<1>2. TypedValues' BY <1>1 DEF TypedValues, Threads
<1>3. TypedSets' BY <1>1 DEF TypedSets
<1>4. TypedFlags' BY <1>1 DEF TypedFlags
<1>5. TypedControl' BY <1>1 DEF TypedControl, Excuses, Places, HandingOver, InTransition
<1>6. Places' BY <1>1 DEF Places, TypedFlags, TypedControl, HandingOver, InTransition
<1>7. NoneTooNew'
  BY <1>1 DEF NoneTooNew, Places, HandingOver, TypedValues, TypedControl, Values, Threads
<1>8. SourceAgreed' BY <1>1 DEF SourceAgreed, Places, HandingOver, InTransition
<1>9. Undisturbed' BY <1>1 DEF Undisturbed, Places
<1>10. Located'
  BY <1>1 DEF Located, Overwritten, LocatedStored, Places, NoneTooNew, Undisturbed, SourceAgreed,
     HandingOver
<1>11. LocatedStored'
  BY <1>1 DEF LocatedStored, Located, Overwritten, Places, Undisturbed, SourceAgreed, TypedControl,
     HandingOver
<1>12. OffsetHandedOver' BY <1>1 DEF OffsetHandedOver, Places, Undisturbed, HandingOver
<1>13. ReadYourWrite' BY <1>1 DEF ReadYourWrite
<1>14. Cached' BY <1>1 DEF Cached, Places, NoneTooNew, TypedValues, Values
<1> QED BY <1>2, <1>3, <1>4, <1>5, <1>6, <1>7, <1>8, <1>9, <1>10,
       <1>11, <1>12, <1>13, <1>14, TypeFromParts DEF IInv

\* The pad lets no more events in.
LEMMA PadDeactivateStep == ASSUME IInv, PadDeactivate PROVE IInv'
<1> USE Parts, Kinds, Particular DEF PadDeactivate, sink, member, attachment, ghost, player
<1>1. /\ pc' \in [Threads -> Labels] /\ pc["state"] = "forgotten"
      /\ pc'["state"] = "deactivate"
      /\ pc'["app"] = pc["app"] /\ pc'["stream"] = pc["stream"]
  BY GotoState DEF Labels
<1>2. TypedValues' BY <1>1 DEF TypedValues, Threads
<1>3. TypedSets' BY <1>1 DEF TypedSets
<1>4. TypedFlags' BY <1>1 DEF TypedFlags
<1>5. TypedControl' BY <1>1 DEF TypedControl, Excuses, Places, HandingOver, InTransition
<1>6. Places' BY <1>1 DEF Places, TypedFlags, TypedControl, HandingOver, InTransition
<1>7. NoneTooNew'
  BY <1>1 DEF NoneTooNew, Places, HandingOver, TypedValues, TypedControl, Values, Threads
<1>8. SourceAgreed' BY <1>1 DEF SourceAgreed, Places, HandingOver, InTransition
<1>9. Undisturbed' BY <1>1 DEF Undisturbed, Places
<1>10. Located'
  BY <1>1 DEF Located, Overwritten, LocatedStored, Places, NoneTooNew, Undisturbed, SourceAgreed,
     HandingOver
<1>11. LocatedStored'
  BY <1>1 DEF LocatedStored, Located, Overwritten, Places, Undisturbed, SourceAgreed, TypedControl,
     HandingOver
<1>12. OffsetHandedOver' BY <1>1 DEF OffsetHandedOver, Places, Undisturbed, HandingOver
<1>13. ReadYourWrite' BY <1>1 DEF ReadYourWrite
<1>14. Cached' BY <1>1 DEF Cached, Places, NoneTooNew, TypedValues, Values
<1> QED BY <1>2, <1>3, <1>4, <1>5, <1>6, <1>7, <1>8, <1>9, <1>10,
       <1>11, <1>12, <1>13, <1>14, TypeFromParts DEF IInv

\* PAUSED -> READY is over.
LEMMA PausedToReadyEndStep == ASSUME IInv, PausedToReadyEnd PROVE IInv'
<1> USE Parts, Kinds, Particular DEF PausedToReadyEnd, Idle, member, attachment, ghost, player
<1>1. /\ pc' \in [Threads -> Labels] /\ pc["state"] = "deactivate"
      /\ pc'["state"] = "idle"
      /\ pc'["app"] = pc["app"] /\ pc'["stream"] = pc["stream"]
  BY GotoState DEF Labels
<1>2. TypedValues' BY <1>1 DEF TypedValues, Threads
<1>3. TypedSets' BY <1>1 DEF TypedSets
<1>4. TypedFlags' BY <1>1 DEF TypedFlags
<1>5. TypedControl' BY <1>1 DEF TypedControl, Excuses, Places, HandingOver, InTransition
<1>6. Places' BY <1>1 DEF Places, TypedFlags, TypedControl, HandingOver, InTransition
<1>7. NoneTooNew'
  BY <1>1 DEF NoneTooNew, Places, HandingOver, TypedValues, TypedControl, Values, Threads
<1>8. SourceAgreed' BY <1>1 DEF SourceAgreed, Places, HandingOver, InTransition
<1>9. Undisturbed' BY <1>1 DEF Undisturbed, Places
<1>10. Located'
  BY <1>1 DEF Located, Overwritten, LocatedStored, Places, NoneTooNew, Undisturbed, SourceAgreed,
     HandingOver
<1>11. LocatedStored'
  BY <1>1 DEF LocatedStored, Located, Overwritten, Places, Undisturbed, SourceAgreed, TypedControl,
     HandingOver
<1>12. OffsetHandedOver' BY <1>1 DEF OffsetHandedOver, Places, Undisturbed, HandingOver
<1>13. ReadYourWrite' BY <1>1 DEF ReadYourWrite
<1>14. Cached' BY <1>1 DEF Cached, Places, NoneTooNew, TypedValues, Values
<1> QED BY <1>2, <1>3, <1>4, <1>5, <1>6, <1>7, <1>8, <1>9, <1>10,
       <1>11, <1>12, <1>13, <1>14, TypeFromParts DEF IInv

\* The session ends.
LEMMA ReadyToNullStep == ASSUME IInv, ReadyToNull PROVE IInv'
<1> USE Parts, Kinds, Particular DEF ReadyToNull, Idle
<1>1. pc' = pc /\ pc \in [Threads -> Labels]
  BY DEF TypedControl
<1>2. TypedValues' BY MaxSetsAssumption DEF TypedValues, Values
<1>3. TypedSets' BY AtMostOne DEF TypedSets
<1>4. TypedFlags' BY <1>1 DEF TypedFlags
<1>5. TypedControl' BY <1>1 DEF TypedControl, Excuses, Places, HandingOver, InTransition
<1>6. Places' BY <1>1 DEF Places, TypedFlags, TypedControl, HandingOver, InTransition
<1>7. NoneTooNew'
  BY <1>1 DEF NoneTooNew, Places, HandingOver, TypedValues, TypedControl, Values, Threads
<1>8. SourceAgreed' BY <1>1 DEF SourceAgreed, Places, HandingOver, InTransition
<1>9. Undisturbed' BY <1>1 DEF Undisturbed, Places
<1>10. Located'
  BY <1>1 DEF Located, Overwritten, LocatedStored, Places, NoneTooNew, Undisturbed, SourceAgreed,
     HandingOver
<1>11. LocatedStored'
  BY <1>1 DEF LocatedStored, Located, Overwritten, Places, Undisturbed, SourceAgreed, TypedControl,
     HandingOver
<1>12. OffsetHandedOver' BY <1>1 DEF OffsetHandedOver, Places, Undisturbed, HandingOver
<1>13. ReadYourWrite' BY <1>1 DEF ReadYourWrite
<1>14. Cached' BY <1>1 DEF Cached, Places, NoneTooNew, TypedValues, Values
<1> QED BY <1>2, <1>3, <1>4, <1>5, <1>6, <1>7, <1>8, <1>9, <1>10,
       <1>11, <1>12, <1>13, <1>14, TypeFromParts DEF IInv

\* The CAPS event reads what goes into the source.
LEMMA CapsStep == ASSUME IInv, Caps PROVE IInv'
<1> USE Parts, Kinds, Particular DEF Caps, Idle, RaceCaps, sink, member, attachment, player
<1>1. /\ pc' \in [Threads -> Labels] /\ pc["stream"] = "idle"
      /\ pc'["stream"] = "attach"
      /\ pc'["app"] = pc["app"] /\ pc'["state"] = pc["state"]
  BY GotoStream DEF Labels
<1>2. /\ reg' \in [Threads -> Values] /\ reg'["stream"] = (IF type \in InMediaSource THEN m_value ELSE 0)
      /\ reg'["state"] = reg["state"]
  BY MaxSetsAssumption DEF TypedValues, Values, Threads
<1>3. TypedValues' BY <1>1, <1>2 DEF TypedValues, Threads
<1>4. TypedSets' BY <1>1, <1>2 DEF TypedSets
<1>5. TypedFlags' BY <1>1, <1>2 DEF TypedFlags
<1>6. TypedControl' BY <1>1, <1>2 DEF TypedControl, Excuses, Places, HandingOver, InTransition
<1>7. Places' BY <1>1, <1>2 DEF Places, TypedFlags, TypedControl, HandingOver, InTransition
<1>8. NoneTooNew'
  BY <1>1, <1>2 DEF NoneTooNew, Places, HandingOver, TypedValues, TypedControl, Values, Threads
<1>9. SourceAgreed' BY <1>1, <1>2 DEF SourceAgreed, Places, HandingOver, InTransition
<1>10. Undisturbed' BY <1>1, <1>2 DEF Undisturbed, Places
<1>11. Located'
  BY <1>1, <1>2 DEF Located, Overwritten, LocatedStored, Places, NoneTooNew, Undisturbed,
     SourceAgreed, HandingOver
<1>12. LocatedStored'
  BY <1>1, <1>2 DEF LocatedStored, Located, Overwritten, Places, Undisturbed, SourceAgreed,
     TypedControl, HandingOver
<1>13. OffsetHandedOver' BY <1>1, <1>2 DEF OffsetHandedOver, Places, Undisturbed, HandingOver
<1>14. ReadYourWrite' BY <1>1, <1>2 DEF ReadYourWrite
<1>15. Cached' BY <1>1, <1>2 DEF Cached, Places, NoneTooNew, TypedValues, Values
<1> QED BY <1>3, <1>4, <1>5, <1>6, <1>7, <1>8, <1>9, <1>10, <1>11,
       <1>12, <1>13, <1>14, <1>15, TypeFromParts DEF IInv

\* The delegate knows that the source is attached.
LEMMA CapsMarkStep == ASSUME IInv, CapsMark PROVE IInv'
<1> USE Parts, Kinds, Particular DEF CapsMark, sink, member, ghost, player
<1>1. /\ pc' \in [Threads -> Labels] /\ pc["stream"] = "mark"
      /\ pc'["stream"] = (IF type \in AtCaps THEN "apply" ELSE "idle")
      /\ pc'["app"] = pc["app"] /\ pc'["state"] = pc["state"]
  BY GotoStream DEF Labels
<1>2. TypedValues' BY <1>1 DEF TypedValues, Threads
<1>3. TypedSets' BY <1>1 DEF TypedSets
<1>4. TypedFlags' BY <1>1 DEF TypedFlags
<1>5. TypedControl' BY <1>1 DEF TypedControl, Excuses, Places, HandingOver, InTransition
<1>6. Places' BY <1>1 DEF Places, TypedFlags, TypedControl, HandingOver, InTransition
<1>7. NoneTooNew'
  BY <1>1 DEF NoneTooNew, Places, HandingOver, TypedValues, TypedControl, Values, Threads
<1>8. SourceAgreed' BY <1>1 DEF SourceAgreed, Places, HandingOver, InTransition
<1>9. Undisturbed' BY <1>1 DEF Undisturbed, Places
<1>10. Located'
  BY <1>1 DEF Located, Overwritten, LocatedStored, Places, NoneTooNew, Undisturbed, SourceAgreed,
     HandingOver
<1>11. LocatedStored'
  BY <1>1 DEF LocatedStored, Located, Overwritten, Places, Undisturbed, SourceAgreed, TypedControl,
     HandingOver
<1>12. OffsetHandedOver' BY <1>1 DEF OffsetHandedOver, Places, Undisturbed, HandingOver
<1>13. ReadYourWrite' BY <1>1 DEF ReadYourWrite
<1>14. Cached' BY <1>1 DEF Cached, Places, NoneTooNew, TypedValues, Values
<1> QED BY <1>2, <1>3, <1>4, <1>5, <1>6, <1>7, <1>8, <1>9, <1>10,
       <1>11, <1>12, <1>13, <1>14, TypeFromParts DEF IInv

\* The source is attached, or not.
LEMMA CapsAttachStep == ASSUME IInv, CapsAttach PROVE IInv'
<1> PICK ok \in BOOLEAN :
        /\ source' = (source \/ ok)
        /\ server' = IF ok /\ type \in InMediaSource THEN reg["stream"] ELSE server
        /\ Goto("stream", IF ok THEN "mark" ELSE "idle")
  BY DEF CapsAttach
<1> USE Parts, Kinds, Particular DEF CapsAttach, sink, member, ghost, player
<1>1. /\ pc' \in [Threads -> Labels] /\ pc["stream"] = "attach"
      /\ pc'["stream"] = (IF ok THEN "mark" ELSE "idle")
      /\ pc'["app"] = pc["app"] /\ pc'["state"] = pc["state"]
  BY GotoStream DEF Labels
<1>2. TypedValues' BY <1>1 DEF TypedValues, Threads
<1>3. TypedSets' BY <1>1 DEF TypedSets
<1>4. TypedFlags' BY <1>1 DEF TypedFlags
<1>5. TypedControl' BY <1>1 DEF TypedControl, Excuses, Places, HandingOver, InTransition
<1>6. Places' BY <1>1 DEF Places, TypedFlags, TypedControl, HandingOver, InTransition
<1>7. NoneTooNew'
  BY <1>1 DEF NoneTooNew, Places, HandingOver, TypedValues, TypedControl, Values, Threads
<1>8. SourceAgreed' BY <1>1 DEF SourceAgreed, Places, HandingOver, InTransition
<1>9. Undisturbed' BY <1>1 DEF Undisturbed, Places
<1>10. Located'
  BY <1>1 DEF Located, Overwritten, LocatedStored, Places, NoneTooNew, Undisturbed, SourceAgreed,
     HandingOver
<1>11. LocatedStored'
  BY <1>1 DEF LocatedStored, Located, Overwritten, Places, Undisturbed, SourceAgreed, TypedControl,
     HandingOver
<1>12. OffsetHandedOver' BY <1>1 DEF OffsetHandedOver, Places, Undisturbed, HandingOver
<1>13. ReadYourWrite' BY <1>1 DEF ReadYourWrite
<1>14. Cached' BY <1>1 DEF Cached, Places, NoneTooNew, TypedValues, Values
<1> QED BY <1>2, <1>3, <1>4, <1>5, <1>6, <1>7, <1>8, <1>9, <1>10,
       <1>11, <1>12, <1>13, <1>14, TypeFromParts DEF IInv

\* The server reports the volume.
LEMMA SendPlaybackInfoStep == ASSUME IInv, SendPlaybackInfo PROVE IInv'
<1> USE Parts DEF SendPlaybackInfo, sink, member, attachment, ghost
<1>1. TypedValues' BY DEF TypedValues
<1>2. TypedSets' BY AtMostOne DEF TypedSets, TypedValues
<1>3. TypedFlags' BY DEF TypedFlags
<1>4. TypedControl' BY DEF TypedControl
<1>5. Places' /\ NoneTooNew' BY DEF Places, NoneTooNew
<1>6. SourceAgreed' /\ Undisturbed' BY DEF SourceAgreed, Undisturbed
<1>7. Located' /\ LocatedStored' BY DEF Located, LocatedStored, Overwritten
<1>8. Cached' BY DEF Cached, NoneTooNew
<1>9. OffsetHandedOver' /\ ReadYourWrite' BY DEF OffsetHandedOver, ReadYourWrite
<1> QED BY <1>1, <1>2, <1>3, <1>4, <1>5, <1>6, <1>7, <1>8, <1>9, TypeFromParts DEF IInv

\* The report replaces the client's copy, or is dropped.
LEMMA NotifyPlaybackInfoStep == ASSUME IInv, NotifyPlaybackInfo PROVE IInv'
<1> USE Parts DEF NotifyPlaybackInfo, sink, member, attachment, ghost
<1>1. PICK v \in info, flushing \in BOOLEAN :
        /\ m_playbackInfo' = IF flushing THEN m_playbackInfo ELSE v
        /\ crossed' = IF flushing THEN crossed ELSE v # server
  OBVIOUS
<1>2. v \in Values /\ v <= wanted /\ type = "Volume" /\ m_client BY DEF TypedSets, Cached
<1>3. TypedValues' BY <1>1, <1>2 DEF TypedValues
<1>4. TypedSets' BY AtMostOne DEF TypedSets
<1>5. TypedFlags' BY <1>1 DEF TypedFlags
<1>6. TypedControl' BY DEF TypedControl
<1>7. Places' /\ NoneTooNew' BY DEF Places, NoneTooNew
<1>8. SourceAgreed' /\ Undisturbed' BY DEF SourceAgreed, Undisturbed
<1>9. Located' /\ LocatedStored' BY DEF Located, LocatedStored, Overwritten
<1>10. Cached' BY <1>1, <1>2 DEF Cached
<1>11. OffsetHandedOver' /\ ReadYourWrite' BY DEF OffsetHandedOver, ReadYourWrite
<1> QED BY <1>3, <1>4, <1>5, <1>6, <1>7, <1>8, <1>9, <1>10, <1>11, TypeFromParts DEF IInv

-----------------------------------------------------------------------------
\* The invariant is inductive.
LEMMA NextIInv == IInv /\ [Next]_vars => IInv'
<1> SUFFICES ASSUME IInv, [Next]_vars PROVE IInv' OBVIOUS
<1>1. CASE UNCHANGED vars
  <2> USE <1>1, Parts DEF vars, sink, member, attachment, player, ghost
  <2>1. TypedValues' /\ TypedSets' BY DEF TypedValues, TypedSets
  <2>2. TypedFlags' /\ TypedControl' BY DEF TypedFlags, TypedControl
  <2>3. Places' /\ NoneTooNew' BY DEF Places, NoneTooNew
  <2>4. SourceAgreed' /\ Undisturbed' BY DEF SourceAgreed, Undisturbed
  <2>5. Located' /\ LocatedStored' BY DEF Located, LocatedStored, Overwritten
  <2>6. Cached' BY DEF Cached
  <2>7. OffsetHandedOver' /\ ReadYourWrite' BY DEF OffsetHandedOver, ReadYourWrite
  <2> QED BY <2>1, <2>2, <2>3, <2>4, <2>5, <2>7, <2>6, TypeFromParts DEF IInv
<1>2. CASE SetWithoutDelegate \/ SetWithDelegate \/ GetWithoutDelegate \/ GetWithDelegate
  BY <1>2, SetWithoutDelegateStep, SetWithDelegateStep, GetWithoutDelegateStep, GetWithDelegateStep
<1>3. CASE AppSteps
  BY <1>3, StoreStep, CheckStep, QueueStep, StoreLockedStep, CallStep DEF AppSteps
<1>4. CASE HandOver("state")
  BY <1>4, HandOverLockedStateStep, HandOverReadStateStep, HandOverSendStateStep,
     HandOverClearStateStep DEF HandOver
<1>5. CASE HandOver("stream")
  BY <1>5, HandOverLockedStreamStep, HandOverReadStreamStep, HandOverSendStreamStep,
     HandOverClearStreamStep DEF HandOver
<1>6. CASE NullToReady \/ OnApplicationStateChanged \/ ReadyToPaused \/ PausedToReady \/ ReadyToNull
  BY <1>6, NullToReadyStep, OnApplicationStateChangedStep, ReadyToPausedStep, PausedToReadyStep,
     ReadyToNullStep
<1>7. CASE NullToReadyEnd \/ ReadyToPausedEnd \/ PausedToReadyForget \/ PadDeactivate
           \/ PausedToReadyEnd
  BY <1>7, NullToReadyEndStep, ReadyToPausedEndStep, PausedToReadyForgetStep, PadDeactivateStep,
     PausedToReadyEndStep
<1>8. CASE Caps \/ CapsAttach \/ CapsMark
  BY <1>8, CapsStep, CapsAttachStep, CapsMarkStep
<1>9. CASE SendPlaybackInfo \/ NotifyPlaybackInfo
  BY <1>9, SendPlaybackInfoStep, NotifyPlaybackInfoStep
<1> QED BY <1>1, <1>2, <1>3, <1>4, <1>5, <1>6, <1>7, <1>8, <1>9 DEF Next, StateSteps, StreamSteps

LEMMA Invariance == Spec => []IInv
<1>1. Init => IInv BY InitIInv
<1>2. IInv /\ [Next]_vars => IInv' BY NextIInv
<1> QED BY <1>1, <1>2, PTL DEF Spec

-----------------------------------------------------------------------------
\* Type correctness: a value waits in the sink only while no delegate exists,
\* and a sink beyond READY has its delegate and its client.
THEOREM PropertiesTypeCorrect == Spec => []TypeOK
<1>1. IInv => TypeOK BY DEF IInv
<1> QED BY <1>1, Invariance, PTL

\* The last value of a protected set reaches the server: whatever the state
\* set_property found the sink in, when the sink plays the server has it.
THEOREM LastSetWins == Spec => []LastValueReachesServer
<1>1. IInv => LastValueReachesServer
  <2> SUFFICES ASSUME IInv, Settled, excused = {} PROVE server = wanted
    BY DEF LastValueReachesServer
  <2>1. /\ pc["app"] = "idle" /\ pc["state"] = "idle" /\ pc["stream"] = "idle"
        /\ state = "PAUSED" /\ m_sourceAttached
    BY DEF Settled, Idle, Threads
  <2>2. m_delegate /\ m_client /\ source BY <2>1, Parts DEF TypedControl, SourceAgreed
  <2>3. CASE type \in Stored BY <2>2, <2>3, Parts DEF LocatedStored
  <2>4. CASE type \in AtPaused BY <2>1, <2>2, <2>4, Parts DEF Located
  <2>5. CASE type \in AtCaps BY <2>1, <2>2, <2>5, Parts DEF Located
  <2> QED BY <2>3, <2>4, <2>5, Kinds, Parts
<1> QED BY <1>1, Invariance, PTL

\* get_property returns the value set last, wherever it is at that time: the
\* client's copy of the volume too, until an older PlaybackInfo replaces it.
THEOREM ReadsWhatWasSet == Spec => []ReadYourWrite
<1>1. IInv => ReadYourWrite BY DEF IInv
<1> QED BY <1>1, Invariance, PTL

\* No step gives the server an older value than it has, as long as nothing
\* excuses it and the session goes on: neither a setter that was overtaken
\* nor a hand-over that read its value early.
THEOREM NeverAnOlderValue == Spec => NoOlderValue
<1> DEFINE Newer == server' >= server \/ excused' # {} \/ state' = "NULL"
<1>1. ASSUME IInv, [Next]_vars PROVE [Newer]_vars
  <2> USE <1>1, Parts, Kinds, Particular DEF player
  <2>1. server \in Nat /\ m_value \in Nat /\ wanted \in Nat /\ reg["stream"] \in Nat
    BY DEF TypedValues, Values, Threads
  <2>2. CASE server' = server BY <2>1, <2>2
  <2>3. CASE Call BY <2>1, <2>3 DEF Call, SendTo, NoneTooNew
  <2>4. CASE StoreLocked BY <2>1, <2>4 DEF StoreLocked, SendTo, NoneTooNew
  <2>5. ASSUME NEW th \in {"state", "stream"}, HandOverLocked(th) PROVE Newer
    <3>1. m_delegate BY <2>5 DEF HandOverLocked, Places, TypedControl, HandingOver
    <3> QED BY <2>1, <2>5, <3>1 DEF HandOverLocked, SendTo, NoneTooNew
  <2>6. ASSUME NEW th \in {"state", "stream"}, HandOverSend(th) PROVE Newer
    <3>1. excused = {} => reg[th] = wanted BY <2>6 DEF HandOverSend, Located
    <3>2. excused' = excused BY <2>6 DEF HandOverSend, ghost
    <3> QED BY <2>1, <2>6, <3>1, <3>2 DEF HandOverSend, SendTo, NoneTooNew
  <2>7. CASE CapsAttach BY <2>1, <2>7 DEF CapsAttach, NoneTooNew
  <2>8. CASE ReadyToPaused BY <2>1, <2>8 DEF ReadyToPaused, UseStored, Places
  <2>9. CASE ReadyToNull BY <2>9 DEF ReadyToNull
  <2>10. CASE SetWithoutDelegate \/ SetWithDelegate \/ GetWithoutDelegate \/ GetWithDelegate
    BY <2>2, <2>10 DEF SetWithoutDelegate, SetWithDelegate, GetWithoutDelegate, GetWithDelegate
  <2>11. CASE Store \/ Check \/ Queue BY <2>2, <2>11 DEF Store, Check, Queue
  <2>12. ASSUME NEW th \in {"state", "stream"}, HandOverRead(th) \/ HandOverClear(th)
         PROVE  [Newer]_vars
    BY <2>2, <2>12 DEF HandOverRead, HandOverClear
  <2>13. CASE NullToReady \/ OnApplicationStateChanged \/ PausedToReady
    BY <2>2, <2>13 DEF NullToReady, OnApplicationStateChanged, PausedToReady
  <2>14. CASE NullToReadyEnd \/ ReadyToPausedEnd \/ PausedToReadyForget \/ PadDeactivate
             \/ PausedToReadyEnd
    BY <2>2, <2>14 DEF NullToReadyEnd, ReadyToPausedEnd, PausedToReadyForget, PadDeactivate,
       PausedToReadyEnd
  <2>15. CASE Caps \/ CapsMark BY <2>2, <2>15 DEF Caps, CapsMark
  <2>16. CASE HandOver("state") \/ HandOver("stream")
    BY <2>5, <2>6, <2>12, <2>16 DEF HandOver
  <2>17. CASE UNCHANGED vars BY <2>17
  <2>18. CASE SendPlaybackInfo \/ NotifyPlaybackInfo
    BY <2>2, <2>18 DEF SendPlaybackInfo, NotifyPlaybackInfo
  <2> QED
    BY <2>3, <2>4, <2>7, <2>8, <2>9, <2>10, <2>11, <2>13, <2>14, <2>15, <2>16, <2>17, <2>18, <1>1
         DEF Next, AppSteps, StateSteps, StreamSteps
<1> QED BY <1>1, Invariance, PTL DEF Spec, NoOlderValue
=============================================================================

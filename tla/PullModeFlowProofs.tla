-------------------------- MODULE PullModeFlowProofs --------------------------
(***************************************************************************)
(* The invariants of PullModeFlow for any set of sources and any limits of *)
(* the queues and of the number of flushes.                                *)
(***************************************************************************)
EXTENDS PullModeFlow, FiniteSetTheorems, FunctionTheorems, TLAPS

-----------------------------------------------------------------------------
(***************************************************************************)
(* Messages in the event loop's queue.                                     *)
(***************************************************************************)
Statuses == {"none", "OK", "EOS", "NO_AVAILABLE_SAMPLES", "ERROR"}
MessageTypes == {"attach", "flush", "remove", "erase", "needData", "haveData", "sourceFlushed"}
Message == {m \in [type : MessageTypes, src : Sources, req : 0..(MaxFlushes + 2), status : Statuses] :
                m.type = "erase" => m.req = 0 /\ m.status = "none"}

\* One of the set S is in the queue q; no more than one of it is.
Among(q, S) == \E i \in 1..Len(q) : q[i] \in S
Once(q, S) == \A i, j \in 1..Len(q) : q[i] \in S /\ q[j] \in S => i = j

\* The messages of source s that carry the request r.
Carries(s, r) == {m \in Message : m.src = s /\ m.type \in {"needData", "haveData"} /\ m.req = r}

Attaches(s) == {m \in Message : m.src = s /\ m.type = "attach"}
Erases(s) == {m \in Message : m.src = s /\ m.type = "erase"}
TellsEos(s, r) == {m \in Message : m.src = s /\ m.type = "haveData" /\ m.req = r /\ m.status = "EOS"}

-----------------------------------------------------------------------------
(***************************************************************************)
(* The inductive invariant.                                                *)
(***************************************************************************)
PullerState == [pc : PullerPcs, req : 0..(MaxFlushes + 2), frame : Nat, added : Nat, eos : BOOLEAN,
                held : Nat]

DelegateTypes ==
    /\ m_sourceId \in [Sources -> Sources \cup {UnknownId}]
    /\ m_samples \in [Sources -> Seq(Nat)]
    /\ m_isEos \in [Sources -> BOOLEAN] /\ m_segmentSet \in [Sources -> BOOLEAN]
    /\ m_isSinkFlushOngoing \in [Sources -> BOOLEAN]
    /\ m_isServerFlushOngoing \in [Sources -> BOOLEAN]
    /\ streaming \in [Sources -> StreamingPcs] /\ control \in [Sources -> ControlPcs]

ClientTypes ==
    /\ backendQueue \in Seq(Message) /\ m_attachedSources \subseteq Sources
    /\ m_isFlushing \in [Sources -> BOOLEAN]
    /\ pullQueue \in [Sources -> Seq(RequestIds)]
    /\ puller \in [Sources -> PullerState]

ServerTypes ==
    /\ request \in [Sources -> 0..(MaxFlushes + 2)] /\ flushing \in [Sources -> Nat]
    /\ endOfStream \in [Sources -> BOOLEAN] /\ delivered \in [Sources -> Seq(Nat)]
    /\ accepted \in [Sources -> Nat] /\ flushes \in [Sources -> Nat]
    /\ floor \in [Sources -> Nat] /\ dropped \in [Sources -> SUBSET Nat]

SyncTypes == \A i \in DOMAIN m_sourceStates :
    i \in Sources \cup {UnknownId} /\ m_sourceStates[i] \in SourceState

\* Where the streaming thread and the thread that flushes can be.
Flushes == {"startWait", "startClear", "started", "notify", "post", "inLoop", "stopEnd"}
Cleared == {"started", "notify", "post", "inLoop", "stopEnd", "removed"}

Places(s) ==
    /\ m_sourceId[s] = IF streaming[s] \in {"caps", "attaching"} THEN UnknownId ELSE s
    /\ s \in m_attachedSources <=> /\ streaming[s] \notin {"caps", "attaching"}
                                   /\ control[s] \notin {"removeClear", "removed"}
    /\ streaming[s] = "attaching" => control[s] = "idle"
    /\ streaming[s] = "caps" => control[s] \in Flushes \cup {"idle"}
    /\ streaming[s] = "caps" /\ control[s] \in Flushes => "flushUnattached" \in May
    /\ Among(backendQueue, Attaches(s)) => streaming[s] = "attaching"
    /\ Once(backendQueue, Attaches(s))
    /\ m_isSinkFlushOngoing[s] <=> control[s] \in Cleared

\* The sample queue: in order, newer than the server's flush, and empty from
\* the clearing to the end of the flush.
Queue(s) ==
    /\ Len(m_samples[s]) <= MaxSamples /\ accepted[s] <= MaxBuffers
    /\ floor[s] <= accepted[s]
    /\ \A i \in 1..Len(m_samples[s]) : m_samples[s][i] \in (floor[s] + 1)..accepted[s]
    /\ \A i, j \in 1..Len(m_samples[s]) : i < j => m_samples[s][i] < m_samples[s][j]
    /\ streaming[s] = "woken" => Len(m_samples[s]) < MaxSamples
    /\ streaming[s] \in {"buffer", "full", "woken"} => accepted[s] < MaxBuffers
    /\ streaming[s] \in {"caps", "attaching"} => accepted[s] = 0
    /\ m_isSinkFlushOngoing[s] => m_samples[s] = <<>>

\* The puller.
Pulling(s) ==
    /\ puller[s].pc = "idle" => puller[s] = Idle
    /\ puller[s].pc # "idle" => puller[s].req # 0
    /\ puller[s].frame <= FrameCount
    /\ puller[s].pc \in {"front", "add", "pop"} => puller[s].frame < FrameCount
    /\ puller[s].added <= (IF puller[s].pc = "pop" THEN puller[s].frame + 1 ELSE puller[s].frame)
    /\ puller[s].eos => puller[s].pc \in {"finish", "post"}
    /\ puller[s].held \in 0..MaxBuffers

\* The samples that wait come after the ones delivered, but for the first
\* one between addSegment and popSample; so does the one that is held for a
\* request the server waits on.
Delivering(s) ==
    /\ \A i, j \in 1..Len(delivered[s]) : i < j => delivered[s][i] < delivered[s][j]
    /\ \A j \in 1..Len(delivered[s]) : delivered[s][j] \in (floor[s] + 1)..accepted[s]
    /\ dropped[s] \subseteq (floor[s] + 1)..accepted[s]
    /\ \A i \in 1..Len(m_samples[s]) : i > 1 \/ puller[s].pc # "pop" =>
            \A j \in 1..Len(delivered[s]) : delivered[s][j] < m_samples[s][i]
    /\ puller[s].pc = "add" /\ puller[s].req = request[s] =>
            /\ puller[s].held \in (floor[s] + 1)..accepted[s]
            /\ \A j \in 1..Len(delivered[s]) : delivered[s][j] < puller[s].held
            /\ \A i \in 1..Len(m_samples[s]) : puller[s].held <= m_samples[s][i]

\* Nothing skipped, and the held sample is the first one.
Keeping(s) == "refuseFlush" \notin May /\ ~Clearing(s) =>
    /\ (floor[s] + 1)..accepted[s] = Delivered(s) \cup dropped[s] \cup Samples(s)
    /\ puller[s].pc \in {"add", "pop"} /\ puller[s].req = request[s] =>
            m_samples[s] # <<>> /\ m_samples[s][1] = puller[s].held

\* EOS on its way to the server: everything was delivered, and no buffer
\* comes before a flush has reached the server.
EosUnderWay(s) ==
    \/ endOfStream[s]
    \/ puller[s].eos /\ puller[s].req = request[s]
    \/ Among(backendQueue, TellsEos(s, request[s])) /\ request[s] # 0

Ending(s) == May \cap {"refuseFlush", "overtakeEos"} = {} =>
    /\ m_isEos[s] => streaming[s] = "eos" /\ (control[s] \notin Cleared \/ control[s] = "removed")
    /\ control[s] \in Cleared \ {"removed"} => streaming[s] # "eosEvent"
    /\ EosUnderWay(s) =>
        /\ streaming[s] = "eos" /\ control[s] # "stopEnd"
        /\ (floor[s] + 1)..accepted[s] \subseteq Delivered(s) \cup dropped[s]

\* Where the requests are.
Requests(s) ==
    /\ request[s] # 0 => s \in m_attachedSources /\ ~Among(backendQueue, Erases(s))
    /\ request[s] # 0 => \/ Among(backendQueue, Carries(s, request[s]))
                         \/ \E i \in 1..Len(pullQueue[s]) : pullQueue[s][i] = request[s]
                         \/ puller[s].req = request[s]
    /\ ~Among(backendQueue, Carries(s, 0))
    /\ \A r \in RequestIds : Once(backendQueue, Carries(s, r))
    /\ \A i, j \in 1..Len(pullQueue[s]) : pullQueue[s][i] = pullQueue[s][j] => i = j
    /\ \A i \in 1..Len(pullQueue[s]) : /\ pullQueue[s][i] # puller[s].req
                                       /\ ~Among(backendQueue, Carries(s, pullQueue[s][i]))
    /\ puller[s].req # 0 => ~Among(backendQueue, Carries(s, puller[s].req))

\* Flushes the server still owes an answer to, and the one on its way to it.
Owing(s) ==
    /\ flushing[s] + (IF control[s] \in Flushes \ {"stopEnd"} THEN 1 ELSE 0) <= flushes[s]
    /\ flushes[s] <= MaxFlushes

\* The synchronizer's "FLUSHING".
Marked == May \cap {"refuseFlush", "flushUnattached"} = {} =>
    \A i \in DOMAIN m_sourceStates :
        m_sourceStates[i].flushState = "FLUSHING" => i \in Sources /\ FlushOngoing(i)

IInv ==
    /\ DelegateTypes /\ ClientTypes /\ ServerTypes /\ SyncTypes /\ Marked
    /\ \A s \in Sources :
        /\ Places(s) /\ Queue(s) /\ Pulling(s) /\ Delivering(s) /\ Keeping(s) /\ Ending(s)
        /\ Requests(s) /\ Owing(s)

-----------------------------------------------------------------------------
(***************************************************************************)
(* What posting and taking a message changes.                              *)
(***************************************************************************)
LEMMA Posted ==
    ASSUME NEW M, NEW q \in Seq(M), NEW m \in M
    PROVE  /\ Append(q, m) \in Seq(M)
           /\ \A S : /\ Among(Append(q, m), S) <=> Among(q, S) \/ m \in S
                     /\ Once(q, S) /\ (m \notin S \/ ~Among(q, S)) => Once(Append(q, m), S)
<1> DEFINE t == Append(q, m)
<1>1. /\ t \in Seq(M) /\ Len(t) = Len(q) + 1 /\ Len(q) \in Nat
      /\ t[Len(q) + 1] = m /\ \A i \in 1..Len(q) : t[i] = q[i]
  OBVIOUS
<1> HIDE DEF t
<1>2. ASSUME NEW i \in 1..Len(t) PROVE i = Len(q) + 1 \/ i \in 1..Len(q) BY <1>1
<1>3. \A i \in 1..Len(q) : i \in 1..Len(t) BY <1>1
<1>4. Len(q) + 1 \in 1..Len(t) BY <1>1
<1>5. ASSUME NEW S PROVE Among(t, S) <=> Among(q, S) \/ m \in S BY <1>1, <1>2, <1>3, <1>4 DEF Among
<1>6. ASSUME NEW S, Once(q, S), m \notin S \/ ~Among(q, S) PROVE Once(t, S)
  BY <1>1, <1>2, <1>6 DEF Once, Among
<1> QED BY <1>1, <1>5, <1>6 DEF t

LEMMA Taken ==
    ASSUME NEW M, NEW q \in Seq(M), q # <<>>
    PROVE  /\ Tail(q) \in Seq(M) /\ Head(q) \in M
           /\ \A S : /\ Among(q, S) <=> Head(q) \in S \/ Among(Tail(q), S)
                     /\ Once(q, S) => Once(Tail(q), S) /\ (Head(q) \in S => ~Among(Tail(q), S))
<1> DEFINE t == Tail(q)
<1>1. /\ t \in Seq(M) /\ Len(t) = Len(q) - 1 /\ Len(q) \in Nat \ {0}
      /\ \A i \in 1..(Len(q) - 1) : t[i] = q[i + 1]
  OBVIOUS
<1>2. Head(q) = q[1] /\ Head(q) \in M /\ 1 \in 1..Len(q) BY <1>1
<1> HIDE DEF t
<1>3. ASSUME NEW i \in 1..Len(t) PROVE i + 1 \in 1..Len(q) /\ t[i] = q[i + 1] /\ i + 1 # 1
  BY <1>1
<1>4. ASSUME NEW i \in 1..Len(q) PROVE i = 1 \/ (i - 1 \in 1..Len(t) /\ (i - 1) + 1 = i)
  BY <1>1
<1>5. ASSUME NEW S PROVE Among(q, S) <=> Head(q) \in S \/ Among(t, S)
  BY <1>2, <1>3, <1>4 DEF Among
<1>6. ASSUME NEW S, Once(q, S), Head(q) \in S PROVE ~Among(t, S)
  BY <1>2, <1>3, <1>6 DEF Once, Among
<1>7. ASSUME NEW S, Once(q, S), NEW i \in 1..Len(t), NEW j \in 1..Len(t), t[i] \in S, t[j] \in S
      PROVE  i = j
  <2>1. i + 1 = j + 1 BY <1>3, <1>7 DEF Once
  <2> QED BY <1>1, <2>1
<1>8. ASSUME NEW S, Once(q, S) PROVE Once(t, S) BY <1>7, <1>8 DEF Once
<1> QED BY <1>1, <1>2, <1>5, <1>6, <1>8 DEF t

LEMMA PutInFront ==
    ASSUME NEW M, NEW q \in Seq(M), NEW m \in M
    PROVE  /\ <<m>> \o q \in Seq(M)
           /\ \A S : /\ Among(<<m>> \o q, S) <=> Among(q, S) \/ m \in S
                     /\ Once(q, S) /\ (m \notin S \/ ~Among(q, S)) => Once(<<m>> \o q, S)
<1> DEFINE t == <<m>> \o q
<1>1. /\ t \in Seq(M) /\ Len(t) = Len(q) + 1 /\ Len(q) \in Nat
      /\ t[1] = m /\ \A i \in 1..Len(q) : t[i + 1] = q[i]
  OBVIOUS
<1> HIDE DEF t
<1>2. ASSUME NEW i \in 1..Len(t) PROVE i = 1 \/ (i - 1 \in 1..Len(q) /\ (i - 1) + 1 = i) BY <1>1
<1>3. \A i \in 1..Len(q) : i + 1 \in 1..Len(t) BY <1>1
<1>4. 1 \in 1..Len(t) BY <1>1
<1>5. ASSUME NEW S PROVE Among(t, S) <=> Among(q, S) \/ m \in S BY <1>1, <1>2, <1>3, <1>4 DEF Among
<1>6. ASSUME NEW S, Once(q, S), m \notin S \/ ~Among(q, S), NEW i \in 1..Len(t), NEW j \in 1..Len(t),
             t[i] \in S, t[j] \in S
      PROVE  i = j
  <2>1. ASSUME NEW k \in 1..Len(t), t[k] \in S, k # 1
        PROVE  k - 1 \in 1..Len(q) /\ (k - 1) + 1 = k /\ q[k - 1] \in S /\ Among(q, S)
    BY <1>1, <1>2, <2>1 DEF Among
  <2>2. CASE i = 1 /\ j = 1 BY <2>2
  <2>3. CASE i = 1 /\ j # 1 BY <1>1, <1>6, <2>1, <2>3
  <2>4. CASE i # 1 /\ j = 1 BY <1>1, <1>6, <2>1, <2>4
  <2>5. CASE i # 1 /\ j # 1
    <3>1. i - 1 = j - 1 BY <1>6, <2>1, <2>5 DEF Once
    <3> QED BY <1>1, <3>1
  <2> QED BY <2>2, <2>3, <2>4, <2>5
<1>7. ASSUME NEW S, Once(q, S), m \notin S \/ ~Among(q, S) PROVE Once(t, S) BY <1>6, <1>7 DEF Once
<1> QED BY <1>1, <1>5, <1>7 DEF t

\* The same for samples and for requests in a pull queue.
LEMMA SampleAdded ==
    ASSUME NEW q \in Seq(Nat), NEW n \in Nat
    PROVE  /\ Append(q, n) \in Seq(Nat) /\ Len(Append(q, n)) = Len(q) + 1 /\ Len(q) \in Nat
           /\ Append(q, n)[Len(q) + 1] = n /\ Append(q, n) # <<>>
           /\ \A i \in 1..Len(q) : Append(q, n)[i] = q[i]
           /\ \A i \in 1..(Len(q) + 1) : i \in 1..Len(q) \/ i = Len(q) + 1
OBVIOUS

LEMMA RequestAdded ==
    ASSUME NEW q \in Seq(RequestIds), NEW n \in RequestIds
    PROVE  /\ Append(q, n) \in Seq(RequestIds) /\ Len(Append(q, n)) = Len(q) + 1 /\ Len(q) \in Nat
           /\ Append(q, n)[Len(q) + 1] = n
           /\ \A i \in 1..Len(q) : Append(q, n)[i] = q[i]
           /\ \A i \in 1..(Len(q) + 1) : i \in 1..Len(q) \/ i = Len(q) + 1
OBVIOUS

LEMMA SampleTaken ==
    ASSUME NEW q \in Seq(Nat), q # <<>>
    PROVE  /\ Tail(q) \in Seq(Nat) /\ Len(Tail(q)) = Len(q) - 1 /\ Len(q) \in Nat \ {0}
           /\ Head(q) = q[1] /\ 1 \in 1..Len(q)
           /\ \A i \in 1..(Len(q) - 1) : /\ Tail(q)[i] = q[i + 1]
                                         /\ i + 1 \in 1..Len(q) /\ i + 1 > 1
           /\ \A i \in 1..Len(q) : i = 1 \/ (i - 1 \in 1..(Len(q) - 1) /\ (i - 1) + 1 = i)
OBVIOUS

-----------------------------------------------------------------------------
LEMMA Constants ==
    /\ UnknownId \notin Sources /\ MaxSamples \in Nat \ {0} /\ FrameCount \in Nat \ {0}
    /\ MaxBuffers \in Nat /\ MaxFlushes \in Nat /\ RequestIds \subseteq Nat \ {0}
    /\ RequestIds \subseteq 0..(MaxFlushes + 2)
BY FlowAssumption DEF RequestIds

LEMMA Types == ASSUME IInv PROVE DelegateTypes /\ ClientTypes /\ ServerTypes /\ SyncTypes /\ Marked
BY DEF IInv

LEMMA At ==
    ASSUME IInv, NEW s \in Sources
    PROVE  /\ Places(s) /\ Queue(s) /\ Pulling(s) /\ Delivering(s) /\ Keeping(s) /\ Ending(s)
           /\ Requests(s) /\ Owing(s)
BY DEF IInv

\* A message posted, and the first one taken.
LEMMA PostedHere ==
    ASSUME ClientTypes, NEW m \in Message, PostMessage(m)
    PROVE  /\ backendQueue' \in Seq(Message)
           /\ \A S : /\ Among(backendQueue', S) <=> Among(backendQueue, S) \/ m \in S
                     /\ Once(backendQueue, S) /\ (m \notin S \/ ~Among(backendQueue, S))
                            => Once(backendQueue', S)
<1>1. backendQueue \in Seq(Message) /\ backendQueue' = Append(backendQueue, m)
  BY DEF ClientTypes, PostMessage
<1> QED BY ONLY <1>1, m \in Message, Posted

LEMMA TakenHere ==
    ASSUME ClientTypes, backendQueue # <<>>, Done
    PROVE  /\ backendQueue' \in Seq(Message) /\ Head(backendQueue) \in Message
           /\ \A S : /\ Among(backendQueue, S)
                            <=> Head(backendQueue) \in S \/ Among(backendQueue', S)
                     /\ Once(backendQueue, S) =>
                            /\ Once(backendQueue', S)
                            /\ Head(backendQueue) \in S => ~Among(backendQueue', S)
<1>1. backendQueue \in Seq(Message) /\ backendQueue # <<>> /\ backendQueue' = Tail(backendQueue)
  BY DEF ClientTypes, Done
<1> QED BY ONLY <1>1, Taken

\* One message taken and another one put in, at either end.
LEMMA Replaced ==
    ASSUME ClientTypes, backendQueue # <<>>, NEW m \in Message,
           \/ backendQueue' = Append(Tail(backendQueue), m)
           \/ backendQueue' = <<m>> \o Tail(backendQueue)
    PROVE  /\ backendQueue' \in Seq(Message) /\ Head(backendQueue) \in Message
           /\ \A S : /\ m \notin S /\ Among(backendQueue', S) => Among(backendQueue, S)
                     /\ Head(backendQueue) \notin S /\ Among(backendQueue, S)
                            => Among(backendQueue', S)
                     /\ m \in S => Among(backendQueue', S)
                     /\ Head(backendQueue) \in S => Among(backendQueue, S)
                     /\ Once(backendQueue, S) /\ (m \notin S \/ Head(backendQueue) \in S)
                            => Once(backendQueue', S)
<1> DEFINE t == Tail(backendQueue)
           h == Head(backendQueue)
<1>1. backendQueue \in Seq(Message) BY DEF ClientTypes
<1>2. /\ t \in Seq(Message) /\ h \in Message
      /\ \A S : /\ Among(backendQueue, S) <=> h \in S \/ Among(t, S)
                /\ Once(backendQueue, S) => Once(t, S) /\ (h \in S => ~Among(t, S))
  BY <1>1, Taken
<1>3. backendQueue' = Append(t, m) \/ backendQueue' = <<m>> \o t OBVIOUS
<1> HIDE DEF t, h
<1>4. /\ backendQueue' \in Seq(Message)
      /\ \A S : /\ Among(backendQueue', S) <=> Among(t, S) \/ m \in S
                /\ Once(t, S) /\ (m \notin S \/ ~Among(t, S)) => Once(backendQueue', S)
  <2>1. CASE backendQueue' = Append(t, m) BY ONLY <1>2, <2>1, m \in Message, Posted
  <2>2. CASE backendQueue' = <<m>> \o t BY ONLY <1>2, <2>2, m \in Message, PutInFront
  <2> QED BY <1>3, <2>1, <2>2
<1>5. /\ backendQueue' \in Seq(Message) /\ h \in Message
      /\ \A S : /\ m \notin S /\ Among(backendQueue', S) => Among(backendQueue, S)
                /\ h \notin S /\ Among(backendQueue, S) => Among(backendQueue', S)
                /\ m \in S => Among(backendQueue', S)
                /\ h \in S => Among(backendQueue, S)
                /\ Once(backendQueue, S) /\ (m \notin S \/ h \in S) => Once(backendQueue', S)
  BY ONLY <1>2, <1>4
<1> QED BY <1>5 DEF h

LEMMA InitIInv == Init => IInv
<1> SUFFICES ASSUME Init PROVE IInv OBVIOUS
<1> USE DEF Init
<1>1. ASSUME NEW S PROVE ~Among(backendQueue, S) /\ Once(backendQueue, S) BY DEF Among, Once
<1>2. DelegateTypes BY DEF DelegateTypes, StreamingPcs, ControlPcs
<1>3. ClientTypes BY Constants DEF ClientTypes, PullerState, PullerPcs, Idle
<1>4. ServerTypes BY Constants DEF ServerTypes
<1>5. SyncTypes /\ Marked BY DEF SyncTypes, Marked, SyncInit
<1>6. ASSUME NEW s \in Sources
      PROVE  /\ Places(s) /\ Queue(s) /\ Pulling(s) /\ Delivering(s) /\ Keeping(s) /\ Ending(s)
             /\ Requests(s) /\ Owing(s)
  <2>1. Places(s)
    <3>1. ~Among(backendQueue, Attaches(s)) /\ Once(backendQueue, Attaches(s)) BY <1>1
    <3> QED BY <3>1, Constants DEF Places, Cleared, Flushes
  <2>2. Queue(s) BY Constants DEF Queue
  <2>3. Pulling(s) BY Constants DEF Pulling, Idle
  <2>4. Delivering(s) BY DEF Delivering, Idle
  <2>5. Keeping(s) BY DEF Keeping, Delivered, Samples, Idle
  <2>6. Ending(s) BY <1>1 DEF Ending, EosUnderWay, Idle, Cleared
  <2>7. Requests(s) BY <1>1 DEF Requests, Idle
  <2>8. Owing(s) BY Constants DEF Owing, Flushes
  <2> QED BY <2>1, <2>2, <2>3, <2>4, <2>5, <2>6, <2>7, <2>8
<1> QED BY <1>2, <1>3, <1>4, <1>5, <1>6 DEF IInv

-----------------------------------------------------------------------------
(***************************************************************************)
(* What a step leaves alone.  Every action is a step of one source: of the *)
(* others, nothing but the messages ahead and behind changes.              *)
(***************************************************************************)
SameDelegate(s) ==
    /\ m_sourceId'[s] = m_sourceId[s] /\ m_samples'[s] = m_samples[s] /\ m_isEos'[s] = m_isEos[s]
    /\ m_isSinkFlushOngoing'[s] = m_isSinkFlushOngoing[s]
    /\ streaming'[s] = streaming[s] /\ control'[s] = control[s]

SameClient(s) ==
    /\ s \in m_attachedSources' <=> s \in m_attachedSources
    /\ pullQueue'[s] = pullQueue[s] /\ puller'[s] = puller[s]

SameServer(s) ==
    /\ request'[s] = request[s] /\ flushing'[s] = flushing[s]
    /\ endOfStream'[s] = endOfStream[s] /\ delivered'[s] = delivered[s]

SameHistory(s) ==
    /\ accepted'[s] = accepted[s] /\ flushes'[s] = flushes[s]
    /\ floor'[s] = floor[s] /\ dropped'[s] = dropped[s]

\* No message about the place or the requests of s comes or goes.
SameMessages(s) ==
    /\ Among(backendQueue', Attaches(s)) => Among(backendQueue, Attaches(s))
    /\ Once(backendQueue, Attaches(s)) => Once(backendQueue', Attaches(s))
    /\ Among(backendQueue', Erases(s)) => Among(backendQueue, Erases(s))
    /\ \A n \in 0..(MaxFlushes + 2) :
        /\ Among(backendQueue', Carries(s, n)) <=> Among(backendQueue, Carries(s, n))
        /\ Once(backendQueue, Carries(s, n)) => Once(backendQueue', Carries(s, n))
        /\ Among(backendQueue', TellsEos(s, n)) => Among(backendQueue, TellsEos(s, n))

Foreign(m, s) == m.src # s \/ m.type \in {"flush", "remove", "sourceFlushed"}

LEMMA ForeignSets ==
    ASSUME NEW s, NEW m, Foreign(m, s)
    PROVE  /\ m \notin Attaches(s) /\ m \notin Erases(s)
           /\ \A n : m \notin Carries(s, n) /\ m \notin TellsEos(s, n)
BY DEF Foreign, Attaches, Erases, Carries, TellsEos

LEMMA NoMessage == ASSUME NEW s, backendQueue' = backendQueue PROVE SameMessages(s)
BY DEF SameMessages

LEMMA PostedElsewhere ==
    ASSUME ClientTypes, NEW m \in Message, PostMessage(m), NEW s, Foreign(m, s)
    PROVE  SameMessages(s)
<1>1. \A S : m \notin S => /\ Among(backendQueue', S) <=> Among(backendQueue, S)
                           /\ Once(backendQueue, S) => Once(backendQueue', S)
  BY PostedHere
<1>2. /\ m \notin Attaches(s) /\ m \notin Erases(s)
      /\ \A n : m \notin Carries(s, n) /\ m \notin TellsEos(s, n)
  BY ForeignSets
<1> QED BY ONLY <1>1, <1>2 DEF SameMessages

LEMMA TakenElsewhere ==
    ASSUME ClientTypes, backendQueue # <<>>, Done, NEW s, Foreign(Head(backendQueue), s)
    PROVE  SameMessages(s)
<1>1. \A S : Head(backendQueue) \notin S =>
            /\ Among(backendQueue', S) <=> Among(backendQueue, S)
            /\ Once(backendQueue, S) => Once(backendQueue', S)
  BY TakenHere
<1>2. /\ Head(backendQueue) \notin Attaches(s) /\ Head(backendQueue) \notin Erases(s)
      /\ \A n : Head(backendQueue) \notin Carries(s, n) /\ Head(backendQueue) \notin TellsEos(s, n)
  BY ForeignSets
<1> QED BY ONLY <1>1, <1>2 DEF SameMessages

LEMMA ReplacedElsewhere ==
    ASSUME ClientTypes, backendQueue # <<>>, NEW m \in Message, NEW s,
           \/ backendQueue' = Append(Tail(backendQueue), m)
           \/ backendQueue' = <<m>> \o Tail(backendQueue),
           m.src # s, Head(backendQueue).src # s
    PROVE  SameMessages(s)
<1> DEFINE h == Head(backendQueue)
<1>1. \A S : m \notin S /\ h \notin S =>
            /\ Among(backendQueue', S) <=> Among(backendQueue, S)
            /\ Once(backendQueue, S) => Once(backendQueue', S)
  BY Replaced
<1>2. Foreign(m, s) /\ Foreign(h, s) BY DEF Foreign
<1> HIDE DEF h
<1>3. /\ m \notin Attaches(s) /\ m \notin Erases(s)
      /\ \A n : m \notin Carries(s, n) /\ m \notin TellsEos(s, n)
  BY <1>2, ForeignSets
<1>4. /\ h \notin Attaches(s) /\ h \notin Erases(s)
      /\ \A n : h \notin Carries(s, n) /\ h \notin TellsEos(s, n)
  BY <1>2, ForeignSets
<1> QED BY ONLY <1>1, <1>3, <1>4 DEF SameMessages

\* The messages of one source, after one was posted or the first one taken.
LEMMA PostedOwn ==
    ASSUME ClientTypes, NEW m \in Message, PostMessage(m), NEW s
    PROVE  /\ Among(backendQueue', Attaches(s))
                <=> Among(backendQueue, Attaches(s)) \/ (m.src = s /\ m.type = "attach")
           /\ Once(backendQueue, Attaches(s))
                /\ (m.src = s /\ m.type = "attach" => ~Among(backendQueue, Attaches(s)))
                    => Once(backendQueue', Attaches(s))
           /\ Among(backendQueue', Erases(s))
                <=> Among(backendQueue, Erases(s)) \/ (m.src = s /\ m.type = "erase")
           /\ \A n : /\ Among(backendQueue', Carries(s, n))
                            <=> \/ Among(backendQueue, Carries(s, n))
                                \/ m.src = s /\ m.type \in {"needData", "haveData"} /\ m.req = n
                     /\ Once(backendQueue, Carries(s, n))
                            /\ (m.src = s /\ m.type \in {"needData", "haveData"} /\ m.req = n
                                    => ~Among(backendQueue, Carries(s, n)))
                                => Once(backendQueue', Carries(s, n))
                     /\ Among(backendQueue', TellsEos(s, n))
                            <=> \/ Among(backendQueue, TellsEos(s, n))
                                \/ /\ m.src = s /\ m.type = "haveData" /\ m.req = n
                                   /\ m.status = "EOS"
<1>1. \A S : /\ Among(backendQueue', S) <=> Among(backendQueue, S) \/ m \in S
             /\ Once(backendQueue, S) /\ (m \notin S \/ ~Among(backendQueue, S))
                    => Once(backendQueue', S)
  BY PostedHere
<1>2. m \in Attaches(s) <=> m.src = s /\ m.type = "attach" BY DEF Attaches
<1>3. m \in Erases(s) <=> m.src = s /\ m.type = "erase" BY DEF Erases
<1>4. ASSUME NEW n
      PROVE  /\ m \in Carries(s, n) <=> m.src = s /\ m.type \in {"needData", "haveData"} /\ m.req = n
             /\ m \in TellsEos(s, n) <=> /\ m.src = s /\ m.type = "haveData" /\ m.req = n
                                         /\ m.status = "EOS"
  BY DEF Carries, TellsEos
<1> QED BY ONLY <1>1, <1>2, <1>3, <1>4

LEMMA TakenOwn ==
    ASSUME ClientTypes, backendQueue # <<>>, Done, NEW s
    PROVE  LET m == Head(backendQueue) IN
           /\ Among(backendQueue, Attaches(s))
                <=> Among(backendQueue', Attaches(s)) \/ (m.src = s /\ m.type = "attach")
           /\ Once(backendQueue, Attaches(s)) =>
                /\ Once(backendQueue', Attaches(s))
                /\ m.src = s /\ m.type = "attach" => ~Among(backendQueue', Attaches(s))
           /\ Among(backendQueue, Erases(s))
                <=> Among(backendQueue', Erases(s)) \/ (m.src = s /\ m.type = "erase")
           /\ \A n : /\ Among(backendQueue, Carries(s, n))
                            <=> \/ Among(backendQueue', Carries(s, n))
                                \/ m.src = s /\ m.type \in {"needData", "haveData"} /\ m.req = n
                     /\ Once(backendQueue, Carries(s, n)) =>
                            /\ Once(backendQueue', Carries(s, n))
                            /\ m.src = s /\ m.type \in {"needData", "haveData"} /\ m.req = n
                                    => ~Among(backendQueue', Carries(s, n))
                     /\ Among(backendQueue, TellsEos(s, n))
                            <=> \/ Among(backendQueue', TellsEos(s, n))
                                \/ /\ m.src = s /\ m.type = "haveData" /\ m.req = n
                                   /\ m.status = "EOS"
<1> DEFINE m == Head(backendQueue)
<1>1. /\ m \in Message
      /\ \A S : /\ Among(backendQueue, S) <=> m \in S \/ Among(backendQueue', S)
                /\ Once(backendQueue, S) =>
                        /\ Once(backendQueue', S)
                        /\ m \in S => ~Among(backendQueue', S)
  BY TakenHere
<1> HIDE DEF m
<1>2. m \in Attaches(s) <=> m.src = s /\ m.type = "attach" BY <1>1 DEF Attaches
<1>3. m \in Erases(s) <=> m.src = s /\ m.type = "erase" BY <1>1 DEF Erases
<1>4. ASSUME NEW n
      PROVE  /\ m \in Carries(s, n) <=> m.src = s /\ m.type \in {"needData", "haveData"} /\ m.req = n
             /\ m \in TellsEos(s, n) <=> /\ m.src = s /\ m.type = "haveData" /\ m.req = n
                                         /\ m.status = "EOS"
  BY <1>1 DEF Carries, TellsEos
<1>5. /\ Among(backendQueue, Attaches(s))
            <=> Among(backendQueue', Attaches(s)) \/ (m.src = s /\ m.type = "attach")
      /\ Once(backendQueue, Attaches(s)) =>
            /\ Once(backendQueue', Attaches(s))
            /\ m.src = s /\ m.type = "attach" => ~Among(backendQueue', Attaches(s))
      /\ Among(backendQueue, Erases(s))
            <=> Among(backendQueue', Erases(s)) \/ (m.src = s /\ m.type = "erase")
  BY ONLY <1>1, <1>2, <1>3
<1>6. ASSUME NEW n
      PROVE  /\ Among(backendQueue, Carries(s, n))
                    <=> \/ Among(backendQueue', Carries(s, n))
                        \/ m.src = s /\ m.type \in {"needData", "haveData"} /\ m.req = n
             /\ Once(backendQueue, Carries(s, n)) =>
                    /\ Once(backendQueue', Carries(s, n))
                    /\ m.src = s /\ m.type \in {"needData", "haveData"} /\ m.req = n
                            => ~Among(backendQueue', Carries(s, n))
             /\ Among(backendQueue, TellsEos(s, n))
                    <=> \/ Among(backendQueue', TellsEos(s, n))
                        \/ /\ m.src = s /\ m.type = "haveData" /\ m.req = n
                           /\ m.status = "EOS"
  BY ONLY <1>1, <1>4
<1> QED BY <1>5, <1>6 DEF m

\* The parts of the invariant, each with what it reads.
LEMMA PlacesKept ==
    ASSUME NEW s \in Sources, Places(s), SameMessages(s), m_sourceId'[s] = m_sourceId[s],
           streaming'[s] = streaming[s], control'[s] = control[s],
           s \in m_attachedSources' <=> s \in m_attachedSources,
           m_isSinkFlushOngoing'[s] = m_isSinkFlushOngoing[s]
    PROVE  Places(s)'
BY DEF Places, SameMessages

LEMMA QueueKept ==
    ASSUME NEW s \in Sources, Queue(s), m_samples'[s] = m_samples[s], accepted'[s] = accepted[s],
           floor'[s] = floor[s], streaming'[s] = streaming[s],
           m_isSinkFlushOngoing'[s] = m_isSinkFlushOngoing[s]
    PROVE  Queue(s)'
BY DEF Queue

LEMMA PullingKept ==
    ASSUME NEW s \in Sources, Pulling(s), puller'[s] = puller[s] PROVE Pulling(s)'
BY DEF Pulling, Idle

LEMMA DeliveringKept ==
    ASSUME NEW s \in Sources, Delivering(s), delivered'[s] = delivered[s], floor'[s] = floor[s],
           accepted'[s] = accepted[s], dropped'[s] = dropped[s], m_samples'[s] = m_samples[s],
           puller'[s] = puller[s], request'[s] = request[s]
    PROVE  Delivering(s)'
BY DEF Delivering

LEMMA SetsKept ==
    ASSUME NEW s, delivered'[s] = delivered[s], m_samples'[s] = m_samples[s]
    PROVE  Delivered(s)' = Delivered(s) /\ Samples(s)' = Samples(s)
BY DEF Delivered, Samples

LEMMA KeepingKept ==
    ASSUME NEW s \in Sources, Keeping(s), ~Clearing(s)' => ~Clearing(s),
           delivered'[s] = delivered[s], floor'[s] = floor[s],
           accepted'[s] = accepted[s], dropped'[s] = dropped[s], m_samples'[s] = m_samples[s],
           puller'[s] = puller[s], request'[s] = request[s]
    PROVE  Keeping(s)'
BY SetsKept DEF Keeping

LEMMA EndingKept ==
    ASSUME NEW s \in Sources, Ending(s), SameMessages(s), ServerTypes,
           m_isEos'[s] = m_isEos[s], streaming'[s] = streaming[s], control'[s] = control[s],
           endOfStream'[s] = endOfStream[s], delivered'[s] = delivered[s],
           m_samples'[s] = m_samples[s], floor'[s] = floor[s], accepted'[s] = accepted[s],
           dropped'[s] = dropped[s], puller'[s] = puller[s], request'[s] = request[s]
    PROVE  Ending(s)'
<1>1. request[s] \in 0..(MaxFlushes + 2) BY DEF ServerTypes
<1>2. EosUnderWay(s)' => EosUnderWay(s) BY <1>1 DEF EosUnderWay, SameMessages
<1>3. Delivered(s)' = Delivered(s) BY SetsKept
<1> QED BY <1>2, <1>3 DEF Ending

LEMMA RequestsKept ==
    ASSUME NEW s \in Sources, Requests(s), SameMessages(s), ServerTypes, ClientTypes,
           request'[s] = request[s] \/ request'[s] = 0,
           pullQueue'[s] = pullQueue[s], puller'[s].req = puller[s].req,
           s \in m_attachedSources' <=> s \in m_attachedSources
    PROVE  Requests(s)'
<1>1. request[s] \in 0..(MaxFlushes + 2) /\ puller[s].req \in 0..(MaxFlushes + 2)
  BY DEF ServerTypes, ClientTypes, PullerState
<1>2. \A n \in RequestIds : n \in 0..(MaxFlushes + 2) BY Constants
<1>3. \A i \in 1..Len(pullQueue[s]) : pullQueue[s][i] \in 0..(MaxFlushes + 2)
  <2>1. pullQueue[s] \in Seq(RequestIds) BY DEF ClientTypes
  <2>2. \A i \in 1..Len(pullQueue[s]) : pullQueue[s][i] \in RequestIds BY <2>1
  <2> QED BY <1>2, <2>2
<1>4. 0 \in 0..(MaxFlushes + 2) BY Constants
<1> QED BY <1>1, <1>2, <1>3, <1>4 DEF Requests, SameMessages

LEMMA OwingKept ==
    ASSUME NEW s \in Sources, Owing(s), flushing'[s] = flushing[s], flushes'[s] = flushes[s],
           control'[s] = control[s]
    PROVE  Owing(s)'
BY DEF Owing

LEMMA Elsewhere ==
    ASSUME IInv, NEW s \in Sources, SameDelegate(s), SameClient(s), SameServer(s), SameHistory(s),
           SameMessages(s)
    PROVE  /\ Places(s)' /\ Queue(s)' /\ Pulling(s)' /\ Delivering(s)' /\ Keeping(s)' /\ Ending(s)'
           /\ Requests(s)' /\ Owing(s)'
<1> USE At, Types DEF SameDelegate, SameClient, SameServer, SameHistory
<1>1. Places(s)' BY PlacesKept
<1>2. Queue(s)' BY QueueKept
<1>3. Pulling(s)' BY PullingKept
<1>4. Delivering(s)' BY DeliveringKept
<1>5. Clearing(s)' <=> Clearing(s) BY DEF Clearing
<1>6. Keeping(s)' BY <1>5, KeepingKept
<1>7. Ending(s)' BY EndingKept
<1>8. Requests(s)' BY RequestsKept
<1>9. Owing(s)' BY OwingKept
<1> QED BY <1>1, <1>2, <1>3, <1>4, <1>6, <1>7, <1>8, <1>9

\* The types at one source.
LEMMA TypesAt ==
    ASSUME IInv, NEW s \in Sources
    PROVE  /\ m_sourceId[s] \in Sources \cup {UnknownId} /\ m_samples[s] \in Seq(Nat)
           /\ m_isEos[s] \in BOOLEAN /\ m_isSinkFlushOngoing[s] \in BOOLEAN
           /\ streaming[s] \in StreamingPcs /\ control[s] \in ControlPcs
           /\ m_isFlushing[s] \in BOOLEAN /\ pullQueue[s] \in Seq(RequestIds)
           /\ puller[s] \in PullerState /\ request[s] \in 0..(MaxFlushes + 2)
           /\ flushing[s] \in Nat /\ endOfStream[s] \in BOOLEAN /\ delivered[s] \in Seq(Nat)
           /\ accepted[s] \in Nat /\ flushes[s] \in Nat /\ floor[s] \in Nat
           /\ dropped[s] \subseteq Nat
BY Types DEF DelegateTypes, ClientTypes, ServerTypes

-----------------------------------------------------------------------------
(***************************************************************************)
(* The synchronizer.                                                       *)
(***************************************************************************)
\* No source but one of E starts to be "FLUSHING".
NoneMarked(E) == \A i \in DOMAIN m_sourceStates' : m_sourceStates'[i].flushState = "FLUSHING" =>
    i \in E \/ (i \in DOMAIN m_sourceStates /\ m_sourceStates[i].flushState = "FLUSHING")

LEMMA StateSet ==
    ASSUME SyncTypes, NEW id \in Sources \cup {UnknownId}, NEW f \in FlushStates,
           NEW d \in DataStates, SetState(id, f, d)
    PROVE  /\ SyncTypes'
           /\ \A i \in DOMAIN m_sourceStates' :
                m_sourceStates'[i].flushState = IF i = id THEN f ELSE m_sourceStates[i].flushState
           /\ DOMAIN m_sourceStates' = DOMAIN m_sourceStates \cup {id}
<1>1. /\ DOMAIN m_sourceStates' = DOMAIN m_sourceStates \cup {id}
      /\ \A i \in DOMAIN m_sourceStates' : m_sourceStates'[i] =
            IF i = id THEN [flushState |-> f, dataState |-> d] ELSE m_sourceStates[i]
  BY DEF SetState
<1>2. [flushState |-> f, dataState |-> d] \in SourceState BY DEF SourceState
<1>3. \A i \in DOMAIN m_sourceStates : /\ i \in Sources \cup {UnknownId}
                                       /\ m_sourceStates[i] \in SourceState
  BY DEF SyncTypes
<1>4. SyncTypes' BY <1>1, <1>2, <1>3 DEF SyncTypes
<1> QED BY <1>1, <1>4

LEMMA StateOfType ==
    ASSUME SyncTypes, NEW id
    PROVE  StateOf(id).flushState \in FlushStates /\ StateOf(id).dataState \in DataStates
BY DEF SyncTypes, StateOf, SourceState, FlushStates, DataStates

LEMMA DataReceived ==
    ASSUME SyncTypes, NEW id \in Sources \cup {UnknownId}, NotifyDataReceived(id)
    PROVE  SyncTypes' /\ NoneMarked({})
<1> DEFINE f == StateOf(id).flushState
           d == IF StateOf(id).dataState = "NO_DATA" THEN "DATA_RECEIVED" ELSE StateOf(id).dataState
<1>1. f \in FlushStates /\ d \in DataStates BY StateOfType DEF DataStates
<1>2. SetState(id, f, d) BY DEF NotifyDataReceived
<1>3. f = "FLUSHING" => id \in DOMAIN m_sourceStates /\ m_sourceStates[id].flushState = "FLUSHING"
  BY DEF StateOf
<1> HIDE DEF f, d
<1>4. /\ SyncTypes' /\ DOMAIN m_sourceStates' = DOMAIN m_sourceStates \cup {id}
      /\ \A i \in DOMAIN m_sourceStates' :
            m_sourceStates'[i].flushState = IF i = id THEN f ELSE m_sourceStates[i].flushState
  BY <1>1, <1>2, StateSet
<1> QED BY <1>3, <1>4 DEF NoneMarked

LEMMA FlushNoted ==
    ASSUME SyncTypes, NEW id \in Sources \cup {UnknownId},
           AddSource(id) \/ NotifyDataPushed(id) \/ NotifyFlushCompleted(id)
    PROVE  /\ SyncTypes' /\ NoneMarked({})
           /\ \A i \in DOMAIN m_sourceStates' : m_sourceStates'[i].flushState = "FLUSHING" => i # id
<1>1. PICK f \in FlushStates, d \in DataStates : f # "FLUSHING" /\ SetState(id, f, d)
  BY StateOfType DEF AddSource, NotifyDataPushed, NotifyFlushCompleted, FlushStates, DataStates
<1>2. /\ SyncTypes' /\ DOMAIN m_sourceStates' = DOMAIN m_sourceStates \cup {id}
      /\ \A i \in DOMAIN m_sourceStates' :
            m_sourceStates'[i].flushState = IF i = id THEN f ELSE m_sourceStates[i].flushState
  BY <1>1, StateSet
<1> QED BY <1>1, <1>2 DEF NoneMarked

LEMMA FlushMarked ==
    ASSUME SyncTypes, NEW id \in Sources \cup {UnknownId}, NotifyFlushStarted(id)
    PROVE  SyncTypes' /\ NoneMarked({id})
<1>1. SetState(id, "FLUSHING", "NO_DATA") BY DEF NotifyFlushStarted
<1>2. /\ SyncTypes' /\ DOMAIN m_sourceStates' = DOMAIN m_sourceStates \cup {id}
      /\ \A i \in DOMAIN m_sourceStates' : i # id =>
            m_sourceStates'[i].flushState = m_sourceStates[i].flushState
  BY <1>1, StateSet DEF FlushStates, DataStates
<1> QED BY <1>2 DEF NoneMarked

LEMMA EntryRemoved ==
    ASSUME SyncTypes, NEW id, SyncRemoveSource(id)
    PROVE  /\ SyncTypes' /\ NoneMarked({})
           /\ id \notin DOMAIN m_sourceStates'
<1>1. /\ DOMAIN m_sourceStates' = DOMAIN m_sourceStates \ {id}
      /\ \A i \in DOMAIN m_sourceStates' : m_sourceStates'[i] = m_sourceStates[i]
  BY DEF SyncRemoveSource
<1> QED BY <1>1 DEF SyncTypes, NoneMarked

LEMMA MarkedKept ==
    ASSUME Marked, NoneMarked({}), \A s \in Sources : FlushOngoing(s) => FlushOngoing(s)'
    PROVE  Marked'
BY DEF Marked, NoneMarked

-----------------------------------------------------------------------------
(***************************************************************************)
(* The steps.                                                              *)
(***************************************************************************)

\* setSegment().
LEMMA SetSegmentStep == ASSUME IInv, NEW r \in Sources, SetSegment(r) PROVE IInv'
<1> USE Types
<1>1. ClientTypes' /\ ServerTypes' /\ SyncTypes' /\ Marked'
  BY DEF SetSegment, client, server, history, ClientTypes, ServerTypes, SyncTypes, Marked,
       FlushOngoing
<1>2. DelegateTypes'
  BY DEF SetSegment, client, server, history, DelegateTypes, StreamingPcs, ControlPcs
<1>3. ASSUME NEW s \in Sources, s # r
       PROVE  /\ Places(s)' /\ Queue(s)' /\ Pulling(s)' /\ Delivering(s)' /\ Keeping(s)' /\ Ending(s)'
              /\ Requests(s)' /\ Owing(s)'
  <2>1. SameDelegate(s) /\ SameClient(s) /\ SameServer(s) /\ SameHistory(s)
    BY <1>3 DEF SetSegment, client, server, history, SameDelegate, SameClient, SameServer,
         SameHistory, DelegateTypes, ClientTypes, ServerTypes
  <2>2. backendQueue' = backendQueue BY DEF SetSegment, client, server, history
  <2>3. SameMessages(s) BY <2>2, NoMessage
  <2> QED BY <2>1, <2>3, Elsewhere
<1>s. SameMessages(r)
  <2>1. backendQueue' = backendQueue BY DEF SetSegment, client, server, history
  <2> QED BY <2>1, NoMessage
<1>v. /\ streaming[r] = "segment" /\ streaming'[r] = "run" /\ m_sourceId'[r] = m_sourceId[r]
      /\ m_samples'[r] = m_samples[r] /\ m_isEos'[r] = m_isEos[r]
      /\ m_isSinkFlushOngoing'[r] = m_isSinkFlushOngoing[r] /\ control'[r] = control[r]
      /\ pullQueue'[r] = pullQueue[r] /\ puller'[r] = puller[r] /\ request'[r] = request[r]
      /\ flushing'[r] = flushing[r] /\ endOfStream'[r] = endOfStream[r]
      /\ delivered'[r] = delivered[r] /\ accepted'[r] = accepted[r] /\ flushes'[r] = flushes[r]
      /\ floor'[r] = floor[r] /\ dropped'[r] = dropped[r] /\ m_attachedSources' = m_attachedSources
  BY DEF SetSegment, client, server, history, DelegateTypes, ClientTypes, ServerTypes
<1>t. /\ Places(r) /\ Queue(r) /\ Pulling(r) /\ Delivering(r) /\ Keeping(r) /\ Ending(r)
      /\ Requests(r) /\ Owing(r)
  BY At
<1>a. Places(r)' BY <1>v, <1>t, TypesAt, <1>s DEF Places, Flushes, Cleared, SameMessages
<1>b. Queue(r)' BY <1>v, <1>t, TypesAt DEF Queue
<1>c. Pulling(r)' BY <1>v, <1>t, PullingKept
<1>d. Delivering(r)' BY <1>v, <1>t, DeliveringKept
<1>k. ~Clearing(r)' => ~Clearing(r) BY <1>v DEF Clearing
<1>e. Keeping(r)' BY <1>v, <1>t, <1>k, KeepingKept
<1>f. Ending(r)'
  <2>1. EosUnderWay(r)' => EosUnderWay(r) BY <1>v, <1>s, TypesAt DEF EosUnderWay, SameMessages
  <2>2. Delivered(r)' = Delivered(r) BY <1>v DEF Delivered
  <2> QED BY <1>v, <1>t, <2>1, <2>2 DEF Ending, Cleared
<1>g. Requests(r)' BY <1>v, <1>t, <1>s, RequestsKept
<1>h. Owing(r)' BY <1>v, <1>t, OwingKept
<1> QED BY <1>1, <1>2, <1>3, <1>a, <1>b, <1>c, <1>d, <1>e, <1>f, <1>g, <1>h DEF IInv

\* handleBuffer() waits for space.
LEMMA WaitForSpaceStep == ASSUME IInv, NEW r \in Sources, WaitForSpace(r) PROVE IInv'
<1> USE Types
<1>1. ClientTypes' /\ ServerTypes' /\ SyncTypes' /\ Marked'
  BY DEF WaitForSpace, HasSpace, delegate, client, server, history, ClientTypes, ServerTypes,
       SyncTypes, Marked, FlushOngoing
<1>2. DelegateTypes'
  BY DEF WaitForSpace, HasSpace, delegate, client, server, history, DelegateTypes, StreamingPcs,
       ControlPcs
<1>3. ASSUME NEW s \in Sources, s # r
       PROVE  /\ Places(s)' /\ Queue(s)' /\ Pulling(s)' /\ Delivering(s)' /\ Keeping(s)' /\ Ending(s)'
              /\ Requests(s)' /\ Owing(s)'
  <2>1. SameDelegate(s) /\ SameClient(s) /\ SameServer(s) /\ SameHistory(s)
    BY <1>3 DEF WaitForSpace, HasSpace, delegate, client, server, history, SameDelegate,
         SameClient, SameServer, SameHistory, DelegateTypes, ClientTypes, ServerTypes
  <2>2. backendQueue' = backendQueue BY DEF WaitForSpace, HasSpace, delegate, client, server, history
  <2>3. SameMessages(s) BY <2>2, NoMessage
  <2> QED BY <2>1, <2>3, Elsewhere
<1>s. SameMessages(r)
  <2>1. backendQueue' = backendQueue BY DEF WaitForSpace, HasSpace, delegate, client, server, history
  <2> QED BY <2>1, NoMessage
<1>v. /\ streaming[r] = "buffer" /\ streaming'[r] = "full" /\ m_sourceId'[r] = m_sourceId[r]
      /\ m_samples'[r] = m_samples[r] /\ m_isEos'[r] = m_isEos[r]
      /\ m_isSinkFlushOngoing'[r] = m_isSinkFlushOngoing[r] /\ control'[r] = control[r]
      /\ pullQueue'[r] = pullQueue[r] /\ puller'[r] = puller[r] /\ request'[r] = request[r]
      /\ flushing'[r] = flushing[r] /\ endOfStream'[r] = endOfStream[r]
      /\ delivered'[r] = delivered[r] /\ accepted'[r] = accepted[r] /\ flushes'[r] = flushes[r]
      /\ floor'[r] = floor[r] /\ dropped'[r] = dropped[r] /\ m_attachedSources' = m_attachedSources
  BY DEF WaitForSpace, HasSpace, delegate, client, server, history, DelegateTypes, ClientTypes,
       ServerTypes
<1>t. /\ Places(r) /\ Queue(r) /\ Pulling(r) /\ Delivering(r) /\ Keeping(r) /\ Ending(r)
      /\ Requests(r) /\ Owing(r)
  BY At
<1>a. Places(r)' BY <1>v, <1>t, TypesAt, <1>s DEF Places, Flushes, Cleared, SameMessages
<1>b. Queue(r)' BY <1>v, <1>t, TypesAt DEF Queue
<1>c. Pulling(r)' BY <1>v, <1>t, PullingKept
<1>d. Delivering(r)' BY <1>v, <1>t, DeliveringKept
<1>k. ~Clearing(r)' => ~Clearing(r) BY <1>v DEF Clearing
<1>e. Keeping(r)' BY <1>v, <1>t, <1>k, KeepingKept
<1>f. Ending(r)'
  <2>1. EosUnderWay(r)' => EosUnderWay(r) BY <1>v, <1>s, TypesAt DEF EosUnderWay, SameMessages
  <2>2. Delivered(r)' = Delivered(r) BY <1>v DEF Delivered
  <2> QED BY <1>v, <1>t, <2>1, <2>2 DEF Ending, Cleared
<1>g. Requests(r)' BY <1>v, <1>t, <1>s, RequestsKept
<1>h. Owing(r)' BY <1>v, <1>t, OwingKept
<1> QED BY <1>1, <1>2, <1>3, <1>a, <1>b, <1>c, <1>d, <1>e, <1>f, <1>g, <1>h DEF IInv

\* A segment, a buffer or an EOS event comes in.
LEMMA EnterSinkStep == ASSUME IInv, NEW r \in Sources, EnterSink(r) PROVE IInv'
<1> USE Types
<1>1. ClientTypes' /\ ServerTypes' /\ SyncTypes' /\ Marked'
  BY DEF EnterSink, Enter, delegate, client, server, history, ClientTypes, ServerTypes, SyncTypes,
       Marked, FlushOngoing
<1>2. DelegateTypes'
  BY DEF EnterSink, Enter, delegate, client, server, history, DelegateTypes, StreamingPcs,
       ControlPcs
<1>3. ASSUME NEW s \in Sources, s # r
       PROVE  /\ Places(s)' /\ Queue(s)' /\ Pulling(s)' /\ Delivering(s)' /\ Keeping(s)' /\ Ending(s)'
              /\ Requests(s)' /\ Owing(s)'
  <2>1. SameDelegate(s) /\ SameClient(s) /\ SameServer(s) /\ SameHistory(s)
    BY <1>3 DEF EnterSink, Enter, delegate, client, server, history, SameDelegate, SameClient,
         SameServer, SameHistory, DelegateTypes, ClientTypes, ServerTypes
  <2>2. backendQueue' = backendQueue BY DEF EnterSink, Enter, delegate, client, server, history
  <2>3. SameMessages(s) BY <2>2, NoMessage
  <2> QED BY <2>1, <2>3, Elsewhere
<1>s. SameMessages(r)
  <2>1. backendQueue' = backendQueue BY DEF EnterSink, Enter, delegate, client, server, history
  <2> QED BY <2>1, NoMessage
<1>v. /\ streaming[r] \in {"noSegment", "run"}
      /\ streaming'[r] \in {"segment", "buffer", "eosEvent"}
      /\ streaming'[r] = "buffer" => accepted[r] < MaxBuffers
      /\ control[r] \in {"idle", "removing", "removeClear"} /\ m_sourceId'[r] = m_sourceId[r]
      /\ m_samples'[r] = m_samples[r] /\ m_isEos'[r] = m_isEos[r]
      /\ m_isSinkFlushOngoing'[r] = m_isSinkFlushOngoing[r] /\ control'[r] = control[r]
      /\ pullQueue'[r] = pullQueue[r] /\ puller'[r] = puller[r] /\ request'[r] = request[r]
      /\ flushing'[r] = flushing[r] /\ endOfStream'[r] = endOfStream[r]
      /\ delivered'[r] = delivered[r] /\ accepted'[r] = accepted[r] /\ flushes'[r] = flushes[r]
      /\ floor'[r] = floor[r] /\ dropped'[r] = dropped[r] /\ m_attachedSources' = m_attachedSources
  BY DEF EnterSink, Enter, delegate, client, server, history, DelegateTypes, ClientTypes,
       ServerTypes
<1>t. /\ Places(r) /\ Queue(r) /\ Pulling(r) /\ Delivering(r) /\ Keeping(r) /\ Ending(r)
      /\ Requests(r) /\ Owing(r)
  BY At
<1>a. Places(r)' BY <1>v, <1>t, TypesAt, <1>s DEF Places, Flushes, Cleared, SameMessages
<1>b. Queue(r)' BY <1>v, <1>t, TypesAt DEF Queue
<1>c. Pulling(r)' BY <1>v, <1>t, PullingKept
<1>d. Delivering(r)' BY <1>v, <1>t, DeliveringKept
<1>k. ~Clearing(r)' => ~Clearing(r) BY <1>v DEF Clearing
<1>e. Keeping(r)' BY <1>v, <1>t, <1>k, KeepingKept
<1>f. Ending(r)'
  <2>1. EosUnderWay(r)' => EosUnderWay(r) BY <1>v, <1>s, TypesAt DEF EosUnderWay, SameMessages
  <2>2. Delivered(r)' = Delivered(r) BY <1>v DEF Delivered
  <2> QED BY <1>v, <1>t, <2>1, <2>2 DEF Ending, Cleared
<1>g. Requests(r)' BY <1>v, <1>t, <1>s, RequestsKept
<1>h. Owing(r)' BY <1>v, <1>t, OwingKept
<1> QED BY <1>1, <1>2, <1>3, <1>a, <1>b, <1>c, <1>d, <1>e, <1>f, <1>g, <1>h DEF IInv

\* FLUSH_START comes.
LEMMA FlushStartStep == ASSUME IInv, NEW r \in Sources, FlushStart(r) PROVE IInv'
<1> USE Types
<1>1. ClientTypes' /\ SyncTypes'
  BY DEF FlushStart, ControlStep, delegate, client, server, ClientTypes, SyncTypes
<1>2. DelegateTypes'
  BY DEF FlushStart, ControlStep, delegate, client, server, DelegateTypes, StreamingPcs,
       ControlPcs
<1>3. ServerTypes'
  BY DEF FlushStart, ControlStep, delegate, client, server, ServerTypes
<1>4. Marked'
  BY DEF FlushStart, ControlStep, delegate, client, server, Marked, FlushOngoing, DelegateTypes,
       ClientTypes
<1>5. ASSUME NEW s \in Sources, s # r
       PROVE  /\ Places(s)' /\ Queue(s)' /\ Pulling(s)' /\ Delivering(s)' /\ Keeping(s)' /\ Ending(s)'
              /\ Requests(s)' /\ Owing(s)'
  <2>1. SameDelegate(s) /\ SameClient(s) /\ SameServer(s) /\ SameHistory(s)
    BY <1>5 DEF FlushStart, ControlStep, delegate, client, server, SameDelegate, SameClient,
         SameServer, SameHistory, DelegateTypes, ClientTypes, ServerTypes
  <2>2. backendQueue' = backendQueue BY DEF FlushStart, ControlStep, delegate, client, server
  <2>3. SameMessages(s) BY <2>2, NoMessage
  <2> QED BY <2>1, <2>3, Elsewhere
<1>s. SameMessages(r)
  <2>1. backendQueue' = backendQueue BY DEF FlushStart, ControlStep, delegate, client, server
  <2> QED BY <2>1, NoMessage
<1>v. /\ control[r] = "idle" /\ control'[r] = "startWait"
      /\ r \in m_attachedSources \/ ("flushUnattached" \in May /\ streaming[r] = "caps")
      /\ flushes[r] < MaxFlushes /\ flushes'[r] = flushes[r] + 1 /\ m_sourceId'[r] = m_sourceId[r]
      /\ m_samples'[r] = m_samples[r] /\ m_isEos'[r] = m_isEos[r]
      /\ m_isSinkFlushOngoing'[r] = m_isSinkFlushOngoing[r] /\ streaming'[r] = streaming[r]
      /\ pullQueue'[r] = pullQueue[r] /\ puller'[r] = puller[r] /\ request'[r] = request[r]
      /\ flushing'[r] = flushing[r] /\ endOfStream'[r] = endOfStream[r]
      /\ delivered'[r] = delivered[r] /\ accepted'[r] = accepted[r] /\ floor'[r] = floor[r]
      /\ dropped'[r] = dropped[r] /\ m_attachedSources' = m_attachedSources
  BY DEF FlushStart, ControlStep, delegate, client, server, DelegateTypes, ClientTypes,
       ServerTypes
<1>t. /\ Places(r) /\ Queue(r) /\ Pulling(r) /\ Delivering(r) /\ Keeping(r) /\ Ending(r)
      /\ Requests(r) /\ Owing(r)
  BY At
<1>a. Places(r)' BY <1>v, <1>t, TypesAt, <1>s DEF Places, Flushes, Cleared, SameMessages
<1>b. Queue(r)' BY <1>v, <1>t, QueueKept
<1>c. Pulling(r)' BY <1>v, <1>t, PullingKept
<1>d. Delivering(r)' BY <1>v, <1>t, DeliveringKept
<1>k. ~Clearing(r)' => ~Clearing(r) BY <1>v DEF Clearing
<1>e. Keeping(r)' BY <1>v, <1>t, <1>k, KeepingKept
<1>f. Ending(r)'
  <2>1. EosUnderWay(r)' => EosUnderWay(r) BY <1>v, <1>s, TypesAt DEF EosUnderWay, SameMessages
  <2>2. Delivered(r)' = Delivered(r) BY <1>v DEF Delivered
  <2> QED BY <1>v, <1>t, <2>1, <2>2 DEF Ending, Cleared
<1>g. Requests(r)' BY <1>v, <1>t, <1>s, RequestsKept
<1>h. Owing(r)' BY <1>v, <1>t, TypesAt, Constants DEF Owing, Flushes
<1> QED BY <1>1, <1>2, <1>3, <1>4, <1>5, <1>a, <1>b, <1>c, <1>d, <1>e, <1>f, <1>g, <1>h DEF IInv

\* waitIfRequired() returns.
LEMMA FlushStartWaitedStep == ASSUME IInv, NEW r \in Sources, FlushStartWaited(r) PROVE IInv'
<1> USE Types
<1>1. ClientTypes' /\ ServerTypes' /\ SyncTypes'
  BY DEF FlushStartWaited, ControlStep, delegate, client, server, history, ClientTypes,
       ServerTypes, SyncTypes
<1>2. DelegateTypes'
  BY DEF FlushStartWaited, ControlStep, delegate, client, server, history, DelegateTypes,
       StreamingPcs, ControlPcs
<1>3. Marked'
  BY DEF FlushStartWaited, ControlStep, delegate, client, server, history, Marked, FlushOngoing,
       DelegateTypes, ClientTypes
<1>4. ASSUME NEW s \in Sources, s # r
       PROVE  /\ Places(s)' /\ Queue(s)' /\ Pulling(s)' /\ Delivering(s)' /\ Keeping(s)' /\ Ending(s)'
              /\ Requests(s)' /\ Owing(s)'
  <2>1. SameDelegate(s) /\ SameClient(s) /\ SameServer(s) /\ SameHistory(s)
    BY <1>4 DEF FlushStartWaited, ControlStep, delegate, client, server, history, SameDelegate,
         SameClient, SameServer, SameHistory, DelegateTypes, ClientTypes, ServerTypes
  <2>2. backendQueue' = backendQueue BY DEF FlushStartWaited, ControlStep, delegate, client, server, history
  <2>3. SameMessages(s) BY <2>2, NoMessage
  <2> QED BY <2>1, <2>3, Elsewhere
<1>s. SameMessages(r)
  <2>1. backendQueue' = backendQueue BY DEF FlushStartWaited, ControlStep, delegate, client, server, history
  <2> QED BY <2>1, NoMessage
<1>v. /\ control[r] = "startWait" /\ control'[r] = "startClear" /\ m_sourceId'[r] = m_sourceId[r]
      /\ m_samples'[r] = m_samples[r] /\ m_isEos'[r] = m_isEos[r]
      /\ m_isSinkFlushOngoing'[r] = m_isSinkFlushOngoing[r] /\ streaming'[r] = streaming[r]
      /\ pullQueue'[r] = pullQueue[r] /\ puller'[r] = puller[r] /\ request'[r] = request[r]
      /\ flushing'[r] = flushing[r] /\ endOfStream'[r] = endOfStream[r]
      /\ delivered'[r] = delivered[r] /\ accepted'[r] = accepted[r] /\ flushes'[r] = flushes[r]
      /\ floor'[r] = floor[r] /\ dropped'[r] = dropped[r] /\ m_attachedSources' = m_attachedSources
  BY DEF FlushStartWaited, ControlStep, delegate, client, server, history, DelegateTypes,
       ClientTypes, ServerTypes
<1>t. /\ Places(r) /\ Queue(r) /\ Pulling(r) /\ Delivering(r) /\ Keeping(r) /\ Ending(r)
      /\ Requests(r) /\ Owing(r)
  BY At
<1>a. Places(r)' BY <1>v, <1>t, TypesAt, <1>s DEF Places, Flushes, Cleared, SameMessages
<1>b. Queue(r)' BY <1>v, <1>t, QueueKept
<1>c. Pulling(r)' BY <1>v, <1>t, PullingKept
<1>d. Delivering(r)' BY <1>v, <1>t, DeliveringKept
<1>k. ~Clearing(r)' => ~Clearing(r) BY <1>v DEF Clearing
<1>e. Keeping(r)' BY <1>v, <1>t, <1>k, KeepingKept
<1>f. Ending(r)'
  <2>1. EosUnderWay(r)' => EosUnderWay(r) BY <1>v, <1>s, TypesAt DEF EosUnderWay, SameMessages
  <2>2. Delivered(r)' = Delivered(r) BY <1>v DEF Delivered
  <2> QED BY <1>v, <1>t, <2>1, <2>2 DEF Ending, Cleared
<1>g. Requests(r)' BY <1>v, <1>t, <1>s, RequestsKept
<1>h. Owing(r)' BY <1>v, <1>t, TypesAt DEF Owing, Flushes
<1> QED BY <1>1, <1>2, <1>3, <1>4, <1>a, <1>b, <1>c, <1>d, <1>e, <1>f, <1>g, <1>h DEF IInv

\* flushServer() marks the flush.
LEMMA FlushServerStep == ASSUME IInv, NEW r \in Sources, FlushServer(r) PROVE IInv'
<1> USE Types
<1>1. ClientTypes' /\ ServerTypes' /\ SyncTypes'
  BY DEF FlushServer, ControlStep, client, server, history, ClientTypes, ServerTypes, SyncTypes
<1>2. DelegateTypes'
  BY DEF FlushServer, ControlStep, client, server, history, DelegateTypes, StreamingPcs,
       ControlPcs
<1>3. Marked'
  BY DEF FlushServer, ControlStep, client, server, history, Marked, FlushOngoing, DelegateTypes,
       ClientTypes
<1>4. ASSUME NEW s \in Sources, s # r
       PROVE  /\ Places(s)' /\ Queue(s)' /\ Pulling(s)' /\ Delivering(s)' /\ Keeping(s)' /\ Ending(s)'
              /\ Requests(s)' /\ Owing(s)'
  <2>1. SameDelegate(s) /\ SameClient(s) /\ SameServer(s) /\ SameHistory(s)
    BY <1>4 DEF FlushServer, ControlStep, client, server, history, SameDelegate, SameClient,
         SameServer, SameHistory, DelegateTypes, ClientTypes, ServerTypes
  <2>2. backendQueue' = backendQueue BY DEF FlushServer, ControlStep, client, server, history
  <2>3. SameMessages(s) BY <2>2, NoMessage
  <2> QED BY <2>1, <2>3, Elsewhere
<1>s. SameMessages(r)
  <2>1. backendQueue' = backendQueue BY DEF FlushServer, ControlStep, client, server, history
  <2> QED BY <2>1, NoMessage
<1>v. /\ control[r] = "started" /\ control'[r] = "notify" /\ m_sourceId'[r] = m_sourceId[r]
      /\ m_samples'[r] = m_samples[r] /\ m_isEos'[r] = m_isEos[r]
      /\ m_isSinkFlushOngoing'[r] = m_isSinkFlushOngoing[r] /\ streaming'[r] = streaming[r]
      /\ pullQueue'[r] = pullQueue[r] /\ puller'[r] = puller[r] /\ request'[r] = request[r]
      /\ flushing'[r] = flushing[r] /\ endOfStream'[r] = endOfStream[r]
      /\ delivered'[r] = delivered[r] /\ accepted'[r] = accepted[r] /\ flushes'[r] = flushes[r]
      /\ floor'[r] = floor[r] /\ dropped'[r] = dropped[r] /\ m_attachedSources' = m_attachedSources
  BY DEF FlushServer, ControlStep, client, server, history, DelegateTypes, ClientTypes,
       ServerTypes
<1>t. /\ Places(r) /\ Queue(r) /\ Pulling(r) /\ Delivering(r) /\ Keeping(r) /\ Ending(r)
      /\ Requests(r) /\ Owing(r)
  BY At
<1>a. Places(r)' BY <1>v, <1>t, TypesAt, <1>s DEF Places, Flushes, Cleared, SameMessages
<1>b. Queue(r)' BY <1>v, <1>t, QueueKept
<1>c. Pulling(r)' BY <1>v, <1>t, PullingKept
<1>d. Delivering(r)' BY <1>v, <1>t, DeliveringKept
<1>k. ~Clearing(r)' => ~Clearing(r) BY <1>v DEF Clearing
<1>e. Keeping(r)' BY <1>v, <1>t, <1>k, KeepingKept
<1>f. Ending(r)'
  <2>1. EosUnderWay(r)' => EosUnderWay(r) BY <1>v, <1>s, TypesAt DEF EosUnderWay, SameMessages
  <2>2. Delivered(r)' = Delivered(r) BY <1>v DEF Delivered
  <2> QED BY <1>v, <1>t, <2>1, <2>2 DEF Ending, Cleared
<1>g. Requests(r)' BY <1>v, <1>t, <1>s, RequestsKept
<1>h. Owing(r)' BY <1>v, <1>t, TypesAt DEF Owing, Flushes
<1> QED BY <1>1, <1>2, <1>3, <1>4, <1>a, <1>b, <1>c, <1>d, <1>e, <1>f, <1>g, <1>h DEF IInv

\* stopFlushing() ends.
LEMMA StopFlushingStep == ASSUME IInv, NEW r \in Sources, StopFlushing(r) PROVE IInv'
<1> USE Types
<1>1. ClientTypes' /\ ServerTypes' /\ SyncTypes'
  BY DEF StopFlushing, ControlStep, client, server, history, ClientTypes, ServerTypes, SyncTypes
<1>2. DelegateTypes'
  BY DEF StopFlushing, ControlStep, client, server, history, DelegateTypes, StreamingPcs,
       ControlPcs
<1>3. Marked'
  BY DEF StopFlushing, ControlStep, client, server, history, Marked, FlushOngoing, DelegateTypes,
       ClientTypes
<1>4. ASSUME NEW s \in Sources, s # r
       PROVE  /\ Places(s)' /\ Queue(s)' /\ Pulling(s)' /\ Delivering(s)' /\ Keeping(s)' /\ Ending(s)'
              /\ Requests(s)' /\ Owing(s)'
  <2>1. SameDelegate(s) /\ SameClient(s) /\ SameServer(s) /\ SameHistory(s)
    BY <1>4 DEF StopFlushing, ControlStep, client, server, history, SameDelegate, SameClient,
         SameServer, SameHistory, DelegateTypes, ClientTypes, ServerTypes
  <2>2. backendQueue' = backendQueue BY DEF StopFlushing, ControlStep, client, server, history
  <2>3. SameMessages(s) BY <2>2, NoMessage
  <2> QED BY <2>1, <2>3, Elsewhere
<1>s. SameMessages(r)
  <2>1. backendQueue' = backendQueue BY DEF StopFlushing, ControlStep, client, server, history
  <2> QED BY <2>1, NoMessage
<1>v. /\ control[r] = "stopEnd" /\ control'[r] = "idle" /\ m_isSinkFlushOngoing'[r] = FALSE
      /\ streaming'[r] = IF streaming[r] = "caps" THEN "caps" ELSE "noSegment"
      /\ m_sourceId'[r] = m_sourceId[r] /\ m_samples'[r] = m_samples[r] /\ m_isEos'[r] = m_isEos[r]
      /\ pullQueue'[r] = pullQueue[r] /\ puller'[r] = puller[r] /\ request'[r] = request[r]
      /\ flushing'[r] = flushing[r] /\ endOfStream'[r] = endOfStream[r]
      /\ delivered'[r] = delivered[r] /\ accepted'[r] = accepted[r] /\ flushes'[r] = flushes[r]
      /\ floor'[r] = floor[r] /\ dropped'[r] = dropped[r] /\ m_attachedSources' = m_attachedSources
  BY DEF StopFlushing, ControlStep, client, server, history, DelegateTypes, ClientTypes,
       ServerTypes
<1>t. /\ Places(r) /\ Queue(r) /\ Pulling(r) /\ Delivering(r) /\ Keeping(r) /\ Ending(r)
      /\ Requests(r) /\ Owing(r)
  BY At
<1>a. Places(r)' BY <1>v, <1>t, TypesAt, <1>s DEF Places, Flushes, Cleared, SameMessages
<1>b. Queue(r)' BY <1>v, <1>t, TypesAt DEF Queue
<1>c. Pulling(r)' BY <1>v, <1>t, PullingKept
<1>d. Delivering(r)' BY <1>v, <1>t, DeliveringKept
<1>k. ~Clearing(r)' => ~Clearing(r) BY <1>v DEF Clearing
<1>e. Keeping(r)' BY <1>v, <1>t, <1>k, KeepingKept
<1>f. Ending(r)'
  <2>1. EosUnderWay(r)' => EosUnderWay(r) BY <1>v, <1>s, TypesAt DEF EosUnderWay, SameMessages
  <2>2. Delivered(r)' = Delivered(r) BY <1>v DEF Delivered
  <2> QED BY <1>v, <1>t, <2>1, <2>2 DEF Ending, Cleared
<1>g. Requests(r)' BY <1>v, <1>t, <1>s, RequestsKept
<1>h. Owing(r)' BY <1>v, <1>t, TypesAt DEF Owing, Flushes
<1> QED BY <1>1, <1>2, <1>3, <1>4, <1>a, <1>b, <1>c, <1>d, <1>e, <1>f, <1>g, <1>h DEF IInv

\* GST_EVENT_CAPS.
LEMMA CapsEventStep == ASSUME IInv, NEW r \in Sources, CapsEvent(r) PROVE IInv'
<1> USE Types
<1> DEFINE m == Msg("attach", r, 0, "none")
<1>m. m \in Message /\ PostMessage(m)
  BY Constants DEF CapsEvent, Enter, delegate, server, history, Message, MessageTypes, Statuses,
       Msg
<1>p. backendQueue' \in Seq(Message) BY <1>m, PostedHere
<1> HIDE DEF m
<1>1. ServerTypes' /\ SyncTypes' /\ Marked'
  BY DEF CapsEvent, Enter, delegate, server, history, ServerTypes, SyncTypes, Marked, FlushOngoing
<1>2. DelegateTypes'
  BY DEF CapsEvent, Enter, delegate, server, history, DelegateTypes, StreamingPcs, ControlPcs
<1>3. ClientTypes'
  BY <1>p DEF CapsEvent, Enter, delegate, server, history, ClientTypes, PullerState, PullerPcs
<1>4. ASSUME NEW s \in Sources, s # r
       PROVE  /\ Places(s)' /\ Queue(s)' /\ Pulling(s)' /\ Delivering(s)' /\ Keeping(s)' /\ Ending(s)'
              /\ Requests(s)' /\ Owing(s)'
  <2>1. SameDelegate(s) /\ SameClient(s) /\ SameServer(s) /\ SameHistory(s)
    BY <1>4 DEF CapsEvent, Enter, delegate, server, history, SameDelegate, SameClient, SameServer,
         SameHistory, DelegateTypes, ClientTypes, ServerTypes
  <2>2. Foreign(m, s) BY <1>4 DEF m, Msg, Foreign
  <2>3. SameMessages(s) BY <1>m, <2>2, PostedElsewhere
  <2> QED BY <2>1, <2>3, Elsewhere
<1>v. /\ streaming[r] = "caps" /\ streaming'[r] = "attaching" /\ control[r] = "idle"
      /\ m_sourceId'[r] = m_sourceId[r] /\ m_samples'[r] = m_samples[r] /\ m_isEos'[r] = m_isEos[r]
      /\ m_isSinkFlushOngoing'[r] = m_isSinkFlushOngoing[r] /\ control'[r] = control[r]
      /\ pullQueue'[r] = pullQueue[r] /\ puller'[r] = puller[r] /\ request'[r] = request[r]
      /\ flushing'[r] = flushing[r] /\ endOfStream'[r] = endOfStream[r]
      /\ delivered'[r] = delivered[r] /\ accepted'[r] = accepted[r] /\ flushes'[r] = flushes[r]
      /\ floor'[r] = floor[r] /\ dropped'[r] = dropped[r] /\ m_attachedSources' = m_attachedSources
  BY DEF CapsEvent, Enter, delegate, server, history, DelegateTypes, ClientTypes, ServerTypes
<1>t. /\ Places(r) /\ Queue(r) /\ Pulling(r) /\ Delivering(r) /\ Keeping(r) /\ Ending(r)
      /\ Requests(r) /\ Owing(r)
  BY At
<1>q. m.src = r /\ m.type = "attach" BY DEF m, Msg
<1>n. /\ Once(backendQueue', Attaches(r))
      /\ Among(backendQueue', Erases(r)) => Among(backendQueue, Erases(r))
      /\ \A n : /\ Among(backendQueue', Carries(r, n)) <=> Among(backendQueue, Carries(r, n))
                /\ Once(backendQueue, Carries(r, n)) => Once(backendQueue', Carries(r, n))
                /\ Among(backendQueue', TellsEos(r, n)) => Among(backendQueue, TellsEos(r, n))
  <2>1. ~Among(backendQueue, Attaches(r)) /\ Once(backendQueue, Attaches(r)) BY <1>v, <1>t DEF Places
  <2> QED BY <1>m, <1>q, <2>1, PostedOwn
<1>a. Places(r)' BY <1>v, <1>t, <1>n, TypesAt DEF Places, Flushes, Cleared
<1>b. Queue(r)' BY <1>v, <1>t, TypesAt DEF Queue
<1>c. Pulling(r)' BY <1>v, <1>t, PullingKept
<1>d. Delivering(r)' BY <1>v, <1>t, DeliveringKept
<1>k. ~Clearing(r)' => ~Clearing(r) BY <1>v DEF Clearing
<1>e. Keeping(r)' BY <1>v, <1>t, <1>k, KeepingKept
<1>f. Ending(r)'
  <2>1. EosUnderWay(r)' => EosUnderWay(r) BY <1>v, <1>n DEF EosUnderWay
  <2>2. Delivered(r)' = Delivered(r) BY <1>v DEF Delivered
  <2> QED BY <1>v, <1>t, <2>1, <2>2 DEF Ending, Cleared
<1>g. Requests(r)' BY <1>v, <1>t, <1>n DEF Requests
<1>h. Owing(r)' BY <1>v, <1>t, OwingKept
<1> QED BY <1>1, <1>2, <1>3, <1>4, <1>a, <1>b, <1>c, <1>d, <1>e, <1>f, <1>g, <1>h DEF IInv

\* flush() enters the event loop.
LEMMA FlushCallStep == ASSUME IInv, NEW r \in Sources, FlushCall(r) PROVE IInv'
<1> USE Types
<1> DEFINE m == Msg("flush", r, 0, "none")
<1>m. m \in Message /\ PostMessage(m)
  BY Constants DEF FlushCall, ControlStep, delegate, server, history, Message, MessageTypes,
       Statuses, Msg
<1>p. backendQueue' \in Seq(Message) BY <1>m, PostedHere
<1> HIDE DEF m
<1>1. ServerTypes' /\ SyncTypes'
  BY DEF FlushCall, ControlStep, delegate, server, history, ServerTypes, SyncTypes
<1>2. DelegateTypes'
  BY DEF FlushCall, ControlStep, delegate, server, history, DelegateTypes, StreamingPcs,
       ControlPcs
<1>3. ClientTypes'
  BY <1>p DEF FlushCall, ControlStep, delegate, server, history, ClientTypes, PullerState,
       PullerPcs
<1>4. Marked'
  BY DEF FlushCall, ControlStep, delegate, server, history, Marked, FlushOngoing, DelegateTypes,
       ClientTypes
<1>5. ASSUME NEW s \in Sources, s # r
       PROVE  /\ Places(s)' /\ Queue(s)' /\ Pulling(s)' /\ Delivering(s)' /\ Keeping(s)' /\ Ending(s)'
              /\ Requests(s)' /\ Owing(s)'
  <2>1. SameDelegate(s) /\ SameClient(s) /\ SameServer(s) /\ SameHistory(s)
    BY <1>5 DEF FlushCall, ControlStep, delegate, server, history, SameDelegate, SameClient,
         SameServer, SameHistory, DelegateTypes, ClientTypes, ServerTypes
  <2>2. Foreign(m, s) BY <1>5 DEF m, Msg, Foreign
  <2>3. SameMessages(s) BY <1>m, <2>2, PostedElsewhere
  <2> QED BY <2>1, <2>3, Elsewhere
<1>s. SameMessages(r)
  <2>1. Foreign(m, r) BY DEF m, Msg, Foreign
  <2> QED BY <1>m, <2>1, PostedElsewhere
<1>v. /\ control[r] = "post" /\ control'[r] = "inLoop" /\ m_sourceId'[r] = m_sourceId[r]
      /\ m_samples'[r] = m_samples[r] /\ m_isEos'[r] = m_isEos[r]
      /\ m_isSinkFlushOngoing'[r] = m_isSinkFlushOngoing[r] /\ streaming'[r] = streaming[r]
      /\ pullQueue'[r] = pullQueue[r] /\ puller'[r] = puller[r] /\ request'[r] = request[r]
      /\ flushing'[r] = flushing[r] /\ endOfStream'[r] = endOfStream[r]
      /\ delivered'[r] = delivered[r] /\ accepted'[r] = accepted[r] /\ flushes'[r] = flushes[r]
      /\ floor'[r] = floor[r] /\ dropped'[r] = dropped[r] /\ m_attachedSources' = m_attachedSources
  BY DEF FlushCall, ControlStep, delegate, server, history, DelegateTypes, ClientTypes,
       ServerTypes
<1>t. /\ Places(r) /\ Queue(r) /\ Pulling(r) /\ Delivering(r) /\ Keeping(r) /\ Ending(r)
      /\ Requests(r) /\ Owing(r)
  BY At
<1>a. Places(r)' BY <1>v, <1>t, TypesAt, <1>s DEF Places, Flushes, Cleared, SameMessages
<1>b. Queue(r)' BY <1>v, <1>t, QueueKept
<1>c. Pulling(r)' BY <1>v, <1>t, PullingKept
<1>d. Delivering(r)' BY <1>v, <1>t, DeliveringKept
<1>k. ~Clearing(r)' => ~Clearing(r) BY <1>v DEF Clearing
<1>e. Keeping(r)' BY <1>v, <1>t, <1>k, KeepingKept
<1>f. Ending(r)'
  <2>1. EosUnderWay(r)' => EosUnderWay(r) BY <1>v, <1>s, TypesAt DEF EosUnderWay, SameMessages
  <2>2. Delivered(r)' = Delivered(r) BY <1>v DEF Delivered
  <2> QED BY <1>v, <1>t, <2>1, <2>2 DEF Ending, Cleared
<1>g. Requests(r)' BY <1>v, <1>t, <1>s, RequestsKept
<1>h. Owing(r)' BY <1>v, <1>t, TypesAt DEF Owing, Flushes
<1> QED BY <1>1, <1>2, <1>3, <1>4, <1>5, <1>a, <1>b, <1>c, <1>d, <1>e, <1>f, <1>g, <1>h DEF IInv

\* PAUSED -> READY.
LEMMA RemoveSourceStep == ASSUME IInv, NEW r \in Sources, RemoveSource(r) PROVE IInv'
<1> USE Types
<1> DEFINE m == Msg("remove", r, 0, "none")
<1>m. m \in Message /\ PostMessage(m)
  BY Constants DEF RemoveSource, ControlStep, delegate, server, history, Message, MessageTypes,
       Statuses, Msg
<1>p. backendQueue' \in Seq(Message) BY <1>m, PostedHere
<1> HIDE DEF m
<1>1. ServerTypes' /\ SyncTypes'
  BY DEF RemoveSource, ControlStep, delegate, server, history, ServerTypes, SyncTypes
<1>2. DelegateTypes'
  BY DEF RemoveSource, ControlStep, delegate, server, history, DelegateTypes, StreamingPcs,
       ControlPcs
<1>3. ClientTypes'
  BY <1>p DEF RemoveSource, ControlStep, delegate, server, history, ClientTypes, PullerState,
       PullerPcs
<1>4. Marked'
  BY DEF RemoveSource, ControlStep, delegate, server, history, Marked, FlushOngoing, DelegateTypes,
       ClientTypes
<1>5. ASSUME NEW s \in Sources, s # r
       PROVE  /\ Places(s)' /\ Queue(s)' /\ Pulling(s)' /\ Delivering(s)' /\ Keeping(s)' /\ Ending(s)'
              /\ Requests(s)' /\ Owing(s)'
  <2>1. SameDelegate(s) /\ SameClient(s) /\ SameServer(s) /\ SameHistory(s)
    BY <1>5 DEF RemoveSource, ControlStep, delegate, server, history, SameDelegate, SameClient,
         SameServer, SameHistory, DelegateTypes, ClientTypes, ServerTypes
  <2>2. Foreign(m, s) BY <1>5 DEF m, Msg, Foreign
  <2>3. SameMessages(s) BY <1>m, <2>2, PostedElsewhere
  <2> QED BY <2>1, <2>3, Elsewhere
<1>s. SameMessages(r)
  <2>1. Foreign(m, r) BY DEF m, Msg, Foreign
  <2> QED BY <1>m, <2>1, PostedElsewhere
<1>v. /\ control[r] = "idle" /\ control'[r] = "removing" /\ r \in m_attachedSources
      /\ m_sourceId'[r] = m_sourceId[r] /\ m_samples'[r] = m_samples[r] /\ m_isEos'[r] = m_isEos[r]
      /\ m_isSinkFlushOngoing'[r] = m_isSinkFlushOngoing[r] /\ streaming'[r] = streaming[r]
      /\ pullQueue'[r] = pullQueue[r] /\ puller'[r] = puller[r] /\ request'[r] = request[r]
      /\ flushing'[r] = flushing[r] /\ endOfStream'[r] = endOfStream[r]
      /\ delivered'[r] = delivered[r] /\ accepted'[r] = accepted[r] /\ flushes'[r] = flushes[r]
      /\ floor'[r] = floor[r] /\ dropped'[r] = dropped[r] /\ m_attachedSources' = m_attachedSources
  BY DEF RemoveSource, ControlStep, delegate, server, history, DelegateTypes, ClientTypes,
       ServerTypes
<1>t. /\ Places(r) /\ Queue(r) /\ Pulling(r) /\ Delivering(r) /\ Keeping(r) /\ Ending(r)
      /\ Requests(r) /\ Owing(r)
  BY At
<1>a. Places(r)' BY <1>v, <1>t, TypesAt, <1>s DEF Places, Flushes, Cleared, SameMessages
<1>b. Queue(r)' BY <1>v, <1>t, QueueKept
<1>c. Pulling(r)' BY <1>v, <1>t, PullingKept
<1>d. Delivering(r)' BY <1>v, <1>t, DeliveringKept
<1>k. ~Clearing(r)' => ~Clearing(r) BY <1>v DEF Clearing
<1>e. Keeping(r)' BY <1>v, <1>t, <1>k, KeepingKept
<1>f. Ending(r)'
  <2>1. EosUnderWay(r)' => EosUnderWay(r) BY <1>v, <1>s, TypesAt DEF EosUnderWay, SameMessages
  <2>2. Delivered(r)' = Delivered(r) BY <1>v DEF Delivered
  <2> QED BY <1>v, <1>t, <2>1, <2>2 DEF Ending, Cleared
<1>g. Requests(r)' BY <1>v, <1>t, <1>s, RequestsKept
<1>h. Owing(r)' BY <1>v, <1>t, TypesAt DEF Owing, Flushes
<1> QED BY <1>1, <1>2, <1>3, <1>4, <1>5, <1>a, <1>b, <1>c, <1>d, <1>e, <1>f, <1>g, <1>h DEF IInv

\* The server reports the end of a flush.
LEMMA NotifySourceFlushedStep == ASSUME IInv, NEW r \in Sources, NotifySourceFlushed(r) PROVE IInv'
<1> USE Types
<1> DEFINE m == Msg("sourceFlushed", r, 0, "none")
<1>m. m \in Message /\ PostMessage(m)
  BY Constants DEF NotifySourceFlushed, delegate, history, Message, MessageTypes, Statuses, Msg
<1>p. backendQueue' \in Seq(Message) BY <1>m, PostedHere
<1> HIDE DEF m
<1>1. DelegateTypes' /\ SyncTypes' /\ Marked'
  BY DEF NotifySourceFlushed, delegate, history, DelegateTypes, SyncTypes, Marked, FlushOngoing
<1>2. ClientTypes'
  BY <1>p DEF NotifySourceFlushed, delegate, history, ClientTypes, PullerState, PullerPcs
<1>3. ServerTypes'
  BY DEF NotifySourceFlushed, delegate, history, ServerTypes
<1>4. ASSUME NEW s \in Sources, s # r
       PROVE  /\ Places(s)' /\ Queue(s)' /\ Pulling(s)' /\ Delivering(s)' /\ Keeping(s)' /\ Ending(s)'
              /\ Requests(s)' /\ Owing(s)'
  <2>1. SameDelegate(s) /\ SameClient(s) /\ SameServer(s) /\ SameHistory(s)
    BY <1>4 DEF NotifySourceFlushed, delegate, history, SameDelegate, SameClient, SameServer,
         SameHistory, DelegateTypes, ClientTypes, ServerTypes
  <2>2. Foreign(m, s) BY <1>4 DEF m, Msg, Foreign
  <2>3. SameMessages(s) BY <1>m, <2>2, PostedElsewhere
  <2> QED BY <2>1, <2>3, Elsewhere
<1>s. SameMessages(r)
  <2>1. Foreign(m, r) BY DEF m, Msg, Foreign
  <2> QED BY <1>m, <2>1, PostedElsewhere
<1>v. /\ flushing[r] > 0 /\ flushing'[r] = flushing[r] - 1 /\ m_sourceId'[r] = m_sourceId[r]
      /\ m_samples'[r] = m_samples[r] /\ m_isEos'[r] = m_isEos[r]
      /\ m_isSinkFlushOngoing'[r] = m_isSinkFlushOngoing[r] /\ streaming'[r] = streaming[r]
      /\ control'[r] = control[r] /\ pullQueue'[r] = pullQueue[r] /\ puller'[r] = puller[r]
      /\ request'[r] = request[r] /\ endOfStream'[r] = endOfStream[r]
      /\ delivered'[r] = delivered[r] /\ accepted'[r] = accepted[r] /\ flushes'[r] = flushes[r]
      /\ floor'[r] = floor[r] /\ dropped'[r] = dropped[r] /\ m_attachedSources' = m_attachedSources
  BY DEF NotifySourceFlushed, delegate, history, DelegateTypes, ClientTypes, ServerTypes
<1>t. /\ Places(r) /\ Queue(r) /\ Pulling(r) /\ Delivering(r) /\ Keeping(r) /\ Ending(r)
      /\ Requests(r) /\ Owing(r)
  BY At
<1>a. Places(r)' BY <1>v, <1>t, <1>s, PlacesKept
<1>b. Queue(r)' BY <1>v, <1>t, QueueKept
<1>c. Pulling(r)' BY <1>v, <1>t, PullingKept
<1>d. Delivering(r)' BY <1>v, <1>t, DeliveringKept
<1>k. ~Clearing(r)' => ~Clearing(r) BY <1>v DEF Clearing
<1>e. Keeping(r)' BY <1>v, <1>t, <1>k, KeepingKept
<1>f. Ending(r)' BY <1>v, <1>t, <1>s, EndingKept
<1>g. Requests(r)' BY <1>v, <1>t, <1>s, RequestsKept
<1>h. Owing(r)' BY <1>v, <1>t, TypesAt DEF Owing, Flushes
<1> QED BY <1>1, <1>2, <1>3, <1>4, <1>a, <1>b, <1>c, <1>d, <1>e, <1>f, <1>g, <1>h DEF IInv

\* startFlushing().
LEMMA StartFlushingStep == ASSUME IInv, NEW r \in Sources, StartFlushing(r) PROVE IInv'
<1> USE Types
<1>1. ClientTypes' /\ ServerTypes' /\ SyncTypes'
  BY DEF StartFlushing, ControlStep, ClearBuffersUnlocked, Wake, client, server, history,
       ClientTypes, ServerTypes, SyncTypes
<1>2. DelegateTypes'
  <2>1. CASE m_isSinkFlushOngoing[r]
    BY <2>1 DEF StartFlushing, ControlStep, ClearBuffersUnlocked, DelegateTypes, ControlPcs
  <2>2. CASE ~m_isSinkFlushOngoing[r]
    <3>1. /\ m_isEos' = [m_isEos EXCEPT ![r] = FALSE]
          /\ m_segmentSet' = [m_segmentSet EXCEPT ![r] = FALSE]
          /\ m_isSinkFlushOngoing' = [m_isSinkFlushOngoing EXCEPT ![r] = TRUE]
          /\ m_samples' = [m_samples EXCEPT ![r] = <<>>]
          /\ streaming' = [streaming EXCEPT ![r] = IF @ = "full" THEN "woken" ELSE @]
      BY <2>2 DEF StartFlushing, ClearBuffersUnlocked, Wake
    <3>2. streaming' \in [Sources -> StreamingPcs] /\ control' \in [Sources -> ControlPcs]
      BY <3>1 DEF StartFlushing, ControlStep, DelegateTypes, StreamingPcs, ControlPcs
    <3>3. m_samples' \in [Sources -> Seq(Nat)] BY <3>1 DEF DelegateTypes
    <3>4. /\ m_isEos' \in [Sources -> BOOLEAN] /\ m_segmentSet' \in [Sources -> BOOLEAN]
          /\ m_isSinkFlushOngoing' \in [Sources -> BOOLEAN]
      BY <3>1 DEF DelegateTypes
    <3> QED BY <3>2, <3>3, <3>4 DEF StartFlushing, DelegateTypes
  <2> QED BY <2>1, <2>2
<1>3. Marked'
  BY DEF StartFlushing, ControlStep, ClearBuffersUnlocked, Wake, client, server, history, Marked,
       FlushOngoing, DelegateTypes, ClientTypes
<1>4. ASSUME NEW s \in Sources, s # r
       PROVE  /\ Places(s)' /\ Queue(s)' /\ Pulling(s)' /\ Delivering(s)' /\ Keeping(s)' /\ Ending(s)'
              /\ Requests(s)' /\ Owing(s)'
  <2>1. SameDelegate(s) /\ SameClient(s) /\ SameServer(s) /\ SameHistory(s)
    BY <1>4 DEF StartFlushing, ControlStep, ClearBuffersUnlocked, Wake, client, server, history,
         SameDelegate, SameClient, SameServer, SameHistory, DelegateTypes, ClientTypes,
         ServerTypes
  <2>2. backendQueue' = backendQueue
    BY DEF StartFlushing, ControlStep, ClearBuffersUnlocked, Wake, client, server, history
  <2>3. SameMessages(s) BY <2>2, NoMessage
  <2> QED BY <2>1, <2>3, Elsewhere
<1>s. SameMessages(r)
  <2>1. backendQueue' = backendQueue
    BY DEF StartFlushing, ControlStep, ClearBuffersUnlocked, Wake, client, server, history
  <2> QED BY <2>1, NoMessage
<1>v. /\ control[r] = "startClear" /\ control'[r] = "started"
      /\ streaming[r] = "eosEvent" => "overtakeEos" \in May
      /\ m_isSinkFlushOngoing[r] \/ m_isEos'[r] = FALSE
      /\ m_isSinkFlushOngoing[r] \/ m_isSinkFlushOngoing'[r] = TRUE
      /\ m_isSinkFlushOngoing[r] \/ m_samples'[r] = <<>>
      /\ m_isSinkFlushOngoing[r] \/ streaming'[r] = IF streaming[r] = "full" THEN "woken" ELSE streaming[r]
      /\ m_sourceId'[r] = m_sourceId[r] /\ pullQueue'[r] = pullQueue[r] /\ puller'[r] = puller[r]
      /\ request'[r] = request[r] /\ flushing'[r] = flushing[r] /\ endOfStream'[r] = endOfStream[r]
      /\ delivered'[r] = delivered[r] /\ accepted'[r] = accepted[r] /\ flushes'[r] = flushes[r]
      /\ floor'[r] = floor[r] /\ dropped'[r] = dropped[r] /\ m_attachedSources' = m_attachedSources
  BY DEF StartFlushing, ControlStep, ClearBuffersUnlocked, Wake, client, server, history,
       DelegateTypes, ClientTypes, ServerTypes
<1>t. /\ Places(r) /\ Queue(r) /\ Pulling(r) /\ Delivering(r) /\ Keeping(r) /\ Ending(r)
      /\ Requests(r) /\ Owing(r)
  BY At
<1>w. /\ m_isEos'[r] = FALSE /\ m_isSinkFlushOngoing'[r] = TRUE /\ m_samples'[r] = <<>>
      /\ streaming'[r] = IF streaming[r] = "full" THEN "woken" ELSE streaming[r]
  BY <1>v, <1>t DEF Places, Cleared
<1>a. Places(r)' BY <1>v, <1>t, <1>w, <1>s, TypesAt DEF Places, Flushes, Cleared, SameMessages
<1>b. Queue(r)'
  <2>1. /\ m_samples'[r] = <<>> /\ Len(m_samples'[r]) = 0
        /\ \A i \in 1..Len(m_samples'[r]) : FALSE
    BY <1>w
  <2> QED BY <1>v, <1>t, <1>w, <2>1, TypesAt, Constants DEF Queue
<1>c. Pulling(r)' BY <1>v, <1>t, PullingKept
<1>d. Delivering(r)'
  <2>1. /\ m_samples'[r] = <<>> /\ Len(m_samples'[r]) = 0
        /\ \A i \in 1..Len(m_samples'[r]) : FALSE
    BY <1>w
  <2> QED BY <1>v, <1>t, <1>w, <2>1, TypesAt, Constants DEF Delivering
<1>e. Keeping(r)' BY <1>v DEF Keeping, Clearing
<1>f. Ending(r)'
  <2>1. EosUnderWay(r)' => EosUnderWay(r) BY <1>v, <1>s, TypesAt DEF EosUnderWay, SameMessages
  <2>2. Delivered(r)' = Delivered(r) BY <1>v DEF Delivered
  <2> QED BY <1>v, <1>t, <1>w, <2>1, <2>2 DEF Ending, Cleared
<1>g. Requests(r)' BY <1>v, <1>t, <1>s, RequestsKept
<1>h. Owing(r)' BY <1>v, <1>t, TypesAt DEF Owing, Flushes
<1> QED BY <1>1, <1>2, <1>3, <1>4, <1>a, <1>b, <1>c, <1>d, <1>e, <1>f, <1>g, <1>h DEF IInv

\* The buffers go after the source.
LEMMA RemoveClearStep == ASSUME IInv, NEW r \in Sources, RemoveClear(r) PROVE IInv'
<1> USE Types
<1>1. ClientTypes' /\ ServerTypes' /\ SyncTypes'
  BY DEF RemoveClear, ControlStep, ClearBuffersUnlocked, Wake, client, server, history,
       ClientTypes, ServerTypes, SyncTypes
<1>2. DelegateTypes'
  BY DEF RemoveClear, ControlStep, ClearBuffersUnlocked, Wake, client, server, history,
       DelegateTypes, StreamingPcs, ControlPcs
<1>3. Marked'
  BY DEF RemoveClear, ControlStep, ClearBuffersUnlocked, Wake, client, server, history, Marked,
       FlushOngoing, DelegateTypes, ClientTypes
<1>4. ASSUME NEW s \in Sources, s # r
       PROVE  /\ Places(s)' /\ Queue(s)' /\ Pulling(s)' /\ Delivering(s)' /\ Keeping(s)' /\ Ending(s)'
              /\ Requests(s)' /\ Owing(s)'
  <2>1. SameDelegate(s) /\ SameClient(s) /\ SameServer(s) /\ SameHistory(s)
    BY <1>4 DEF RemoveClear, ControlStep, ClearBuffersUnlocked, Wake, client, server, history,
         SameDelegate, SameClient, SameServer, SameHistory, DelegateTypes, ClientTypes,
         ServerTypes
  <2>2. backendQueue' = backendQueue
    BY DEF RemoveClear, ControlStep, ClearBuffersUnlocked, Wake, client, server, history
  <2>3. SameMessages(s) BY <2>2, NoMessage
  <2> QED BY <2>1, <2>3, Elsewhere
<1>s. SameMessages(r)
  <2>1. backendQueue' = backendQueue
    BY DEF RemoveClear, ControlStep, ClearBuffersUnlocked, Wake, client, server, history
  <2> QED BY <2>1, NoMessage
<1>v. /\ control[r] = "removeClear" /\ control'[r] = "removed" /\ m_isSinkFlushOngoing'[r] = TRUE
      /\ m_samples'[r] = <<>>
      /\ streaming'[r] = IF streaming[r] = "full" THEN "woken" ELSE streaming[r]
      /\ m_sourceId'[r] = m_sourceId[r] /\ m_isEos'[r] = m_isEos[r] /\ pullQueue'[r] = pullQueue[r]
      /\ puller'[r] = puller[r] /\ request'[r] = request[r] /\ flushing'[r] = flushing[r]
      /\ endOfStream'[r] = endOfStream[r] /\ delivered'[r] = delivered[r]
      /\ accepted'[r] = accepted[r] /\ flushes'[r] = flushes[r] /\ floor'[r] = floor[r]
      /\ dropped'[r] = dropped[r] /\ m_attachedSources' = m_attachedSources
  BY DEF RemoveClear, ControlStep, ClearBuffersUnlocked, Wake, client, server, history,
       DelegateTypes, ClientTypes, ServerTypes
<1>t. /\ Places(r) /\ Queue(r) /\ Pulling(r) /\ Delivering(r) /\ Keeping(r) /\ Ending(r)
      /\ Requests(r) /\ Owing(r)
  BY At
<1>a. Places(r)' BY <1>v, <1>t, TypesAt, <1>s DEF Places, Flushes, Cleared, SameMessages
<1>b. Queue(r)'
  <2>1. /\ m_samples'[r] = <<>> /\ Len(m_samples'[r]) = 0
        /\ \A i \in 1..Len(m_samples'[r]) : FALSE
    BY <1>v
  <2> QED BY <1>v, <1>t, <2>1, TypesAt, Constants DEF Queue
<1>c. Pulling(r)' BY <1>v, <1>t, PullingKept
<1>d. Delivering(r)'
  <2>1. /\ m_samples'[r] = <<>> /\ Len(m_samples'[r]) = 0
        /\ \A i \in 1..Len(m_samples'[r]) : FALSE
    BY <1>v
  <2> QED BY <1>v, <1>t, <2>1, TypesAt, Constants DEF Delivering
<1>e. Keeping(r)' BY <1>v DEF Keeping, Clearing
<1>f. Ending(r)'
  <2>1. EosUnderWay(r)' => EosUnderWay(r) BY <1>v, <1>s, TypesAt DEF EosUnderWay, SameMessages
  <2>2. Delivered(r)' = Delivered(r) BY <1>v DEF Delivered
  <2> QED BY <1>v, <1>t, <2>1, <2>2 DEF Ending, Cleared
<1>g. Requests(r)' BY <1>v, <1>t, <1>s, RequestsKept
<1>h. Owing(r)' BY <1>v, <1>t, TypesAt DEF Owing, Flushes
<1> QED BY <1>1, <1>2, <1>3, <1>4, <1>a, <1>b, <1>c, <1>d, <1>e, <1>f, <1>g, <1>h DEF IInv

\* An EOS event.
LEMMA EosEventStep == ASSUME IInv, NEW r \in Sources, EosEvent(r) PROVE IInv'
<1> USE Types
<1>1. ClientTypes' /\ ServerTypes'
  BY DEF EosEvent, client, server, history, ClientTypes, ServerTypes
<1>2. DelegateTypes'
  BY DEF EosEvent, client, server, history, DelegateTypes, StreamingPcs, ControlPcs
<1>3. SyncTypes' /\ NoneMarked({})
  <2>1. NotifyDataReceived(m_sourceId[r]) BY DEF EosEvent
  <2>2. m_sourceId[r] \in Sources \cup {UnknownId} BY DEF DelegateTypes
  <2> QED BY <2>1, <2>2, DataReceived
<1>4. Marked'
  <2>1. \A s \in Sources : FlushOngoing(s)' <=> FlushOngoing(s) BY DEF EosEvent, client, FlushOngoing
  <2> QED BY <1>3, <2>1, MarkedKept
<1>5. ASSUME NEW s \in Sources, s # r
       PROVE  /\ Places(s)' /\ Queue(s)' /\ Pulling(s)' /\ Delivering(s)' /\ Keeping(s)' /\ Ending(s)'
              /\ Requests(s)' /\ Owing(s)'
  <2>1. SameDelegate(s) /\ SameClient(s) /\ SameServer(s) /\ SameHistory(s)
    BY <1>5 DEF EosEvent, client, server, history, SameDelegate, SameClient, SameServer,
         SameHistory, DelegateTypes, ClientTypes, ServerTypes
  <2>2. backendQueue' = backendQueue BY DEF EosEvent, client, server, history
  <2>3. SameMessages(s) BY <2>2, NoMessage
  <2> QED BY <2>1, <2>3, Elsewhere
<1>s. SameMessages(r)
  <2>1. backendQueue' = backendQueue BY DEF EosEvent, client, server, history
  <2> QED BY <2>1, NoMessage
<1>v. /\ streaming[r] = "eosEvent" /\ streaming'[r] = "eos" /\ m_isEos'[r] = TRUE
      /\ m_sourceId'[r] = m_sourceId[r] /\ m_samples'[r] = m_samples[r]
      /\ m_isSinkFlushOngoing'[r] = m_isSinkFlushOngoing[r] /\ control'[r] = control[r]
      /\ pullQueue'[r] = pullQueue[r] /\ puller'[r] = puller[r] /\ request'[r] = request[r]
      /\ flushing'[r] = flushing[r] /\ endOfStream'[r] = endOfStream[r]
      /\ delivered'[r] = delivered[r] /\ accepted'[r] = accepted[r] /\ flushes'[r] = flushes[r]
      /\ floor'[r] = floor[r] /\ dropped'[r] = dropped[r] /\ m_attachedSources' = m_attachedSources
  BY DEF EosEvent, client, server, history, DelegateTypes, ClientTypes, ServerTypes
<1>t. /\ Places(r) /\ Queue(r) /\ Pulling(r) /\ Delivering(r) /\ Keeping(r) /\ Ending(r)
      /\ Requests(r) /\ Owing(r)
  BY At
<1>a. Places(r)' BY <1>v, <1>t, TypesAt, <1>s DEF Places, Flushes, Cleared, SameMessages
<1>b. Queue(r)' BY <1>v, <1>t, TypesAt DEF Queue
<1>c. Pulling(r)' BY <1>v, <1>t, PullingKept
<1>d. Delivering(r)' BY <1>v, <1>t, DeliveringKept
<1>k. ~Clearing(r)' => ~Clearing(r) BY <1>v DEF Clearing
<1>e. Keeping(r)' BY <1>v, <1>t, <1>k, KeepingKept
<1>f. Ending(r)'
  <2>1. EosUnderWay(r)' => EosUnderWay(r) BY <1>v, <1>s, TypesAt DEF EosUnderWay, SameMessages
  <2>2. Delivered(r)' = Delivered(r) BY <1>v DEF Delivered
  <2> QED BY <1>v, <1>t, <2>1, <2>2 DEF Ending, Cleared
<1>g. Requests(r)' BY <1>v, <1>t, <1>s, RequestsKept
<1>h. Owing(r)' BY <1>v, <1>t, OwingKept
<1> QED BY <1>1, <1>2, <1>3, <1>4, <1>5, <1>a, <1>b, <1>c, <1>d, <1>e, <1>f, <1>g, <1>h DEF IInv

\* flush() tells the synchronizer.
LEMMA FlushNotifyStep == ASSUME IInv, NEW r \in Sources, FlushNotify(r) PROVE IInv'
<1> USE Types
<1>1. ClientTypes' /\ ServerTypes'
  BY DEF FlushNotify, ControlStep, delegate, client, server, history, ClientTypes, ServerTypes
<1>2. DelegateTypes'
  BY DEF FlushNotify, ControlStep, delegate, client, server, history, DelegateTypes, StreamingPcs,
       ControlPcs
<1>3. SyncTypes' /\ NoneMarked({m_sourceId[r]})
  <2>1. NotifyFlushStarted(m_sourceId[r]) BY DEF FlushNotify
  <2>2. m_sourceId[r] \in Sources \cup {UnknownId} BY DEF DelegateTypes
  <2> QED BY <2>1, <2>2, FlushMarked
<1>4. Marked'
  <2> SUFFICES ASSUME May \cap {"refuseFlush", "flushUnattached"} = {}, NEW i \in DOMAIN m_sourceStates',
                      m_sourceStates'[i].flushState = "FLUSHING"
               PROVE  i \in Sources /\ FlushOngoing(i)'
    BY DEF Marked
  <2>1. control[r] = "notify" /\ control' = [control EXCEPT ![r] = "post"] /\ m_isFlushing' = m_isFlushing
    BY DEF FlushNotify, ControlStep, client
  <2>2. Places(r) BY At
  <2>3. m_sourceId[r] = r BY <2>1, <2>2 DEF Places, Flushes
  <2>4. CASE i = r BY <2>1, <2>4 DEF FlushOngoing, DelegateTypes
  <2>5. CASE i # r
    <3>1. i \in DOMAIN m_sourceStates /\ m_sourceStates[i].flushState = "FLUSHING"
      BY <1>3, <2>3, <2>5 DEF NoneMarked
    <3>2. i \in Sources /\ FlushOngoing(i) BY <3>1 DEF Marked
    <3> QED BY <2>1, <2>5, <3>2 DEF FlushOngoing, DelegateTypes
  <2> QED BY <2>4, <2>5
<1>5. ASSUME NEW s \in Sources, s # r
       PROVE  /\ Places(s)' /\ Queue(s)' /\ Pulling(s)' /\ Delivering(s)' /\ Keeping(s)' /\ Ending(s)'
              /\ Requests(s)' /\ Owing(s)'
  <2>1. SameDelegate(s) /\ SameClient(s) /\ SameServer(s) /\ SameHistory(s)
    BY <1>5 DEF FlushNotify, ControlStep, delegate, client, server, history, SameDelegate,
         SameClient, SameServer, SameHistory, DelegateTypes, ClientTypes, ServerTypes
  <2>2. backendQueue' = backendQueue BY DEF FlushNotify, ControlStep, delegate, client, server, history
  <2>3. SameMessages(s) BY <2>2, NoMessage
  <2> QED BY <2>1, <2>3, Elsewhere
<1>s. SameMessages(r)
  <2>1. backendQueue' = backendQueue BY DEF FlushNotify, ControlStep, delegate, client, server, history
  <2> QED BY <2>1, NoMessage
<1>v. /\ control[r] = "notify" /\ control'[r] = "post" /\ m_sourceId'[r] = m_sourceId[r]
      /\ m_samples'[r] = m_samples[r] /\ m_isEos'[r] = m_isEos[r]
      /\ m_isSinkFlushOngoing'[r] = m_isSinkFlushOngoing[r] /\ streaming'[r] = streaming[r]
      /\ pullQueue'[r] = pullQueue[r] /\ puller'[r] = puller[r] /\ request'[r] = request[r]
      /\ flushing'[r] = flushing[r] /\ endOfStream'[r] = endOfStream[r]
      /\ delivered'[r] = delivered[r] /\ accepted'[r] = accepted[r] /\ flushes'[r] = flushes[r]
      /\ floor'[r] = floor[r] /\ dropped'[r] = dropped[r] /\ m_attachedSources' = m_attachedSources
  BY DEF FlushNotify, ControlStep, delegate, client, server, history, DelegateTypes, ClientTypes,
       ServerTypes
<1>t. /\ Places(r) /\ Queue(r) /\ Pulling(r) /\ Delivering(r) /\ Keeping(r) /\ Ending(r)
      /\ Requests(r) /\ Owing(r)
  BY At
<1>a. Places(r)' BY <1>v, <1>t, TypesAt, <1>s DEF Places, Flushes, Cleared, SameMessages
<1>b. Queue(r)' BY <1>v, <1>t, QueueKept
<1>c. Pulling(r)' BY <1>v, <1>t, PullingKept
<1>d. Delivering(r)' BY <1>v, <1>t, DeliveringKept
<1>k. ~Clearing(r)' => ~Clearing(r) BY <1>v DEF Clearing
<1>e. Keeping(r)' BY <1>v, <1>t, <1>k, KeepingKept
<1>f. Ending(r)'
  <2>1. EosUnderWay(r)' => EosUnderWay(r) BY <1>v, <1>s, TypesAt DEF EosUnderWay, SameMessages
  <2>2. Delivered(r)' = Delivered(r) BY <1>v DEF Delivered
  <2> QED BY <1>v, <1>t, <2>1, <2>2 DEF Ending, Cleared
<1>g. Requests(r)' BY <1>v, <1>t, <1>s, RequestsKept
<1>h. Owing(r)' BY <1>v, <1>t, TypesAt DEF Owing, Flushes
<1> QED BY <1>1, <1>2, <1>3, <1>4, <1>5, <1>a, <1>b, <1>c, <1>d, <1>e, <1>f, <1>g, <1>h DEF IInv

\* attachSource().
LEMMA AttachSourceStep == ASSUME IInv, NEW r \in Sources, AttachSource(r) PROVE IInv'
<1> USE Types
<1>m. /\ backendQueue # <<>> /\ Done
      /\ Head(backendQueue).src = r /\ Head(backendQueue).type = "attach"
  BY DEF AttachSource, Handles, server, history, Handles
<1>p. backendQueue' \in Seq(Message) /\ Head(backendQueue) \in Message BY <1>m, TakenHere
<1>1. ServerTypes'
  BY DEF AttachSource, Handles, server, history, ServerTypes
<1>2. DelegateTypes'
  BY DEF AttachSource, Handles, server, history, DelegateTypes, StreamingPcs, ControlPcs
<1>3. ClientTypes'
  BY <1>p DEF AttachSource, Handles, server, history, ClientTypes, PullerState, PullerPcs
<1>4. SyncTypes' /\ NoneMarked({})
  <2>1. AddSource(r) BY DEF AttachSource
  <2> QED BY <2>1, FlushNoted
<1>5. Marked'
  <2>1. \A s \in Sources : FlushOngoing(s)' <=> FlushOngoing(s) BY DEF AttachSource, FlushOngoing
  <2> QED BY <1>4, <2>1, MarkedKept
<1>6. ASSUME NEW s \in Sources, s # r
       PROVE  /\ Places(s)' /\ Queue(s)' /\ Pulling(s)' /\ Delivering(s)' /\ Keeping(s)' /\ Ending(s)'
              /\ Requests(s)' /\ Owing(s)'
  <2>1. SameDelegate(s) /\ SameClient(s) /\ SameServer(s) /\ SameHistory(s)
    BY <1>6 DEF AttachSource, Handles, server, history, SameDelegate, SameClient, SameServer,
         SameHistory, DelegateTypes, ClientTypes, ServerTypes
  <2>2. Foreign(Head(backendQueue), s) BY <1>m, <1>6 DEF Foreign
  <2>3. SameMessages(s) BY <1>m, <2>2, TakenElsewhere
  <2> QED BY <2>1, <2>3, Elsewhere
<1>v. /\ streaming'[r] = "noSegment" /\ m_sourceId'[r] = r
      /\ m_attachedSources' = m_attachedSources \cup {r} /\ m_samples'[r] = m_samples[r]
      /\ m_isEos'[r] = m_isEos[r] /\ m_isSinkFlushOngoing'[r] = m_isSinkFlushOngoing[r]
      /\ control'[r] = control[r] /\ pullQueue'[r] = pullQueue[r] /\ puller'[r] = puller[r]
      /\ request'[r] = request[r] /\ flushing'[r] = flushing[r] /\ endOfStream'[r] = endOfStream[r]
      /\ delivered'[r] = delivered[r] /\ accepted'[r] = accepted[r] /\ flushes'[r] = flushes[r]
      /\ floor'[r] = floor[r] /\ dropped'[r] = dropped[r]
  BY DEF AttachSource, Handles, server, history, DelegateTypes, ClientTypes, ServerTypes
<1>t. /\ Places(r) /\ Queue(r) /\ Pulling(r) /\ Delivering(r) /\ Keeping(r) /\ Ending(r)
      /\ Requests(r) /\ Owing(r)
  BY At
<1>n. /\ Once(backendQueue', Attaches(r))
      /\ Among(backendQueue', Attaches(r)) => Among(backendQueue, Attaches(r))
      /\ Among(backendQueue', Erases(r)) => Among(backendQueue, Erases(r))
      /\ \A n : /\ Among(backendQueue', Carries(r, n)) <=> Among(backendQueue, Carries(r, n))
                /\ Once(backendQueue, Carries(r, n)) => Once(backendQueue', Carries(r, n))
                /\ Among(backendQueue', TellsEos(r, n)) => Among(backendQueue, TellsEos(r, n))
  <2>1. Once(backendQueue, Attaches(r)) BY <1>t DEF Places
  <2> QED BY <1>m, <2>1, TakenOwn
<1>w. /\ ~Among(backendQueue', Attaches(r)) /\ streaming[r] = "attaching" /\ control[r] = "idle"
  BY <1>m, <1>t, TakenOwn DEF Places
<1>a. Places(r)' BY <1>v, <1>t, <1>n, <1>w, TypesAt DEF Places, Flushes, Cleared
<1>b. Queue(r)' BY <1>v, <1>t, <1>w DEF Queue
<1>c. Pulling(r)' BY <1>v, <1>t, PullingKept
<1>d. Delivering(r)' BY <1>v, <1>t, DeliveringKept
<1>k. ~Clearing(r)' => ~Clearing(r) BY <1>v DEF Clearing
<1>e. Keeping(r)' BY <1>v, <1>t, <1>k, KeepingKept
<1>f. Ending(r)'
  <2>1. EosUnderWay(r)' => EosUnderWay(r) BY <1>v, <1>n DEF EosUnderWay
  <2>2. Delivered(r)' = Delivered(r) BY <1>v DEF Delivered
  <2> QED BY <1>v, <1>t, <1>w, <2>1, <2>2 DEF Ending, Cleared
<1>g. Requests(r)' BY <1>v, <1>t, <1>n DEF Requests
<1>h. Owing(r)' BY <1>v, <1>t, OwingKept
<1> QED BY <1>1, <1>2, <1>3, <1>4, <1>5, <1>6, <1>a, <1>b, <1>c, <1>d, <1>e, <1>f, <1>g, <1>h DEF IInv

\* handleSourceFlushed().
LEMMA HandleSourceFlushedStep == ASSUME IInv, NEW r \in Sources, HandleSourceFlushed(r) PROVE IInv'
<1> USE Types
<1>m. /\ backendQueue # <<>> /\ Done
      /\ Head(backendQueue).src = r /\ Head(backendQueue).type = "sourceFlushed"
  BY DEF HandleSourceFlushed, Handles, server, history, Handles
<1>p. backendQueue' \in Seq(Message) /\ Head(backendQueue) \in Message BY <1>m, TakenHere
<1>1. ServerTypes'
  BY DEF HandleSourceFlushed, Handles, server, history, ServerTypes
<1>2. DelegateTypes'
  BY DEF HandleSourceFlushed, Handles, server, history, DelegateTypes, StreamingPcs, ControlPcs
<1>3. ClientTypes'
  BY <1>p DEF HandleSourceFlushed, Handles, server, history, ClientTypes, PullerState, PullerPcs
<1>4. SyncTypes' /\ NoneMarked({})
  <2>1. NotifyFlushCompleted(r) \/ m_sourceStates' = m_sourceStates BY DEF HandleSourceFlushed
  <2>2. CASE NotifyFlushCompleted(r) BY <2>2, FlushNoted
  <2>3. CASE m_sourceStates' = m_sourceStates BY <2>3 DEF SyncTypes, NoneMarked
  <2> QED BY <2>1, <2>2, <2>3
<1>5. Marked'
  <2>1. CASE m_isFlushing' = m_isFlushing /\ m_sourceStates' = m_sourceStates
    BY <2>1 DEF HandleSourceFlushed, Marked, FlushOngoing
  <2>2. CASE m_isFlushing' = [m_isFlushing EXCEPT ![r] = FALSE] /\ NotifyFlushCompleted(r)
    <3>1. \A i \in DOMAIN m_sourceStates' : m_sourceStates'[i].flushState = "FLUSHING" => i # r
      BY <2>2, FlushNoted
    <3>2. \A s \in Sources : s # r /\ FlushOngoing(s) => FlushOngoing(s)'
      BY <2>2 DEF HandleSourceFlushed, FlushOngoing, ClientTypes
    <3> QED BY <1>4, <3>1, <3>2 DEF Marked, NoneMarked
  <2> QED BY <2>1, <2>2 DEF HandleSourceFlushed
<1>6. ASSUME NEW s \in Sources, s # r
       PROVE  /\ Places(s)' /\ Queue(s)' /\ Pulling(s)' /\ Delivering(s)' /\ Keeping(s)' /\ Ending(s)'
              /\ Requests(s)' /\ Owing(s)'
  <2>1. SameDelegate(s) /\ SameClient(s) /\ SameServer(s) /\ SameHistory(s)
    BY <1>6 DEF HandleSourceFlushed, Handles, server, history, SameDelegate, SameClient,
         SameServer, SameHistory, DelegateTypes, ClientTypes, ServerTypes
  <2>2. Foreign(Head(backendQueue), s) BY <1>m, <1>6 DEF Foreign
  <2>3. SameMessages(s) BY <1>m, <2>2, TakenElsewhere
  <2> QED BY <2>1, <2>3, Elsewhere
<1>s. SameMessages(r)
  <2>1. Foreign(Head(backendQueue), r) BY <1>m DEF Foreign
  <2> QED BY <1>m, <2>1, TakenElsewhere
<1>v. /\ m_sourceId'[r] = m_sourceId[r] /\ m_samples'[r] = m_samples[r] /\ m_isEos'[r] = m_isEos[r]
      /\ m_isSinkFlushOngoing'[r] = m_isSinkFlushOngoing[r] /\ streaming'[r] = streaming[r]
      /\ control'[r] = control[r] /\ pullQueue'[r] = pullQueue[r] /\ puller'[r] = puller[r]
      /\ request'[r] = request[r] /\ flushing'[r] = flushing[r] /\ endOfStream'[r] = endOfStream[r]
      /\ delivered'[r] = delivered[r] /\ accepted'[r] = accepted[r] /\ flushes'[r] = flushes[r]
      /\ floor'[r] = floor[r] /\ dropped'[r] = dropped[r] /\ m_attachedSources' = m_attachedSources
  BY DEF HandleSourceFlushed, Handles, server, history, DelegateTypes, ClientTypes, ServerTypes
<1>t. /\ Places(r) /\ Queue(r) /\ Pulling(r) /\ Delivering(r) /\ Keeping(r) /\ Ending(r)
      /\ Requests(r) /\ Owing(r)
  BY At
<1>a. Places(r)' BY <1>v, <1>t, <1>s, PlacesKept
<1>b. Queue(r)' BY <1>v, <1>t, QueueKept
<1>c. Pulling(r)' BY <1>v, <1>t, PullingKept
<1>d. Delivering(r)' BY <1>v, <1>t, DeliveringKept
<1>k. ~Clearing(r)' => ~Clearing(r) BY <1>v DEF Clearing
<1>e. Keeping(r)' BY <1>v, <1>t, <1>k, KeepingKept
<1>f. Ending(r)' BY <1>v, <1>t, <1>s, EndingKept
<1>g. Requests(r)' BY <1>v, <1>t, <1>s, RequestsKept
<1>h. Owing(r)' BY <1>v, <1>t, OwingKept
<1> QED BY <1>1, <1>2, <1>3, <1>4, <1>5, <1>6, <1>a, <1>b, <1>c, <1>d, <1>e, <1>f, <1>g, <1>h DEF IInv

\* handleBuffer().
LEMMA HandleBufferStep == ASSUME IInv, NEW r \in Sources, HandleBuffer(r) PROVE IInv'
<1> USE Types
<1>1. ClientTypes'
  BY DEF HandleBuffer, HasSpace, Push, client, server, ClientTypes
<1>2. DelegateTypes'
  <2>1. streaming' \in [Sources -> StreamingPcs] BY DEF HandleBuffer, DelegateTypes, StreamingPcs
  <2>2. m_samples' \in [Sources -> Seq(Nat)]
    <3>1. Append(m_samples[r], accepted[r] + 1) \in Seq(Nat)
      BY SampleAdded DEF DelegateTypes, ServerTypes
    <3> QED BY <3>1 DEF HandleBuffer, Push, DelegateTypes
  <2> QED BY <2>1, <2>2 DEF HandleBuffer, DelegateTypes
<1>3. ServerTypes'
  <2>1. accepted' = accepted \/ accepted' = [accepted EXCEPT ![r] = @ + 1] BY DEF HandleBuffer
  <2>2. accepted' \in [Sources -> Nat] BY <2>1, SMTT(30) DEF ServerTypes
  <2> QED BY <2>2 DEF HandleBuffer, server, ServerTypes
<1>4. SyncTypes' /\ NoneMarked({})
  <2>1. NotifyDataReceived(m_sourceId[r]) \/ m_sourceStates' = m_sourceStates BY DEF HandleBuffer
  <2>2. m_sourceId[r] \in Sources \cup {UnknownId} BY DEF DelegateTypes
  <2>3. CASE NotifyDataReceived(m_sourceId[r]) BY <2>2, <2>3, DataReceived
  <2>4. CASE m_sourceStates' = m_sourceStates BY <2>4 DEF SyncTypes, NoneMarked
  <2> QED BY <2>1, <2>3, <2>4
<1>5. Marked'
  <2>1. \A s \in Sources : FlushOngoing(s)' <=> FlushOngoing(s) BY DEF HandleBuffer, client, FlushOngoing
  <2> QED BY <1>4, <2>1, MarkedKept
<1>6. ASSUME NEW s \in Sources, s # r
       PROVE  /\ Places(s)' /\ Queue(s)' /\ Pulling(s)' /\ Delivering(s)' /\ Keeping(s)' /\ Ending(s)'
              /\ Requests(s)' /\ Owing(s)'
  <2>1. SameDelegate(s) /\ SameClient(s) /\ SameServer(s) /\ SameHistory(s)
    BY <1>6 DEF HandleBuffer, HasSpace, Push, client, server, SameDelegate, SameClient, SameServer,
         SameHistory, DelegateTypes, ClientTypes, ServerTypes
  <2>2. backendQueue' = backendQueue BY DEF HandleBuffer, HasSpace, Push, client, server
  <2>3. SameMessages(s) BY <2>2, NoMessage
  <2> QED BY <2>1, <2>3, Elsewhere
<1>s. SameMessages(r)
  <2>1. backendQueue' = backendQueue BY DEF HandleBuffer, HasSpace, Push, client, server
  <2> QED BY <2>1, NoMessage
<1>v. /\ streaming'[r] = "run" /\ m_sourceId'[r] = m_sourceId[r] /\ m_isEos'[r] = m_isEos[r]
      /\ m_isSinkFlushOngoing'[r] = m_isSinkFlushOngoing[r] /\ control'[r] = control[r]
      /\ pullQueue'[r] = pullQueue[r] /\ puller'[r] = puller[r] /\ request'[r] = request[r]
      /\ flushing'[r] = flushing[r] /\ endOfStream'[r] = endOfStream[r]
      /\ delivered'[r] = delivered[r] /\ flushes'[r] = flushes[r] /\ floor'[r] = floor[r]
      /\ dropped'[r] = dropped[r] /\ m_attachedSources' = m_attachedSources
  BY DEF HandleBuffer, HasSpace, Push, client, server, DelegateTypes, ClientTypes, ServerTypes
<1>t. /\ Places(r) /\ Queue(r) /\ Pulling(r) /\ Delivering(r) /\ Keeping(r) /\ Ending(r)
      /\ Requests(r) /\ Owing(r)
  BY At
<1>x. streaming[r] \in {"buffer", "woken"} /\ Len(m_samples[r]) < MaxSamples
  BY <1>t DEF HandleBuffer, HasSpace, Queue
<1>y. \/ m_samples'[r] = m_samples[r] /\ accepted'[r] = accepted[r]
      \/ /\ ~m_isSinkFlushOngoing[r] /\ accepted'[r] = accepted[r] + 1
         /\ m_samples'[r] = Append(m_samples[r], accepted[r] + 1)
  BY DEF HandleBuffer, Push, DelegateTypes, ServerTypes
<1>z. PICK L \in Nat : /\ L = Len(m_samples[r]) /\ Len(Append(m_samples[r], accepted[r] + 1)) = L + 1
                       /\ Append(m_samples[r], accepted[r] + 1)[L + 1] = accepted[r] + 1
                       /\ \A i \in 1..L : Append(m_samples[r], accepted[r] + 1)[i] = m_samples[r][i]
                       /\ \A i \in 1..(L + 1) : i \in 1..L \/ i = L + 1
  <2>1. m_samples[r] \in Seq(Nat) /\ accepted[r] + 1 \in Nat BY TypesAt
  <2> QED BY ONLY <2>1, SampleAdded
<1>a. Places(r)' BY <1>v, <1>t, <1>x, TypesAt, <1>s DEF Places, Flushes, Cleared, SameMessages
<1>b. Queue(r)'
  <2>1. CASE m_samples'[r] = m_samples[r] /\ accepted'[r] = accepted[r]
    BY <1>v, <1>t, <1>x, <2>1 DEF Queue
  <2>2. CASE /\ ~m_isSinkFlushOngoing[r] /\ accepted'[r] = accepted[r] + 1
             /\ m_samples'[r] = Append(m_samples[r], accepted[r] + 1)
    <3> DEFINE q == m_samples[r]
               t == Append(m_samples[r], accepted[r] + 1)
               a == accepted[r]
               f == floor[r]
    <3>1. /\ a \in Nat /\ f \in Nat /\ f <= a /\ a < MaxBuffers /\ L < MaxSamples
          /\ \A i \in 1..L : q[i] \in (f + 1)..a
          /\ \A i, j \in 1..L : i < j => q[i] < q[j]
      BY <1>t, <1>x, <1>z, TypesAt DEF Queue
    <3>2. /\ Len(t) = L + 1 /\ t[L + 1] = a + 1 /\ \A i \in 1..L : t[i] = q[i]
          /\ \A i \in 1..(L + 1) : i \in 1..L \/ i = L + 1
      BY <1>z
    <3> HIDE DEF q, t, a, f
    <3>3. \A i \in 1..Len(t) : t[i] \in (f + 1)..(a + 1) BY ONLY <3>1, <3>2, L \in Nat
    <3>4. \A i, j \in 1..Len(t) : i < j => t[i] < t[j]
      <4> SUFFICES ASSUME NEW i \in 1..(L + 1), NEW j \in 1..(L + 1), i < j PROVE t[i] < t[j]
        BY <3>2
      <4>1. i \in 1..L BY L \in Nat
      <4>2. CASE j \in 1..L BY <3>1, <3>2, <4>1, <4>2
      <4>3. CASE j = L + 1
        <5>1. q[i] \in (f + 1)..a BY <3>1, <4>1
        <5> QED BY <3>1, <3>2, <4>1, <4>3, <5>1
      <4> QED BY <3>2, <4>2, <4>3
    <3>5. Len(t) <= MaxSamples /\ a + 1 <= MaxBuffers /\ f <= a + 1
      BY ONLY <3>1, <3>2, L \in Nat, Constants
    <3>6. /\ m_samples'[r] = t /\ accepted'[r] = a + 1 /\ floor'[r] = f /\ streaming'[r] = "run"
          /\ ~m_isSinkFlushOngoing'[r]
      BY <1>v, <2>2 DEF t, a, f
    <3> QED BY ONLY <3>3, <3>4, <3>5, <3>6 DEF Queue
  <2> QED BY <1>y, <2>1, <2>2
<1>c. Pulling(r)' BY <1>v, <1>t, PullingKept
<1>d. Delivering(r)'
  <2>1. CASE m_samples'[r] = m_samples[r] /\ accepted'[r] = accepted[r]
    BY <1>v, <1>t, <2>1, DeliveringKept
  <2>2. CASE /\ ~m_isSinkFlushOngoing[r] /\ accepted'[r] = accepted[r] + 1
             /\ m_samples'[r] = Append(m_samples[r], accepted[r] + 1)
    <3> DEFINE q == m_samples[r]
               t == Append(m_samples[r], accepted[r] + 1)
               d == delivered[r]
               a == accepted[r]
               f == floor[r]
               p == puller[r]
    <3>1. /\ a \in Nat /\ f \in Nat
          /\ \A i, j \in 1..Len(d) : i < j => d[i] < d[j]
          /\ \A j \in 1..Len(d) : d[j] \in (f + 1)..a
          /\ dropped[r] \subseteq (f + 1)..a
          /\ \A i \in 1..L : i > 1 \/ p.pc # "pop" => \A j \in 1..Len(d) : d[j] < q[i]
          /\ p.pc = "add" /\ p.req = request[r] =>
                /\ p.held \in (f + 1)..a
                /\ \A j \in 1..Len(d) : d[j] < p.held
                /\ \A i \in 1..L : p.held <= q[i]
      BY <1>t, <1>z, TypesAt DEF Delivering
    <3>2. /\ Len(t) = L + 1 /\ t[L + 1] = a + 1 /\ \A i \in 1..L : t[i] = q[i]
          /\ \A i \in 1..(L + 1) : i \in 1..L \/ i = L + 1
      BY <1>z
    <3>3. /\ m_samples'[r] = t /\ accepted'[r] = a + 1 /\ floor'[r] = f /\ delivered'[r] = d
          /\ dropped'[r] = dropped[r] /\ puller'[r] = p /\ request'[r] = request[r]
      BY <1>v, <2>2
    <3> HIDE DEF q, t, d, a, f, p
    <3>4. \A n \in (f + 1)..a : n \in (f + 1)..(a + 1) /\ n < a + 1 BY <3>1
    <3>5. \A i \in 1..Len(t) : i > 1 \/ p.pc # "pop" => \A j \in 1..Len(d) : d[j] < t[i]
      BY ONLY <3>1, <3>2, <3>4, L \in Nat
    <3>6. p.pc = "add" /\ p.req = request[r] => \A i \in 1..Len(t) : p.held <= t[i]
      BY ONLY <3>1, <3>2, <3>4, L \in Nat
    <3> QED BY ONLY <3>1, <3>3, <3>4, <3>5, <3>6 DEF Delivering
  <2> QED BY <1>y, <2>1, <2>2
<1>e. Keeping(r)'
  <2>1. CASE m_samples'[r] = m_samples[r] /\ accepted'[r] = accepted[r]
    <3>1. ~Clearing(r)' => ~Clearing(r) BY <1>v DEF Clearing
    <3> QED BY <1>v, <1>t, <2>1, <3>1, KeepingKept
  <2>2. CASE /\ ~m_isSinkFlushOngoing[r] /\ accepted'[r] = accepted[r] + 1
             /\ m_samples'[r] = Append(m_samples[r], accepted[r] + 1)
    <3>1. Delivered(r)' = Delivered(r) BY <1>v DEF Delivered
    <3>2. Samples(r)' = Samples(r) \cup {accepted[r] + 1}
      <4>1. Len(m_samples'[r]) = L + 1 /\ L = Len(m_samples[r]) BY <1>z, <2>2
      <4>2. \A i \in 1..L : m_samples'[r][i] = m_samples[r][i] /\ i \in 1..(L + 1) BY <1>z, <2>2
      <4>3. m_samples'[r][L + 1] = accepted[r] + 1 /\ L + 1 \in 1..(L + 1) BY <1>z, <2>2
      <4>4. \A i \in 1..(L + 1) : i \in 1..L \/ i = L + 1 BY <1>z
      <4> QED BY ONLY <4>1, <4>2, <4>3, <4>4 DEF Samples
    <3>3. Clearing(r)' <=> Clearing(r) BY <1>v DEF Clearing
    <3>4. (floor[r] + 1)..(accepted[r] + 1) = ((floor[r] + 1)..accepted[r]) \cup {accepted[r] + 1}
      BY <1>t, TypesAt DEF Queue
    <3>5. m_samples[r] # <<>> => m_samples'[r] # <<>> /\ m_samples'[r][1] = m_samples[r][1]
      <4>1. m_samples[r] # <<>> => 1 \in 1..L BY <1>z, TypesAt
      <4>2. Len(m_samples'[r]) = L + 1 BY <1>z, <2>2
      <4> QED BY <1>z, <2>2, <4>1, <4>2
    <3> QED BY <1>v, <1>t, <2>2, <3>1, <3>2, <3>3, <3>4, <3>5 DEF Keeping
  <2> QED BY <1>y, <2>1, <2>2
<1>f. Ending(r)'
  <2>1. EosUnderWay(r)' => EosUnderWay(r) BY <1>v, <1>s, TypesAt DEF EosUnderWay, SameMessages
  <2> QED BY <1>v, <1>t, <1>x, <2>1 DEF Ending
<1>g. Requests(r)' BY <1>v, <1>t, <1>s, RequestsKept
<1>h. Owing(r)' BY <1>v, <1>t, OwingKept
<1> QED BY <1>1, <1>2, <1>3, <1>4, <1>5, <1>6, <1>a, <1>b, <1>c, <1>d, <1>e, <1>f, <1>g, <1>h DEF IInv

\* The loop condition of the pull.
LEMMA PullNextStep == ASSUME IInv, NEW r \in Sources, PullNext(r) PROVE IInv'
<1> USE Types
<1>1. DelegateTypes' /\ ServerTypes' /\ SyncTypes' /\ Marked'
  BY DEF PullNext, PullerAt, PullerGoes, delegate, client, server, history, DelegateTypes,
       ServerTypes, SyncTypes, Marked, FlushOngoing
<1>2. ClientTypes'
  <2>1. UNCHANGED <<backendQueue, m_attachedSources, m_isFlushing, pullQueue>>
    BY DEF PullNext, PullerGoes, client
  <2>2. \E p \in {"front", "finish"} : puller' = [puller EXCEPT ![r].pc = p]
    BY DEF PullNext, PullerAt, PullerGoes
  <2>3. puller \in [Sources -> PullerState] BY DEF ClientTypes
  <2>4. puller' \in [Sources -> PullerState] BY ONLY <2>2, <2>3 DEF PullerState, PullerPcs
  <2> QED BY <2>1, <2>4 DEF ClientTypes
<1>3. ASSUME NEW s \in Sources, s # r
       PROVE  /\ Places(s)' /\ Queue(s)' /\ Pulling(s)' /\ Delivering(s)' /\ Keeping(s)' /\ Ending(s)'
              /\ Requests(s)' /\ Owing(s)'
  <2>1. SameDelegate(s) /\ SameClient(s) /\ SameServer(s) /\ SameHistory(s)
    BY <1>3 DEF PullNext, PullerAt, PullerGoes, delegate, client, server, history, SameDelegate,
         SameClient, SameServer, SameHistory, DelegateTypes, ClientTypes, ServerTypes
  <2>2. backendQueue' = backendQueue BY DEF PullNext, PullerAt, PullerGoes, delegate, client, server, history
  <2>3. SameMessages(s) BY <2>2, NoMessage
  <2> QED BY <2>1, <2>3, Elsewhere
<1>s. SameMessages(r)
  <2>1. backendQueue' = backendQueue BY DEF PullNext, PullerAt, PullerGoes, delegate, client, server, history
  <2> QED BY <2>1, NoMessage
<1>v. /\ puller[r].pc = "ready" /\ puller'[r].pc \in {"front", "finish"}
      /\ puller'[r].pc = "front" => puller[r].frame < FrameCount
      /\ puller'[r].req = puller[r].req /\ puller'[r].frame = puller[r].frame
      /\ puller'[r].added = puller[r].added /\ puller'[r].eos = puller[r].eos
      /\ puller'[r].held = puller[r].held /\ m_sourceId'[r] = m_sourceId[r]
      /\ m_samples'[r] = m_samples[r] /\ m_isEos'[r] = m_isEos[r]
      /\ m_isSinkFlushOngoing'[r] = m_isSinkFlushOngoing[r] /\ streaming'[r] = streaming[r]
      /\ control'[r] = control[r] /\ pullQueue'[r] = pullQueue[r] /\ request'[r] = request[r]
      /\ flushing'[r] = flushing[r] /\ endOfStream'[r] = endOfStream[r]
      /\ delivered'[r] = delivered[r] /\ accepted'[r] = accepted[r] /\ flushes'[r] = flushes[r]
      /\ floor'[r] = floor[r] /\ dropped'[r] = dropped[r] /\ m_attachedSources' = m_attachedSources
  BY DEF PullNext, PullerAt, PullerGoes, delegate, client, server, history, DelegateTypes,
       ClientTypes, ServerTypes
<1>t. /\ Places(r) /\ Queue(r) /\ Pulling(r) /\ Delivering(r) /\ Keeping(r) /\ Ending(r)
      /\ Requests(r) /\ Owing(r)
  BY At
<1>a. Places(r)' BY <1>v, <1>t, <1>s, PlacesKept
<1>b. Queue(r)' BY <1>v, <1>t, QueueKept
<1>c. Pulling(r)'
  BY <1>v, <1>t, TypesAt, Constants DEF Pulling, PullerState
<1>d. Delivering(r)'
  BY <1>v, <1>t, TypesAt, Constants DEF Delivering
<1>e. Keeping(r)'
  <2>1. Delivered(r)' = Delivered(r) /\ Samples(r)' = Samples(r) BY <1>v, SetsKept
  <2> QED BY <1>v, <1>t, <2>1 DEF Keeping, Clearing
<1>f. Ending(r)'
  <2>1. EosUnderWay(r)' => EosUnderWay(r)
    BY <1>v, <1>s, <1>t, TypesAt DEF EosUnderWay, SameMessages, Pulling
  <2>2. Delivered(r)' = Delivered(r) BY <1>v DEF Delivered
  <2> QED BY <1>v, <1>t, <2>1, <2>2 DEF Ending
<1>g. Requests(r)' BY <1>v, <1>t, <1>s, RequestsKept
<1>h. Owing(r)' BY <1>v, <1>t, OwingKept
<1> QED BY <1>1, <1>2, <1>3, <1>a, <1>b, <1>c, <1>d, <1>e, <1>f, <1>g, <1>h DEF IInv

\* The data state, before the answer.
LEMMA PullFinishStep == ASSUME IInv, NEW r \in Sources, PullFinish(r) PROVE IInv'
<1> USE Types
<1>1. DelegateTypes' /\ ServerTypes'
  BY DEF PullFinish, PullerAt, delegate, client, server, history, DelegateTypes, ServerTypes
<1>2. ClientTypes'
  <2>1. UNCHANGED <<backendQueue, m_attachedSources, m_isFlushing, pullQueue>>
    BY DEF PullFinish, client
  <2>2. puller' = [puller EXCEPT ![r].pc = "post"] BY DEF PullFinish
  <2>3. puller \in [Sources -> PullerState] BY DEF ClientTypes
  <2>4. puller' \in [Sources -> PullerState] BY ONLY <2>2, <2>3 DEF PullerState, PullerPcs
  <2> QED BY <2>1, <2>4 DEF ClientTypes
<1>3. SyncTypes' /\ NoneMarked({})
  <2>1. NotifyDataPushed(r) \/ m_sourceStates' = m_sourceStates BY DEF PullFinish
  <2>2. CASE NotifyDataPushed(r) BY <2>2, FlushNoted
  <2>3. CASE m_sourceStates' = m_sourceStates BY <2>3 DEF SyncTypes, NoneMarked
  <2> QED BY <2>1, <2>2, <2>3
<1>4. Marked'
  <2>1. \A s \in Sources : FlushOngoing(s)' <=> FlushOngoing(s) BY DEF PullFinish, client, FlushOngoing
  <2> QED BY <1>3, <2>1, MarkedKept
<1>5. ASSUME NEW s \in Sources, s # r
       PROVE  /\ Places(s)' /\ Queue(s)' /\ Pulling(s)' /\ Delivering(s)' /\ Keeping(s)' /\ Ending(s)'
              /\ Requests(s)' /\ Owing(s)'
  <2>1. SameDelegate(s) /\ SameClient(s) /\ SameServer(s) /\ SameHistory(s)
    BY <1>5 DEF PullFinish, PullerAt, delegate, client, server, history, SameDelegate, SameClient,
         SameServer, SameHistory, DelegateTypes, ClientTypes, ServerTypes
  <2>2. backendQueue' = backendQueue BY DEF PullFinish, PullerAt, delegate, client, server, history
  <2>3. SameMessages(s) BY <2>2, NoMessage
  <2> QED BY <2>1, <2>3, Elsewhere
<1>s. SameMessages(r)
  <2>1. backendQueue' = backendQueue BY DEF PullFinish, PullerAt, delegate, client, server, history
  <2> QED BY <2>1, NoMessage
<1>v. /\ puller[r].pc = "finish" /\ puller'[r].pc = "post" /\ puller'[r].req = puller[r].req
      /\ puller'[r].frame = puller[r].frame /\ puller'[r].added = puller[r].added
      /\ puller'[r].eos = puller[r].eos /\ puller'[r].held = puller[r].held
      /\ m_sourceId'[r] = m_sourceId[r] /\ m_samples'[r] = m_samples[r] /\ m_isEos'[r] = m_isEos[r]
      /\ m_isSinkFlushOngoing'[r] = m_isSinkFlushOngoing[r] /\ streaming'[r] = streaming[r]
      /\ control'[r] = control[r] /\ pullQueue'[r] = pullQueue[r] /\ request'[r] = request[r]
      /\ flushing'[r] = flushing[r] /\ endOfStream'[r] = endOfStream[r]
      /\ delivered'[r] = delivered[r] /\ accepted'[r] = accepted[r] /\ flushes'[r] = flushes[r]
      /\ floor'[r] = floor[r] /\ dropped'[r] = dropped[r] /\ m_attachedSources' = m_attachedSources
  BY DEF PullFinish, PullerAt, delegate, client, server, history, DelegateTypes, ClientTypes,
       ServerTypes
<1>t. /\ Places(r) /\ Queue(r) /\ Pulling(r) /\ Delivering(r) /\ Keeping(r) /\ Ending(r)
      /\ Requests(r) /\ Owing(r)
  BY At
<1>a. Places(r)' BY <1>v, <1>t, <1>s, PlacesKept
<1>b. Queue(r)' BY <1>v, <1>t, QueueKept
<1>c. Pulling(r)'
  BY <1>v, <1>t, TypesAt, Constants DEF Pulling, PullerState
<1>d. Delivering(r)'
  BY <1>v, <1>t, TypesAt, Constants DEF Delivering
<1>e. Keeping(r)'
  <2>1. Delivered(r)' = Delivered(r) /\ Samples(r)' = Samples(r) BY <1>v, SetsKept
  <2> QED BY <1>v, <1>t, <2>1 DEF Keeping, Clearing
<1>f. Ending(r)'
  <2>1. EosUnderWay(r)' => EosUnderWay(r)
    BY <1>v, <1>s, <1>t, TypesAt DEF EosUnderWay, SameMessages, Pulling
  <2>2. Delivered(r)' = Delivered(r) BY <1>v DEF Delivered
  <2> QED BY <1>v, <1>t, <2>1, <2>2 DEF Ending
<1>g. Requests(r)' BY <1>v, <1>t, <1>s, RequestsKept
<1>h. Owing(r)' BY <1>v, <1>t, OwingKept
<1> QED BY <1>1, <1>2, <1>3, <1>4, <1>5, <1>a, <1>b, <1>c, <1>d, <1>e, <1>f, <1>g, <1>h DEF IInv

\* getFrontSample().
LEMMA PullFrontStep == ASSUME IInv, NEW r \in Sources, PullFront(r) PROVE IInv'
<1> USE Types
<1>1. DelegateTypes' /\ ServerTypes' /\ SyncTypes' /\ Marked'
  BY DEF PullFront, PullerAt, PullerGoes, GetFrontSample, delegate, client, server, history,
       DelegateTypes, ServerTypes, SyncTypes, Marked, FlushOngoing
<1>2. ClientTypes'
  <2>1. m_samples[r] # <<>> => Head(m_samples[r]) \in Nat
    <3>1. m_samples[r] \in Seq(Nat) BY DEF DelegateTypes
    <3> QED BY <3>1
  <2>2. puller[r] \in PullerState BY DEF ClientTypes
  <2>3. CASE /\ m_samples[r] # <<>>
             /\ puller' = [puller EXCEPT ![r] = [puller[r] EXCEPT !.pc = "add", !.held = Head(m_samples[r])]]
    <3>1. puller'[r] \in PullerState BY <2>1, <2>2, <2>3 DEF PullerState, PullerPcs, ClientTypes
    <3>2. puller' \in [Sources -> PullerState] BY <2>3, <3>1 DEF ClientTypes
    <3> QED BY <3>2 DEF PullFront, PullerGoes, client, ClientTypes
  <2>4. CASE puller' = [puller EXCEPT ![r] = [puller[r] EXCEPT !.pc = "eos"]]
    <3>1. puller'[r] \in PullerState BY <2>2, <2>4 DEF PullerState, PullerPcs, ClientTypes
    <3>2. puller' \in [Sources -> PullerState] BY <2>4, <3>1 DEF ClientTypes
    <3> QED BY <3>2 DEF PullFront, PullerGoes, client, ClientTypes
  <2> QED BY <2>3, <2>4 DEF PullFront, PullerGoes, GetFrontSample
<1>3. ASSUME NEW s \in Sources, s # r
       PROVE  /\ Places(s)' /\ Queue(s)' /\ Pulling(s)' /\ Delivering(s)' /\ Keeping(s)' /\ Ending(s)'
              /\ Requests(s)' /\ Owing(s)'
  <2>1. SameDelegate(s) /\ SameClient(s) /\ SameServer(s) /\ SameHistory(s)
    BY <1>3 DEF PullFront, PullerAt, PullerGoes, GetFrontSample, delegate, client, server, history,
         SameDelegate, SameClient, SameServer, SameHistory, DelegateTypes, ClientTypes,
         ServerTypes
  <2>2. backendQueue' = backendQueue
    BY DEF PullFront, PullerAt, PullerGoes, GetFrontSample, delegate, client, server, history
  <2>3. SameMessages(s) BY <2>2, NoMessage
  <2> QED BY <2>1, <2>3, Elsewhere
<1>s. SameMessages(r)
  <2>1. backendQueue' = backendQueue
    BY DEF PullFront, PullerAt, PullerGoes, GetFrontSample, delegate, client, server, history
  <2> QED BY <2>1, NoMessage
<1>v. /\ puller[r].pc = "front" /\ puller'[r].req = puller[r].req
      /\ puller'[r].frame = puller[r].frame /\ puller'[r].added = puller[r].added
      /\ puller'[r].eos = puller[r].eos
      /\ (puller'[r].pc = "add" /\ m_samples[r] # <<>>) \/ puller'[r].pc = "eos"
      /\ puller'[r].held = IF puller'[r].pc = "add" THEN Head(m_samples[r]) ELSE puller[r].held
      /\ m_sourceId'[r] = m_sourceId[r] /\ m_samples'[r] = m_samples[r] /\ m_isEos'[r] = m_isEos[r]
      /\ m_isSinkFlushOngoing'[r] = m_isSinkFlushOngoing[r] /\ streaming'[r] = streaming[r]
      /\ control'[r] = control[r] /\ pullQueue'[r] = pullQueue[r] /\ request'[r] = request[r]
      /\ flushing'[r] = flushing[r] /\ endOfStream'[r] = endOfStream[r]
      /\ delivered'[r] = delivered[r] /\ accepted'[r] = accepted[r] /\ flushes'[r] = flushes[r]
      /\ floor'[r] = floor[r] /\ dropped'[r] = dropped[r] /\ m_attachedSources' = m_attachedSources
  <2>1. puller[r] \in PullerState BY DEF ClientTypes
  <2>2. \/ /\ m_samples[r] # <<>>
           /\ puller'[r] = [puller[r] EXCEPT !.pc = "add", !.held = Head(m_samples[r])]
        \/ puller'[r] = [puller[r] EXCEPT !.pc = "eos"]
    BY DEF PullFront, PullerGoes, GetFrontSample, ClientTypes
  <2>3. /\ puller'[r].req = puller[r].req /\ puller'[r].frame = puller[r].frame
        /\ puller'[r].added = puller[r].added /\ puller'[r].eos = puller[r].eos
        /\ (puller'[r].pc = "add" /\ m_samples[r] # <<>>) \/ puller'[r].pc = "eos"
        /\ puller'[r].held = IF puller'[r].pc = "add" THEN Head(m_samples[r]) ELSE puller[r].held
    <3>1. CASE /\ m_samples[r] # <<>>
               /\ puller'[r] = [puller[r] EXCEPT !.pc = "add", !.held = Head(m_samples[r])]
      BY <2>1, <3>1 DEF PullerState
    <3>2. CASE puller'[r] = [puller[r] EXCEPT !.pc = "eos"] BY <2>1, <3>2 DEF PullerState
    <3> QED BY <2>2, <3>1, <3>2
  <2> QED BY <2>3 DEF PullFront, PullerAt, PullerGoes, delegate, client, server, history
<1>t. /\ Places(r) /\ Queue(r) /\ Pulling(r) /\ Delivering(r) /\ Keeping(r) /\ Ending(r)
      /\ Requests(r) /\ Owing(r)
  BY At
<1>w. ASSUME puller'[r].pc = "add"
      PROVE  /\ 1 \in 1..Len(m_samples[r]) /\ puller'[r].held = m_samples[r][1]
             /\ m_samples[r][1] \in (floor[r] + 1)..accepted[r]
             /\ \A i \in 1..Len(m_samples[r]) : m_samples[r][1] <= m_samples[r][i]
  <2>1. m_samples[r] \in Seq(Nat) /\ m_samples[r] # <<>> BY <1>v, <1>w, TypesAt
  <2>2. 1 \in 1..Len(m_samples[r]) /\ Head(m_samples[r]) = m_samples[r][1] BY <2>1, SampleTaken
  <2>3. m_samples[r][1] \in (floor[r] + 1)..accepted[r] BY <1>t, <2>2 DEF Queue
  <2>4. ASSUME NEW i \in 1..Len(m_samples[r]) PROVE m_samples[r][1] <= m_samples[r][i]
    <3>1. i = 1 \/ 1 < i OBVIOUS
    <3>2. m_samples[r][1] \in Nat /\ m_samples[r][i] \in Nat BY <2>1, <2>2
    <3>3. 1 < i => m_samples[r][1] < m_samples[r][i] BY <1>t, <2>2 DEF Queue
    <3> QED BY <3>1, <3>2, <3>3
  <2> QED BY <1>v, <1>w, <2>2, <2>3, <2>4
<1>a. Places(r)' BY <1>v, <1>t, <1>s, PlacesKept
<1>b. Queue(r)' BY <1>v, <1>t, QueueKept
<1>c. Pulling(r)'
  <2>1. puller'[r].held \in 0..MaxBuffers
    <3>1. CASE puller'[r].pc = "add"
      <4>1. accepted[r] <= MaxBuffers BY <1>t DEF Queue
      <4> QED BY <1>w, <3>1, <4>1, TypesAt, Constants, SMTT(30)
    <3>2. CASE puller'[r].pc # "add" BY <1>v, <1>t, <3>2 DEF Pulling
    <3> QED BY <3>1, <3>2
  <2> QED BY <1>v, <1>t, <2>1, TypesAt DEF Pulling, PullerState
<1>d. Delivering(r)'
  <2>1. puller'[r].pc = "add" => \A j \in 1..Len(delivered[r]) : delivered[r][j] < puller'[r].held
    BY <1>v, <1>t, <1>w DEF Delivering
  <2> QED BY <1>v, <1>t, <1>w, <2>1 DEF Delivering
<1>e. Keeping(r)'
  <2>1. Delivered(r)' = Delivered(r) /\ Samples(r)' = Samples(r) BY <1>v, SetsKept
  <2> QED BY <1>v, <1>t, <1>w, <2>1 DEF Keeping, Clearing
<1>f. Ending(r)'
  <2>1. EosUnderWay(r)' => EosUnderWay(r)
    BY <1>v, <1>s, <1>t, TypesAt DEF EosUnderWay, SameMessages, Pulling
  <2>2. Delivered(r)' = Delivered(r) BY <1>v DEF Delivered
  <2> QED BY <1>v, <1>t, <2>1, <2>2 DEF Ending
<1>g. Requests(r)' BY <1>v, <1>t, <1>s, RequestsKept
<1>h. Owing(r)' BY <1>v, <1>t, OwingKept
<1> QED BY <1>1, <1>2, <1>3, <1>a, <1>b, <1>c, <1>d, <1>e, <1>f, <1>g, <1>h DEF IInv

\* isEos().
LEMMA PullEosStep == ASSUME IInv, NEW r \in Sources, PullEos(r) PROVE IInv'
<1> USE Types
<1>1. DelegateTypes' /\ ServerTypes' /\ SyncTypes' /\ Marked'
  BY DEF PullEos, PullerAt, PullerGoes, delegate, client, server, history, DelegateTypes,
       ServerTypes, SyncTypes, Marked, FlushOngoing
<1>2. ClientTypes'
  <2>1. puller[r] \in PullerState /\ IsEos(r) \in BOOLEAN BY DEF ClientTypes, IsEos, DelegateTypes
  <2>2. puller' = [puller EXCEPT ![r] = [puller[r] EXCEPT !.pc = "finish", !.eos = IsEos(r)]]
    BY DEF PullEos, PullerGoes
  <2>3. puller'[r] \in PullerState BY <2>1, <2>2 DEF PullerState, PullerPcs, ClientTypes
  <2>4. puller' \in [Sources -> PullerState] BY <2>2, <2>3 DEF ClientTypes
  <2> QED BY <2>4 DEF PullEos, PullerGoes, client, ClientTypes
<1>3. ASSUME NEW s \in Sources, s # r
       PROVE  /\ Places(s)' /\ Queue(s)' /\ Pulling(s)' /\ Delivering(s)' /\ Keeping(s)' /\ Ending(s)'
              /\ Requests(s)' /\ Owing(s)'
  <2>1. SameDelegate(s) /\ SameClient(s) /\ SameServer(s) /\ SameHistory(s)
    BY <1>3 DEF PullEos, PullerAt, PullerGoes, delegate, client, server, history, SameDelegate,
         SameClient, SameServer, SameHistory, DelegateTypes, ClientTypes, ServerTypes
  <2>2. backendQueue' = backendQueue BY DEF PullEos, PullerAt, PullerGoes, delegate, client, server, history
  <2>3. SameMessages(s) BY <2>2, NoMessage
  <2> QED BY <2>1, <2>3, Elsewhere
<1>s. SameMessages(r)
  <2>1. backendQueue' = backendQueue BY DEF PullEos, PullerAt, PullerGoes, delegate, client, server, history
  <2> QED BY <2>1, NoMessage
<1>v. /\ puller[r].pc = "eos" /\ puller'[r].pc = "finish" /\ puller'[r].req = puller[r].req
      /\ puller'[r].frame = puller[r].frame /\ puller'[r].added = puller[r].added
      /\ puller'[r].held = puller[r].held
      /\ puller'[r].eos <=> (m_samples[r] = <<>> /\ m_isEos[r])
      /\ m_sourceId'[r] = m_sourceId[r] /\ m_samples'[r] = m_samples[r] /\ m_isEos'[r] = m_isEos[r]
      /\ m_isSinkFlushOngoing'[r] = m_isSinkFlushOngoing[r] /\ streaming'[r] = streaming[r]
      /\ control'[r] = control[r] /\ pullQueue'[r] = pullQueue[r] /\ request'[r] = request[r]
      /\ flushing'[r] = flushing[r] /\ endOfStream'[r] = endOfStream[r]
      /\ delivered'[r] = delivered[r] /\ accepted'[r] = accepted[r] /\ flushes'[r] = flushes[r]
      /\ floor'[r] = floor[r] /\ dropped'[r] = dropped[r] /\ m_attachedSources' = m_attachedSources
  <2>1. puller[r] \in PullerState /\ IsEos(r) \in BOOLEAN BY DEF ClientTypes, IsEos, DelegateTypes
  <2>2. puller'[r] = [puller[r] EXCEPT !.pc = "finish", !.eos = IsEos(r)]
    BY DEF PullEos, PullerGoes, ClientTypes
  <2>3. /\ puller'[r].pc = "finish" /\ puller'[r].req = puller[r].req
        /\ puller'[r].frame = puller[r].frame /\ puller'[r].added = puller[r].added
        /\ puller'[r].held = puller[r].held /\ puller'[r].eos = IsEos(r)
    BY <2>1, <2>2 DEF PullerState
  <2>4. puller'[r].eos <=> (m_samples[r] = <<>> /\ m_isEos[r]) BY <2>3 DEF IsEos
  <2> QED BY <2>3, <2>4 DEF PullEos, PullerAt, PullerGoes, delegate, client, server, history
<1>t. /\ Places(r) /\ Queue(r) /\ Pulling(r) /\ Delivering(r) /\ Keeping(r) /\ Ending(r)
      /\ Requests(r) /\ Owing(r)
  BY At
<1>a. Places(r)' BY <1>v, <1>t, <1>s, PlacesKept
<1>b. Queue(r)' BY <1>v, <1>t, QueueKept
<1>c. Pulling(r)'
  BY <1>v, <1>t, TypesAt, Constants DEF Pulling, PullerState
<1>d. Delivering(r)'
  BY <1>v, <1>t, TypesAt, Constants DEF Delivering
<1>e. Keeping(r)'
  <2>1. Delivered(r)' = Delivered(r) /\ Samples(r)' = Samples(r) BY <1>v, SetsKept
  <2> QED BY <1>v, <1>t, <2>1 DEF Keeping, Clearing
<1>f. Ending(r)'
  <2> SUFFICES ASSUME May \cap {"refuseFlush", "overtakeEos"} = {}
               PROVE  Ending(r)'
    BY DEF Ending
  <2>1. Delivered(r)' = Delivered(r) BY <1>v DEF Delivered
  <2>2. CASE EosUnderWay(r) \/ ~EosUnderWay(r)' BY <1>v, <1>t, <2>1, <2>2 DEF Ending
  <2>3. CASE ~EosUnderWay(r) /\ EosUnderWay(r)'
    <3>1. m_samples[r] = <<>> /\ m_isEos[r] /\ puller[r].req = request[r]
      BY <1>v, <1>s, <2>3, TypesAt DEF EosUnderWay, SameMessages
    <3>2. streaming[r] = "eos" /\ (control[r] \notin Cleared \/ control[r] = "removed")
      BY <1>t, <3>1 DEF Ending
    <3>3. r \in m_attachedSources BY <1>v, <1>t, <3>1 DEF Pulling, Requests
    <3>4. control[r] \notin Cleared BY <1>t, <3>2, <3>3 DEF Places
    <3>5. ~Clearing(r) /\ "refuseFlush" \notin May BY <3>4 DEF Clearing, Cleared
    <3>6. Samples(r) = {} BY <3>1 DEF Samples
    <3>7. (floor[r] + 1)..accepted[r] \subseteq Delivered(r) \cup dropped[r]
      BY <1>t, <3>5, <3>6 DEF Keeping
    <3> QED BY <1>v, <1>t, <2>1, <3>2, <3>4, <3>7 DEF Ending, Cleared
  <2> QED BY <2>2, <2>3
<1>g. Requests(r)' BY <1>v, <1>t, <1>s, RequestsKept
<1>h. Owing(r)' BY <1>v, <1>t, OwingKept
<1> QED BY <1>1, <1>2, <1>3, <1>a, <1>b, <1>c, <1>d, <1>e, <1>f, <1>g, <1>h DEF IInv

\* A pull starts.
LEMMA PullStartStep == ASSUME IInv, NEW r \in Sources, PullStart(r) PROVE IInv'
<1> USE Types
<1>1. DelegateTypes' /\ ServerTypes' /\ SyncTypes' /\ Marked'
  BY DEF PullStart, Idle, delegate, client, server, history, DelegateTypes, ServerTypes, SyncTypes,
       Marked, FlushOngoing
<1>2. ClientTypes'
  <2>1. pullQueue[r] \in Seq(RequestIds) /\ pullQueue[r] # <<>> BY DEF ClientTypes, PullStart
  <2>2. Head(pullQueue[r]) \in RequestIds /\ Tail(pullQueue[r]) \in Seq(RequestIds) BY <2>1
  <2>3. pullQueue' \in [Sources -> Seq(RequestIds)] BY <2>2 DEF PullStart, ClientTypes
  <2>4. [Idle EXCEPT !.pc = "ready", !.req = Head(pullQueue[r])] \in PullerState
    BY <2>2, Constants DEF PullerState, PullerPcs, Idle
  <2>5. puller' \in [Sources -> PullerState] BY <2>4 DEF PullStart, ClientTypes
  <2> QED BY <2>3, <2>5 DEF PullStart, client, ClientTypes
<1>3. ASSUME NEW s \in Sources, s # r
       PROVE  /\ Places(s)' /\ Queue(s)' /\ Pulling(s)' /\ Delivering(s)' /\ Keeping(s)' /\ Ending(s)'
              /\ Requests(s)' /\ Owing(s)'
  <2>1. SameDelegate(s) /\ SameClient(s) /\ SameServer(s) /\ SameHistory(s)
    BY <1>3 DEF PullStart, Idle, delegate, client, server, history, SameDelegate, SameClient,
         SameServer, SameHistory, DelegateTypes, ClientTypes, ServerTypes
  <2>2. backendQueue' = backendQueue BY DEF PullStart, Idle, delegate, client, server, history
  <2>3. SameMessages(s) BY <2>2, NoMessage
  <2> QED BY <2>1, <2>3, Elsewhere
<1>s. SameMessages(r)
  <2>1. backendQueue' = backendQueue BY DEF PullStart, Idle, delegate, client, server, history
  <2> QED BY <2>1, NoMessage
<1>v. /\ puller[r].pc = "idle" /\ pullQueue[r] # <<>> /\ pullQueue'[r] = Tail(pullQueue[r])
      /\ puller'[r].pc = "ready" /\ puller'[r].req = Head(pullQueue[r]) /\ puller'[r].frame = 0
      /\ puller'[r].added = 0 /\ puller'[r].held = 0 /\ puller'[r].eos = FALSE
      /\ m_sourceId'[r] = m_sourceId[r] /\ m_samples'[r] = m_samples[r] /\ m_isEos'[r] = m_isEos[r]
      /\ m_isSinkFlushOngoing'[r] = m_isSinkFlushOngoing[r] /\ streaming'[r] = streaming[r]
      /\ control'[r] = control[r] /\ request'[r] = request[r] /\ flushing'[r] = flushing[r]
      /\ endOfStream'[r] = endOfStream[r] /\ delivered'[r] = delivered[r]
      /\ accepted'[r] = accepted[r] /\ flushes'[r] = flushes[r] /\ floor'[r] = floor[r]
      /\ dropped'[r] = dropped[r] /\ m_attachedSources' = m_attachedSources
  BY DEF PullStart, Idle, delegate, client, server, history, DelegateTypes, ClientTypes,
       ServerTypes
<1>t. /\ Places(r) /\ Queue(r) /\ Pulling(r) /\ Delivering(r) /\ Keeping(r) /\ Ending(r)
      /\ Requests(r) /\ Owing(r)
  BY At
<1>w. /\ Head(pullQueue[r]) = pullQueue[r][1] /\ 1 \in 1..Len(pullQueue[r]) /\ puller[r].req = 0
      /\ Head(pullQueue[r]) \in RequestIds
      /\ \A i \in 1..Len(Tail(pullQueue[r])) : /\ Tail(pullQueue[r])[i] = pullQueue[r][i + 1]
                                               /\ i + 1 \in 1..Len(pullQueue[r]) /\ i + 1 # 1
      /\ \A i \in 1..Len(pullQueue[r]) : i = 1 \/ /\ i - 1 \in 1..Len(Tail(pullQueue[r]))
                                                  /\ pullQueue[r][i] = Tail(pullQueue[r])[i - 1]
  <2>1. pullQueue[r] \in Seq(RequestIds) /\ pullQueue[r] # <<>> BY <1>v, TypesAt
  <2>2. puller[r].req = 0 BY <1>v, <1>t DEF Pulling, Idle
  <2>3. Len(Tail(pullQueue[r])) = Len(pullQueue[r]) - 1 /\ Len(pullQueue[r]) \in Nat \ {0} BY <2>1
  <2>4. \A i \in 1..(Len(pullQueue[r]) - 1) : Tail(pullQueue[r])[i] = pullQueue[r][i + 1] BY <2>1
  <2>5. \A i \in 1..(Len(pullQueue[r]) - 1) : i + 1 \in 1..Len(pullQueue[r]) /\ i + 1 # 1 BY <2>3
  <2>6. ASSUME NEW i \in 1..Len(pullQueue[r]), i # 1
        PROVE  i - 1 \in 1..(Len(pullQueue[r]) - 1) /\ (i - 1) + 1 = i
    BY <2>3, <2>6
  <2>7. Head(pullQueue[r]) = pullQueue[r][1] /\ Head(pullQueue[r]) \in RequestIds BY <2>1
  <2>8. 1 \in 1..Len(pullQueue[r]) BY <2>3
  <2> QED BY ONLY <2>2, <2>3, <2>4, <2>5, <2>6, <2>7, <2>8
<1>a. Places(r)' BY <1>v, <1>t, <1>s, PlacesKept
<1>b. Queue(r)' BY <1>v, <1>t, QueueKept
<1>c. Pulling(r)'
  BY <1>v, <1>w, Constants DEF Pulling
<1>d. Delivering(r)'
  BY <1>v, <1>t, TypesAt, Constants DEF Delivering
<1>e. Keeping(r)'
  <2>1. Delivered(r)' = Delivered(r) /\ Samples(r)' = Samples(r) BY <1>v, SetsKept
  <2> QED BY <1>v, <1>t, <2>1 DEF Keeping, Clearing
<1>f. Ending(r)'
  <2>1. EosUnderWay(r)' => EosUnderWay(r) BY <1>v, <1>s, TypesAt DEF EosUnderWay, SameMessages
  <2>2. Delivered(r)' = Delivered(r) BY <1>v DEF Delivered
  <2> QED BY <1>v, <1>t, <2>1, <2>2 DEF Ending
<1>g. Requests(r)'
  <2> DEFINE q == pullQueue[r]
             t == Tail(pullQueue[r])
             h == Head(pullQueue[r])
  <2>1. /\ \A n \in RequestIds : /\ Among(backendQueue', Carries(r, n)) <=> Among(backendQueue, Carries(r, n))
                                 /\ Once(backendQueue', Carries(r, n))
        /\ ~Among(backendQueue', Carries(r, 0))
        /\ Among(backendQueue', Erases(r)) => Among(backendQueue, Erases(r))
    BY <1>s, <1>t, Constants DEF SameMessages, Requests
  <2>2. /\ \A i, j \in 1..Len(q) : q[i] = q[j] => i = j
        /\ \A i \in 1..Len(q) : ~Among(backendQueue, Carries(r, q[i]))
        /\ request[r] # 0 => \/ Among(backendQueue, Carries(r, request[r]))
                             \/ \E i \in 1..Len(q) : q[i] = request[r]
        /\ request[r] # 0 => r \in m_attachedSources /\ ~Among(backendQueue, Erases(r))
    BY <1>t, <1>w DEF Requests
  <2>3. /\ h = q[1] /\ 1 \in 1..Len(q) /\ h \in RequestIds
        /\ \A i \in 1..Len(t) : t[i] = q[i + 1] /\ i + 1 \in 1..Len(q) /\ i + 1 # 1
        /\ \A i \in 1..Len(q) : i = 1 \/ (i - 1 \in 1..Len(t) /\ q[i] = t[i - 1])
    BY <1>w
  <2>4. \A i \in 1..Len(q) : q[i] \in RequestIds
    <3>1. pullQueue[r] \in Seq(RequestIds) BY TypesAt
    <3> QED BY <3>1
  <2>5. request[r] # 0 => request[r] \in RequestIds BY TypesAt, Constants DEF RequestIds
  <2>6. /\ pullQueue'[r] = t /\ puller'[r].req = h /\ request'[r] = request[r]
        /\ m_attachedSources' = m_attachedSources
    BY <1>v
  <2> HIDE DEF q, t, h
  <2>7. ASSUME NEW i \in 1..Len(t), NEW j \in 1..Len(t), t[i] = t[j] PROVE i = j
    <3>1. i + 1 = j + 1 BY <2>2, <2>3, <2>7
    <3> QED BY <3>1
  <2>8. \A i \in 1..Len(t) : t[i] # h /\ ~Among(backendQueue', Carries(r, t[i]))
    BY <2>1, <2>2, <2>3, <2>4
  <2>9. h # 0 /\ ~Among(backendQueue', Carries(r, h)) BY <2>1, <2>2, <2>3, Constants
  <2>10. request[r] # 0 => \/ Among(backendQueue', Carries(r, request[r]))
                           \/ \E i \in 1..Len(t) : t[i] = request[r]
                           \/ h = request[r]
    BY <2>1, <2>2, <2>3, <2>5
  <2> QED BY ONLY <2>1, <2>2, <2>6, <2>7, <2>8, <2>9, <2>10 DEF Requests
<1>h. Owing(r)' BY <1>v, <1>t, OwingKept
<1> QED BY <1>1, <1>2, <1>3, <1>a, <1>b, <1>c, <1>d, <1>e, <1>f, <1>g, <1>h DEF IInv

\* addSegment().
LEMMA AddSegmentStep == ASSUME IInv, NEW r \in Sources, AddSegment(r) PROVE IInv'
<1> USE Types
<1>1. DelegateTypes' /\ SyncTypes' /\ Marked'
  BY DEF AddSegment, PullerAt, delegate, client, history, DelegateTypes, SyncTypes, Marked,
       FlushOngoing
<1>2. ClientTypes'
  <2>1. puller[r] \in PullerState BY DEF ClientTypes
  <2>2. PICK p \in PullerState : puller' = [puller EXCEPT ![r] = p]
    <3>1. \/ puller' = [puller EXCEPT ![r].pc = "pop", ![r].added = @ + 1]
          \/ puller' = [puller EXCEPT ![r].pc = "pop"]
          \/ puller' = [puller EXCEPT ![r].pc = "finish"]
      BY DEF AddSegment
    <3>2. /\ [puller[r] EXCEPT !.pc = "pop"] \in PullerState
          /\ [puller[r] EXCEPT !.pc = "finish"] \in PullerState
      BY <2>1 DEF PullerState, PullerPcs
    <3>6. [puller[r] EXCEPT !.pc = "pop", !.added = @ + 1] \in PullerState
      <4>1. PICK n \in Nat : n = puller[r].added + 1 BY <2>1 DEF PullerState
      <4>2. [puller[r] EXCEPT !.pc = "pop", !.added = n] \in PullerState
        BY <2>1 DEF PullerState, PullerPcs
      <4> QED BY <4>1, <4>2
    <3>3. CASE puller' = [puller EXCEPT ![r].pc = "pop", ![r].added = @ + 1] BY <3>6, <3>3
    <3>4. CASE puller' = [puller EXCEPT ![r].pc = "pop"] BY <3>2, <3>4
    <3>5. CASE puller' = [puller EXCEPT ![r].pc = "finish"] BY <3>2, <3>5
    <3> QED BY <3>1, <3>3, <3>4, <3>5
  <2>3. puller' \in [Sources -> PullerState] BY <2>2 DEF ClientTypes
  <2> QED BY <2>3 DEF AddSegment, client, ClientTypes
<1>3. ServerTypes'
  <2>1. puller[r].held \in Nat BY DEF ClientTypes, PullerState
  <2>2. Append(delivered[r], puller[r].held) \in Seq(Nat) BY <2>1, SampleAdded DEF ServerTypes
  <2>3. delivered' = delivered \/ delivered' = [delivered EXCEPT ![r] = Append(@, puller[r].held)]
    BY DEF AddSegment
  <2>4. delivered' \in [Sources -> Seq(Nat)] BY <2>2, <2>3 DEF ServerTypes
  <2> QED BY <2>4 DEF AddSegment, history, ServerTypes
<1>4. ASSUME NEW s \in Sources, s # r
       PROVE  /\ Places(s)' /\ Queue(s)' /\ Pulling(s)' /\ Delivering(s)' /\ Keeping(s)' /\ Ending(s)'
              /\ Requests(s)' /\ Owing(s)'
  <2>1. SameDelegate(s) /\ SameClient(s) /\ SameServer(s) /\ SameHistory(s)
    BY <1>4 DEF AddSegment, PullerAt, delegate, client, history, SameDelegate, SameClient,
         SameServer, SameHistory, DelegateTypes, ClientTypes, ServerTypes
  <2>2. backendQueue' = backendQueue BY DEF AddSegment, PullerAt, delegate, client, history
  <2>3. SameMessages(s) BY <2>2, NoMessage
  <2> QED BY <2>1, <2>3, Elsewhere
<1>s. SameMessages(r)
  <2>1. backendQueue' = backendQueue BY DEF AddSegment, PullerAt, delegate, client, history
  <2> QED BY <2>1, NoMessage
<1>v. /\ puller[r].pc = "add" /\ puller'[r].pc \in {"pop", "finish"}
      /\ puller'[r].req = puller[r].req /\ puller'[r].frame = puller[r].frame
      /\ puller'[r].eos = puller[r].eos /\ puller'[r].held = puller[r].held
      /\ \/ puller'[r].added = puller[r].added
         \/ puller'[r].pc = "pop" /\ puller'[r].added = puller[r].added + 1
      /\ m_sourceId'[r] = m_sourceId[r] /\ m_samples'[r] = m_samples[r] /\ m_isEos'[r] = m_isEos[r]
      /\ m_isSinkFlushOngoing'[r] = m_isSinkFlushOngoing[r] /\ streaming'[r] = streaming[r]
      /\ control'[r] = control[r] /\ pullQueue'[r] = pullQueue[r] /\ request'[r] = request[r]
      /\ flushing'[r] = flushing[r] /\ endOfStream'[r] = endOfStream[r]
      /\ accepted'[r] = accepted[r] /\ flushes'[r] = flushes[r] /\ floor'[r] = floor[r]
      /\ dropped'[r] = dropped[r] /\ m_attachedSources' = m_attachedSources
  <2>1. puller[r] \in PullerState BY DEF ClientTypes
  <2>2. \/ puller'[r] = [puller[r] EXCEPT !.pc = "pop", !.added = @ + 1]
        \/ puller'[r] = [puller[r] EXCEPT !.pc = "pop"]
        \/ puller'[r] = [puller[r] EXCEPT !.pc = "finish"]
    BY DEF AddSegment, ClientTypes
  <2>3. /\ puller'[r].pc \in {"pop", "finish"} /\ puller'[r].req = puller[r].req
        /\ puller'[r].frame = puller[r].frame /\ puller'[r].eos = puller[r].eos
        /\ puller'[r].held = puller[r].held
        /\ \/ puller'[r].added = puller[r].added
           \/ puller'[r].pc = "pop" /\ puller'[r].added = puller[r].added + 1
    BY <2>1, <2>2 DEF PullerState
  <2> QED BY <2>3 DEF AddSegment, PullerAt, delegate, client, history, DelegateTypes, ClientTypes,
                      ServerTypes
<1>t. /\ Places(r) /\ Queue(r) /\ Pulling(r) /\ Delivering(r) /\ Keeping(r) /\ Ending(r)
      /\ Requests(r) /\ Owing(r)
  BY At
<1>y. \/ delivered'[r] = delivered[r]
      \/ /\ puller[r].req = request[r] /\ puller'[r].pc = "pop"
         /\ delivered'[r] = Append(delivered[r], puller[r].held)
  BY SMTT(30) DEF AddSegment, ServerTypes, ClientTypes, PullerState
<1>z. PICK L \in Nat : /\ L = Len(delivered[r]) /\ Len(Append(delivered[r], puller[r].held)) = L + 1
                       /\ Append(delivered[r], puller[r].held)[L + 1] = puller[r].held
                       /\ \A i \in 1..L : Append(delivered[r], puller[r].held)[i] = delivered[r][i]
                       /\ \A i \in 1..(L + 1) : i \in 1..L \/ i = L + 1
  <2>1. delivered[r] \in Seq(Nat) /\ puller[r].held \in Nat BY TypesAt DEF PullerState
  <2> QED BY ONLY <2>1, SampleAdded
<1>w. /\ Samples(r)' = Samples(r)
      /\ \/ Delivered(r)' = Delivered(r)
         \/ puller[r].req = request[r] /\ Delivered(r)' = Delivered(r) \cup {puller[r].held}
  <2>1. Samples(r)' = Samples(r) BY <1>v DEF Samples
  <2>2. CASE delivered'[r] = delivered[r] BY <2>1, <2>2 DEF Delivered
  <2>3. CASE puller[r].req = request[r] /\ delivered'[r] = Append(delivered[r], puller[r].held)
    <3>1. Len(delivered'[r]) = L + 1 /\ L = Len(delivered[r]) BY <1>z, <2>3
    <3>2. \A i \in 1..L : delivered'[r][i] = delivered[r][i] /\ i \in 1..(L + 1) BY <1>z, <2>3
    <3>3. delivered'[r][L + 1] = puller[r].held /\ L + 1 \in 1..(L + 1) BY <1>z, <2>3
    <3>4. \A i \in 1..(L + 1) : i \in 1..L \/ i = L + 1 BY <1>z
    <3>5. Delivered(r)' = Delivered(r) \cup {puller[r].held}
      BY ONLY <3>1, <3>2, <3>3, <3>4 DEF Delivered
    <3> QED BY <2>1, <2>3, <3>5
  <2> QED BY <1>y, <2>2, <2>3
<1>a. Places(r)' BY <1>v, <1>t, <1>s, PlacesKept
<1>b. Queue(r)' BY <1>v, <1>t, QueueKept
<1>c. Pulling(r)'
  <2>1. /\ puller[r].req # 0 /\ puller[r].frame < FrameCount /\ ~puller[r].eos
        /\ puller[r].added <= puller[r].frame /\ puller[r].held \in 0..MaxBuffers
    BY <1>v, <1>t DEF Pulling
  <2>2. puller[r].added \in Nat /\ puller[r].frame \in Nat /\ FrameCount \in Nat
    BY TypesAt, Constants DEF PullerState
  <2> QED BY <1>v, <2>1, <2>2 DEF Pulling
<1>d. Delivering(r)'
  <2>1. CASE delivered'[r] = delivered[r] BY <1>v, <1>t, <2>1 DEF Delivering
  <2>2. CASE /\ puller[r].req = request[r] /\ puller'[r].pc = "pop"
             /\ delivered'[r] = Append(delivered[r], puller[r].held)
    <3> DEFINE q == m_samples[r]
               d == delivered[r]
               t == Append(delivered[r], puller[r].held)
               h == puller[r].held
               a == accepted[r]
               f == floor[r]
    <3>1. /\ a \in Nat /\ f \in Nat /\ h \in (f + 1)..a
          /\ \A i, j \in 1..L : i < j => d[i] < d[j]
          /\ \A j \in 1..L : d[j] \in (f + 1)..a /\ d[j] < h
          /\ dropped[r] \subseteq (f + 1)..a
          /\ \A i \in 1..Len(q) : h <= q[i] /\ \A j \in 1..L : d[j] < q[i]
      BY <1>v, <1>t, <1>z, <2>2, TypesAt DEF Delivering
    <3>2. /\ \A i \in 1..Len(q) : q[i] \in (f + 1)..a
          /\ \A i, j \in 1..Len(q) : i < j => q[i] < q[j]
      BY <1>t DEF Queue
    <3>3. /\ Len(t) = L + 1 /\ t[L + 1] = h /\ \A i \in 1..L : t[i] = d[i]
          /\ \A i \in 1..(L + 1) : i \in 1..L \/ i = L + 1
      BY <1>z
    <3>4. /\ m_samples'[r] = q /\ accepted'[r] = a /\ floor'[r] = f /\ delivered'[r] = t
          /\ dropped'[r] = dropped[r] /\ puller'[r].pc = "pop"
      BY <1>v, <2>2
    <3>5. Len(q) \in Nat BY TypesAt
    <3> HIDE DEF q, d, t, h, a, f
    <3>6. ASSUME NEW i \in 1..Len(t), NEW j \in 1..Len(t), i < j PROVE t[i] < t[j]
      <4>1. i \in 1..L BY <3>3, <3>6
      <4>2. CASE j \in 1..L BY <3>1, <3>3, <3>6, <4>1, <4>2
      <4>3. CASE j = L + 1 BY <3>1, <3>3, <4>1, <4>3
      <4> QED BY <3>3, <4>2, <4>3
    <3>7. \A j \in 1..Len(t) : t[j] \in (f + 1)..a BY <3>1, <3>3
    <3>8. ASSUME NEW i \in 1..Len(q), i > 1, NEW j \in 1..Len(t) PROVE t[j] < q[i]
      <4>1. CASE j \in 1..L BY <3>1, <3>3, <4>1
      <4>2. CASE j = L + 1
        <5>1. 1 \in 1..Len(q) /\ 1 < i BY <3>5, <3>8
        <5>2. q[1] < q[i] /\ h <= q[1] BY <3>1, <3>2, <5>1
        <5>3. q[1] \in (f + 1)..a /\ q[i] \in (f + 1)..a BY <3>2, <5>1
        <5> QED BY <3>1, <3>3, <4>2, <5>2, <5>3
      <4> QED BY <3>3, <4>1, <4>2
    <3> QED BY ONLY <3>1, <3>4, <3>6, <3>7, <3>8 DEF Delivering
  <2> QED BY <1>y, <2>1, <2>2
<1>e. Keeping(r)'
  <2>1. Clearing(r)' <=> Clearing(r) BY <1>v DEF Clearing
  <2>2. puller[r].req = request[r] => puller[r].held \in (floor[r] + 1)..accepted[r]
    BY <1>v, <1>t DEF Delivering
  <2> QED BY <1>v, <1>t, <1>w, <2>1, <2>2 DEF Keeping
<1>f. Ending(r)'
  <2>1. EosUnderWay(r)' => EosUnderWay(r) BY <1>v, <1>s, TypesAt DEF EosUnderWay, SameMessages
  <2>2. Delivered(r) \subseteq Delivered(r)' BY <1>w
  <2> QED BY <1>v, <1>t, <2>1, <2>2 DEF Ending
<1>g. Requests(r)' BY <1>v, <1>t, <1>s, RequestsKept
<1>h. Owing(r)' BY <1>v, <1>t, OwingKept
<1> QED BY <1>1, <1>2, <1>3, <1>4, <1>a, <1>b, <1>c, <1>d, <1>e, <1>f, <1>g, <1>h DEF IInv

\* popSample().
LEMMA PopSampleStep == ASSUME IInv, NEW r \in Sources, PopSample(r) PROVE IInv'
<1> USE Types
<1>1. SyncTypes' /\ Marked'
  BY DEF PopSample, PullerAt, Pop, Wake, client, server, SyncTypes, Marked, FlushOngoing
<1>2. DelegateTypes'
  <2>1. m_samples[r] # <<>> => Tail(m_samples[r]) \in Seq(Nat) BY SampleTaken DEF DelegateTypes
  <2>2. m_samples' \in [Sources -> Seq(Nat)] BY <2>1 DEF PopSample, Pop, DelegateTypes
  <2>3. streaming' \in [Sources -> StreamingPcs] BY DEF PopSample, Wake, DelegateTypes, StreamingPcs
  <2> QED BY <2>2, <2>3 DEF PopSample, DelegateTypes
<1>3. ClientTypes'
  <2>1. puller[r] \in PullerState BY DEF ClientTypes
  <2>2. [puller[r] EXCEPT !.pc = "ready", !.frame = @ + 1, !.held = 0] \in PullerState
    <3>1. PICK n \in Nat : n = puller[r].frame + 1 BY <2>1 DEF PullerState
    <3>2. [puller[r] EXCEPT !.pc = "ready", !.frame = n, !.held = 0] \in PullerState
      BY <2>1 DEF PullerState, PullerPcs
    <3> QED BY <3>1, <3>2
  <2>3. puller' = [puller EXCEPT ![r] = [puller[r] EXCEPT !.pc = "ready", !.frame = @ + 1, !.held = 0]]
    BY DEF PopSample
  <2>4. puller' \in [Sources -> PullerState] BY <2>2, <2>3 DEF ClientTypes
  <2> QED BY <2>4 DEF PopSample, client, ClientTypes
<1>4. ServerTypes'
  <2>1. Samples(r) \subseteq Nat
    <3>1. m_samples[r] \in Seq(Nat) BY DEF DelegateTypes
    <3> QED BY <3>1 DEF Samples
  <2>2. dropped' \in [Sources -> SUBSET Nat] BY <2>1 DEF PopSample, ServerTypes
  <2> QED BY <2>2 DEF PopSample, server, ServerTypes
<1>5. ASSUME NEW s \in Sources, s # r
       PROVE  /\ Places(s)' /\ Queue(s)' /\ Pulling(s)' /\ Delivering(s)' /\ Keeping(s)' /\ Ending(s)'
              /\ Requests(s)' /\ Owing(s)'
  <2>1. SameDelegate(s) /\ SameClient(s) /\ SameServer(s) /\ SameHistory(s)
    BY <1>5 DEF PopSample, PullerAt, Pop, Wake, client, server, SameDelegate, SameClient,
         SameServer, SameHistory, DelegateTypes, ClientTypes, ServerTypes
  <2>2. backendQueue' = backendQueue BY DEF PopSample, PullerAt, Pop, Wake, client, server
  <2>3. SameMessages(s) BY <2>2, NoMessage
  <2> QED BY <2>1, <2>3, Elsewhere
<1>s. SameMessages(r)
  <2>1. backendQueue' = backendQueue BY DEF PopSample, PullerAt, Pop, Wake, client, server
  <2> QED BY <2>1, NoMessage
<1>v. /\ puller[r].pc = "pop" /\ puller'[r].pc = "ready" /\ puller'[r].req = puller[r].req
      /\ puller'[r].frame = puller[r].frame + 1 /\ puller'[r].added = puller[r].added
      /\ puller'[r].eos = puller[r].eos /\ puller'[r].held = 0
      /\ streaming'[r] = IF streaming[r] = "full" THEN "woken" ELSE streaming[r]
      /\ m_samples'[r] = IF m_samples[r] = <<>> THEN <<>> ELSE Tail(m_samples[r])
      /\ dropped'[r] = dropped[r] \cup {n \in Samples(r) : n = Head(m_samples[r]) /\ n \notin Delivered(r)}
      /\ m_sourceId'[r] = m_sourceId[r] /\ m_isEos'[r] = m_isEos[r]
      /\ m_isSinkFlushOngoing'[r] = m_isSinkFlushOngoing[r] /\ control'[r] = control[r]
      /\ pullQueue'[r] = pullQueue[r] /\ request'[r] = request[r] /\ flushing'[r] = flushing[r]
      /\ endOfStream'[r] = endOfStream[r] /\ delivered'[r] = delivered[r]
      /\ accepted'[r] = accepted[r] /\ flushes'[r] = flushes[r] /\ floor'[r] = floor[r]
      /\ m_attachedSources' = m_attachedSources
  <2>1. puller[r] \in PullerState BY DEF ClientTypes
  <2>2. puller'[r] = [puller[r] EXCEPT !.pc = "ready", !.frame = @ + 1, !.held = 0]
    BY DEF PopSample, ClientTypes
  <2>3. /\ puller'[r].pc = "ready" /\ puller'[r].req = puller[r].req
        /\ puller'[r].frame = puller[r].frame + 1 /\ puller'[r].added = puller[r].added
        /\ puller'[r].eos = puller[r].eos /\ puller'[r].held = 0
    BY <2>1, <2>2 DEF PullerState
  <2>4. dropped'[r] = dropped[r] \cup {n \in Samples(r) : n = Head(m_samples[r]) /\ n \notin Delivered(r)}
    BY DEF PopSample, ServerTypes
  <2>5. /\ m_samples'[r] = IF m_samples[r] = <<>> THEN <<>> ELSE Tail(m_samples[r])
        /\ streaming'[r] = IF streaming[r] = "full" THEN "woken" ELSE streaming[r]
    BY DEF PopSample, Pop, Wake, DelegateTypes
  <2> QED BY <2>3, <2>4, <2>5 DEF PopSample, PullerAt, client, server
<1>t. /\ Places(r) /\ Queue(r) /\ Pulling(r) /\ Delivering(r) /\ Keeping(r) /\ Ending(r)
      /\ Requests(r) /\ Owing(r)
  BY At
<1>w. ASSUME m_samples[r] # <<>>
      PROVE  /\ Head(m_samples[r]) = m_samples[r][1] /\ 1 \in 1..Len(m_samples[r])
             /\ Len(m_samples[r]) \in Nat \ {0} /\ Len(m_samples'[r]) = Len(m_samples[r]) - 1
             /\ \A i \in 1..Len(m_samples'[r]) : /\ m_samples'[r][i] = m_samples[r][i + 1]
                                                 /\ i + 1 \in 1..Len(m_samples[r]) /\ i + 1 > 1
             /\ \A i \in 1..Len(m_samples[r]) :
                    i = 1 \/ /\ i - 1 \in 1..Len(m_samples'[r])
                             /\ m_samples'[r][i - 1] = m_samples[r][i]
  <2>1. m_samples[r] \in Seq(Nat) /\ m_samples'[r] = Tail(m_samples[r]) BY <1>v, <1>w, TypesAt
  <2> QED BY ONLY <1>w, <2>1, SampleTaken
<1>x. m_samples[r] = <<>> => m_samples'[r] = <<>> /\ Len(m_samples'[r]) = 0 /\ Len(m_samples[r]) = 0
  BY <1>v
<1>a. Places(r)' BY <1>v, <1>t, TypesAt, <1>s DEF Places, Flushes, Cleared, SameMessages
<1>b. Queue(r)'
  <2>1. CASE m_samples[r] = <<>> BY <1>v, <1>t, <1>x, <2>1, Constants DEF Queue
  <2>2. CASE m_samples[r] # <<>>
    <3> DEFINE q == m_samples[r]
               t == m_samples'[r]
    <3>1. /\ \A i \in 1..Len(q) : q[i] \in (floor[r] + 1)..accepted[r]
          /\ \A i, j \in 1..Len(q) : i < j => q[i] < q[j]
          /\ Len(q) <= MaxSamples
      BY <1>t DEF Queue
    <3>2. /\ Len(q) \in Nat \ {0} /\ Len(t) = Len(q) - 1
          /\ \A i \in 1..Len(t) : t[i] = q[i + 1] /\ i + 1 \in 1..Len(q)
      BY <1>w, <2>2
    <3>3. \A i \in 1..Len(t) : t[i] \in (floor[r] + 1)..accepted[r] BY ONLY <3>1, <3>2
    <3>4. ASSUME NEW i \in 1..Len(t), NEW j \in 1..Len(t), i < j PROVE t[i] < t[j]
      <4>1. i + 1 < j + 1 BY <3>4
      <4> QED BY ONLY <3>1, <3>2, <4>1, i \in 1..Len(t), j \in 1..Len(t)
    <3>5. Len(t) < MaxSamples /\ Len(t) <= MaxSamples BY <3>1, <3>2, Constants
    <3>6. ~m_isSinkFlushOngoing[r] BY <1>t, <2>2 DEF Queue
    <3> QED BY <1>v, <1>t, <3>3, <3>4, <3>5, <3>6 DEF Queue
  <2> QED BY <2>1, <2>2
<1>c. Pulling(r)'
  BY <1>v, <1>t, TypesAt, Constants DEF Pulling, PullerState
<1>d. Delivering(r)'
  <2>1. dropped'[r] \subseteq (floor[r] + 1)..accepted[r]
    <3>1. Samples(r) \subseteq (floor[r] + 1)..accepted[r] BY <1>t DEF Queue, Samples
    <3>2. dropped[r] \subseteq (floor[r] + 1)..accepted[r] BY <1>t DEF Delivering
    <3> QED BY <1>v, <3>1, <3>2
  <2>2. ASSUME NEW i \in 1..Len(m_samples'[r]), NEW j \in 1..Len(delivered[r])
        PROVE  delivered[r][j] < m_samples'[r][i]
    <3>1. m_samples[r] # <<>> BY <1>x
    <3>2. m_samples'[r][i] = m_samples[r][i + 1] /\ i + 1 \in 1..Len(m_samples[r]) /\ i + 1 > 1
      BY <1>w, <3>1
    <3> QED BY <1>t, <3>2 DEF Delivering
  <2> QED BY <1>v, <1>t, <2>1, <2>2 DEF Delivering
<1>e. Keeping(r)'
  <2>1. Delivered(r)' = Delivered(r) BY <1>v DEF Delivered
  <2>2. Delivered(r) \cup dropped'[r] \cup Samples(r)' = Delivered(r) \cup dropped[r] \cup Samples(r)
    <3>1. CASE m_samples[r] = <<>>
      <4>1. Samples(r) = {} /\ Samples(r)' = {} BY <1>x, <3>1 DEF Samples
      <4> QED BY <1>v, <4>1
    <3>2. CASE m_samples[r] # <<>>
      <4>1. Head(m_samples[r]) \in Samples(r) BY <1>w, <3>2 DEF Samples
      <4>2. Samples(r)' \subseteq Samples(r)
        <5> SUFFICES ASSUME NEW i \in 1..Len(m_samples'[r]) PROVE m_samples'[r][i] \in Samples(r)
          BY DEF Samples
        <5>1. m_samples'[r][i] = m_samples[r][i + 1] /\ i + 1 \in 1..Len(m_samples[r])
          BY <1>w, <3>2
        <5> QED BY <5>1 DEF Samples
      <4>3. Samples(r) \subseteq Samples(r)' \cup {Head(m_samples[r])}
        <5> SUFFICES ASSUME NEW i \in 1..Len(m_samples[r])
                     PROVE  m_samples[r][i] \in Samples(r)' \/ m_samples[r][i] = Head(m_samples[r])
          BY DEF Samples
        <5>1. i = 1 \/ (i - 1 \in 1..Len(m_samples'[r]) /\ m_samples'[r][i - 1] = m_samples[r][i])
          BY <1>w, <3>2
        <5>2. Head(m_samples[r]) = m_samples[r][1] BY <1>w, <3>2
        <5>3. \A k \in 1..Len(m_samples'[r]) : m_samples'[r][k] \in Samples(r)' BY DEF Samples
        <5> QED BY <5>1, <5>2, <5>3
      <4> QED BY <1>v, <4>1, <4>2, <4>3
    <3> QED BY <3>1, <3>2
  <2> QED BY <1>v, <1>t, <2>1, <2>2 DEF Keeping, Clearing
<1>f. Ending(r)'
  <2>1. EosUnderWay(r)' => EosUnderWay(r) BY <1>v, <1>s, TypesAt DEF EosUnderWay, SameMessages
  <2>2. Delivered(r)' = Delivered(r) BY <1>v DEF Delivered
  <2> QED BY <1>v, <1>t, <2>1, <2>2 DEF Ending
<1>g. Requests(r)' BY <1>v, <1>t, <1>s, RequestsKept
<1>h. Owing(r)' BY <1>v, <1>t, OwingKept
<1> QED BY <1>1, <1>2, <1>3, <1>4, <1>5, <1>a, <1>b, <1>c, <1>d, <1>e, <1>f, <1>g, <1>h DEF IInv

\* The answer of the pull.
LEMMA PullPostStep == ASSUME IInv, NEW r \in Sources, PullPost(r) PROVE IInv'
<1> USE Types
<1> DEFINE m == Msg("haveData", r, puller[r].req, Status(puller[r]))
<1>m. m \in Message /\ PostMessage(m)
  BY DEF PullPost, PullerAt, Answer, delegate, server, history, Message, MessageTypes, Statuses,
       Msg, ClientTypes, PullerState, Status
<1>p. backendQueue' \in Seq(Message) BY <1>m, PostedHere
<1> HIDE DEF m
<1>1. DelegateTypes' /\ ServerTypes' /\ SyncTypes' /\ Marked'
  BY DEF PullPost, PullerAt, Answer, delegate, server, history, DelegateTypes, ServerTypes,
       SyncTypes, Marked, FlushOngoing
<1>2. ClientTypes'
  <2>1. Idle \in PullerState BY Constants DEF PullerState, PullerPcs, Idle
  <2>2. puller' \in [Sources -> PullerState] BY <2>1 DEF PullPost, ClientTypes
  <2> QED BY <1>p, <2>2 DEF PullPost, ClientTypes
<1>3. ASSUME NEW s \in Sources, s # r
       PROVE  /\ Places(s)' /\ Queue(s)' /\ Pulling(s)' /\ Delivering(s)' /\ Keeping(s)' /\ Ending(s)'
              /\ Requests(s)' /\ Owing(s)'
  <2>1. SameDelegate(s) /\ SameClient(s) /\ SameServer(s) /\ SameHistory(s)
    BY <1>3 DEF PullPost, PullerAt, Answer, delegate, server, history, SameDelegate, SameClient,
         SameServer, SameHistory, DelegateTypes, ClientTypes, ServerTypes
  <2>2. Foreign(m, s) BY <1>3 DEF m, Msg, Foreign
  <2>3. SameMessages(s) BY <1>m, <2>2, PostedElsewhere
  <2> QED BY <2>1, <2>3, Elsewhere
<1>v. /\ puller[r].pc = "post" /\ puller'[r] = Idle /\ m_sourceId'[r] = m_sourceId[r]
      /\ m_samples'[r] = m_samples[r] /\ m_isEos'[r] = m_isEos[r]
      /\ m_isSinkFlushOngoing'[r] = m_isSinkFlushOngoing[r] /\ streaming'[r] = streaming[r]
      /\ control'[r] = control[r] /\ pullQueue'[r] = pullQueue[r] /\ request'[r] = request[r]
      /\ flushing'[r] = flushing[r] /\ endOfStream'[r] = endOfStream[r]
      /\ delivered'[r] = delivered[r] /\ accepted'[r] = accepted[r] /\ flushes'[r] = flushes[r]
      /\ floor'[r] = floor[r] /\ dropped'[r] = dropped[r] /\ m_attachedSources' = m_attachedSources
  BY DEF PullPost, PullerAt, Answer, delegate, server, history, DelegateTypes, ClientTypes,
       ServerTypes
<1>t. /\ Places(r) /\ Queue(r) /\ Pulling(r) /\ Delivering(r) /\ Keeping(r) /\ Ending(r)
      /\ Requests(r) /\ Owing(r)
  BY At
<1>q. /\ m.src = r /\ m.type = "haveData" /\ m.req = puller[r].req
      /\ m.status = "EOS" => puller[r].eos
  BY DEF m, Msg, Status
<1>x. puller[r].req # 0 /\ ~Among(backendQueue, Carries(r, puller[r].req)) /\ puller[r].req \in RequestIds
  BY <1>v, <1>t, TypesAt, Constants DEF Pulling, Requests, PullerState, RequestIds
<1>i. /\ puller'[r].pc = "idle" /\ puller'[r].req = 0 /\ puller'[r].frame = 0 /\ puller'[r].added = 0
      /\ puller'[r].eos = FALSE /\ puller'[r].held = 0
  BY <1>v DEF Idle
<1>n. /\ Once(backendQueue', Attaches(r))
      /\ Among(backendQueue', Attaches(r)) => Among(backendQueue, Attaches(r))
      /\ Among(backendQueue', Erases(r)) => Among(backendQueue, Erases(r))
      /\ \A n : /\ Among(backendQueue', Carries(r, n))
                        <=> Among(backendQueue, Carries(r, n)) \/ n = puller[r].req
                /\ Once(backendQueue, Carries(r, n)) => Once(backendQueue', Carries(r, n))
                /\ Among(backendQueue', TellsEos(r, n))
                        => Among(backendQueue, TellsEos(r, n)) \/ (n = puller[r].req /\ puller[r].eos)
  <2>1. Once(backendQueue, Attaches(r)) BY <1>t DEF Places
  <2>2. /\ Among(backendQueue', Attaches(r)) <=> Among(backendQueue, Attaches(r))
        /\ Once(backendQueue, Attaches(r)) => Once(backendQueue', Attaches(r))
        /\ Among(backendQueue', Erases(r)) <=> Among(backendQueue, Erases(r))
    BY <1>m, <1>q, PostedOwn
  <2>3. ASSUME NEW n
        PROVE  /\ Among(backendQueue', Carries(r, n))
                        <=> Among(backendQueue, Carries(r, n)) \/ n = puller[r].req
               /\ Once(backendQueue, Carries(r, n)) => Once(backendQueue', Carries(r, n))
               /\ Among(backendQueue', TellsEos(r, n))
                        => Among(backendQueue, TellsEos(r, n)) \/ (n = puller[r].req /\ puller[r].eos)
    BY <1>m, <1>q, <1>x, PostedOwn
  <2> QED BY <2>1, <2>2, <2>3
<1>a. Places(r)' BY <1>v, <1>t, <1>n, TypesAt DEF Places, Flushes, Cleared
<1>b. Queue(r)' BY <1>v, <1>t, QueueKept
<1>c. Pulling(r)' BY <1>v, <1>i, Constants DEF Pulling
<1>d. Delivering(r)' BY <1>v, <1>t, <1>i DEF Delivering
<1>e. Keeping(r)'
  <2>1. Delivered(r)' = Delivered(r) /\ Samples(r)' = Samples(r) BY <1>v, SetsKept
  <2> QED BY <1>v, <1>t, <1>i, <2>1 DEF Keeping, Clearing
<1>f. Ending(r)'
  <2>1. EosUnderWay(r)' => EosUnderWay(r) BY <1>v, <1>t, <1>i, <1>n DEF EosUnderWay
  <2>2. Delivered(r)' = Delivered(r) BY <1>v DEF Delivered
  <2> QED BY <1>v, <1>t, <2>1, <2>2 DEF Ending
<1>g. Requests(r)'
  <2>1. \A i \in 1..Len(pullQueue[r]) : pullQueue[r][i] # 0
    <3>1. pullQueue[r] \in Seq(RequestIds) BY TypesAt
    <3>2. \A i \in 1..Len(pullQueue[r]) : pullQueue[r][i] \in RequestIds BY <3>1
    <3> QED BY <3>2, Constants
  <2> QED BY <1>v, <1>t, <1>i, <1>n, <1>x, <2>1 DEF Requests
<1>h. Owing(r)' BY <1>v, <1>t, OwingKept
<1> QED BY <1>1, <1>2, <1>3, <1>a, <1>b, <1>c, <1>d, <1>e, <1>f, <1>g, <1>h DEF IInv

\* HaveDataMessage.
LEMMA HaveDataStep == ASSUME IInv, NEW r \in Sources, HaveData(r) PROVE IInv'
<1> USE Types
<1>m. /\ backendQueue # <<>> /\ Done
      /\ Head(backendQueue).src = r /\ Head(backendQueue).type = "haveData"
  BY DEF HaveData, Handles, delegate, history, Handles
<1>p. backendQueue' \in Seq(Message) /\ Head(backendQueue) \in Message BY <1>m, TakenHere
<1>1. DelegateTypes' /\ SyncTypes' /\ Marked'
  BY DEF HaveData, Handles, delegate, history, DelegateTypes, SyncTypes, Marked, FlushOngoing
<1>2. ClientTypes'
  BY <1>p DEF HaveData, Handles, delegate, history, ClientTypes, PullerState, PullerPcs
<1>3. ServerTypes'
  <2>1. request' = request \/ request' = [request EXCEPT ![r] = 0] BY DEF HaveData
  <2>4. 0 \in 0..(MaxFlushes + 2) BY Constants
  <2>2. request' \in [Sources -> 0..(MaxFlushes + 2)] BY <2>1, <2>4 DEF ServerTypes
  <2>3. endOfStream' \in [Sources -> BOOLEAN] BY DEF HaveData, ServerTypes
  <2> QED BY <2>2, <2>3 DEF HaveData, history, ServerTypes
<1>4. ASSUME NEW s \in Sources, s # r
       PROVE  /\ Places(s)' /\ Queue(s)' /\ Pulling(s)' /\ Delivering(s)' /\ Keeping(s)' /\ Ending(s)'
              /\ Requests(s)' /\ Owing(s)'
  <2>1. SameDelegate(s) /\ SameClient(s) /\ SameServer(s) /\ SameHistory(s)
    BY <1>4 DEF HaveData, Handles, delegate, history, SameDelegate, SameClient, SameServer,
         SameHistory, DelegateTypes, ClientTypes, ServerTypes
  <2>2. Foreign(Head(backendQueue), s) BY <1>m, <1>4 DEF Foreign
  <2>3. SameMessages(s) BY <1>m, <2>2, TakenElsewhere
  <2> QED BY <2>1, <2>3, Elsewhere
<1>v. /\ m_sourceId'[r] = m_sourceId[r] /\ m_samples'[r] = m_samples[r] /\ m_isEos'[r] = m_isEos[r]
      /\ m_isSinkFlushOngoing'[r] = m_isSinkFlushOngoing[r] /\ streaming'[r] = streaming[r]
      /\ control'[r] = control[r] /\ pullQueue'[r] = pullQueue[r] /\ puller'[r] = puller[r]
      /\ flushing'[r] = flushing[r] /\ delivered'[r] = delivered[r] /\ accepted'[r] = accepted[r]
      /\ flushes'[r] = flushes[r] /\ floor'[r] = floor[r] /\ dropped'[r] = dropped[r]
      /\ m_attachedSources' = m_attachedSources
  BY DEF HaveData, Handles, delegate, history, DelegateTypes, ClientTypes, ServerTypes
<1>t. /\ Places(r) /\ Queue(r) /\ Pulling(r) /\ Delivering(r) /\ Keeping(r) /\ Ending(r)
      /\ Requests(r) /\ Owing(r)
  BY At
<1> DEFINE m == Head(backendQueue)
<1>w. \/ /\ m.req = request[r] /\ request'[r] = 0
         /\ endOfStream'[r] <=> endOfStream[r] \/ m.status = "EOS"
      \/ /\ r \notin m_attachedSources \/ m.req # request[r]
         /\ request'[r] = request[r] /\ endOfStream'[r] = endOfStream[r]
  BY DEF HaveData, ServerTypes
<1>n. /\ Once(backendQueue', Attaches(r))
      /\ Among(backendQueue', Attaches(r)) => Among(backendQueue, Attaches(r))
      /\ Among(backendQueue', Erases(r)) => Among(backendQueue, Erases(r))
      /\ \A n : /\ Among(backendQueue', Carries(r, n)) => Among(backendQueue, Carries(r, n))
                /\ Among(backendQueue, Carries(r, n)) => Among(backendQueue', Carries(r, n)) \/ m.req = n
                /\ Once(backendQueue, Carries(r, n)) => Once(backendQueue', Carries(r, n))
                /\ Among(backendQueue', TellsEos(r, n)) => Among(backendQueue, TellsEos(r, n))
                /\ m.req = n /\ m.status = "EOS" => Among(backendQueue, TellsEos(r, n))
                /\ m.req = n => Among(backendQueue, Carries(r, n))
  <2>1. Once(backendQueue, Attaches(r)) BY <1>t DEF Places
  <2> QED BY <1>m, <2>1, TakenOwn
<1>x. m.req # 0 BY <1>n, <1>t DEF Requests
<1> HIDE DEF m
<1>a. Places(r)' BY <1>v, <1>t, <1>n, TypesAt DEF Places, Flushes, Cleared
<1>b. Queue(r)' BY <1>v, <1>t, QueueKept
<1>c. Pulling(r)' BY <1>v, <1>t, PullingKept
<1>d. Delivering(r)'
  BY <1>v, <1>t, <1>w DEF Delivering, Pulling
<1>e. Keeping(r)'
  <2>1. Delivered(r)' = Delivered(r) /\ Samples(r)' = Samples(r) BY <1>v, SetsKept
  <2>2. /\ puller[r].pc \in {"add", "pop"} => puller[r].req # 0
        /\ request'[r] = 0 \/ request'[r] = request[r]
    BY <1>t, <1>w DEF Pulling
  <2> QED BY <1>v, <1>t, <2>1, <2>2 DEF Keeping, Clearing
<1>f. Ending(r)'
  <2>1. EosUnderWay(r)' => EosUnderWay(r)
    BY <1>v, <1>t, <1>n, <1>w, <1>x DEF EosUnderWay, Pulling
  <2>2. Delivered(r)' = Delivered(r) BY <1>v DEF Delivered
  <2> QED BY <1>v, <1>t, <2>1, <2>2 DEF Ending
<1>g. Requests(r)' BY <1>v, <1>t, <1>n, <1>w DEF Requests
<1>h. Owing(r)' BY <1>v, <1>t, OwingKept
<1> QED BY <1>1, <1>2, <1>3, <1>4, <1>a, <1>b, <1>c, <1>d, <1>e, <1>f, <1>g, <1>h DEF IInv

\* removeSource() ends.
LEMMA EraseSourceStep == ASSUME IInv, NEW r \in Sources, EraseSource(r) PROVE IInv'
<1> USE Types
<1>m. /\ backendQueue # <<>> /\ Done
      /\ Head(backendQueue).src = r /\ Head(backendQueue).type = "erase"
  BY DEF EraseSource, Handles, ControlStep, delegate, server, history, Handles
<1>p. backendQueue' \in Seq(Message) /\ Head(backendQueue) \in Message BY <1>m, TakenHere
<1>1. ServerTypes'
  BY DEF EraseSource, Handles, ControlStep, delegate, server, history, ServerTypes
<1>2. DelegateTypes'
  BY DEF EraseSource, Handles, ControlStep, delegate, server, history, DelegateTypes, StreamingPcs,
       ControlPcs
<1>3. ClientTypes'
  BY <1>p DEF EraseSource, Handles, ControlStep, delegate, server, history, ClientTypes,
       PullerState, PullerPcs
<1>4. SyncTypes' /\ NoneMarked({}) /\ r \notin DOMAIN m_sourceStates'
  <2>1. SyncRemoveSource(r) BY DEF EraseSource
  <2> QED BY <2>1, EntryRemoved
<1>5. Marked'
  <2>1. \A s \in Sources : s # r /\ FlushOngoing(s) => FlushOngoing(s)'
    BY DEF EraseSource, ControlStep, FlushOngoing, ClientTypes, DelegateTypes
  <2> QED BY <1>4, <2>1 DEF Marked, NoneMarked
<1>6. ASSUME NEW s \in Sources, s # r
       PROVE  /\ Places(s)' /\ Queue(s)' /\ Pulling(s)' /\ Delivering(s)' /\ Keeping(s)' /\ Ending(s)'
              /\ Requests(s)' /\ Owing(s)'
  <2>1. SameDelegate(s) /\ SameClient(s) /\ SameServer(s) /\ SameHistory(s)
    BY <1>6 DEF EraseSource, Handles, ControlStep, delegate, server, history, SameDelegate,
         SameClient, SameServer, SameHistory, DelegateTypes, ClientTypes, ServerTypes
  <2>2. Foreign(Head(backendQueue), s) BY <1>m, <1>6 DEF Foreign
  <2>3. SameMessages(s) BY <1>m, <2>2, TakenElsewhere
  <2> QED BY <2>1, <2>3, Elsewhere
<1>v. /\ control[r] = "removing" /\ control'[r] = "removeClear"
      /\ m_attachedSources' = m_attachedSources \ {r} /\ m_sourceId'[r] = m_sourceId[r]
      /\ m_samples'[r] = m_samples[r] /\ m_isEos'[r] = m_isEos[r]
      /\ m_isSinkFlushOngoing'[r] = m_isSinkFlushOngoing[r] /\ streaming'[r] = streaming[r]
      /\ pullQueue'[r] = pullQueue[r] /\ puller'[r] = puller[r] /\ request'[r] = request[r]
      /\ flushing'[r] = flushing[r] /\ endOfStream'[r] = endOfStream[r]
      /\ delivered'[r] = delivered[r] /\ accepted'[r] = accepted[r] /\ flushes'[r] = flushes[r]
      /\ floor'[r] = floor[r] /\ dropped'[r] = dropped[r]
  BY DEF EraseSource, Handles, ControlStep, delegate, server, history, DelegateTypes, ClientTypes,
       ServerTypes
<1>t. /\ Places(r) /\ Queue(r) /\ Pulling(r) /\ Delivering(r) /\ Keeping(r) /\ Ending(r)
      /\ Requests(r) /\ Owing(r)
  BY At
<1>n. /\ Once(backendQueue', Attaches(r))
      /\ Among(backendQueue', Attaches(r)) => Among(backendQueue, Attaches(r))
      /\ Among(backendQueue', Erases(r)) => Among(backendQueue, Erases(r))
      /\ \A n : /\ Among(backendQueue', Carries(r, n)) <=> Among(backendQueue, Carries(r, n))
                /\ Once(backendQueue, Carries(r, n)) => Once(backendQueue', Carries(r, n))
                /\ Among(backendQueue', TellsEos(r, n)) => Among(backendQueue, TellsEos(r, n))
  <2>1. Once(backendQueue, Attaches(r)) BY <1>t DEF Places
  <2> QED BY <1>m, <2>1, TakenOwn
<1>w. request[r] = 0 BY <1>m, <1>t, TakenOwn DEF Requests
<1>a. Places(r)' BY <1>v, <1>t, <1>n, TypesAt DEF Places, Flushes, Cleared
<1>b. Queue(r)' BY <1>v, <1>t, QueueKept
<1>c. Pulling(r)' BY <1>v, <1>t, PullingKept
<1>d. Delivering(r)' BY <1>v, <1>t, DeliveringKept
<1>k. ~Clearing(r)' => ~Clearing(r) BY <1>v DEF Clearing
<1>e. Keeping(r)' BY <1>v, <1>t, <1>k, KeepingKept
<1>f. Ending(r)'
  <2>1. EosUnderWay(r)' => EosUnderWay(r) BY <1>v, <1>n DEF EosUnderWay
  <2>2. Delivered(r)' = Delivered(r) BY <1>v DEF Delivered
  <2> QED BY <1>v, <1>t, <2>1, <2>2 DEF Ending, Cleared
<1>g. Requests(r)' BY <1>v, <1>t, <1>n, <1>w DEF Requests
<1>h. Owing(r)' BY <1>v, <1>t, TypesAt DEF Owing, Flushes
<1> QED BY <1>1, <1>2, <1>3, <1>4, <1>5, <1>6, <1>a, <1>b, <1>c, <1>d, <1>e, <1>f, <1>g, <1>h DEF IInv

\* The function flush() runs in the event loop.
LEMMA FlushRunsStep == ASSUME IInv, NEW r \in Sources, Flush(r) PROVE IInv'
<1> USE Types
<1>m. /\ backendQueue # <<>> /\ Done
      /\ Head(backendQueue).src = r /\ Head(backendQueue).type = "flush"
  BY DEF Flush, Handles, ControlStep, ServerFlush, delegate, server, Handles
<1>p. backendQueue' \in Seq(Message) /\ Head(backendQueue) \in Message BY <1>m, TakenHere
<1>1. SyncTypes'
  BY DEF Flush, Handles, ControlStep, ServerFlush, delegate, server, SyncTypes
<1>2. DelegateTypes'
  BY DEF Flush, Handles, ControlStep, ServerFlush, delegate, server, DelegateTypes, StreamingPcs,
       ControlPcs
<1>3. ClientTypes'
  <2>1. m_isFlushing' = m_isFlushing \/ m_isFlushing' = [m_isFlushing EXCEPT ![r] = TRUE] BY DEF Flush
  <2> QED BY <1>p, <2>1 DEF Flush, ClientTypes
<1>4. ServerTypes'
  <2>1. 0 \in 0..(MaxFlushes + 2) /\ flushing[r] + 1 \in Nat /\ accepted[r] \in Nat
    BY Constants DEF ServerTypes
  <2>2. CASE ServerFlush(r) BY <2>1, <2>2 DEF Flush, ServerFlush, ServerTypes
  <2>3. CASE UNCHANGED <<server, floor, dropped>> BY <2>3 DEF Flush, server, ServerTypes
  <2> QED BY <2>2, <2>3 DEF Flush
<1>5. Marked'
  <2> SUFFICES ASSUME May \cap {"refuseFlush", "flushUnattached"} = {}, NEW i \in DOMAIN m_sourceStates,
                      m_sourceStates[i].flushState = "FLUSHING"
               PROVE  i \in Sources /\ FlushOngoing(i)'
    BY DEF Marked, Flush
  <2>1. i \in Sources /\ FlushOngoing(i) BY DEF Marked
  <2>2. Places(r) BY At
  <2>3. control[r] = "inLoop" BY DEF Flush, ControlStep
  <2>4. r \in m_attachedSources BY <2>2, <2>3, TypesAt DEF Places, Flushes
  <2>5. m_isFlushing' = [m_isFlushing EXCEPT ![r] = TRUE] BY <2>4 DEF Flush
  <2>6. CASE i = r BY <2>1, <2>5, <2>6 DEF FlushOngoing, ClientTypes
  <2>7. CASE i # r
    BY <2>1, <2>5, <2>7 DEF Flush, ControlStep, FlushOngoing, ClientTypes, DelegateTypes
  <2> QED BY <2>1, <2>6, <2>7
<1>6. ASSUME NEW s \in Sources, s # r
       PROVE  /\ Places(s)' /\ Queue(s)' /\ Pulling(s)' /\ Delivering(s)' /\ Keeping(s)' /\ Ending(s)'
              /\ Requests(s)' /\ Owing(s)'
  <2>1. SameDelegate(s) /\ SameClient(s)
    BY <1>6 DEF Flush, Handles, ControlStep, delegate, SameDelegate, SameClient, DelegateTypes,
         ClientTypes
  <2>4. SameServer(s) /\ SameHistory(s)
    BY <1>6 DEF Flush, ServerFlush, server, SameServer, SameHistory, ServerTypes
  <2>2. Foreign(Head(backendQueue), s) BY <1>m, <1>6 DEF Foreign
  <2>3. SameMessages(s) BY <1>m, <2>2, TakenElsewhere
  <2> QED BY <2>1, <2>3, <2>4, Elsewhere
<1>s. SameMessages(r)
  <2>1. Foreign(Head(backendQueue), r) BY <1>m DEF Foreign
  <2> QED BY <1>m, <2>1, TakenElsewhere
<1>v. /\ control[r] = "inLoop" /\ control'[r] = "stopEnd" /\ m_sourceId'[r] = m_sourceId[r]
      /\ m_samples'[r] = m_samples[r] /\ m_isEos'[r] = m_isEos[r]
      /\ m_isSinkFlushOngoing'[r] = m_isSinkFlushOngoing[r] /\ streaming'[r] = streaming[r]
      /\ pullQueue'[r] = pullQueue[r] /\ puller'[r] = puller[r] /\ accepted'[r] = accepted[r]
      /\ flushes'[r] = flushes[r] /\ m_attachedSources' = m_attachedSources
  BY DEF Flush, Handles, ControlStep, ServerFlush, delegate, server, DelegateTypes, ClientTypes,
       ServerTypes
<1>t. /\ Places(r) /\ Queue(r) /\ Pulling(r) /\ Delivering(r) /\ Keeping(r) /\ Ending(r)
      /\ Requests(r) /\ Owing(r)
  BY At
<1>w. \/ /\ request'[r] = 0 /\ endOfStream'[r] = FALSE /\ delivered'[r] = <<>>
         /\ flushing'[r] = flushing[r] + 1 /\ floor'[r] = accepted[r] /\ dropped'[r] = {}
      \/ /\ r \notin m_attachedSources \/ "refuseFlush" \in May
         /\ request'[r] = request[r] /\ endOfStream'[r] = endOfStream[r]
         /\ delivered'[r] = delivered[r] /\ flushing'[r] = flushing[r]
         /\ floor'[r] = floor[r] /\ dropped'[r] = dropped[r]
  BY DEF Flush, ServerFlush, server, ServerTypes
<1>x. m_samples[r] = <<>> /\ Len(m_samples[r]) = 0 BY <1>v, <1>t DEF Places, Queue, Cleared
<1>y. /\ puller[r].pc \in {"add", "pop"} => puller[r].req # 0
      /\ puller[r].eos => puller[r].req # 0
  BY <1>t DEF Pulling
<1>a. Places(r)' BY <1>v, <1>t, TypesAt, <1>s DEF Places, Flushes, Cleared, SameMessages
<1>b. Queue(r)' BY <1>v, <1>t, <1>w, <1>x, TypesAt DEF Queue
<1>c. Pulling(r)' BY <1>v, <1>t, PullingKept
<1>d. Delivering(r)'
  <2>1. CASE /\ request'[r] = 0 /\ delivered'[r] = <<>> /\ dropped'[r] = {}
    <3>1. \A j \in 1..Len(delivered'[r]) : FALSE BY <2>1
    <3>2. \A i \in 1..Len(m_samples'[r]) : FALSE BY <1>v, <1>x
    <3> QED BY <1>v, <1>y, <2>1, <3>1, <3>2 DEF Delivering
  <2>2. CASE /\ request'[r] = request[r] /\ delivered'[r] = delivered[r]
             /\ floor'[r] = floor[r] /\ dropped'[r] = dropped[r]
    BY <1>v, <1>t, <2>2, DeliveringKept
  <2> QED BY <1>w, <2>1, <2>2
<1>e. Keeping(r)'
  <2> SUFFICES ASSUME "refuseFlush" \notin May PROVE Keeping(r)' BY DEF Keeping
  <2>1. Samples(r)' = {}
    <3>1. \A i \in 1..Len(m_samples'[r]) : FALSE BY <1>v, <1>x
    <3> QED BY <3>1 DEF Samples
  <2>2. CASE /\ request'[r] = 0 /\ delivered'[r] = <<>> /\ dropped'[r] = {} /\ floor'[r] = accepted[r]
    <3>1. \A j \in 1..Len(delivered'[r]) : FALSE BY <2>2
    <3>2. Delivered(r)' = {} BY <3>1 DEF Delivered
    <3>3. (floor'[r] + 1)..accepted'[r] = {} BY <1>v, <2>2, TypesAt
    <3> QED BY <1>v, <1>y, <2>1, <2>2, <3>2, <3>3 DEF Keeping
  <2>3. CASE /\ r \notin m_attachedSources
             /\ request'[r] = request[r] /\ delivered'[r] = delivered[r]
             /\ floor'[r] = floor[r] /\ dropped'[r] = dropped[r]
    <3>1. streaming[r] \in {"caps", "attaching"} BY <1>v, <1>t, <2>3 DEF Places
    <3>2. accepted[r] = 0 BY <1>t, <3>1 DEF Queue
    <3>3. (floor[r] + 1)..accepted[r] = {} BY <3>2, TypesAt
    <3>4. dropped[r] = {} BY <1>t, <3>3 DEF Delivering
    <3>5. \A j \in 1..Len(delivered'[r]) : FALSE BY <1>t, <2>3, <3>3 DEF Delivering
    <3>6. Delivered(r)' = {} BY <3>5 DEF Delivered
    <3>7. request[r] = 0 BY <1>t, <2>3 DEF Requests
    <3> QED BY <1>v, <1>y, <2>1, <2>3, <3>3, <3>4, <3>6, <3>7 DEF Keeping
  <2> QED BY <1>w, <2>2, <2>3
<1>f. Ending(r)'
  <2> SUFFICES ASSUME May \cap {"refuseFlush", "overtakeEos"} = {} PROVE Ending(r)' BY DEF Ending
  <2>1. ~m_isEos[r] /\ streaming[r] # "eosEvent" BY <1>v, <1>t DEF Ending, Cleared
  <2>2. ~EosUnderWay(r)'
    <3>1. CASE request'[r] = 0 /\ endOfStream'[r] = FALSE BY <1>v, <1>y, <3>1 DEF EosUnderWay
    <3>2. CASE /\ r \notin m_attachedSources
               /\ request'[r] = request[r] /\ endOfStream'[r] = endOfStream[r]
      <4>1. streaming[r] \in {"caps", "attaching"} BY <1>v, <1>t, <3>2 DEF Places
      <4>2. ~EosUnderWay(r) BY <1>t, <4>1 DEF Ending
      <4> QED BY <1>v, <1>s, <3>2, <4>2, TypesAt DEF EosUnderWay, SameMessages
    <3> QED BY <1>w, <3>1, <3>2
  <2> QED BY <1>v, <2>1, <2>2 DEF Ending
<1>g. Requests(r)' BY <1>v, <1>t, <1>w, <1>s, RequestsKept
<1>h. Owing(r)' BY <1>v, <1>t, <1>w, TypesAt DEF Owing, Flushes
<1> QED BY <1>1, <1>2, <1>3, <1>4, <1>5, <1>6, <1>a, <1>b, <1>c, <1>d, <1>e, <1>f, <1>g, <1>h DEF IInv

\* removeSource() at the server.
LEMMA RemoveFromServerStep == ASSUME IInv, NEW r \in Sources, RemoveFromServer(r) PROVE IInv'
<1> USE Types
<1> DEFINE m == Msg("erase", r, 0, "none")
<1>m. /\ m \in Message /\ backendQueue # <<>> /\ Head(backendQueue).src = r
      /\ Head(backendQueue).type = "remove"
      /\ backendQueue' = <<m>> \o Tail(backendQueue)
  BY Constants DEF RemoveFromServer, Handles, Msg, Message, MessageTypes, Statuses, ClientTypes
<1>p. backendQueue' \in Seq(Message) /\ Head(backendQueue) \in Message BY <1>m, Replaced
<1> HIDE DEF m
<1>1. DelegateTypes' /\ SyncTypes' /\ Marked'
  BY DEF RemoveFromServer, delegate, history, DelegateTypes, SyncTypes, Marked, FlushOngoing
<1>2. ClientTypes'
  BY <1>p DEF RemoveFromServer, delegate, history, ClientTypes, PullerState, PullerPcs
<1>3. ServerTypes'
  <2>1. 0 \in 0..(MaxFlushes + 2) BY Constants
  <2> QED BY <2>1 DEF RemoveFromServer, history, ServerTypes
<1>4. ASSUME NEW s \in Sources, s # r
       PROVE  /\ Places(s)' /\ Queue(s)' /\ Pulling(s)' /\ Delivering(s)' /\ Keeping(s)' /\ Ending(s)'
              /\ Requests(s)' /\ Owing(s)'
  <2>1. SameDelegate(s) /\ SameClient(s) /\ SameServer(s) /\ SameHistory(s)
    BY <1>4 DEF RemoveFromServer, delegate, history, SameDelegate, SameClient, SameServer,
         SameHistory, DelegateTypes, ClientTypes, ServerTypes
  <2>2. m.src # s /\ Head(backendQueue).src # s BY <1>m, <1>4 DEF m, Msg
  <2>3. SameMessages(s) BY <1>m, <2>2, ReplacedElsewhere
  <2> QED BY <2>1, <2>3, Elsewhere
<1>v. /\ request'[r] = 0 /\ flushing'[r] = 0 /\ m_sourceId'[r] = m_sourceId[r]
      /\ m_samples'[r] = m_samples[r] /\ m_isEos'[r] = m_isEos[r]
      /\ m_isSinkFlushOngoing'[r] = m_isSinkFlushOngoing[r] /\ streaming'[r] = streaming[r]
      /\ control'[r] = control[r] /\ pullQueue'[r] = pullQueue[r] /\ puller'[r] = puller[r]
      /\ endOfStream'[r] = endOfStream[r] /\ delivered'[r] = delivered[r]
      /\ accepted'[r] = accepted[r] /\ flushes'[r] = flushes[r] /\ floor'[r] = floor[r]
      /\ dropped'[r] = dropped[r] /\ m_attachedSources' = m_attachedSources
  BY DEF RemoveFromServer, delegate, history, DelegateTypes, ClientTypes, ServerTypes
<1>t. /\ Places(r) /\ Queue(r) /\ Pulling(r) /\ Delivering(r) /\ Keeping(r) /\ Ending(r)
      /\ Requests(r) /\ Owing(r)
  BY At
<1>n. /\ Once(backendQueue', Attaches(r))
      /\ Among(backendQueue', Attaches(r)) => Among(backendQueue, Attaches(r))
      /\ \A n : /\ Among(backendQueue', Carries(r, n)) <=> Among(backendQueue, Carries(r, n))
                /\ Once(backendQueue, Carries(r, n)) => Once(backendQueue', Carries(r, n))
                /\ Among(backendQueue', TellsEos(r, n)) => Among(backendQueue, TellsEos(r, n))
  <2>1. Once(backendQueue, Attaches(r)) BY <1>t DEF Places
  <2> DEFINE h == Head(backendQueue)
  <2>2. m.type = "erase" /\ h.type = "remove" BY <1>m DEF m, Msg
  <2>3. \A S : m \notin S /\ h \notin S => /\ Among(backendQueue', S) <=> Among(backendQueue, S)
                                           /\ Once(backendQueue, S) => Once(backendQueue', S)
    BY <1>m, Replaced
  <2> HIDE DEF h
  <2>4. m \notin Attaches(r) /\ \A n : m \notin Carries(r, n) /\ m \notin TellsEos(r, n)
    BY <2>2 DEF Attaches, Carries, TellsEos
  <2>5. h \notin Attaches(r) /\ \A n : h \notin Carries(r, n) /\ h \notin TellsEos(r, n)
    BY <2>2 DEF Attaches, Carries, TellsEos
  <2> QED BY ONLY <2>1, <2>3, <2>4, <2>5
<1>y. /\ puller[r].pc \in {"add", "pop"} => puller[r].req # 0
      /\ puller[r].eos => puller[r].req # 0
  BY <1>t DEF Pulling
<1>a. Places(r)' BY <1>v, <1>t, <1>n, TypesAt DEF Places, Flushes, Cleared
<1>b. Queue(r)' BY <1>v, <1>t, QueueKept
<1>c. Pulling(r)' BY <1>v, <1>t, PullingKept
<1>d. Delivering(r)' BY <1>v, <1>t, <1>y DEF Delivering
<1>e. Keeping(r)'
  <2>1. Delivered(r)' = Delivered(r) /\ Samples(r)' = Samples(r) BY <1>v, SetsKept
  <2> QED BY <1>v, <1>t, <1>y, <2>1 DEF Keeping, Clearing
<1>f. Ending(r)'
  <2>1. EosUnderWay(r)' => EosUnderWay(r) BY <1>v, <1>n, <1>y DEF EosUnderWay
  <2>2. Delivered(r)' = Delivered(r) BY <1>v DEF Delivered
  <2> QED BY <1>v, <1>t, <2>1, <2>2 DEF Ending
<1>g. Requests(r)' BY <1>v, <1>t, <1>n DEF Requests
<1>h. Owing(r)' BY <1>v, <1>t, TypesAt DEF Owing, Flushes
<1> QED BY <1>1, <1>2, <1>3, <1>4, <1>a, <1>b, <1>c, <1>d, <1>e, <1>f, <1>g, <1>h DEF IInv

\* The server asks for data.
LEMMA SendNeedDataStep == ASSUME IInv, NEW r \in Sources, SendNeedData(r) PROVE IInv'
<1> USE Types
<1> DEFINE new == CHOOSE n \in FreeIds(r) : TRUE
           m == Msg("needData", r, new, "none")
<1>i. new \in FreeIds(r) /\ new \in RequestIds /\ new \in 0..(MaxFlushes + 2)
  BY Constants DEF SendNeedData, FreeIds
<1>m. m \in Message /\ PostMessage(m)
  BY <1>i DEF SendNeedData, delegate, history, Message, MessageTypes, Statuses, Msg
<1>p. backendQueue' \in Seq(Message) BY <1>m, PostedHere
<1> HIDE DEF m, new
<1>1. DelegateTypes' /\ SyncTypes' /\ Marked'
  BY DEF SendNeedData, delegate, history, DelegateTypes, SyncTypes, Marked, FlushOngoing
<1>2. ClientTypes'
  BY <1>p DEF SendNeedData, delegate, history, ClientTypes, PullerState, PullerPcs
<1>3. ServerTypes'
  <2>1. new \in 0..(MaxFlushes + 2) BY <1>i, Constants
  <2>2. request' = [request EXCEPT ![r] = new] BY DEF SendNeedData, new
  <2>3. request' \in [Sources -> 0..(MaxFlushes + 2)] BY <2>1, <2>2 DEF ServerTypes
  <2> QED BY <2>3 DEF SendNeedData, history, ServerTypes
<1>4. ASSUME NEW s \in Sources, s # r
       PROVE  /\ Places(s)' /\ Queue(s)' /\ Pulling(s)' /\ Delivering(s)' /\ Keeping(s)' /\ Ending(s)'
              /\ Requests(s)' /\ Owing(s)'
  <2>1. SameDelegate(s) /\ SameClient(s) /\ SameServer(s) /\ SameHistory(s)
    BY <1>4 DEF SendNeedData, delegate, history, SameDelegate, SameClient, SameServer, SameHistory,
         DelegateTypes, ClientTypes, ServerTypes
  <2>2. Foreign(m, s) BY <1>4 DEF m, Msg, Foreign
  <2>3. SameMessages(s) BY <1>m, <2>2, PostedElsewhere
  <2> QED BY <2>1, <2>3, Elsewhere
<1>v. /\ request[r] = 0 /\ request'[r] = new /\ r \in m_attachedSources
      /\ m_sourceId'[r] = m_sourceId[r] /\ m_samples'[r] = m_samples[r] /\ m_isEos'[r] = m_isEos[r]
      /\ m_isSinkFlushOngoing'[r] = m_isSinkFlushOngoing[r] /\ streaming'[r] = streaming[r]
      /\ control'[r] = control[r] /\ pullQueue'[r] = pullQueue[r] /\ puller'[r] = puller[r]
      /\ flushing'[r] = flushing[r] /\ endOfStream'[r] = endOfStream[r]
      /\ delivered'[r] = delivered[r] /\ accepted'[r] = accepted[r] /\ flushes'[r] = flushes[r]
      /\ floor'[r] = floor[r] /\ dropped'[r] = dropped[r] /\ m_attachedSources' = m_attachedSources
  BY DEF SendNeedData, new, delegate, history, ServerTypes
<1>t. /\ Places(r) /\ Queue(r) /\ Pulling(r) /\ Delivering(r) /\ Keeping(r) /\ Ending(r)
      /\ Requests(r) /\ Owing(r)
  BY At
<1>q. m.src = r /\ m.type = "needData" /\ m.req = new BY DEF m, Msg
<1>x. /\ ~Among(backendQueue, Carries(r, new)) /\ ~Among(backendQueue, TellsEos(r, new))
      /\ puller[r].req # new /\ \A i \in 1..Len(pullQueue[r]) : pullQueue[r][i] # new
      /\ ~Among(backendQueue, Erases(r))
  <2>1. new \notin InFlight(r) BY <1>i DEF FreeIds
  <2>2. puller[r].req # new /\ \A i \in 1..Len(pullQueue[r]) : pullQueue[r][i] # new
    BY <2>1 DEF InFlight
  <2>3. ASSUME NEW i \in 1..Len(backendQueue), backendQueue[i].src = r,
               backendQueue[i].type \in {"needData", "haveData"}
        PROVE  backendQueue[i].req # new
    BY <2>1, <2>3 DEF InFlight, Queued
  <2>4. ~Among(backendQueue, Carries(r, new)) /\ ~Among(backendQueue, TellsEos(r, new))
    BY <2>3 DEF Among, Carries, TellsEos
  <2>5. ASSUME NEW i \in 1..Len(backendQueue), backendQueue[i] \in Erases(r) PROVE FALSE
    <3>1. backendQueue[i] = Msg("erase", r, 0, "none") BY <2>5 DEF Erases, Message, Msg
    <3>2. Msg("erase", r, 0, "none") \in Queued BY <3>1 DEF Queued
    <3> QED BY <3>2 DEF SendNeedData
  <2> QED BY <2>2, <2>4, <2>5 DEF Among
<1>n. /\ Once(backendQueue', Attaches(r))
      /\ Among(backendQueue', Attaches(r)) => Among(backendQueue, Attaches(r))
      /\ ~Among(backendQueue', Erases(r))
      /\ \A n : /\ Among(backendQueue', Carries(r, n)) <=> Among(backendQueue, Carries(r, n)) \/ n = new
                /\ Once(backendQueue, Carries(r, n)) => Once(backendQueue', Carries(r, n))
                /\ Among(backendQueue', TellsEos(r, n)) => Among(backendQueue, TellsEos(r, n))
  <2>1. Once(backendQueue, Attaches(r)) BY <1>t DEF Places
  <2> QED BY <1>m, <1>q, <1>x, <2>1, PostedOwn
<1>0. new # 0 BY <1>i, Constants
<1>a. Places(r)' BY <1>v, <1>t, <1>n, TypesAt DEF Places, Flushes, Cleared
<1>b. Queue(r)' BY <1>v, <1>t, QueueKept
<1>c. Pulling(r)' BY <1>v, <1>t, PullingKept
<1>d. Delivering(r)' BY <1>v, <1>t, <1>x DEF Delivering
<1>e. Keeping(r)'
  <2>1. Delivered(r)' = Delivered(r) /\ Samples(r)' = Samples(r) BY <1>v, SetsKept
  <2> QED BY <1>v, <1>t, <1>x, <2>1 DEF Keeping, Clearing
<1>f. Ending(r)'
  <2>1. EosUnderWay(r)' => EosUnderWay(r) BY <1>v, <1>n, <1>x DEF EosUnderWay
  <2>2. Delivered(r)' = Delivered(r) BY <1>v DEF Delivered
  <2> QED BY <1>v, <1>t, <2>1, <2>2 DEF Ending
<1>g. Requests(r)'
  <2>1. /\ request'[r] = new /\ puller'[r] = puller[r] /\ pullQueue'[r] = pullQueue[r]
        /\ r \in m_attachedSources' /\ ~Among(backendQueue', Erases(r))
        /\ Among(backendQueue', Carries(r, new))
    BY <1>v, <1>n
  <2>2. ~Among(backendQueue', Carries(r, 0)) BY <1>t, <1>n, <1>0 DEF Requests
  <2>3. \A n \in RequestIds : Once(backendQueue', Carries(r, n)) BY <1>t, <1>n DEF Requests
  <2>4. /\ \A i, j \in 1..Len(pullQueue[r]) : pullQueue[r][i] = pullQueue[r][j] => i = j
        /\ \A i \in 1..Len(pullQueue[r]) : /\ pullQueue[r][i] # puller[r].req
                                           /\ ~Among(backendQueue', Carries(r, pullQueue[r][i]))
    BY <1>t, <1>n, <1>x DEF Requests
  <2>5. puller[r].req # 0 => ~Among(backendQueue', Carries(r, puller[r].req))
    BY <1>t, <1>n, <1>x DEF Requests
  <2> QED BY ONLY <2>1, <2>2, <2>3, <2>4, <2>5 DEF Requests
<1>h. Owing(r)' BY <1>v, <1>t, OwingKept
<1> QED BY <1>1, <1>2, <1>3, <1>4, <1>a, <1>b, <1>c, <1>d, <1>e, <1>f, <1>g, <1>h DEF IInv

\* NeedDataMessage.
LEMMA NeedDataStep == ASSUME IInv, NEW r \in Sources, NeedData(r) PROVE IInv'
<1> USE Types
<1> DEFINE m == Msg("haveData", r, Head(backendQueue).req, "ERROR")
<1>m. /\ m \in Message /\ backendQueue # <<>> /\ Head(backendQueue).src = r
      /\ Head(backendQueue).type = "needData"
      /\ (backendQueue' = Tail(backendQueue) \/ backendQueue' = Append(Tail(backendQueue), m))
  <2>1. backendQueue \in Seq(Message) /\ backendQueue # <<>> BY DEF ClientTypes, NeedData, Handles
  <2>2. Head(backendQueue) \in Message BY <2>1
  <2>3. Head(backendQueue).req \in 0..(MaxFlushes + 2) BY <2>2 DEF Message
  <2>4. m \in Message BY <2>3 DEF Message, MessageTypes, Statuses, Msg
  <2> QED BY <2>1, <2>4 DEF NeedData, Handles, Done
<1>p. backendQueue' \in Seq(Message) /\ Head(backendQueue) \in Message
  <2>1. CASE backendQueue' = Tail(backendQueue) BY <1>m, <2>1, TakenHere DEF Done
  <2>2. CASE backendQueue' = Append(Tail(backendQueue), m) BY <1>m, <2>2, Replaced
  <2> QED BY <1>m, <2>1, <2>2
<1>i. /\ Head(backendQueue).req \in RequestIds
      /\ Among(backendQueue, Carries(r, Head(backendQueue).req))
  <2>1. Among(backendQueue, Carries(r, Head(backendQueue).req))
    <3>1. Head(backendQueue) \in Carries(r, Head(backendQueue).req) BY <1>m, <1>p DEF Carries
    <3>2. backendQueue \in Seq(Message) /\ backendQueue # <<>> BY <1>m DEF ClientTypes
    <3> QED BY <3>1, <3>2, Taken
  <2>2. ~Among(backendQueue, Carries(r, 0)) BY At DEF Requests
  <2>3. Head(backendQueue).req \in 0..(MaxFlushes + 2) BY <1>p DEF Message
  <2>4. Head(backendQueue).req # 0 BY <2>1, <2>2
  <2> QED BY <2>1, <2>3, <2>4, Constants DEF RequestIds
<1> HIDE DEF m
<1>1. DelegateTypes' /\ ServerTypes' /\ SyncTypes' /\ Marked'
  BY DEF NeedData, delegate, server, history, DelegateTypes, ServerTypes, SyncTypes, Marked,
       FlushOngoing
<1>2. ClientTypes'
  <2>1. Head(backendQueue).req \in RequestIds BY <1>i
  <2>2. Append(pullQueue[r], Head(backendQueue).req) \in Seq(RequestIds)
    <3>1. pullQueue[r] \in Seq(RequestIds) BY DEF ClientTypes
    <3> QED BY <2>1, <3>1
  <2>3. pullQueue' = pullQueue \/ pullQueue' = [pullQueue EXCEPT ![r] = Append(@, Head(backendQueue).req)]
    BY DEF NeedData
  <2>4. pullQueue' \in [Sources -> Seq(RequestIds)] BY <2>2, <2>3 DEF ClientTypes
  <2> QED BY <1>p, <2>4 DEF NeedData, ClientTypes
<1>3. ASSUME NEW s \in Sources, s # r
       PROVE  /\ Places(s)' /\ Queue(s)' /\ Pulling(s)' /\ Delivering(s)' /\ Keeping(s)' /\ Ending(s)'
              /\ Requests(s)' /\ Owing(s)'
  <2>1. SameDelegate(s) /\ SameClient(s) /\ SameServer(s) /\ SameHistory(s)
    BY <1>3 DEF NeedData, delegate, server, history, SameDelegate, SameClient, SameServer,
         SameHistory, DelegateTypes, ClientTypes, ServerTypes
  <2>2. m.src # s /\ Head(backendQueue).src # s BY <1>m, <1>3 DEF m, Msg
  <2>3. SameMessages(s)
    <3>1. CASE backendQueue' = Tail(backendQueue)
      BY <1>m, <2>2, <3>1, TakenElsewhere DEF Done, Foreign
    <3>2. CASE backendQueue' = Append(Tail(backendQueue), m) BY <1>m, <2>2, <3>2, ReplacedElsewhere
    <3> QED BY <1>m, <3>1, <3>2
  <2> QED BY <2>1, <2>3, Elsewhere
<1>v. /\ m_sourceId'[r] = m_sourceId[r] /\ m_samples'[r] = m_samples[r] /\ m_isEos'[r] = m_isEos[r]
      /\ m_isSinkFlushOngoing'[r] = m_isSinkFlushOngoing[r] /\ streaming'[r] = streaming[r]
      /\ control'[r] = control[r] /\ puller'[r] = puller[r] /\ request'[r] = request[r]
      /\ flushing'[r] = flushing[r] /\ endOfStream'[r] = endOfStream[r]
      /\ delivered'[r] = delivered[r] /\ accepted'[r] = accepted[r] /\ flushes'[r] = flushes[r]
      /\ floor'[r] = floor[r] /\ dropped'[r] = dropped[r] /\ m_attachedSources' = m_attachedSources
  BY DEF NeedData, delegate, server, history, DelegateTypes, ClientTypes, ServerTypes
<1>t. /\ Places(r) /\ Queue(r) /\ Pulling(r) /\ Delivering(r) /\ Keeping(r) /\ Ending(r)
      /\ Requests(r) /\ Owing(r)
  BY At
<1> DEFINE k == Head(backendQueue).req
<1>w. \/ /\ r \in m_attachedSources /\ Done /\ pullQueue'[r] = Append(pullQueue[r], k)
      \/ /\ r \notin m_attachedSources /\ pullQueue'[r] = pullQueue[r]
         /\ backendQueue' = Append(Tail(backendQueue), m)
  BY DEF NeedData, m, ClientTypes
<1>x. k \in RequestIds /\ Among(backendQueue, Carries(r, k)) BY <1>i
<1>q. m.src = r /\ m.type = "haveData" /\ m.req = k /\ m.status = "ERROR" BY DEF m, Msg
<1> HIDE DEF k
<1>n. /\ Once(backendQueue', Attaches(r))
      /\ Among(backendQueue', Attaches(r)) => Among(backendQueue, Attaches(r))
      /\ Among(backendQueue', Erases(r)) => Among(backendQueue, Erases(r))
      /\ \A n : /\ Among(backendQueue', Carries(r, n)) => Among(backendQueue, Carries(r, n))
                /\ Once(backendQueue, Carries(r, n)) => Once(backendQueue', Carries(r, n))
                /\ Among(backendQueue', TellsEos(r, n)) => Among(backendQueue, TellsEos(r, n))
                /\ n # k /\ Among(backendQueue, Carries(r, n)) => Among(backendQueue', Carries(r, n))
                /\ Done /\ n = k /\ Once(backendQueue, Carries(r, n)) => ~Among(backendQueue', Carries(r, n))
  <2>1. Once(backendQueue, Attaches(r)) BY <1>t DEF Places
  <2>2. CASE Done BY <1>m, <2>1, <2>2, TakenOwn DEF k
  <2>3. CASE ~Done /\ backendQueue' = Append(Tail(backendQueue), m)
    <3> DEFINE h == Head(backendQueue)
    <3>1. h.src = r /\ h.type = "needData" /\ h.req = k /\ h \in Message BY <1>m, <1>p DEF k
    <3>2. \A S : /\ m \notin S /\ Among(backendQueue', S) => Among(backendQueue, S)
                 /\ h \notin S /\ Among(backendQueue, S) => Among(backendQueue', S)
                 /\ Once(backendQueue, S) /\ (m \notin S \/ h \in S) => Once(backendQueue', S)
      BY <1>m, <2>3, Replaced
    <3> HIDE DEF h
    <3>3. m \notin Attaches(r) /\ m \notin Erases(r) /\ \A n : m \notin TellsEos(r, n)
      BY <1>q DEF Attaches, Erases, TellsEos
    <3>4. \A n : /\ m \in Carries(r, n) => n = k
                 /\ h \in Carries(r, n) <=> n = k
      BY <1>q, <3>1 DEF Carries
    <3> QED BY ONLY <1>x, <2>1, <2>3, <3>2, <3>3, <3>4
  <2> QED BY <1>w, <2>2, <2>3
<1>a. Places(r)' BY <1>v, <1>t, <1>n, TypesAt DEF Places, Flushes, Cleared
<1>b. Queue(r)' BY <1>v, <1>t, QueueKept
<1>c. Pulling(r)' BY <1>v, <1>t, PullingKept
<1>d. Delivering(r)' BY <1>v, <1>t, DeliveringKept
<1>k. ~Clearing(r)' => ~Clearing(r) BY <1>v DEF Clearing
<1>e. Keeping(r)' BY <1>v, <1>t, <1>k, KeepingKept
<1>f. Ending(r)'
  <2>1. EosUnderWay(r)' => EosUnderWay(r) BY <1>v, <1>n DEF EosUnderWay
  <2>2. Delivered(r)' = Delivered(r) BY <1>v DEF Delivered
  <2> QED BY <1>v, <1>t, <2>1, <2>2 DEF Ending
<1>g. Requests(r)'
  <2>1. /\ request[r] # 0 => r \in m_attachedSources' /\ ~Among(backendQueue', Erases(r))
        /\ ~Among(backendQueue', Carries(r, 0))
        /\ \A n \in RequestIds : Once(backendQueue', Carries(r, n))
        /\ puller[r].req # 0 => ~Among(backendQueue', Carries(r, puller[r].req))
        /\ k # puller[r].req
    BY <1>v, <1>t, <1>n, <1>x, Constants DEF Requests
  <2>2. /\ \A i, j \in 1..Len(pullQueue[r]) : pullQueue[r][i] = pullQueue[r][j] => i = j
        /\ \A i \in 1..Len(pullQueue[r]) : /\ pullQueue[r][i] # puller[r].req /\ pullQueue[r][i] # k
                                           /\ ~Among(backendQueue', Carries(r, pullQueue[r][i]))
        /\ request[r] # 0 => \/ Among(backendQueue, Carries(r, request[r]))
                             \/ \E i \in 1..Len(pullQueue[r]) : pullQueue[r][i] = request[r]
                             \/ puller[r].req = request[r]
    BY <1>t, <1>n, <1>x DEF Requests
  <2>3. request'[r] = request[r] /\ puller'[r] = puller[r] BY <1>v
  <2>4. CASE r \notin m_attachedSources /\ pullQueue'[r] = pullQueue[r]
    <3>1. request[r] = 0 BY <1>t, <2>4 DEF Requests
    <3> QED BY ONLY <2>1, <2>2, <2>3, <2>4, <3>1 DEF Requests
  <2>5. CASE r \in m_attachedSources /\ Done /\ pullQueue'[r] = Append(pullQueue[r], k)
    <3> DEFINE t == Append(pullQueue[r], k)
    <3>1. PICK L \in Nat : /\ L = Len(pullQueue[r]) /\ Len(t) = L + 1 /\ t[L + 1] = k
                           /\ \A i \in 1..L : t[i] = pullQueue[r][i] /\ i \in 1..(L + 1)
                           /\ L + 1 \in 1..(L + 1)
                           /\ \A i \in 1..(L + 1) : i \in 1..L \/ i = L + 1
      <4>1. pullQueue[r] \in Seq(RequestIds) /\ k \in RequestIds BY <1>x, TypesAt
      <4>2. /\ Len(t) = Len(pullQueue[r]) + 1 /\ Len(pullQueue[r]) \in Nat
            /\ t[Len(pullQueue[r]) + 1] = k
            /\ \A i \in 1..Len(pullQueue[r]) : t[i] = pullQueue[r][i]
            /\ \A i \in 1..(Len(pullQueue[r]) + 1) : i \in 1..Len(pullQueue[r]) \/ i = Len(pullQueue[r]) + 1
        BY <4>1, RequestAdded
      <4>3. \A l \in Nat : (\A i \in 1..l : i \in 1..(l + 1)) /\ l + 1 \in 1..(l + 1) OBVIOUS
      <4> QED BY <4>2, <4>3
    <3>2. pullQueue'[r] = t BY <2>5
    <3> HIDE DEF t
    <3>3. ~Among(backendQueue', Carries(r, k)) BY <1>n, <1>t, <1>x, <2>5 DEF Requests
    <3>4. \A i, j \in 1..Len(t) : t[i] = t[j] => i = j BY <2>2, <3>1
    <3>5. \A i \in 1..Len(t) : t[i] # puller[r].req /\ ~Among(backendQueue', Carries(r, t[i]))
      BY <2>1, <2>2, <3>1, <3>3
    <3>6. request[r] # 0 => \/ Among(backendQueue', Carries(r, request[r]))
                            \/ \E i \in 1..Len(t) : t[i] = request[r]
                            \/ puller[r].req = request[r]
      BY <1>n, <2>2, <3>1
    <3> QED BY ONLY <2>1, <2>3, <3>2, <3>4, <3>5, <3>6 DEF Requests
  <2> QED BY <1>w, <2>4, <2>5
<1>h. Owing(r)' BY <1>v, <1>t, OwingKept
<1> QED BY <1>1, <1>2, <1>3, <1>a, <1>b, <1>c, <1>d, <1>e, <1>f, <1>g, <1>h DEF IInv

\* A step that changes nothing.
LEMMA StutterStep == ASSUME IInv, UNCHANGED vars PROVE IInv'
<1> USE Types DEF vars, delegate, client, server, history
<1>1. DelegateTypes' /\ ClientTypes' /\ ServerTypes' BY DEF DelegateTypes, ClientTypes, ServerTypes
<1>2. SyncTypes' /\ Marked' BY DEF SyncTypes, Marked, FlushOngoing
<1>3. ASSUME NEW s \in Sources
      PROVE  /\ Places(s)' /\ Queue(s)' /\ Pulling(s)' /\ Delivering(s)' /\ Keeping(s)' /\ Ending(s)'
             /\ Requests(s)' /\ Owing(s)'
  <2>1. SameDelegate(s) /\ SameClient(s) /\ SameServer(s) /\ SameHistory(s)
    BY DEF SameDelegate, SameClient, SameServer, SameHistory
  <2>2. SameMessages(s) BY NoMessage
  <2> QED BY <2>1, <2>2, Elsewhere
<1> QED BY <1>1, <1>2, <1>3 DEF IInv

LEMMA NextIInv == IInv /\ [Next]_vars => IInv'
<1> SUFFICES ASSUME IInv, [Next]_vars PROVE IInv' OBVIOUS
<1>1. ASSUME NEW r \in Sources, CapsEvent(r) \/ EnterSink(r) \/ StreamingStep(r) PROVE IInv'
  BY <1>1, CapsEventStep, EnterSinkStep, SetSegmentStep, HandleBufferStep, WaitForSpaceStep,
     EosEventStep DEF StreamingStep
<1>2. ASSUME NEW r \in Sources, FlushStart(r) \/ FlushStep(r) \/ RemoveSource(r) PROVE IInv'
  BY <1>2, FlushStartStep, FlushStartWaitedStep, StartFlushingStep, FlushServerStep, FlushNotifyStep,
     FlushCallStep, StopFlushingStep, RemoveClearStep, RemoveSourceStep DEF FlushStep
<1>3. ASSUME NEW r \in Sources, EventLoopStep(r) PROVE IInv'
  BY <1>3, AttachSourceStep, NeedDataStep, HaveDataStep, FlushRunsStep, HandleSourceFlushedStep,
     RemoveFromServerStep, EraseSourceStep DEF EventLoopStep
<1>4. ASSUME NEW r \in Sources, PullBuffer(r) PROVE IInv'
  BY <1>4, PullStartStep, PullNextStep, PullFrontStep, PullEosStep, AddSegmentStep, PopSampleStep,
     PullFinishStep, PullPostStep DEF PullBuffer
<1>5. ASSUME NEW r \in Sources, SendNeedData(r) \/ NotifySourceFlushed(r) PROVE IInv'
  BY <1>5, SendNeedDataStep, NotifySourceFlushedStep
<1>6. CASE UNCHANGED vars BY <1>6, StutterStep
<1> QED BY <1>1, <1>2, <1>3, <1>4, <1>5, <1>6 DEF Next

LEMMA Invariance == Spec => []IInv
BY InitIInv, NextIInv, PTL DEF Spec

-----------------------------------------------------------------------------
(***************************************************************************)
(* The theorems.                                                           *)
(***************************************************************************)
\* The types, for any number of sources and whatever their surroundings do:
\* handleBuffer() never leaves more than kMaxInternalBuffersQueueSize samples
\* in the queue although it does not look at the size again after its wait,
\* and PullBufferMessage never adds more frames than were asked for.
THEOREM FlowTypeCorrect == Spec => []TypeOK
<1>1. IInv => TypeOK
  <2> SUFFICES ASSUME IInv PROVE TypeOK OBVIOUS
  <2> USE Types
  <2>1. \A i \in DOMAIN m_sourceStates :
            i \in Sources \cup {UnknownId} /\ m_sourceStates[i] \in SourceState
    BY DEF SyncTypes
  <2>2. /\ m_sourceId \in [Sources -> Sources \cup {UnknownId}]
        /\ streaming \in [Sources -> StreamingPcs] /\ control \in [Sources -> ControlPcs]
        /\ m_attachedSources \subseteq Sources
    BY DEF DelegateTypes, ClientTypes
  <2>3. \A f \in {m_isEos, m_segmentSet, m_isSinkFlushOngoing, m_isServerFlushOngoing, m_isFlushing,
                  endOfStream} : f \in [Sources -> BOOLEAN]
    BY DEF DelegateTypes, ClientTypes, ServerTypes
  <2>4. ASSUME NEW s \in Sources
        PROVE  /\ Samples(s) \subseteq 1..MaxBuffers /\ Len(m_samples[s]) <= MaxSamples
               /\ puller[s].pc \in PullerPcs /\ puller[s].added <= FrameCount
               /\ puller[s].req \in 0..(MaxFlushes + 2) /\ puller[s].held \in 0..MaxBuffers
               /\ flushing[s] \in 0..MaxFlushes /\ request[s] \in 0..(MaxFlushes + 2)
    <3>1. /\ Len(m_samples[s]) <= MaxSamples /\ accepted[s] <= MaxBuffers
          /\ \A i \in 1..Len(m_samples[s]) : m_samples[s][i] \in (floor[s] + 1)..accepted[s]
      BY At DEF Queue
    <3>2. (floor[s] + 1)..accepted[s] \subseteq 1..MaxBuffers BY <3>1, TypesAt, Constants
    <3>3. Samples(s) \subseteq 1..MaxBuffers BY <3>1, <3>2 DEF Samples
    <3>4. puller[s].added <= FrameCount
      <4>1. /\ puller[s].frame <= FrameCount
            /\ puller[s].pc \in {"front", "add", "pop"} => puller[s].frame < FrameCount
            /\ puller[s].added <= (IF puller[s].pc = "pop" THEN puller[s].frame + 1 ELSE puller[s].frame)
        BY At DEF Pulling
      <4>2. puller[s].frame \in Nat /\ puller[s].added \in Nat BY TypesAt DEF PullerState
      <4> QED BY <4>1, <4>2, Constants
    <3>5. flushing[s] \in 0..MaxFlushes BY At, TypesAt, Constants DEF Owing
    <3>6. /\ puller[s].pc \in PullerPcs /\ puller[s].req \in 0..(MaxFlushes + 2)
          /\ puller[s].held \in 0..MaxBuffers
      BY At, TypesAt DEF Pulling, PullerState
    <3> QED BY <3>1, <3>3, <3>4, <3>5, <3>6, TypesAt
  <2> QED BY <2>1, <2>2, <2>3, <2>4 DEF TypeOK
<1> QED BY <1>1, Invariance, PTL

\* What PullBufferMessage brings the server after a flush comes in order,
\* none of it twice, and all of it was queued by handleBuffer() after that
\* flush, for pulls of any length and flushes that overtake them anywhere,
\* and even when the server refuses a flush.
THEOREM DeliversInOrder == Spec => []DeliveredInOrder
<1>1. IInv => DeliveredInOrder
  <2> SUFFICES ASSUME IInv, NEW s \in Sources
               PROVE  /\ \A i, j \in 1..Len(delivered[s]) : i < j => delivered[s][i] < delivered[s][j]
                      /\ Delivered(s) \subseteq (floor[s] + 1)..accepted[s]
    BY DEF DeliveredInOrder
  <2> QED BY At DEF Delivering, Delivered
<1> QED BY <1>1, Invariance, PTL

\* Unless the server refuses a flush, whatever handleBuffer() accepted since
\* the server's last flush was delivered, waits in m_samples or was taken
\* unsent by popSample().
THEOREM KeepsEverySample ==
    ASSUME "refuseFlush" \notin May PROVE Spec => []NothingSkipped
<1>1. IInv => NothingSkipped BY At DEF Keeping, NothingSkipped
<1> QED BY <1>1, Invariance, PTL

\* Unless the server refuses a flush, popSample() takes the sample that
\* addSegment() sent, as long as the server waits on the request of the pull:
\* the queue is unlocked between the two calls, and only a flush may come in
\* between and change its front.
THEOREM PopsTheSentSample ==
    ASSUME "refuseFlush" \notin May PROVE Spec => PopsWhatItSent
<1>1. ASSUME IInv, NEW s \in Sources, PopSample(s), puller[s].req = request[s], ~Clearing(s)
      PROVE  m_samples[s] # <<>> /\ Head(m_samples[s]) = puller[s].held
  <2>1. puller[s].pc = "pop" BY <1>1 DEF PopSample, PullerAt
  <2>2. m_samples[s] # <<>> /\ m_samples[s][1] = puller[s].held BY <1>1, <2>1, At DEF Keeping
  <2>3. m_samples[s] \in Seq(Nat) BY <1>1, TypesAt
  <2>4. Head(m_samples[s]) = m_samples[s][1] BY <2>2, <2>3, SampleTaken
  <2> QED BY <2>2, <2>4
<1>2. IInv /\ [Next]_vars =>
        [\A s \in Sources : PopSample(s) /\ puller[s].req = request[s] /\ ~Clearing(s) =>
            m_samples[s] # <<>> /\ Head(m_samples[s]) = puller[s].held]_vars
  BY <1>1
<1> QED BY <1>2, Invariance, PTL DEF Spec, PopsWhatItSent

\* The server is told of the end of the stream only when it has all that was
\* queued before the EOS event: isEos() looks at the queue and at the flag in
\* one step, and no flush makes an old answer tell it of the new stream.  An
\* EOS event inside the sink that FLUSH_START passes, or a refused flush,
\* breaks it.
THEOREM EosOnlyAtTheEnd ==
    ASSUME May \cap {"refuseFlush", "overtakeEos"} = {} PROVE Spec => []EosAfterAllSamples
<1>1. IInv => EosAfterAllSamples BY At DEF Ending, EosUnderWay, EosAfterAllSamples
<1> QED BY <1>1, Invariance, PTL

\* isAnySourceFlushing() is true only while flush() is under way or the server
\* owes the end of a flush, when flushes are neither refused nor sent to a sink
\* without a source.
THEOREM FlushingOnlyWhileOngoing ==
    ASSUME May \cap {"refuseFlush", "flushUnattached"} = {} PROVE Spec => []FlushingMeansOngoing
<1>1. IInv => FlushingMeansOngoing
  BY Types DEF Marked, FlushingMeansOngoing, IsAnySourceFlushing
<1> QED BY <1>1, Invariance, PTL

-----------------------------------------------------------------------------
(***************************************************************************)
(* Counting requests.                                                      *)
(***************************************************************************)
LEMMA SameSize ==
    ASSUME NEW I, IsFiniteSet(I), NEW T, NEW f \in [I -> T],
           \A t \in T : \E i \in I : f[i] = t,
           \A i, j \in I : f[i] = f[j] => i = j
    PROVE  IsFiniteSet(T) /\ Cardinality(T) = Cardinality(I)
<1>1. f \in Bijection(I, T) BY Fun_IsBij
<1>2. ExistsBijection(I, T) BY <1>1, Fun_ExistsBij
<1> QED BY <1>2, FS_Bijection

\* Every request the server waits on is in exactly one place: the event loop's
\* queue, the puller's queue or the puller.  Nothing is lost or answered twice
\* by NeedDataMessage, PullBufferMessage and HaveDataMessage across flushes and
\* the removal of the source.
THEOREM RequestsAreAnsweredOnce == Spec => []RequestInOnePlace
<1>1. ASSUME IInv, NEW s \in Sources
      PROVE  LET inLoop == {i \in 1..Len(backendQueue) :
                     backendQueue[i].src = s /\ backendQueue[i].type \in {"needData", "haveData"}}
                 inPull == 1..Len(pullQueue[s])
             IN  /\ request[s] # 0 => request[s] \in InFlight(s)
                 /\ Cardinality(InFlight(s) \ {0}) = Cardinality(inLoop) + Cardinality(inPull)
                        + (IF puller[s].req = 0 THEN 0 ELSE 1)
  <2> USE <1>1
  <2> DEFINE inLoop == {i \in 1..Len(backendQueue) :
                    backendQueue[i].src = s /\ backendQueue[i].type \in {"needData", "haveData"}}
             inPull == 1..Len(pullQueue[s])
             L == {backendQueue[i].req : i \in inLoop}
             P == {pullQueue[s][i] : i \in inPull}
             C == {puller[s].req} \ {0}
  <2>1. backendQueue \in Seq(Message) /\ pullQueue[s] \in Seq(RequestIds)
    BY Types, TypesAt DEF ClientTypes
  <2>2. Len(backendQueue) \in Nat /\ Len(pullQueue[s]) \in Nat BY <2>1
  <2>3. Requests(s) BY At
  <2>4. ASSUME NEW i \in inLoop
        PROVE  /\ backendQueue[i] \in Carries(s, backendQueue[i].req)
               /\ Among(backendQueue, Carries(s, backendQueue[i].req))
               /\ backendQueue[i].req # 0 /\ backendQueue[i].req \in RequestIds
    <3>1. backendQueue[i] \in Message BY <2>1
    <3>2. backendQueue[i] \in Carries(s, backendQueue[i].req) BY <3>1 DEF Carries
    <3>3. Among(backendQueue, Carries(s, backendQueue[i].req)) BY <3>2 DEF Among
    <3>4. backendQueue[i].req # 0 BY <2>3, <3>3 DEF Requests
    <3>5. backendQueue[i].req \in 0..(MaxFlushes + 2) BY <3>1 DEF Message
    <3> QED BY <3>2, <3>3, <3>4, <3>5, Constants DEF RequestIds
  <2>5. IsFiniteSet(L) /\ Cardinality(L) = Cardinality(inLoop)
    <3>1. IsFiniteSet(inLoop)
      <4>1. IsFiniteSet(1..Len(backendQueue)) BY <2>2, FS_Interval
      <4> QED BY <4>1, FS_Subset
    <3>2. PICK f : f = [i \in inLoop |-> backendQueue[i].req] OBVIOUS
    <3>3. f \in [inLoop -> L] /\ \A t \in L : \E i \in inLoop : f[i] = t BY <3>2
    <3>4. ASSUME NEW i \in inLoop, NEW j \in inLoop, f[i] = f[j] PROVE i = j
      <4>1. backendQueue[i].req = backendQueue[j].req BY <3>2, <3>4
      <4>2. Once(backendQueue, Carries(s, backendQueue[i].req)) BY <2>3, <2>4 DEF Requests
      <4> QED BY <2>4, <4>1, <4>2 DEF Once
    <3> HIDE DEF L, inLoop
    <3> QED BY <3>1, <3>3, <3>4, SameSize
  <2>6. IsFiniteSet(P) /\ Cardinality(P) = Cardinality(inPull)
    <3>1. IsFiniteSet(inPull) BY <2>2, FS_Interval
    <3>2. PICK f : f = [i \in inPull |-> pullQueue[s][i]] OBVIOUS
    <3>3. f \in [inPull -> P] /\ \A t \in P : \E i \in inPull : f[i] = t BY <3>2
    <3>4. \A i, j \in inPull : f[i] = f[j] => i = j BY <2>3, <3>2 DEF Requests
    <3> HIDE DEF P, inPull
    <3> QED BY <3>1, <3>3, <3>4, SameSize
  <2>7. IsFiniteSet(C) /\ Cardinality(C) = (IF puller[s].req = 0 THEN 0 ELSE 1)
    <3>1. C = IF puller[s].req = 0 THEN {} ELSE {puller[s].req} OBVIOUS
    <3> HIDE DEF C
    <3> QED BY <3>1, FS_EmptySet, FS_Singleton
  <2>8. L \cap P = {} /\ L \cap C = {} /\ P \cap C = {} BY <2>3, <2>4 DEF Requests
  <2>9. InFlight(s) \ {0} = L \cup P \cup C
    <3>1. {m.req : m \in {q \in Queued : q.src = s /\ q.type \in {"needData", "haveData"}}} = L
      BY DEF Queued
    <3>2. 0 \notin L BY <2>4
    <3>3. 0 \notin P
      <4>1. \A i \in inPull : pullQueue[s][i] \in RequestIds BY <2>1
      <4> QED BY <4>1, Constants
    <3> QED BY <3>1, <3>2, <3>3 DEF InFlight
  <2>10. request[s] # 0 => request[s] \in InFlight(s)
    <3>1. ASSUME NEW i \in 1..Len(backendQueue), backendQueue[i] \in Carries(s, request[s])
          PROVE  request[s] \in L
      <4>1. i \in inLoop /\ backendQueue[i].req = request[s] BY <3>1 DEF Carries
      <4> QED BY <4>1
    <3>2. request[s] # 0 => \/ request[s] \in L \/ request[s] \in P \/ puller[s].req = request[s]
      BY <2>3, <3>1 DEF Requests, Among
    <3> QED BY <2>9, <3>2
  <2> HIDE DEF inLoop, inPull, L, P, C
  <2>11. IsFiniteSet(L \cup P) /\ Cardinality(L \cup P) = Cardinality(L) + Cardinality(P)
    <3>1. /\ IsFiniteSet(L \cup P)
          /\ Cardinality(L \cup P) = Cardinality(L) + Cardinality(P) - Cardinality(L \cap P)
      BY <2>5, <2>6, FS_Union
    <3>2. Cardinality(L \cap P) = 0 BY <2>8, FS_EmptySet
    <3>3. Cardinality(L) \in Nat /\ Cardinality(P) \in Nat BY <2>5, <2>6, FS_CardinalityType
    <3> QED BY <3>1, <3>2, <3>3
  <2>12. Cardinality(L \cup P \cup C) = Cardinality(L) + Cardinality(P) + Cardinality(C)
    <3>1. Cardinality((L \cup P) \cup C)
            = Cardinality(L \cup P) + Cardinality(C) - Cardinality((L \cup P) \cap C)
      BY <2>7, <2>11, FS_Union
    <3>2. (L \cup P) \cap C = {} BY <2>8
    <3>3. Cardinality((L \cup P) \cap C) = 0 BY <3>2, FS_EmptySet
    <3>4. Cardinality(L \cup P) \in Nat /\ Cardinality(C) \in Nat BY <2>7, <2>11, FS_CardinalityType
    <3> QED BY <2>11, <3>1, <3>3, <3>4
  <2>13. Cardinality(InFlight(s) \ {0}) = Cardinality(inLoop) + Cardinality(inPull)
            + (IF puller[s].req = 0 THEN 0 ELSE 1)
    BY <2>5, <2>6, <2>7, <2>9, <2>12
  <2> QED BY <2>10, <2>13 DEF inLoop, inPull
<1>2. IInv => RequestInOnePlace BY <1>1 DEF RequestInOnePlace
<1> QED BY <1>2, Invariance, PTL
=============================================================================

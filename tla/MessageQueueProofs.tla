-------------------------- MODULE MessageQueueProofs --------------------------
(***************************************************************************)
(* The invariants of MessageQueue for any number of threads, messages and  *)
(* sessions, and the proof that the queue is an EventLoop.                 *)
(***************************************************************************)
EXTENDS MessageQueue, TLAPS

\* Somebody is inside doStop().
Stopping == (\E t \in Threads : pc[t] \in InStop) \/ workerPc \in {"selfStop", "selfClear"}

\* Only the thread that may stop the queue is inside doStop().
StopperOnly ==
    /\ \A t \in Threads : pc[t] \in InStop => t \in Stoppers
    /\ workerPc \in {"selfStop", "selfClear"} => Worker \in Stoppers

\* The message of doStop is the last one of its session: nothing is
\* accepted after it, and nothing stands behind it.
StopMessageIsLast ==
    /\ stopMsgs \subseteq 1..(nextId - 1)
    /\ \A i \in 1..Len(m_queue) : m_queue[i] \in stopMsgs => i = Len(m_queue)
    /\ current \in stopMsgs => m_queue = <<>>
    /\ (\E m \in stopMsgs : m \in Queued \cup {current}) =>
        /\ m_running
        /\ \E t \in Threads : pc[t] = "stopWait" /\ waitFor[t] \in Queued \cup {current}

\* Where doStop is determines what the flags, the queue and the worker can be.
StopProgress == \A t \in Threads :
    /\ pc[t] = "stopPost" =>
        /\ m_running /\ m_acceptingMessages /\ joinable
        /\ workerPc \in {"wait", "handle", "loop"}
    /\ pc[t] = "stopWait" =>
        /\ waitFor[t] \in stopMsgs /\ joinable /\ ~m_acceptingMessages
        /\ \/ /\ waitFor[t] \in Queued \cup {current} /\ m_running
              /\ workerPc \in {"wait", "handle", "loop"}
           \/ /\ waitFor[t] \in m_done
              /\ ~m_running /\ m_queue = <<>> /\ workerPc \in {"loop", "ended"}
    /\ pc[t] = "join" =>
        /\ ~m_acceptingMessages /\ ~m_running /\ joinable /\ m_queue = <<>>
        /\ workerPc \in {"loop", "ended"}
    /\ pc[t] = "stopClear" =>
        ~m_acceptingMessages /\ ~m_running /\ ~joinable /\ m_queue = <<>> /\ workerPc = "none"

\* The flags and the thread agree when nobody is in the middle of a stop.
Session ==
    /\ m_acceptingMessages => m_running
    /\ m_running => joinable /\ workerPc \in {"wait", "handle", "loop", "selfStop"}
    /\ m_running /\ ~Stopping => m_acceptingMessages
    /\ ~m_running /\ workerPc # "selfClear" => m_queue = <<>>
    /\ workerPc = "selfStop" => m_running /\ ~m_acceptingMessages
    /\ workerPc = "selfClear" => ~m_running /\ ~m_acceptingMessages /\ ~joinable
    /\ workerPc = "ended" => ~m_running
    /\ workerPc = "wait" => m_running

\* A message whose m_done is set has been handled or skipped, and the
\* other way round.
DoneIsFinished == m_done = handled \cup skipped

IInv ==
    /\ TypeOK /\ FifoOrder /\ EveryMessageAccounted /\ NoLostWaiter /\ StopDrains
    /\ StopperOnly /\ StopMessageIsLast /\ StopProgress /\ Session /\ DoneIsFinished
\* A queue is empty exactly when it has no elements.
LEMMA SeqFacts ==
    ASSUME NEW q \in Seq(Nat)
    PROVE  /\ Len(q) \in Nat
           /\ q = <<>> <=> Len(q) = 0
           /\ \A i \in 1..Len(q) : q[i] \in Nat
<1>1. Len(q) \in Nat /\ \A i \in 1..Len(q) : q[i] \in Nat OBVIOUS
<1>2. q = <<>> => Len(q) = 0 OBVIOUS
<1>3. Len(q) = 0 => q = <<>> OBVIOUS
<1> QED BY <1>1, <1>2, <1>3

\* The set of queued messages and the positions of the deque.
LEMMA QueuedFacts ==
    ASSUME m_queue \in Seq(Nat)
    PROVE  /\ m_queue = <<>> <=> Queued = {}
           /\ Queued \subseteq Nat
           /\ \A i \in 1..Len(m_queue) : m_queue[i] \in Queued
           /\ \A m \in Queued : m \in Nat /\ \E i \in 1..Len(m_queue) : m_queue[i] = m
<1>1. \A i \in 1..Len(m_queue) : m_queue[i] \in Queued BY DEF Queued
<1>2. \A m \in Queued : m \in Nat /\ \E i \in 1..Len(m_queue) : m_queue[i] = m
  BY SeqFacts DEF Queued
<1>3. m_queue = <<>> => Queued = {} BY SeqFacts, <1>2
<1>4. Queued = {} => m_queue = <<>>
  <2>1. SUFFICES ASSUME Queued = {}, Len(m_queue) # 0 PROVE FALSE BY SeqFacts
  <2>2. 1 \in 1..Len(m_queue) BY <2>1, SeqFacts
  <2> QED BY <2>1, <2>2, <1>1
<1> QED BY <1>1, <1>2, <1>3, <1>4

\* What an untouched and what a cleared deque hold.
LEMMA QueuedStays ==
    /\ m_queue' = m_queue => Queued' = Queued
    /\ m_queue' = <<>> => Queued' = {} /\ m_queue' \in Seq(Nat) /\ Len(m_queue') = 0
<1>1. m_queue' = m_queue => Queued' = Queued BY DEF Queued
<1>2. ASSUME m_queue' = <<>> PROVE Len(m_queue') = 0 /\ m_queue' \in Seq(Nat) BY <1>2
<1>3. ASSUME m_queue' = <<>>, Len(m_queue') = 0 PROVE Queued' = {} BY <1>3 DEF Queued
<1> QED BY <1>1, <1>2, <1>3

\* push_back(): one more element, at the end.
LEMMA PushFacts ==
    ASSUME m_queue \in Seq(Nat), nextId \in Nat, Push
    PROVE  /\ m_queue' \in Seq(Nat) /\ nextId' = nextId + 1
           /\ Len(m_queue') = Len(m_queue) + 1 /\ m_queue' # <<>>
           /\ \A i \in 1..Len(m_queue) : m_queue'[i] = m_queue[i]
           /\ m_queue'[Len(m_queue) + 1] = nextId
           /\ Queued' = Queued \cup {nextId}
<1>1. /\ m_queue' \in Seq(Nat) /\ nextId' = nextId + 1
      /\ Len(m_queue') = Len(m_queue) + 1 /\ Len(m_queue) \in Nat
      /\ \A i \in 1..Len(m_queue) : m_queue'[i] = m_queue[i]
      /\ m_queue'[Len(m_queue) + 1] = nextId
  BY DEF Push
<1>2. ASSUME NEW m \in Queued PROVE m \in Queued'
  <2>1. PICK i \in 1..Len(m_queue) : m_queue[i] = m BY DEF Queued
  <2>2. i \in 1..Len(m_queue') /\ m_queue'[i] = m BY <2>1, <1>1
  <2> QED BY <2>2 DEF Queued
<1>3. nextId \in Queued'
  <2>1. Len(m_queue) + 1 \in 1..Len(m_queue') BY <1>1
  <2> QED BY <2>1, <1>1 DEF Queued
<1>4. ASSUME NEW m \in Queued', m # nextId PROVE m \in Queued
  <2>1. PICK i \in 1..Len(m_queue') : m_queue'[i] = m BY DEF Queued
  <2>2. i \in 1..Len(m_queue) /\ m_queue[i] = m BY <2>1, <1>1, <1>4
  <2> QED BY <2>2 DEF Queued
<1>5. m_queue' # <<>>
  BY <1>1
<1> QED BY <1>1, <1>2, <1>3, <1>4, <1>5

\* front() and pop_front(): the first element goes to the worker.
LEMMA TakeFacts ==
    ASSUME m_queue \in Seq(Nat), m_queue # <<>>, Take
    PROVE  /\ m_queue' \in Seq(Nat) /\ current' \in Nat
           /\ Len(m_queue') = Len(m_queue) - 1
           /\ \A i \in 1..Len(m_queue') : m_queue'[i] = m_queue[i + 1] /\ i + 1 \in 1..Len(m_queue)
           /\ current' = m_queue[1] /\ 1 \in 1..Len(m_queue)
           /\ Queued = Queued' \cup {current'}
<1>1. /\ m_queue' \in Seq(Nat) /\ current' \in Nat
      /\ Len(m_queue') = Len(m_queue) - 1 /\ Len(m_queue) \in Nat /\ Len(m_queue) > 0
      /\ \A i \in 1..Len(m_queue') : m_queue'[i] = m_queue[i + 1]
      /\ current' = m_queue[1]
  BY DEF Take
<1>2. ASSUME NEW m \in Queued PROVE m \in Queued' \cup {current'}
  <2>1. PICK i \in 1..Len(m_queue) : m_queue[i] = m BY DEF Queued
  <2>2. CASE i = 1 BY <2>1, <2>2, <1>1
  <2>3. CASE i # 1
    <3>1. i - 1 \in 1..Len(m_queue') /\ m_queue'[i - 1] = m BY <2>1, <2>3, <1>1, SMTT(30)
    <3> QED BY <3>1 DEF Queued
  <2> QED BY <2>2, <2>3
<1>3. current' \in Queued
  <2>1. 1 \in 1..Len(m_queue) BY <1>1
  <2> QED BY <2>1, <1>1 DEF Queued
<1>4. ASSUME NEW m \in Queued' PROVE m \in Queued
  <2>1. PICK i \in 1..Len(m_queue') : m_queue'[i] = m BY DEF Queued
  <2>2. i + 1 \in 1..Len(m_queue) /\ m_queue[i + 1] = m BY <2>1, <1>1, SMTT(30)
  <2> QED BY <2>2 DEF Queued
<1>5. Queued = Queued' \cup {current'}
  BY <1>2, <1>3, <1>4
<1>6. /\ \A i \in 1..Len(m_queue') : i + 1 \in 1..Len(m_queue)
      /\ 1 \in 1..Len(m_queue)
  BY <1>1
<1> QED BY <1>1, <1>5, <1>6

\* Accepting a message keeps the order and loses nothing.
LEMMA PushKeepsOrder ==
    ASSUME TypeOK, FifoOrder, EveryMessageAccounted, Push,
           UNCHANGED <<current, handled, skipped>>
    PROVE  FifoOrder' /\ EveryMessageAccounted'
<1> USE DEF TypeOK
<1>1. /\ m_queue' \in Seq(Nat) /\ nextId' = nextId + 1
      /\ Len(m_queue') = Len(m_queue) + 1 /\ Len(m_queue) \in Nat
      /\ \A i \in 1..Len(m_queue) : m_queue'[i] = m_queue[i] /\ m_queue[i] \in Queued
      /\ m_queue'[Len(m_queue) + 1] = nextId
      /\ Queued' = Queued \cup {nextId}
  BY PushFacts, SeqFacts, QueuedFacts
<1>2. \A m \in Queued \cup handled \cup skipped \cup {current} : m \in Nat /\ m < nextId
  <2>1. 0 < nextId /\ \A m \in 1..(nextId - 1) : m \in Nat /\ m < nextId OBVIOUS
  <2> QED BY <2>1 DEF EveryMessageAccounted
<1>3. FifoOrder'
  <2>1. ASSUME NEW i \in 1..Len(m_queue'), NEW j \in 1..Len(m_queue'), i < j
        PROVE  m_queue'[i] < m_queue'[j]
    <3>1. CASE j = Len(m_queue) + 1
      <4>1. i \in 1..Len(m_queue) BY <1>1, <2>1, <3>1
      <4> QED BY <4>1, <1>1, <1>2, <3>1
    <3>2. CASE j # Len(m_queue) + 1
      <4>1. j \in 1..Len(m_queue) BY <1>1, <3>2
      <4>2. i \in 1..Len(m_queue) BY <4>1, <1>1, <2>1
      <4> QED BY <4>1, <4>2, <1>1, <2>1 DEF FifoOrder
    <3> QED BY <3>1, <3>2
  <2>2. ASSUME NEW i \in 1..Len(m_queue')
        PROVE  current < m_queue'[i] /\ \A m \in handled \cup skipped : m < m_queue'[i]
    <3>1. CASE i = Len(m_queue) + 1 BY <3>1, <1>1, <1>2
    <3>2. CASE i # Len(m_queue) + 1
      <4>1. i \in 1..Len(m_queue) BY <1>1, <3>2
      <4> QED BY <4>1, <1>1 DEF FifoOrder
    <3> QED BY <3>1, <3>2
  <2> QED BY <2>1, <2>2 DEF FifoOrder
<1>4. EveryMessageAccounted'
  <2>1. 1..(nextId' - 1) = (1..(nextId - 1)) \cup {nextId} BY <1>1
  <2>2. nextId \notin handled \cup skipped \cup {current} /\ nextId # current BY <1>2
  <2> QED BY <1>1, <2>1, <2>2 DEF EveryMessageAccounted
<1> QED BY <1>3, <1>4

\* While messages are accepted no stop message is pending.
LEMMA NoStopPending ==
    ASSUME IInv, m_acceptingMessages
    PROVE  \A m \in stopMsgs : m \notin Queued /\ m # current
BY DEF IInv, StopMessageIsLast, StopProgress

\* An ordinary message never gets behind the message of doStop.
LEMMA PostKeepsStopMessageLast ==
    ASSUME IInv, Post, UNCHANGED <<stopMsgs, current>>
    PROVE  StopMessageIsLast'
<1>1. /\ Queued' = Queued \cup {nextId} /\ nextId' = nextId + 1 /\ nextId \in Nat
      /\ Len(m_queue') = Len(m_queue) + 1 /\ Len(m_queue) \in Nat
      /\ \A i \in 1..Len(m_queue) : m_queue'[i] \in Queued
      /\ m_queue'[Len(m_queue) + 1] = nextId
  BY PushFacts, SeqFacts, QueuedFacts DEF Post, IInv, TypeOK
<1>2. stopMsgs \subseteq 1..(nextId - 1)
  BY DEF IInv, StopMessageIsLast
<1>3. \A m \in stopMsgs : m \notin Queued /\ m # current /\ m # nextId
  BY <1>1, <1>2, NoStopPending DEF Post, Accepting
<1>4. stopMsgs \subseteq 1..(nextId' - 1)
  BY <1>1, <1>2
<1>5. \A i \in 1..Len(m_queue') : m_queue'[i] \notin stopMsgs
  <2>1. TAKE i \in 1..Len(m_queue')
  <2>2. CASE i = Len(m_queue) + 1 BY <2>2, <1>1, <1>3
  <2>3. CASE i # Len(m_queue) + 1
    <3>1. i \in 1..Len(m_queue) BY <2>3, <1>1
    <3> QED BY <3>1, <1>1, <1>3
  <2> QED BY <2>2, <2>3
<1> QED BY <1>1, <1>3, <1>4, <1>5 DEF StopMessageIsLast

\* start() begins a session with an empty queue.
LEMMA StartKeeps ==
    ASSUME IInv, Start
    PROVE  IInv'
<1> USE DEF IInv, TypeOK, Start, flags, history
<1>1. m_queue \in Seq(Nat)
  OBVIOUS
<1>2. /\ m_queue' = m_queue /\ Queued' = Queued /\ Len(m_queue) \in Nat
      /\ (m_queue = <<>> <=> Queued = {}) /\ Queued \subseteq Nat
  BY <1>1, SeqFacts, QueuedFacts, QueuedStays
<1>3. TypeOK'
  BY <1>1, <1>2 DEF WorkerPcs
<1>4. FifoOrder' /\ EveryMessageAccounted' /\ DoneIsFinished'
  BY <1>2 DEF FifoOrder, EveryMessageAccounted, DoneIsFinished
<1>5. NoLostWaiter'
  BY <1>2, StoppersAssumption DEF NoLostWaiter, LoopServesQueue, StopMessageIsLast, StopProgress,
     Session, StopperOnly, InStop
<1>6. StopDrains' /\ StopperOnly' /\ StopProgress' /\ Session'
  BY <1>2, StoppersAssumption DEF StopDrains, StopperOnly, StopMessageIsLast, StopProgress,
     Session, Stopping, InStop, DoneIsFinished, EveryMessageAccounted
<1>7. StopMessageIsLast'
  BY <1>2, StoppersAssumption DEF StopMessageIsLast, StopProgress, StopperOnly, Session, InStop,
     EveryMessageAccounted, DoneIsFinished
<1> QED BY <1>3, <1>4, <1>5, <1>6, <1>7

\* A message is scheduled by another thread.
LEMMA ScheduleKeeps ==
    ASSUME IInv, NEW t \in Threads, Schedule(t)
    PROVE  IInv'
<1> USE DEF IInv, TypeOK, Schedule, Post, Accepting, flags, history
<1>1. Push /\ m_queue \in Seq(Nat) /\ nextId \in Nat
  OBVIOUS
<1>2. /\ m_queue' \in Seq(Nat) /\ nextId' = nextId + 1
      /\ Len(m_queue') = Len(m_queue) + 1 /\ m_queue' # <<>>
      /\ \A i \in 1..Len(m_queue) : m_queue'[i] = m_queue[i] /\ m_queue[i] \in Queued
      /\ m_queue'[Len(m_queue) + 1] = nextId
      /\ Queued' = Queued \cup {nextId}
  BY <1>1, PushFacts, QueuedFacts
<1>3. TypeOK'
  BY <1>1, <1>2 DEF WorkerPcs, Pcs
<1>4. FifoOrder' /\ EveryMessageAccounted' /\ DoneIsFinished'
  BY <1>1, PushKeepsOrder DEF DoneIsFinished
<1>5. NoLostWaiter'
  BY <1>2 DEF NoLostWaiter, LoopServesQueue, StopMessageIsLast, StopProgress, Session,
     StopperOnly, InStop
<1>6. StopDrains' /\ StopperOnly' /\ StopProgress' /\ Session'
  BY <1>2 DEF StopDrains, StopperOnly, StopMessageIsLast, StopProgress, Session, Stopping,
     InStop, DoneIsFinished, EveryMessageAccounted
<1>7. StopMessageIsLast'
  BY PostKeepsStopMessageLast
<1> QED BY <1>3, <1>4, <1>5, <1>6, <1>7

\* A thread posts its call and starts to wait.
LEMMA CallInEventLoopKeeps ==
    ASSUME IInv, NEW t \in Threads, CallInEventLoop(t)
    PROVE  IInv'
<1> USE DEF IInv, TypeOK, CallInEventLoop, Post, Accepting, flags, history
<1>1. Push /\ m_queue \in Seq(Nat) /\ nextId \in Nat
  OBVIOUS
<1>2. /\ m_queue' \in Seq(Nat) /\ nextId' = nextId + 1
      /\ Len(m_queue') = Len(m_queue) + 1 /\ m_queue' # <<>>
      /\ \A i \in 1..Len(m_queue) : m_queue'[i] = m_queue[i] /\ m_queue[i] \in Queued
      /\ m_queue'[Len(m_queue) + 1] = nextId
      /\ Queued' = Queued \cup {nextId}
  BY <1>1, PushFacts, QueuedFacts
<1>3. TypeOK'
  BY <1>1, <1>2 DEF WorkerPcs, Pcs
<1>4. FifoOrder' /\ EveryMessageAccounted' /\ DoneIsFinished'
  BY <1>1, PushKeepsOrder DEF DoneIsFinished
<1>5. NoLostWaiter'
  BY <1>2 DEF NoLostWaiter, LoopServesQueue, StopMessageIsLast, StopProgress, Session,
     StopperOnly, InStop
<1>6. StopDrains' /\ StopperOnly' /\ StopProgress' /\ Session'
  BY <1>2 DEF StopDrains, StopperOnly, StopMessageIsLast, StopProgress, Session, Stopping,
     InStop, DoneIsFinished, EveryMessageAccounted
<1>7. StopMessageIsLast'
  BY PostKeepsStopMessageLast
<1> QED BY <1>3, <1>4, <1>5, <1>6, <1>7

\* A caller finds its m_done set.
LEMMA CallReturnKeeps ==
    ASSUME IInv, NEW t \in Threads, CallReturn(t)
    PROVE  IInv'
<1> USE DEF IInv, TypeOK, CallReturn, WaitEnds, flags, history
<1>1. m_queue \in Seq(Nat)
  OBVIOUS
<1>2. /\ m_queue' = m_queue /\ Queued' = Queued /\ Len(m_queue) \in Nat
      /\ (m_queue = <<>> <=> Queued = {}) /\ Queued \subseteq Nat
  BY <1>1, SeqFacts, QueuedFacts, QueuedStays
<1>3. TypeOK'
  BY <1>1, <1>2 DEF WorkerPcs, Pcs
<1>4. FifoOrder' /\ EveryMessageAccounted' /\ DoneIsFinished'
  BY <1>2 DEF FifoOrder, EveryMessageAccounted, DoneIsFinished
<1>5. NoLostWaiter'
  BY <1>2 DEF NoLostWaiter, LoopServesQueue, StopMessageIsLast, StopProgress, Session,
     StopperOnly, InStop
<1>6. StopDrains' /\ StopperOnly' /\ StopProgress' /\ Session'
  BY <1>2 DEF StopDrains, StopperOnly, StopMessageIsLast, StopProgress, Session, Stopping,
     InStop, DoneIsFinished, EveryMessageAccounted
<1>7. StopMessageIsLast'
  BY <1>2 DEF StopMessageIsLast, StopProgress, StopperOnly, Session, InStop,
     EveryMessageAccounted, DoneIsFinished
<1> QED BY <1>3, <1>4, <1>5, <1>6, <1>7

\* The worker takes the oldest message.
LEMMA WaitForMessageKeeps ==
    ASSUME IInv, WaitForMessage
    PROVE  IInv'
<1> USE DEF IInv, TypeOK, WaitForMessage, flags, history
<1>1. Take /\ m_queue \in Seq(Nat) /\ m_queue # <<>>
  OBVIOUS
<1>2. /\ m_queue' \in Seq(Nat) /\ current' \in Nat /\ current' \in Queued
      /\ Len(m_queue') = Len(m_queue) - 1 /\ Len(m_queue) \in Nat
      /\ \A i \in 1..Len(m_queue') : m_queue'[i] = m_queue[i + 1] /\ i + 1 \in 1..Len(m_queue)
      /\ \A i \in 1..Len(m_queue) : m_queue[i] \in Nat /\ m_queue[i] \in Queued
      /\ current' = m_queue[1] /\ 1 \in 1..Len(m_queue)
      /\ Queued = Queued' \cup {current'}
      /\ \A m \in Queued : m # 0
  BY <1>1, TakeFacts, SeqFacts, QueuedFacts, SMTT(30) DEF FifoOrder
<1>3. TypeOK'
  BY <1>1, <1>2 DEF WorkerPcs
<1>4. FifoOrder' /\ EveryMessageAccounted' /\ DoneIsFinished'
  <2>1. ASSUME NEW i \in 1..Len(m_queue') PROVE current' < m_queue'[i]
    <3>1. 1 < i + 1 BY <1>2
    <3> QED BY <3>1, <1>2 DEF FifoOrder
  <2>2. FifoOrder'
    <3>1. ASSUME NEW i \in 1..Len(m_queue'), NEW j \in 1..Len(m_queue'), i < j
          PROVE  m_queue'[i] < m_queue'[j]
      <4>1. i + 1 < j + 1 /\ i + 1 \in 1..Len(m_queue) /\ j + 1 \in 1..Len(m_queue) BY <1>2, <3>1
      <4>2. m_queue'[i] = m_queue[i + 1] /\ m_queue'[j] = m_queue[j + 1] BY <1>2
      <4> QED BY <4>1, <4>2, <1>2 DEF FifoOrder
    <3>2. ASSUME NEW i \in 1..Len(m_queue'), NEW m \in handled \cup skipped
          PROVE  m < m_queue'[i]
      BY <1>2 DEF FifoOrder
    <3> QED BY <2>1, <3>1, <3>2 DEF FifoOrder
  <2>3. current' \notin Queued'
    <3>1. SUFFICES ASSUME current' \in Queued' PROVE FALSE OBVIOUS
    <3>2. PICK i \in 1..Len(m_queue') : m_queue'[i] = current' BY <3>1 DEF Queued
    <3> QED BY <2>1, <3>2, <1>2
  <2>4. EveryMessageAccounted'
    BY <1>2, <2>3 DEF EveryMessageAccounted
  <2> QED BY <2>2, <2>4 DEF DoneIsFinished
<1>5. NoLostWaiter'
  BY <1>2 DEF NoLostWaiter, LoopServesQueue, StopMessageIsLast, StopProgress, Session,
     StopperOnly, InStop
<1>6. StopDrains' /\ StopperOnly' /\ StopProgress' /\ Session'
  BY <1>2 DEF StopDrains, StopperOnly, StopMessageIsLast, StopProgress, Session, Stopping,
     InStop, DoneIsFinished, EveryMessageAccounted
<1>7. StopMessageIsLast'
  <2>1. \A i \in 1..Len(m_queue') : m_queue'[i] \in stopMsgs => i = Len(m_queue')
    BY <1>2, SMTT(30) DEF StopMessageIsLast
  <2>2. current' \in stopMsgs => m_queue' = <<>>
    BY <1>2, SeqFacts DEF StopMessageIsLast
  <2> QED BY <1>2, <2>1, <2>2 DEF StopMessageIsLast
<1> QED BY <1>3, <1>4, <1>5, <1>6, <1>7

\* The function the worker runs schedules a message.
LEMMA HandlerScheduleKeeps ==
    ASSUME IInv, HandlerSchedule
    PROVE  IInv'
<1> USE DEF IInv, TypeOK, HandlerSchedule, Post, Accepting, flags, history
<1>1. Push /\ m_queue \in Seq(Nat) /\ nextId \in Nat
  OBVIOUS
<1>2. /\ m_queue' \in Seq(Nat) /\ nextId' = nextId + 1
      /\ Len(m_queue') = Len(m_queue) + 1 /\ m_queue' # <<>>
      /\ \A i \in 1..Len(m_queue) : m_queue'[i] = m_queue[i] /\ m_queue[i] \in Queued
      /\ m_queue'[Len(m_queue) + 1] = nextId
      /\ Queued' = Queued \cup {nextId}
  BY <1>1, PushFacts, QueuedFacts
<1>3. TypeOK'
  BY <1>1, <1>2 DEF WorkerPcs
<1>4. FifoOrder' /\ EveryMessageAccounted' /\ DoneIsFinished'
  BY <1>1, PushKeepsOrder DEF DoneIsFinished
<1>5. NoLostWaiter'
  BY <1>2 DEF NoLostWaiter, LoopServesQueue, StopMessageIsLast, StopProgress, Session,
     StopperOnly, InStop
<1>6. StopDrains' /\ StopperOnly' /\ StopProgress' /\ Session'
  BY <1>2 DEF StopDrains, StopperOnly, StopMessageIsLast, StopProgress, Session, Stopping,
     InStop, DoneIsFinished, EveryMessageAccounted
<1>7. StopMessageIsLast'
  BY PostKeepsStopMessageLast
<1> QED BY <1>3, <1>4, <1>5, <1>6, <1>7

\* The worker finishes a message; the one of doStop ends the session.
LEMMA HandleMessageKeeps ==
    ASSUME IInv, HandleMessage
    PROVE  IInv'
<1> USE DEF IInv, TypeOK, HandleMessage, SetDone, flags, history
<1>1. m_queue \in Seq(Nat)
  OBVIOUS
<1>2. /\ m_queue' = m_queue /\ Queued' = Queued /\ Len(m_queue) \in Nat
      /\ (m_queue = <<>> <=> Queued = {}) /\ Queued \subseteq Nat
  BY <1>1, SeqFacts, QueuedFacts, QueuedStays
<1>3. TypeOK'
  BY <1>1, <1>2 DEF WorkerPcs
<1>4. FifoOrder' /\ EveryMessageAccounted' /\ DoneIsFinished'
  BY <1>2 DEF FifoOrder, EveryMessageAccounted, DoneIsFinished
<1>5. NoLostWaiter'
  BY <1>2 DEF NoLostWaiter, LoopServesQueue, StopMessageIsLast, StopProgress, Session,
     StopperOnly, InStop
<1>6. StopDrains' /\ StopperOnly' /\ StopProgress' /\ Session'
  BY <1>2 DEF StopDrains, StopperOnly, StopMessageIsLast, StopProgress, Session, Stopping,
     InStop, DoneIsFinished, EveryMessageAccounted
<1>7. StopMessageIsLast'
  BY <1>2 DEF StopMessageIsLast, StopProgress, StopperOnly, Session, InStop,
     EveryMessageAccounted, DoneIsFinished
<1> QED BY <1>3, <1>4, <1>5, <1>6, <1>7

\* The worker goes on or leaves processMessages.
LEMMA LoopCheckKeeps ==
    ASSUME IInv, LoopCheck
    PROVE  IInv'
<1> USE DEF IInv, TypeOK, LoopCheck, AfterMessage, flags, history
<1>1. m_queue \in Seq(Nat)
  OBVIOUS
<1>2. /\ m_queue' = m_queue /\ Queued' = Queued /\ Len(m_queue) \in Nat
      /\ (m_queue = <<>> <=> Queued = {}) /\ Queued \subseteq Nat
  BY <1>1, SeqFacts, QueuedFacts, QueuedStays
<1>3. TypeOK'
  BY <1>1, <1>2 DEF WorkerPcs, Session, StopProgress
<1>4. FifoOrder' /\ EveryMessageAccounted' /\ DoneIsFinished'
  BY <1>2 DEF FifoOrder, EveryMessageAccounted, DoneIsFinished
<1>5. NoLostWaiter'
  BY <1>2 DEF NoLostWaiter, LoopServesQueue, StopMessageIsLast, StopProgress, Session,
     StopperOnly, InStop
<1>6. StopDrains' /\ StopperOnly' /\ StopProgress' /\ Session'
  BY <1>2 DEF StopDrains, StopperOnly, StopMessageIsLast, StopProgress, Session, Stopping,
     InStop, DoneIsFinished, EveryMessageAccounted
<1>7. StopMessageIsLast'
  BY <1>2 DEF StopMessageIsLast, StopProgress, StopperOnly, Session, InStop,
     EveryMessageAccounted, DoneIsFinished
<1> QED BY <1>3, <1>4, <1>5, <1>6, <1>7

\* clear() by the owner, which is not inside doStop.
LEMMA ClearKeeps ==
    ASSUME IInv, NEW t \in Threads, Clear(t)
    PROVE  IInv'
<1> USE DEF IInv, TypeOK, Clear, DoClear, SetDone, flags, history
<1>1. m_queue \in Seq(Nat)
  OBVIOUS
<1>2. /\ m_queue' = <<>> /\ m_queue' \in Seq(Nat) /\ Len(m_queue') = 0 /\ Queued' = {}
      /\ Queued \subseteq Nat /\ (m_queue = <<>> <=> Queued = {})
  BY <1>1, SeqFacts, QueuedFacts, QueuedStays
<1>3. TypeOK'
  BY <1>1, <1>2 DEF WorkerPcs, Pcs
<1>4. FifoOrder' /\ EveryMessageAccounted' /\ DoneIsFinished'
  BY <1>2 DEF FifoOrder, EveryMessageAccounted, DoneIsFinished
<1>5. NoLostWaiter'
  BY <1>2, StoppersAssumption DEF NoLostWaiter, LoopServesQueue, StopMessageIsLast, StopProgress,
     Session, StopperOnly, InStop
<1>6. StopDrains' /\ StopperOnly' /\ StopProgress' /\ Session'
  BY <1>2, StoppersAssumption DEF StopDrains, StopperOnly, StopMessageIsLast, StopProgress,
     Session, Stopping, InStop, DoneIsFinished, EveryMessageAccounted
<1>7. StopMessageIsLast'
  BY <1>2, StoppersAssumption DEF StopMessageIsLast, StopProgress, StopperOnly, Session, InStop,
     EveryMessageAccounted, DoneIsFinished
<1> QED BY <1>3, <1>4, <1>5, <1>6, <1>7

\* doStop finds m_running set: nobody else is stopping.
LEMMA StopCallKeeps ==
    ASSUME IInv, NEW t \in Threads, StopCall(t)
    PROVE  IInv'
<1> USE DEF IInv, TypeOK, StopCall, flags, history
<1>1. m_queue \in Seq(Nat)
  OBVIOUS
<1>2. /\ m_queue' = m_queue /\ Queued' = Queued /\ Len(m_queue) \in Nat
      /\ (m_queue = <<>> <=> Queued = {}) /\ Queued \subseteq Nat
  BY <1>1, SeqFacts, QueuedFacts, QueuedStays
<1>3. TypeOK'
  BY <1>1, <1>2 DEF WorkerPcs, Pcs
<1>4. FifoOrder' /\ EveryMessageAccounted' /\ DoneIsFinished'
  BY <1>2 DEF FifoOrder, EveryMessageAccounted, DoneIsFinished
<1>5. NoLostWaiter'
  BY <1>2, StoppersAssumption DEF NoLostWaiter, LoopServesQueue, StopMessageIsLast, StopProgress,
     Session, StopperOnly, InStop
<1>6. StopDrains' /\ StopperOnly' /\ StopProgress' /\ Session'
  BY <1>2, StoppersAssumption DEF StopDrains, StopperOnly, StopMessageIsLast, StopProgress,
     Session, Stopping, InStop, DoneIsFinished, EveryMessageAccounted
<1>7. StopMessageIsLast'
  BY <1>2, StoppersAssumption DEF StopMessageIsLast, StopProgress, StopperOnly, Session, InStop,
     EveryMessageAccounted, DoneIsFinished
<1> QED BY <1>3, <1>4, <1>5, <1>6, <1>7

\* doStop posts the last message of the session.
LEMMA StopPostKeeps ==
    ASSUME IInv, NEW t \in Threads, StopPost(t)
    PROVE  IInv'
<1> USE DEF IInv, TypeOK, StopPost, StopAccepting, flags, history
<1>1. Push /\ m_queue \in Seq(Nat) /\ nextId \in Nat
  OBVIOUS
<1>2. /\ m_queue' \in Seq(Nat) /\ nextId' = nextId + 1
      /\ Len(m_queue') = Len(m_queue) + 1 /\ m_queue' # <<>>
      /\ \A i \in 1..Len(m_queue) : m_queue'[i] = m_queue[i] /\ m_queue[i] \in Queued
      /\ m_queue'[Len(m_queue) + 1] = nextId
      /\ Queued' = Queued \cup {nextId}
  BY <1>1, PushFacts, QueuedFacts
<1>3. TypeOK'
  <2>1. m_acceptingMessages' \in BOOLEAN /\ stopMsgs' \subseteq Nat
    BY <1>1
  <2>4. nextId' \in Nat \ {0}
    BY <1>1, <1>2
  <2>2. pc' \in [Threads -> Pcs] /\ waitFor' \in [Threads -> Nat]
    BY <1>1 DEF Pcs
  <2>3. \A s \in Threads : waitFor'[s] # 0 <=> pc'[s] \in {"callWait", "stopWait"}
    BY <1>1
  <2> QED BY <1>2, <2>1, <2>2, <2>3, <2>4
<1>4. FifoOrder' /\ EveryMessageAccounted' /\ DoneIsFinished'
  BY <1>1, PushKeepsOrder DEF DoneIsFinished
<1>5. NoLostWaiter'
  <2>0. current # nextId /\ m_acceptingMessages
    BY <1>1 DEF EveryMessageAccounted, StopProgress
  <2>1. LoopServesQueue'
    BY <2>0, NoStopPending, <1>2
    DEF LoopServesQueue, StopProgress, StopMessageIsLast, EveryMessageAccounted
  <2> QED BY <1>2, <2>1 DEF NoLostWaiter
<1>6. StopDrains' /\ StopperOnly' /\ StopProgress' /\ Session'
  BY <1>2, StoppersAssumption DEF StopDrains, StopperOnly, StopMessageIsLast, StopProgress,
     Session, Stopping, InStop, DoneIsFinished, EveryMessageAccounted
<1>7. StopMessageIsLast'
  <2>1. m_acceptingMessages /\ m_running /\ Len(m_queue) \in Nat BY <1>1, SeqFacts DEF StopProgress
  <2>2. stopMsgs' \subseteq 1..(nextId' - 1) BY <1>1, <1>2 DEF StopMessageIsLast
  <2>3. ASSUME NEW i \in 1..Len(m_queue'), i # Len(m_queue') PROVE m_queue'[i] \notin stopMsgs'
    <3>1. i \in 1..Len(m_queue) BY <1>2, <2>1, <2>3
    <3>2. m_queue[i] \in 1..(nextId - 1) BY <3>1, <1>2 DEF EveryMessageAccounted
    <3>3. m_queue'[i] = m_queue[i] /\ m_queue[i] \notin stopMsgs BY <3>1, <1>2, <2>1, NoStopPending
    <3>4. m_queue[i] # nextId BY <3>2, <1>1
    <3> QED BY <3>3, <3>4
  <2>4. current \notin stopMsgs'
    <3>1. current # nextId BY <1>1 DEF EveryMessageAccounted
    <3> QED BY <3>1, <2>1, NoStopPending
  <2>5. pc'[t] = "stopWait" /\ waitFor'[t] \in Queued' BY <1>2 DEF Pcs
  <2> QED BY <2>1, <2>2, <2>3, <2>4, <2>5 DEF StopMessageIsLast
<1> QED BY <1>3, <1>4, <1>5, <1>6, <1>7

\* doStop finds its message handled.
LEMMA StopDoneKeeps ==
    ASSUME IInv, NEW t \in Threads, StopDone(t)
    PROVE  IInv'
<1> USE DEF IInv, TypeOK, StopDone, WaitEnds, AfterStopMessage, flags, history
<1>1. m_queue \in Seq(Nat)
  OBVIOUS
<1>2. /\ m_queue' = m_queue /\ Queued' = Queued /\ Len(m_queue) \in Nat
      /\ (m_queue = <<>> <=> Queued = {}) /\ Queued \subseteq Nat
  BY <1>1, SeqFacts, QueuedFacts, QueuedStays
<1>3. TypeOK'
  BY <1>1, <1>2 DEF WorkerPcs, Pcs, Session, StopProgress
<1>4. FifoOrder' /\ EveryMessageAccounted' /\ DoneIsFinished'
  BY <1>2 DEF FifoOrder, EveryMessageAccounted, DoneIsFinished
<1>5. NoLostWaiter'
  BY <1>2, StoppersAssumption DEF NoLostWaiter, LoopServesQueue, StopMessageIsLast, StopProgress,
     Session, StopperOnly, InStop
<1>6. StopDrains' /\ StopperOnly' /\ StopProgress' /\ Session'
  BY <1>2, StoppersAssumption DEF StopDrains, StopperOnly, StopMessageIsLast, StopProgress,
     Session, Stopping, InStop, DoneIsFinished, EveryMessageAccounted
<1>7. StopMessageIsLast'
  BY <1>2, StoppersAssumption DEF StopMessageIsLast, StopProgress, StopperOnly, Session, InStop,
     EveryMessageAccounted, DoneIsFinished
<1> QED BY <1>3, <1>4, <1>5, <1>6, <1>7

\* The worker is joined.
LEMMA JoinKeeps ==
    ASSUME IInv, NEW t \in Threads, Join(t)
    PROVE  IInv'
<1> USE DEF IInv, TypeOK, Join, flags, history
<1>1. m_queue \in Seq(Nat)
  OBVIOUS
<1>2. /\ m_queue' = m_queue /\ Queued' = Queued /\ Len(m_queue) \in Nat
      /\ (m_queue = <<>> <=> Queued = {}) /\ Queued \subseteq Nat
  BY <1>1, SeqFacts, QueuedFacts, QueuedStays
<1>3. TypeOK'
  BY <1>1, <1>2 DEF WorkerPcs, Pcs, Session, StopProgress
<1>4. FifoOrder' /\ EveryMessageAccounted' /\ DoneIsFinished'
  BY <1>2 DEF FifoOrder, EveryMessageAccounted, DoneIsFinished
<1>5. NoLostWaiter'
  BY <1>2, StoppersAssumption DEF NoLostWaiter, LoopServesQueue, StopMessageIsLast, StopProgress,
     Session, StopperOnly, InStop
<1>6. StopDrains' /\ StopperOnly' /\ StopProgress' /\ Session'
  BY <1>2, StoppersAssumption DEF StopDrains, StopperOnly, StopMessageIsLast, StopProgress,
     Session, Stopping, InStop, DoneIsFinished, EveryMessageAccounted
<1>7. StopMessageIsLast'
  BY <1>2, StoppersAssumption DEF StopMessageIsLast, StopProgress, StopperOnly, Session, InStop,
     EveryMessageAccounted, DoneIsFinished
<1> QED BY <1>3, <1>4, <1>5, <1>6, <1>7

\* doStop clears a queue that is empty already.
LEMMA StopClearKeeps ==
    ASSUME IInv, NEW t \in Threads, StopClear(t)
    PROVE  IInv'
<1> USE DEF IInv, TypeOK, StopClear, DoClear, SetDone, flags, history
<1>1. m_queue \in Seq(Nat)
  OBVIOUS
<1>2. /\ m_queue' = <<>> /\ m_queue' \in Seq(Nat) /\ Len(m_queue') = 0 /\ Queued' = {}
      /\ Queued \subseteq Nat /\ (m_queue = <<>> <=> Queued = {})
  BY <1>1, SeqFacts, QueuedFacts, QueuedStays
<1>3. TypeOK'
  BY <1>1, <1>2 DEF WorkerPcs, Pcs
<1>4. FifoOrder' /\ EveryMessageAccounted' /\ DoneIsFinished'
  BY <1>2 DEF FifoOrder, EveryMessageAccounted, DoneIsFinished
<1>5. NoLostWaiter'
  BY <1>2, StoppersAssumption DEF NoLostWaiter, LoopServesQueue, StopMessageIsLast, StopProgress,
     Session, StopperOnly, InStop
<1>6. StopDrains' /\ StopperOnly' /\ StopProgress' /\ Session'
  BY <1>2, StoppersAssumption DEF StopDrains, StopperOnly, StopMessageIsLast, StopProgress,
     Session, Stopping, InStop, DoneIsFinished, EveryMessageAccounted
<1>7. StopMessageIsLast'
  BY <1>2, StoppersAssumption DEF StopMessageIsLast, StopProgress, StopperOnly, Session, InStop,
     EveryMessageAccounted, DoneIsFinished
<1> QED BY <1>3, <1>4, <1>5, <1>6, <1>7

\* A function run by the worker stops accepting.
LEMMA SelfStopKeeps ==
    ASSUME IInv, SelfStop
    PROVE  IInv'
<1> USE DEF IInv, TypeOK, SelfStop, StopAccepting, flags, history
<1>1. m_queue \in Seq(Nat)
  OBVIOUS
<1>2. /\ m_queue' = m_queue /\ Queued' = Queued /\ Len(m_queue) \in Nat
      /\ (m_queue = <<>> <=> Queued = {}) /\ Queued \subseteq Nat
  BY <1>1, SeqFacts, QueuedFacts, QueuedStays
<1>3. TypeOK'
  BY <1>1, <1>2 DEF WorkerPcs
<1>4. FifoOrder' /\ EveryMessageAccounted' /\ DoneIsFinished'
  BY <1>2 DEF FifoOrder, EveryMessageAccounted, DoneIsFinished
<1>5. NoLostWaiter'
  BY <1>2, StoppersAssumption DEF NoLostWaiter, LoopServesQueue, StopMessageIsLast, StopProgress,
     Session, StopperOnly, InStop
<1>6. StopDrains' /\ StopperOnly' /\ StopProgress' /\ Session'
  BY <1>2, StoppersAssumption DEF StopDrains, StopperOnly, StopMessageIsLast, StopProgress,
     Session, Stopping, InStop, DoneIsFinished, EveryMessageAccounted
<1>7. StopMessageIsLast'
  BY <1>2, StoppersAssumption DEF StopMessageIsLast, StopProgress, StopperOnly, Session, InStop,
     EveryMessageAccounted, DoneIsFinished
<1> QED BY <1>3, <1>4, <1>5, <1>6, <1>7

\* It clears m_running and detaches its own thread.
LEMMA SelfStopDetachKeeps ==
    ASSUME IInv, SelfStopDetach
    PROVE  IInv'
<1> USE DEF IInv, TypeOK, SelfStopDetach, flags, history
<1>1. m_queue \in Seq(Nat)
  OBVIOUS
<1>2. /\ m_queue' = m_queue /\ Queued' = Queued /\ Len(m_queue) \in Nat
      /\ (m_queue = <<>> <=> Queued = {}) /\ Queued \subseteq Nat
  BY <1>1, SeqFacts, QueuedFacts, QueuedStays
<1>3. TypeOK'
  BY <1>1, <1>2 DEF WorkerPcs
<1>4. FifoOrder' /\ EveryMessageAccounted' /\ DoneIsFinished'
  BY <1>2 DEF FifoOrder, EveryMessageAccounted, DoneIsFinished
<1>5. NoLostWaiter'
  BY <1>2, StoppersAssumption DEF NoLostWaiter, LoopServesQueue, StopMessageIsLast, StopProgress,
     Session, StopperOnly, InStop
<1>6. StopDrains' /\ StopperOnly' /\ StopProgress' /\ Session'
  BY <1>2, StoppersAssumption DEF StopDrains, StopperOnly, StopMessageIsLast, StopProgress,
     Session, Stopping, InStop, DoneIsFinished, EveryMessageAccounted
<1>7. StopMessageIsLast'
  BY <1>2, StoppersAssumption DEF StopMessageIsLast, StopProgress, StopperOnly, Session, InStop,
     EveryMessageAccounted, DoneIsFinished
<1> QED BY <1>3, <1>4, <1>5, <1>6, <1>7

\* It skips what is queued.
LEMMA SelfStopClearKeeps ==
    ASSUME IInv, SelfStopClear
    PROVE  IInv'
<1> USE DEF IInv, TypeOK, SelfStopClear, DoClear, SetDone, flags, history
<1>1. m_queue \in Seq(Nat)
  OBVIOUS
<1>2. /\ m_queue' = <<>> /\ m_queue' \in Seq(Nat) /\ Len(m_queue') = 0 /\ Queued' = {}
      /\ Queued \subseteq Nat /\ (m_queue = <<>> <=> Queued = {})
  BY <1>1, SeqFacts, QueuedFacts, QueuedStays
<1>3. TypeOK'
  BY <1>1, <1>2 DEF WorkerPcs
<1>4. FifoOrder' /\ EveryMessageAccounted' /\ DoneIsFinished'
  BY <1>2 DEF FifoOrder, EveryMessageAccounted, DoneIsFinished
<1>5. NoLostWaiter'
  BY <1>2, StoppersAssumption DEF NoLostWaiter, LoopServesQueue, StopMessageIsLast, StopProgress,
     Session, StopperOnly, InStop
<1>6. StopDrains' /\ StopperOnly' /\ StopProgress' /\ Session'
  BY <1>2, StoppersAssumption DEF StopDrains, StopperOnly, StopMessageIsLast, StopProgress,
     Session, Stopping, InStop, DoneIsFinished, EveryMessageAccounted
<1>7. StopMessageIsLast'
  BY <1>2, StoppersAssumption DEF StopMessageIsLast, StopProgress, StopperOnly, Session, InStop,
     EveryMessageAccounted, DoneIsFinished
<1> QED BY <1>3, <1>4, <1>5, <1>6, <1>7

\* The strengthened invariant holds initially and every step keeps it.
THEOREM Invariance == Spec => []IInv
<1>1. Init => IInv
  <2> SUFFICES ASSUME Init PROVE IInv OBVIOUS
  <2> USE DEF Init
  <2>1. Queued = {} /\ m_queue \in Seq(Nat) /\ Len(m_queue) = 0
    <3>1. m_queue = <<>> /\ m_queue \in Seq(Nat) OBVIOUS
    <3> QED BY <3>1, SeqFacts, QueuedFacts
  <2>2. TypeOK
    <3>1. pc \in [Threads -> Pcs] /\ waitFor \in [Threads -> Nat] BY DEF Pcs
    <3>2. \A t \in Threads : waitFor[t] = 0 /\ pc[t] = "idle" OBVIOUS
    <3>3. nextId \in Nat \ {0} /\ workerPc \in WorkerPcs BY DEF WorkerPcs
    <3> QED BY <2>1, <3>1, <3>2, <3>3 DEF TypeOK
  <2>3. FifoOrder /\ EveryMessageAccounted /\ NoLostWaiter /\ StopDrains
    BY <2>1 DEF FifoOrder, EveryMessageAccounted, NoLostWaiter, StopDrains
  <2>4. StopperOnly /\ StopMessageIsLast /\ StopProgress /\ Session /\ DoneIsFinished
    BY <2>1 DEF StopperOnly, StopMessageIsLast, StopProgress, Session, DoneIsFinished, InStop
  <2> QED BY <2>2, <2>3, <2>4 DEF IInv
<1>2. IInv /\ [Next]_vars => IInv'
  <2> SUFFICES ASSUME IInv, [Next]_vars PROVE IInv' OBVIOUS
  <2>1. CASE Start BY <2>1, StartKeeps
  <2>2. CASE ProcessMessages
    BY <2>2, WaitForMessageKeeps, HandlerScheduleKeeps, HandleMessageKeeps, LoopCheckKeeps,
       SelfStopKeeps, SelfStopDetachKeeps, SelfStopClearKeeps DEF ProcessMessages
  <2>3. ASSUME NEW t \in Threads,
               \/ Schedule(t) \/ CallInEventLoop(t) \/ CallReturn(t)
               \/ Clear(t) \/ StopCall(t) \/ DoStop(t)
        PROVE  IInv'
    BY <2>3, ScheduleKeeps, CallInEventLoopKeeps, CallReturnKeeps, ClearKeeps, StopCallKeeps,
       StopPostKeeps, StopDoneKeeps, JoinKeeps, StopClearKeeps DEF DoStop
  <2>4. CASE UNCHANGED vars
    BY <2>4 DEF vars, IInv, TypeOK, FifoOrder, EveryMessageAccounted, NoLostWaiter,
       LoopServesQueue, StopDrains, StopperOnly, StopMessageIsLast, StopProgress, Session,
       Stopping, DoneIsFinished, Queued
  <2> QED BY <2>1, <2>2, <2>3, <2>4 DEF Next
<1> QED BY <1>1, <1>2, PTL DEF Spec

\* The control state of the worker and of the callers always goes with what
\* they hold, for any number of threads.
THEOREM TypeCorrect == Spec => []TypeOK
<1>1. IInv => TypeOK BY DEF IInv
<1> QED BY <1>1, Invariance, PTL

\* Messages are handled in the order postMessage accepted them.
THEOREM KeepsOrder == Spec => []FifoOrder
<1>1. IInv => FifoOrder BY DEF IInv
<1> QED BY <1>1, Invariance, PTL

\* No accepted message is lost or handled twice.
THEOREM AccountsForMessages == Spec => []EveryMessageAccounted
<1>1. IInv => EveryMessageAccounted BY DEF IInv
<1> QED BY <1>1, Invariance, PTL

\* Nobody waits for a message that no worker is going to get to.
THEOREM ForgetsNobody == Spec => []NoLostWaiter
<1>1. IInv => NoLostWaiter BY DEF IInv
<1> QED BY <1>1, Invariance, PTL

\* doStop from another thread leaves nothing unhandled and no worker.
THEOREM DrainsBeforeStop == Spec => []StopDrains
<1>1. IInv => StopDrains BY DEF IInv
<1> QED BY <1>1, Invariance, PTL

\* What a step of the queue does to the abstract loop.
LEMMA StepSimulation ==
    ASSUME IInv, Next PROVE Loop!Next \/ UNCHANGED Loop!loopVars
<1> USE DEF IInv, TypeOK, Loop!loopVars, Accepting, flags, history
<1>1. CASE Start
  <2>1. m_queue = <<>> /\ current = 0 /\ ~Accepting /\ Accepting' = TRUE
    BY <1>1 DEF Start, Session
  <2>2. Loop!Open BY <1>1, <2>1 DEF Start, Loop!Open
  <2> QED BY <2>2 DEF Loop!Next
<1>2. CASE WaitForMessage
  <2>1. Loop!Begin BY <1>2 DEF WaitForMessage, Take, Loop!Begin
  <2> QED BY <2>1 DEF Loop!Next
<1>3. CASE HandlerSchedule
  <2>1. Loop!Accept
    BY <1>3 DEF HandlerSchedule, Post, Push, Loop!Accept, Loop!Enqueue
  <2> QED BY <2>1 DEF Loop!Next
<1>4. CASE HandleMessage
  <2>1. Accepting' = Accepting
    BY <1>4, NoStopPending DEF HandleMessage
  <2>2. Loop!End BY <1>4, <2>1 DEF HandleMessage, Loop!End
  <2> QED BY <2>2 DEF Loop!Next
<1>5. CASE LoopCheck BY <1>5 DEF LoopCheck
<1>6. CASE SelfStop
  <2>1. Accepting /\ Accepting' = FALSE
    BY <1>6, StoppersAssumption DEF SelfStop, StopAccepting, Session, StopperOnly, Stopping
  <2>2. Loop!Close BY <1>6, <2>1 DEF SelfStop, Loop!Close
  <2> QED BY <2>2 DEF Loop!Next
<1>7. CASE SelfStopDetach BY <1>7 DEF SelfStopDetach, Session
<1>8. CASE SelfStopClear
  <2>1. Loop!DropAll BY <1>8 DEF SelfStopClear, DoClear, Queued, Loop!DropAll
  <2> QED BY <2>1 DEF Loop!Next
<1>9. ASSUME NEW t \in Threads, Schedule(t) \/ CallInEventLoop(t) PROVE Loop!Next
  <2>1. Loop!Accept
    BY <1>9 DEF Schedule, CallInEventLoop, Post, Push, Loop!Accept, Loop!Enqueue
  <2> QED BY <2>1 DEF Loop!Next
<1>10. ASSUME NEW t \in Threads, CallReturn(t) \/ StopCall(t) \/ StopDone(t) \/ Join(t)
       PROVE  UNCHANGED Loop!loopVars
  BY <1>10 DEF CallReturn, StopCall, StopDone, Join
<1>11. ASSUME NEW t \in Threads, Clear(t) \/ StopClear(t) PROVE Loop!Next
  <2>1. Loop!DropAll BY <1>11 DEF Clear, StopClear, DoClear, Queued, Loop!DropAll
  <2> QED BY <2>1 DEF Loop!Next
<1>12. ASSUME NEW t \in Threads, StopPost(t) PROVE Loop!Next
  <2>1. Accepting /\ Accepting' = FALSE BY <1>12 DEF StopPost, StopAccepting, StopProgress
  <2>2. Loop!Close BY <1>12, <2>1 DEF StopPost, Push, Loop!Close, Loop!Enqueue
  <2> QED BY <2>2 DEF Loop!Next
<1> QED
  BY <1>1, <1>2, <1>3, <1>4, <1>5, <1>6, <1>7, <1>8, <1>9, <1>10, <1>11, <1>12
  DEF Next, ProcessMessages, DoStop

\* The queue implements the event loop its users rely on.
THEOREM Refinement == Spec => ImplementsEventLoop
<1>1. Init => Loop!Init BY DEF Init, Loop!Init, Accepting
<1>2. IInv /\ [Next]_vars => [Loop!Next]_(Loop!loopVars)
  <2>1. ASSUME UNCHANGED vars PROVE UNCHANGED Loop!loopVars
    BY <2>1 DEF vars, Loop!loopVars, Accepting
  <2> QED BY <2>1, StepSimulation
<1> QED BY <1>1, <1>2, Invariance, PTL DEF Spec, ImplementsEventLoop, Loop!Spec
=============================================================================

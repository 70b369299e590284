---------------------------- MODULE MessageQueue ----------------------------
(***************************************************************************)
(* The event loop every Rialto client is built on                          *)
(* (source/MessageQueue.cpp): a worker thread that takes messages from a   *)
(* deque, other threads that post messages or call a function in the loop  *)
(* and wait for it, and a stop that may come from another thread or from   *)
(* a function that the worker itself is running.                           *)
(*                                                                         *)
(* A message is the number of its acceptance (1, 2, ...).  The sections    *)
(* under m_mutex are single steps; what the code does between two of them  *)
(* (a flag read without the mutex, a wait, a join) is a step of its own.   *)
(***************************************************************************)
EXTENDS Naturals, Sequences, FiniteSets

CONSTANTS Threads,    \* threads other than the worker
          Worker,     \* the thread that runs processMessages
          Stoppers,   \* the thread that calls stop(), or the destructor
          MaxPosts,   \* bound on accepted ordinary messages
          MaxStarts   \* bound on calls of start()

\* A queue has one owner, and only the owner, or the loop itself when it
\* drops the last reference to the owner, stops it.
ASSUME StoppersAssumption ==
    /\ Worker \notin Threads
    /\ Stoppers \subseteq Threads \cup {Worker}
    /\ \A s, t \in Stoppers : s = t

ASSUME BoundsAssumption == MaxPosts \in Nat /\ MaxStarts \in Nat

VARIABLES
    m_running, m_acceptingMessages,
    m_queue,       \* the deque of messages
    joinable,      \* m_workerThread holds a thread
    workerPc,      \* where the worker is in processMessages
    current,       \* the message the worker handles, 0 when there is none
    m_done,        \* call messages whose m_done is set
    pc,            \* where every other thread is in an operation
    waitFor,       \* the message a thread waits on, 0 when it does not wait
    nextId, posts, starts,
    stopMsgs,      \* history: which messages were posted by doStop
    handled,       \* history: messages whose function has been run
    skipped        \* history: messages dropped by doClear

flags == <<m_running, m_acceptingMessages>>
history == <<stopMsgs, handled, skipped>>
vars == <<m_running, m_acceptingMessages, m_queue, joinable, workerPc, current,
          m_done, pc, waitFor, nextId, posts, starts, stopMsgs, handled, skipped>>

WorkerPcs == {"none", "wait", "handle", "selfStop", "selfClear", "loop", "ended"}
Pcs == {"idle", "callWait", "stopPost", "stopWait", "join", "stopClear"}
InStop == {"stopPost", "stopWait", "join", "stopClear"}

Queued == {m_queue[i] : i \in 1..Len(m_queue)}

Init ==
    /\ m_running = FALSE /\ m_acceptingMessages = FALSE
    /\ m_queue = <<>>
    /\ joinable = FALSE /\ workerPc = "none" /\ current = 0
    /\ m_done = {} /\ stopMsgs = {} /\ handled = {} /\ skipped = {}
    /\ pc = [t \in Threads |-> "idle"]
    /\ waitFor = [t \in Threads |-> 0]
    /\ nextId = 1 /\ posts = 0 /\ starts = 0

(***************************************************************************)
(* The parts of the operations.  Next to some of them stands what a slip   *)
(* in the code would make of them: these are the mutants of PROJECT.json,  *)
(* which show that the properties can fail.  No action uses them.          *)
(***************************************************************************)
\* m_done = true and notify_all(), in handle() and in skip().
SetDoneLost(ms) == m_done' = m_done
SetDone(ms) == m_done' = m_done \cup ms

\* The end of CallInEventLoopMessage::wait().
WaitEnds(t) == waitFor[t] \in m_done /\ waitFor' = [waitFor EXCEPT ![t] = 0]

PushFront == m_queue' = <<nextId>> \o m_queue /\ nextId' = nextId + 1
Push == m_queue' = Append(m_queue, nextId) /\ nextId' = nextId + 1

\* front() and pop_front().
TakeWithoutPop == current' = Head(m_queue) /\ UNCHANGED m_queue
Take == current' = Head(m_queue) /\ m_queue' = Tail(m_queue)

\* while (m_running).  A detached worker is gone when it leaves the loop.
LoopForever == "wait"
AfterMessage == IF m_running THEN "wait" ELSE IF joinable THEN "ended" ELSE "none"

StillAccepting == UNCHANGED m_acceptingMessages
StopAccepting == m_acceptingMessages' = FALSE

\* if (m_workerThread.joinable()) m_workerThread.join()
NeverJoin == "stopClear"
AfterStopMessage == IF joinable THEN "join" ELSE "stopClear"

(***************************************************************************)
(* start().  A queue whose worker has not left processMessages is never    *)
(* started again: the constructors of its owners start it once.            *)
(***************************************************************************)
Start ==
    /\ ~m_running
    /\ workerPc = "none" /\ \A t \in Threads : pc[t] \notin InStop
    /\ starts < MaxStarts /\ starts' = starts + 1
    /\ m_running' = TRUE /\ m_acceptingMessages' = TRUE
    /\ joinable' = TRUE /\ workerPc' = "wait"
    /\ UNCHANGED <<m_queue, current, m_done, pc, waitFor, nextId, posts, history>>

(***************************************************************************)
(* postMessage(), under m_mutex: pushed at the back, or refused.           *)
(***************************************************************************)
Accepting == m_running /\ m_acceptingMessages

Post ==
    /\ Accepting
    /\ posts < MaxPosts /\ posts' = posts + 1
    /\ Push

\* scheduleInEventLoop, or postMessage itself: nobody waits.  A refused
\* post changes nothing.
Schedule(t) ==
    /\ pc[t] = "idle"
    /\ Post
    /\ UNCHANGED <<flags, joinable, workerPc, current, m_done, pc, waitFor, starts, history>>

\* callInEventLoop from another thread: post, then wait for m_done.
CallInEventLoop(t) ==
    /\ pc[t] = "idle"
    /\ Post
    /\ pc' = [pc EXCEPT ![t] = "callWait"]
    /\ waitFor' = [waitFor EXCEPT ![t] = nextId]
    /\ UNCHANGED <<flags, joinable, workerPc, current, m_done, starts, history>>

CallReturn(t) ==
    /\ pc[t] = "callWait" /\ WaitEnds(t)
    /\ pc' = [pc EXCEPT ![t] = "idle"]
    /\ UNCHANGED <<flags, m_queue, joinable, workerPc, current, m_done, nextId, posts, starts,
                   history>>

(***************************************************************************)
(* processMessages() and the functions it runs.                            *)
(***************************************************************************)
\* Mutant: one wait() instead of the loop around it; front() of an empty
\* queue is no message.
WaitForWakeUp ==
    /\ workerPc = "wait" /\ workerPc' = "handle"
    /\ IF m_queue = <<>> THEN current' = 0 /\ UNCHANGED m_queue ELSE Take
    /\ UNCHANGED <<flags, joinable, m_done, pc, waitFor, nextId, posts, starts, history>>

WaitForMessage ==
    /\ workerPc = "wait" /\ m_queue # <<>>
    /\ Take
    /\ workerPc' = "handle"
    /\ UNCHANGED <<flags, joinable, m_done, pc, waitFor, nextId, posts, starts, history>>

\* A function run by the worker schedules another message.
HandlerSchedule ==
    /\ workerPc = "handle" /\ current \notin stopMsgs
    /\ Post
    /\ UNCHANGED <<flags, joinable, workerPc, current, m_done, pc, waitFor, starts, history>>

\* handle() returns: the function has run and m_done is set.  The function
\* of doStop's message clears m_running.
HandleMessage ==
    /\ workerPc = "handle"
    /\ m_running' = (m_running /\ current \notin stopMsgs)
    /\ SetDone({current})
    /\ handled' = handled \cup {current}
    /\ current' = 0
    /\ workerPc' = "loop"
    /\ UNCHANGED <<m_acceptingMessages, m_queue, joinable, pc, waitFor, nextId, posts, starts,
                   stopMsgs, skipped>>

LoopCheck ==
    /\ workerPc = "loop" /\ workerPc' = AfterMessage
    /\ UNCHANGED <<flags, m_queue, joinable, current, m_done, pc, waitFor, nextId, posts, starts,
                   history>>

(***************************************************************************)
(* doClear(), under m_mutex: every message is skipped, its caller woken.   *)
(***************************************************************************)
DoClear ==
    /\ m_queue' = <<>>
    /\ SetDone(Queued)
    /\ skipped' = skipped \cup Queued

\* clear(), called by the thread that owns the queue.
Clear(t) ==
    /\ t \in Stoppers /\ pc[t] = "idle"
    /\ DoClear
    /\ UNCHANGED <<flags, joinable, workerPc, current, pc, waitFor, nextId, posts, starts,
                   stopMsgs, handled>>

(***************************************************************************)
(* doStop() in a thread other than the worker.  m_running is read before   *)
(* m_mutex is taken; a queue that does not run is left alone.              *)
(***************************************************************************)
StopCall(t) ==
    /\ t \in Stoppers /\ pc[t] = "idle"
    /\ m_running
    /\ pc' = [pc EXCEPT ![t] = "stopPost"]
    /\ UNCHANGED <<flags, m_queue, joinable, workerPc, current, m_done, waitFor, nextId, posts,
                   starts, history>>

StopPost(t) ==
    /\ pc[t] = "stopPost"
    /\ StopAccepting
    /\ Push
    /\ stopMsgs' = stopMsgs \cup {nextId}
    /\ pc' = [pc EXCEPT ![t] = "stopWait"]
    /\ waitFor' = [waitFor EXCEPT ![t] = nextId]
    /\ UNCHANGED <<m_running, joinable, workerPc, current, m_done, posts, starts, handled, skipped>>

StopDone(t) ==
    /\ pc[t] = "stopWait" /\ WaitEnds(t)
    /\ pc' = [pc EXCEPT ![t] = AfterStopMessage]
    /\ UNCHANGED <<flags, m_queue, joinable, workerPc, current, m_done, nextId, posts, starts,
                   history>>

Join(t) ==
    /\ pc[t] = "join" /\ workerPc = "ended"
    /\ workerPc' = "none" /\ joinable' = FALSE
    /\ pc' = [pc EXCEPT ![t] = "stopClear"]
    /\ UNCHANGED <<flags, m_queue, current, m_done, waitFor, nextId, posts, starts, history>>

StopClear(t) ==
    /\ pc[t] = "stopClear"
    /\ DoClear
    /\ pc' = [pc EXCEPT ![t] = "idle"]
    /\ UNCHANGED <<flags, joinable, workerPc, current, waitFor, nextId, posts, starts, stopMsgs,
                   handled>>

(***************************************************************************)
(* doStop() in a function the worker runs: the two flags are written       *)
(* without m_mutex, the thread is detached, and the queue is cleared.      *)
(***************************************************************************)
SelfStop ==
    /\ Worker \in Stoppers
    /\ workerPc = "handle" /\ m_running /\ joinable
    /\ StopAccepting
    /\ workerPc' = "selfStop"
    /\ UNCHANGED <<m_running, m_queue, joinable, current, m_done, pc, waitFor, nextId, posts,
                   starts, history>>

SelfStopDetach ==
    /\ workerPc = "selfStop"
    /\ m_running' = FALSE /\ joinable' = FALSE
    /\ workerPc' = "selfClear"
    /\ UNCHANGED <<m_acceptingMessages, m_queue, current, m_done, pc, waitFor, nextId, posts,
                   starts, history>>

SelfStopClear ==
    /\ workerPc = "selfClear"
    /\ DoClear
    /\ workerPc' = "handle"
    /\ UNCHANGED <<flags, joinable, current, pc, waitFor, nextId, posts, starts, stopMsgs, handled>>

ProcessMessages == \/ WaitForMessage \/ HandlerSchedule \/ HandleMessage \/ LoopCheck
                   \/ SelfStop \/ SelfStopDetach \/ SelfStopClear

DoStop(t) == StopPost(t) \/ StopDone(t) \/ Join(t) \/ StopClear(t)

Next ==
    \/ Start
    \/ ProcessMessages
    \/ \E t \in Threads :
        \/ Schedule(t) \/ CallInEventLoop(t) \/ CallReturn(t)
        \/ Clear(t) \/ StopCall(t) \/ DoStop(t)

\* A thread that can run does run; a function run by the worker returns.
Fairness ==
    /\ WF_vars(WaitForMessage) /\ WF_vars(HandleMessage) /\ WF_vars(LoopCheck)
    /\ WF_vars(SelfStopDetach) /\ WF_vars(SelfStopClear)
    /\ \A t \in Threads : WF_vars(CallReturn(t)) /\ WF_vars(DoStop(t))

Spec == Init /\ [][Next]_vars /\ Fairness

-----------------------------------------------------------------------------
(***************************************************************************)
(* Properties                                                              *)
(***************************************************************************)

\* Types, and how the control state of the worker and of the callers goes
\* with what they hold: the worker holds a message exactly while it handles
\* one, a thread waits on a message exactly in the two waits, and
\* m_workerThread refers to a thread that has not been joined.
TypeOK ==
    /\ m_running \in BOOLEAN /\ m_acceptingMessages \in BOOLEAN /\ joinable \in BOOLEAN
    /\ m_queue \in Seq(Nat) /\ current \in Nat
    /\ workerPc \in WorkerPcs
    /\ m_done \subseteq Nat /\ stopMsgs \subseteq Nat /\ handled \subseteq Nat
    /\ skipped \subseteq Nat
    /\ pc \in [Threads -> Pcs]
    /\ waitFor \in [Threads -> Nat]
    /\ nextId \in Nat \ {0} /\ posts \in Nat /\ starts \in Nat
    /\ current # 0 <=> workerPc \in {"handle", "selfStop", "selfClear"}
    /\ \A t \in Threads : waitFor[t] # 0 <=> pc[t] \in {"callWait", "stopWait"}
    /\ joinable => workerPc # "none"
    /\ workerPc \in {"wait", "ended"} => joinable

\* Messages are taken in the order postMessage accepted them: whatever has
\* been handled, or is being handled, was accepted before everything that
\* is still queued, whichever threads posted and whenever the loop stopped.
FifoOrder ==
    /\ \A i, j \in 1..Len(m_queue) : i < j => m_queue[i] < m_queue[j]
    /\ \A i \in 1..Len(m_queue) :
        /\ current < m_queue[i]
        /\ \A m \in handled \cup skipped : m < m_queue[i]

\* No message accepted by postMessage is lost or handled twice: each is in
\* exactly one of the queue, the worker's hands, the handled ones and the
\* ones doClear skipped.
EveryMessageAccounted ==
    /\ 1..(nextId - 1) = Queued \cup handled \cup skipped \cup ({current} \ {0})
    /\ handled \cap skipped = {}
    /\ Queued \cap (handled \cup skipped) = {}
    /\ current \notin Queued \cup handled \cup skipped

\* The worker will take or clear the messages that are queued now.
LoopServesQueue ==
    \/ workerPc \in {"wait", "selfStop", "selfClear"}
    \/ workerPc \in {"handle", "loop"} /\ m_running /\ current \notin stopMsgs

\* A caller that waits in callInEventLoop, or in doStop, is never forgotten:
\* its m_done is set, or its message is queued or being handled; and a
\* queued message always has a worker that is going to get to it, whoever
\* stops the loop and however the stop interleaves with the posts.
NoLostWaiter ==
    /\ \A t \in Threads : waitFor[t] # 0 => waitFor[t] \in m_done \cup Queued \cup {current}
    /\ m_queue # <<>> => LoopServesQueue

\* doStop from another thread runs everything that was accepted before it:
\* when it reaches doClear there is nothing left to skip, and the worker
\* has left processMessages.
StopDrains ==
    \A t \in Threads : pc[t] = "stopClear" =>
        /\ m_queue = <<>>
        /\ current = 0 /\ workerPc = "none" /\ ~m_running

\* Everybody who waits in callInEventLoop gets an answer: the function was
\* run, or its message was skipped by the doClear of a stop.
CallersReleased == \A t \in Threads : pc[t] = "callWait" ~> pc[t] = "idle"

\* doStop returns, also when messages were queued ahead of its own.
StopTerminates == \A t \in Threads : pc[t] \in InStop ~> pc[t] = "idle"

\* The queue is an event loop as its users understand it.
Loop == INSTANCE EventLoop WITH
            open <- Accepting, next <- nextId, pending <- m_queue,
            busy <- current, executed <- handled, dropped <- skipped

\* Every step of the queue, its worker and its callers is a step of the
\* abstract loop or changes nothing of it.
ImplementsEventLoop == Loop!Spec
=============================================================================

-------------------------- MODULE MediaPlayerManager --------------------------
(***************************************************************************)
(* source/MediaPlayerManager.cpp: every sink has a manager, and the        *)
(* managers of the sinks below one GstBin share one media player client.   *)
(* The clients are kept, with the number of managers that use each of them *)
(* and the one that controls it, in a map that all managers share under    *)
(* one mutex.                                                              *)
(*                                                                         *)
(* Per manager there is the thread that changes the state of its sink      *)
(* (attach and release) and a thread that asks hasControl().  What they    *)
(* read before they take the mutex is a step of its own, and so is every   *)
(* blocking call made while the mutex is held.                             *)
(***************************************************************************)
EXTENDS Naturals, FiniteSets

CONSTANTS Managers, Parents,
          Null,         \* nullptr, and an empty weak pointer
          MaxClients    \* bound on created clients

ASSUME ManagerAssumption ==
    Null \notin Managers \cup Parents \cup Nat /\ MaxClients \in Nat /\ IsFiniteSet(Managers)

VARIABLES
    m_client, m_currentGstBinParent,   \* of every manager
    m_mediaPlayerClientsInfo,          \* the shared map, by parent
    mutex,          \* who holds m_mediaPlayerClientsMutex
    pc, target,     \* the state-changing thread: where it is, the parent it attaches to
    query,          \* the thread that asks hasControl(): where it is
    created,        \* clients made so far; a client is its number
    phase           \* of every client: "running", "stopping", "stopped" or "destroyed"

own == <<m_client, m_currentGstBinParent>>
vars == <<own, m_mediaPlayerClientsInfo, mutex, pc, target, query, created, phase>>

Listed == DOMAIN m_mediaPlayerClientsInfo

\* m_client.lock(): the client lives as long as the map refers to it.
Alive(c) == c # Null /\ \E p \in Listed : m_mediaPlayerClientsInfo[p].client = c

Init ==
    /\ m_client = [m \in Managers |-> Null]
    /\ m_currentGstBinParent = [m \in Managers |-> Null]
    /\ m_mediaPlayerClientsInfo = [p \in {} |-> Null]
    /\ mutex = Null
    /\ pc = [m \in Managers |-> "idle"]
    /\ target = [m \in Managers |-> Null]
    /\ query = [m \in Managers |-> "idle"]
    /\ created = 0 /\ phase = [c \in 1..MaxClients |-> "running"]

Free == mutex = Null

Goto(m, from, to) == pc[m] = from /\ pc' = [pc EXCEPT ![m] = to]

\* attachMediaPlayerClient returns.
Returned(m) == target' = [target EXCEPT ![m] = Null]

SetOwn(m, c, p) ==
    /\ m_client' = [m_client EXCEPT ![m] = c]
    /\ m_currentGstBinParent' = [m_currentGstBinParent EXCEPT ![m] = p]

(***************************************************************************)
(* attachMediaPlayerClient(gstBinParent)                                   *)
(***************************************************************************)
\* The first section: a live client of another parent is released first,
\* one of this parent is kept (nothing changes).
Attach(m, p) ==
    /\ Free
    /\ \/ ~Alive(m_client[m]) /\ Goto(m, "idle", "create")
       \/ Alive(m_client[m]) /\ p # m_currentGstBinParent[m] /\ Goto(m, "idle", "release")
    /\ target' = [target EXCEPT ![m] = p]
    /\ UNCHANGED <<own, m_mediaPlayerClientsInfo, mutex, query, created, phase>>

\* A new user counted twice, or not at all (mutants).
CountedTwice(info) == info.refCount + 2
NotCounted(info) == info.refCount
Counted(info) == info.refCount + 1

\* createMediaPlayerClient() for a parent that has a client.
JoinClient(m) ==
    LET p == target[m] IN
    /\ Free /\ Goto(m, "create", "idle") /\ p \in Listed
    /\ m_mediaPlayerClientsInfo' =
            [m_mediaPlayerClientsInfo EXCEPT ![p].refCount = Counted(m_mediaPlayerClientsInfo[p])]
    /\ SetOwn(m, m_mediaPlayerClientsInfo[p].client, p)
    /\ Returned(m)
    /\ UNCHANGED <<mutex, query, created, phase>>

\* createMediaPlayerClient() for a new parent.
CreateClient(m) ==
    LET p == target[m] IN
    /\ Free /\ Goto(m, "create", "idle") /\ p \notin Listed
    /\ created < MaxClients /\ created' = created + 1
    /\ m_mediaPlayerClientsInfo' = [q \in Listed \cup {p} |->
            IF q = p THEN [client |-> created + 1, controller |-> m, refCount |-> 1]
            ELSE m_mediaPlayerClientsInfo[q]]
    /\ SetOwn(m, created + 1, p)
    /\ Returned(m)
    /\ UNCHANGED <<mutex, query, phase>>

\* createBackend() fails: the client is gone again, nothing is stored.
CreateFails(m) ==
    /\ Free /\ Goto(m, "create", "idle") /\ target[m] \notin Listed
    /\ Returned(m)
    /\ UNCHANGED <<own, m_mediaPlayerClientsInfo, mutex, query, created, phase>>

(***************************************************************************)
(* releaseMediaPlayerClient(), called by READY -> NULL, by the destructor, *)
(* or by attach for a manager that moves to another parent.                *)
(***************************************************************************)
Release(m) ==
    /\ Goto(m, "idle", "release") /\ Alive(m_client[m])
    /\ UNCHANGED <<own, m_mediaPlayerClientsInfo, mutex, target, query, created, phase>>

AfterRelease(m) == IF target[m] = Null THEN "idle" ELSE "create"

\* controller = nullptr when this manager had the control; and a release
\* that forgets it (mutant).
KeepController(m, info) == info.controller
LeaveController(m, info) == IF info.controller = m THEN Null ELSE info.controller

\* Others still use the client.
ReleaseShared(m) ==
    LET p == m_currentGstBinParent[m] IN
    /\ Free /\ p \in Listed /\ m_mediaPlayerClientsInfo[p].refCount # 1
    /\ Goto(m, "release", AfterRelease(m))
    /\ m_mediaPlayerClientsInfo' = [m_mediaPlayerClientsInfo EXCEPT
            ![p].refCount = @ - 1,
            ![p].controller = LeaveController(m, m_mediaPlayerClientsInfo[p])]
    /\ SetOwn(m, Null, Null)
    /\ UNCHANGED <<mutex, target, query, created, phase>>

\* The last user stops the client; the mutex is held until it is gone.
ReleaseLast(m) ==
    LET p == m_currentGstBinParent[m] IN
    /\ Free /\ p \in Listed /\ m_mediaPlayerClientsInfo[p].refCount = 1
    /\ Goto(m, "release", "stop") /\ mutex' = m
    /\ m_mediaPlayerClientsInfo' = [m_mediaPlayerClientsInfo EXCEPT ![p].refCount = 0]
    /\ phase' = [phase EXCEPT ![m_mediaPlayerClientsInfo[p].client] = "stopping"]
    /\ UNCHANGED <<own, target, query, created>>

\* client->stop() and stopStreaming() return.
StopReturns(m) ==
    /\ Goto(m, "stop", "destroy")
    /\ phase' = [phase EXCEPT ![m_client[m]] = "stopped"]
    /\ UNCHANGED <<own, m_mediaPlayerClientsInfo, mutex, target, query, created>>

\* The mutex is kept for ever (mutant).
KeepMutex == UNCHANGED mutex
Unlock == mutex' = Null

\* destroyClientBackend(), the entry is erased, the mutex is released.
DestroyClient(m) ==
    /\ Goto(m, "destroy", AfterRelease(m))
    /\ phase' = [phase EXCEPT ![m_client[m]] = "destroyed"]
    /\ m_mediaPlayerClientsInfo' =
            [p \in Listed \ {m_currentGstBinParent[m]} |-> m_mediaPlayerClientsInfo[p]]
    /\ SetOwn(m, Null, Null)
    /\ Unlock
    /\ UNCHANGED <<target, query, created>>

(***************************************************************************)
(* hasControl(): m_client is read without the mutex.                       *)
(***************************************************************************)
HasControlCall(m) ==
    /\ query[m] = "idle" /\ Alive(m_client[m])
    /\ query' = [query EXCEPT ![m] = "locking"]
    /\ UNCHANGED <<own, m_mediaPlayerClientsInfo, mutex, pc, target, created, phase>>

AcquireControl(m, info) == IF info.controller = Null THEN [info EXCEPT !.controller = m] ELSE info

\* By now this manager may have let the client go.
HasControl(m) ==
    LET p == m_currentGstBinParent[m] IN
    /\ query[m] = "locking" /\ Free
    /\ query' = [query EXCEPT ![m] = "idle"]
    /\ m_mediaPlayerClientsInfo' =
            [q \in Listed |-> IF q = p THEN AcquireControl(m, m_mediaPlayerClientsInfo[q])
                              ELSE m_mediaPlayerClientsInfo[q]]
    /\ UNCHANGED <<own, mutex, pc, target, created, phase>>

Continue(m) == \/ JoinClient(m) \/ CreateClient(m) \/ CreateFails(m) \/ ReleaseShared(m)
               \/ ReleaseLast(m) \/ StopReturns(m) \/ DestroyClient(m)

Next == \E m \in Managers :
    \/ \E p \in Parents : Attach(m, p)
    \/ Release(m) \/ Continue(m)
    \/ HasControlCall(m) \/ HasControl(m)

\* A thread that can take the mutex does, and the client's stop returns
\* (MessageQueue's StopTerminates).
Fairness == \A m \in Managers : WF_vars(Continue(m)) /\ WF_vars(HasControl(m))

Spec == Init /\ [][Next]_vars /\ Fairness

-----------------------------------------------------------------------------
(***************************************************************************)
(* Properties                                                              *)
(***************************************************************************)
InfoType == [client : 1..MaxClients, controller : Managers \cup {Null}, refCount : Nat]

\* Types; a manager has a client exactly when it has a parent, and the
\* mutex stays locked between two steps only while a client is shut down.
TypeOK ==
    /\ m_client \in [Managers -> (1..MaxClients) \cup {Null}]
    /\ m_currentGstBinParent \in [Managers -> Parents \cup {Null}]
    /\ Listed \subseteq Parents /\ m_mediaPlayerClientsInfo \in [Listed -> InfoType]
    /\ mutex \in Managers \cup {Null}
    /\ pc \in [Managers -> {"idle", "create", "release", "stop", "destroy"}]
    /\ target \in [Managers -> Parents \cup {Null}]
    /\ query \in [Managers -> {"idle", "locking"}]
    /\ created \in 0..MaxClients
    /\ phase \in [1..MaxClients -> {"running", "stopping", "stopped", "destroyed"}]
    /\ \A m \in Managers : /\ m_client[m] = Null <=> m_currentGstBinParent[m] = Null
                           /\ mutex = m <=> pc[m] \in {"stop", "destroy"}

Users(p) == {m \in Managers : m_currentGstBinParent[m] = p}

\* The manager that is about to stop the client it is the last user of.
LastUser(p) == {m \in Users(p) : pc[m] \in {"stop", "destroy"}}

\* refCount is the number of managers that use the client, whatever the
\* order in which sinks attach, move to another parent and let go.
RefCountExact == \A p \in Listed :
    m_mediaPlayerClientsInfo[p].refCount + Cardinality(LastUser(p)) = Cardinality(Users(p))

\* Everybody who is attached to a parent uses the one client listed for it,
\* and no two parents share a client.
OneClientPerParent ==
    /\ \A m \in Managers : m_currentGstBinParent[m] # Null =>
        /\ m_currentGstBinParent[m] \in Listed
        /\ m_client[m] = m_mediaPlayerClientsInfo[m_currentGstBinParent[m]].client
    /\ \A p, q \in Listed :
        m_mediaPlayerClientsInfo[p].client = m_mediaPlayerClientsInfo[q].client => p = q

\* The controller of a client is one of the managers attached to it: the
\* control never stays with a sink that has gone.
ControllerIsUser == \A p \in Listed :
    m_mediaPlayerClientsInfo[p].controller \in Users(p) \cup {Null}

\* A client is stopped only when nobody else is attached to it, and it is
\* never offered to another manager afterwards.
StoppedIsUnused == \A m \in Managers :
    m_client[m] # Null /\ phase[m_client[m]] # "running" => pc[m] \in {"stop", "destroy"} /\ mutex = m

\* Nobody keeps waiting for the mutex.
OperationsReturn == \A m \in Managers : pc[m] # "idle" ~> pc[m] = "idle"
=============================================================================

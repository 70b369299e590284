----------------------- MODULE MediaPlayerManagerProofs -----------------------
(***************************************************************************)
(* The invariants of MediaPlayerManager for any number of managers, bins   *)
(* and clients.                                                            *)
(***************************************************************************)
EXTENDS MediaPlayerManager, FiniteSetTheorems, TLAPS

\* Where a manager's thread is goes with what the manager has: it creates
\* only without a client, and it releases only the client it has.
ThreadsAgree == \A m \in Managers :
    /\ pc[m] = "create" => target[m] \in Parents /\ m_client[m] = Null
    /\ pc[m] = "idle" => target[m] = Null
    /\ pc[m] \in {"release", "stop", "destroy"} => m_client[m] # Null

\* A client that is listed has been created, and it runs unless the one who
\* holds the mutex is shutting it down; clients to come are untouched.
ListedRuns ==
    /\ \A p \in Listed : /\ m_mediaPlayerClientsInfo[p].client \in 1..created
                         /\ phase[m_mediaPlayerClientsInfo[p].client] # "running" =>
                                mutex # Null /\ m_currentGstBinParent[mutex] = p
    /\ \A c \in (created + 1)..MaxClients : phase[c] = "running"

\* The manager that shuts a client down is the only one that uses it, and
\* the mutex keeps everybody else out until the entry is gone.
Alone == \A m \in Managers :
    pc[m] \in {"stop", "destroy"} => Users(m_currentGstBinParent[m]) = {m}

IInv ==
    /\ TypeOK /\ RefCountExact /\ OneClientPerParent /\ ControllerIsUser /\ StoppedIsUnused
    /\ ThreadsAgree /\ ListedRuns /\ Alone

\* A manager that has a client has a live one, listed for its parent.
LEMMA AliveFacts ==
    ASSUME IInv, NEW m \in Managers
    PROVE  /\ Alive(m_client[m]) <=> m_client[m] # Null
           /\ m_currentGstBinParent[m] # Null => m_currentGstBinParent[m] \in Listed
           /\ m_client[m] # Null =>
                /\ m_currentGstBinParent[m] \in Listed
                /\ m_client[m] = m_mediaPlayerClientsInfo[m_currentGstBinParent[m]].client
BY DEF IInv, TypeOK, OneClientPerParent, Alive

\* What a record of the shared map holds.
LEMMA InfoFacts ==
    ASSUME TypeOK, NEW p \in Listed
    PROVE  /\ p \in Parents /\ p # Null
           /\ m_mediaPlayerClientsInfo[p] \in InfoType
           /\ m_mediaPlayerClientsInfo[p].client \in 1..MaxClients
           /\ m_mediaPlayerClientsInfo[p].client # Null
           /\ m_mediaPlayerClientsInfo[p].controller \in Managers \cup {Null}
           /\ m_mediaPlayerClientsInfo[p].refCount \in Nat
BY ManagerAssumption DEF TypeOK, InfoType

\* The users of a client are finitely many.
LEMMA UsersFinite ==
    ASSUME NEW p
    PROVE  /\ IsFiniteSet(Users(p)) /\ IsFiniteSet(LastUser(p))
           /\ Cardinality(Users(p)) \in Nat /\ Cardinality(LastUser(p)) \in Nat
<1>1. Users(p) \subseteq Managers /\ LastUser(p) \subseteq Managers BY DEF Users, LastUser
<1>2. IsFiniteSet(Users(p)) /\ IsFiniteSet(LastUser(p))
  BY <1>1, FS_Subset, ManagerAssumption
<1> QED BY <1>2, FS_CardinalityType

\* While the mutex is free nobody is shutting a client down.
LEMMA NobodyStops ==
    ASSUME IInv, Free
    PROVE  /\ \A p : LastUser(p) = {}
           /\ \A p \in Listed :
                m_mediaPlayerClientsInfo[p].refCount = Cardinality(Users(p))
           /\ \A m \in Managers : pc[m] \notin {"stop", "destroy"}
<1>1. \A m \in Managers : pc[m] \notin {"stop", "destroy"}
  BY ManagerAssumption DEF IInv, TypeOK, Free
<1>2. \A p : LastUser(p) = {} BY <1>1 DEF LastUser, Users
<1>3. ASSUME NEW p \in Listed
      PROVE  m_mediaPlayerClientsInfo[p].refCount = Cardinality(Users(p))
  <2>1. m_mediaPlayerClientsInfo[p].refCount + Cardinality(LastUser(p)) = Cardinality(Users(p))
    BY DEF IInv, RefCountExact
  <2>2. Cardinality(LastUser(p)) = 0 BY <1>2, FS_EmptySet
  <2> QED BY <2>1, <2>2, InfoFacts DEF IInv
<1> QED BY <1>1, <1>2, <1>3

LEMMA InitIInv == Init => IInv
<1> SUFFICES ASSUME Init PROVE IInv OBVIOUS
<1> USE ManagerAssumption DEF Init
<1>1. Listed = {} BY DEF Listed
<1>2. TypeOK BY <1>1 DEF TypeOK
<1>3. RefCountExact /\ OneClientPerParent /\ ControllerIsUser /\ StoppedIsUnused
  BY <1>1 DEF RefCountExact, OneClientPerParent, ControllerIsUser, StoppedIsUnused
<1>4. ThreadsAgree /\ ListedRuns /\ Alone BY <1>1 DEF ThreadsAgree, ListedRuns, Alone
<1> QED BY <1>2, <1>3, <1>4 DEF IInv

\* A step that moves a thread and nothing that is shared, to a place that
\* goes with what its manager has.
LEMMA ThreadMoves ==
    ASSUME IInv, NEW m \in Managers, pc[m] \notin {"stop", "destroy"},
           UNCHANGED <<own, m_mediaPlayerClientsInfo, mutex, created, phase>>,
           \/ UNCHANGED pc
           \/ \E l \in {"idle", "create", "release"} : pc' = [pc EXCEPT ![m] = l],
           target' \in [Managers -> Parents \cup {Null}],
           query' \in [Managers -> {"idle", "locking"}],
           ThreadsAgree'
    PROVE  IInv'
<1> DEFINE SameStops ==
             \A n \in Managers : pc'[n] \in {"stop", "destroy"} <=> pc[n] \in {"stop", "destroy"}
           PcType == {"idle", "create", "release", "stop", "destroy"}
<1>1. SameStops /\ pc' \in [Managers -> PcType]
  <2>1. pc \in [Managers -> PcType]
    BY DEF IInv, TypeOK
  <2>2. CASE UNCHANGED pc BY <2>1, <2>2
  <2>3. ASSUME NEW l \in {"idle", "create", "release"}, pc' = [pc EXCEPT ![m] = l]
        PROVE  SameStops /\ pc' \in [Managers -> PcType]
    BY <2>1, <2>3
  <2> QED BY <2>2, <2>3
<1>2. Listed' = Listed /\ \A p : Users(p)' = Users(p) BY DEF own, Listed, Users
<1>3. \A p : LastUser(p)' = LastUser(p) BY <1>1, <1>2 DEF LastUser, Users
<1>4. TypeOK' BY <1>1, <1>2 DEF IInv, TypeOK, own
<1>5. RefCountExact' /\ ControllerIsUser'
  BY <1>2, <1>3 DEF IInv, RefCountExact, ControllerIsUser
<1>6. OneClientPerParent' /\ ListedRuns' BY <1>2 DEF IInv, OneClientPerParent, ListedRuns, own
<1>7. StoppedIsUnused' /\ Alone' BY <1>1, <1>2 DEF IInv, StoppedIsUnused, Alone, own
<1> QED BY <1>4, <1>5, <1>6, <1>7 DEF IInv

\* attachMediaPlayerClient() enters its first section.
LEMMA AttachStep == ASSUME IInv, NEW m \in Managers, NEW p \in Parents, Attach(m, p) PROVE IInv'
<1> USE DEF Attach, Goto
<1>1. pc[m] = "idle" /\ \E l \in {"create", "release"} : pc' = [pc EXCEPT ![m] = l] OBVIOUS
<1>2. target' \in [Managers -> Parents \cup {Null}] /\ query' \in [Managers -> {"idle", "locking"}]
  BY DEF IInv, TypeOK
<1>3. ThreadsAgree'
  BY AliveFacts DEF IInv, TypeOK, ThreadsAgree, own
<1> QED BY <1>1, <1>2, <1>3, ThreadMoves

\* A client cannot be created: the manager is left without one.
LEMMA CreateFailsStep == ASSUME IInv, NEW m \in Managers, CreateFails(m) PROVE IInv'
<1> USE DEF CreateFails, Goto, Returned
<1>1. pc[m] = "create" /\ pc' = [pc EXCEPT ![m] = "idle"] OBVIOUS
<1>2. target' \in [Managers -> Parents \cup {Null}] /\ query' \in [Managers -> {"idle", "locking"}]
  BY DEF IInv, TypeOK
<1>3. ThreadsAgree' BY DEF IInv, TypeOK, ThreadsAgree, own
<1> QED BY <1>1, <1>2, <1>3, ThreadMoves

\* READY -> NULL begins to release the client.
LEMMA ReleaseStep == ASSUME IInv, NEW m \in Managers, Release(m) PROVE IInv'
<1> USE DEF Release, Goto
<1>1. pc[m] = "idle" /\ pc' = [pc EXCEPT ![m] = "release"] OBVIOUS
<1>2. target' \in [Managers -> Parents \cup {Null}] /\ query' \in [Managers -> {"idle", "locking"}]
  BY DEF IInv, TypeOK
<1>3. ThreadsAgree' BY AliveFacts DEF IInv, TypeOK, ThreadsAgree, own
<1> QED BY <1>1, <1>2, <1>3, ThreadMoves

\* A manager joins the client its new parent has.
LEMMA JoinClientStep == ASSUME IInv, NEW m \in Managers, JoinClient(m) PROVE IInv'
<1> DEFINE p == target[m]
           info == m_mediaPlayerClientsInfo
<1> USE DEF JoinClient, Goto, Returned, SetOwn, Counted
<1>1. /\ Free /\ p \in Listed /\ pc[m] = "create" /\ m_client[m] = Null
      /\ m_currentGstBinParent[m] = Null /\ p \in Parents /\ p # Null
  BY InfoFacts DEF IInv, TypeOK, ThreadsAgree
<1>2. \A q \in Listed : info[q] \in InfoType BY InfoFacts DEF IInv
<1>3. /\ Listed' = Listed
      /\ \A q \in Listed : /\ info'[q].client = info[q].client
                           /\ info'[q].controller = info[q].controller
                           /\ info'[q].refCount = IF q = p THEN info[q].refCount + 1
                                                  ELSE info[q].refCount
                           /\ info'[q] \in InfoType
      /\ info' \in [Listed -> InfoType]
  <2>1. info \in [Listed -> InfoType] /\ info[p].refCount \in Nat BY <1>1, InfoFacts DEF IInv, TypeOK
  <2>2. Listed' = Listed BY DEF Listed
  <2>3. \A q \in Listed : q # p => info'[q] = info[q] BY <2>1
  <2>4. info'[p] = [info[p] EXCEPT !.refCount = info[p].refCount + 1] BY <1>1, <2>1
  <2>5. /\ info'[p].client = info[p].client /\ info'[p].controller = info[p].controller
        /\ info'[p].refCount = info[p].refCount + 1 /\ info'[p] \in InfoType
    BY <1>1, <1>2, <2>1, <2>4 DEF InfoType
  <2>6. info' = [q \in Listed |-> info'[q]] BY <2>1
  <2> QED BY <1>2, <2>2, <2>3, <2>5, <2>6
<1>4. TypeOK'
  <2>1. m_client' \in [Managers -> (1..MaxClients) \cup {Null}]
    BY <1>1, InfoFacts DEF IInv, TypeOK
  <2>2. m_currentGstBinParent' \in [Managers -> Parents \cup {Null}] BY <1>1 DEF IInv, TypeOK
  <2>3. \A n \in Managers : /\ m_client'[n] = Null <=> m_currentGstBinParent'[n] = Null
                            /\ mutex' = n <=> pc'[n] \in {"stop", "destroy"}
    BY <1>1, InfoFacts DEF IInv, TypeOK
  <2> QED BY <1>1, <1>3, <2>1, <2>2, <2>3 DEF IInv, TypeOK
<1>5. /\ \A q \in Listed : Users(q)' = IF q = p THEN Users(p) \cup {m} ELSE Users(q)
      /\ m \notin Users(p)
  BY <1>1, ManagerAssumption DEF Users, IInv, TypeOK
<1>6. \A n \in Managers : pc'[n] \notin {"stop", "destroy"}
  BY <1>1, NobodyStops DEF IInv, TypeOK
<1>7. RefCountExact'
  <2> SUFFICES ASSUME NEW q \in Listed
               PROVE  info'[q].refCount + Cardinality(LastUser(q)') = Cardinality(Users(q)')
    BY <1>3 DEF RefCountExact
  <2>1. LastUser(q)' = {} BY <1>6 DEF LastUser, Users
  <2>2. info[q].refCount = Cardinality(Users(q)) BY <1>1, NobodyStops
  <2>3. Cardinality(Users(q)') = IF q = p THEN Cardinality(Users(q)) + 1 ELSE Cardinality(Users(q))
    BY <1>5, UsersFinite, FS_AddElement
  <2> QED BY <2>1, <2>2, <2>3, <1>2, <1>3, FS_EmptySet, UsersFinite DEF InfoType
<1>8. OneClientPerParent' BY <1>1, <1>3 DEF IInv, TypeOK, OneClientPerParent
<1>9. ControllerIsUser' BY <1>3, <1>5 DEF IInv, ControllerIsUser
<1>10. ThreadsAgree' BY <1>1 DEF IInv, TypeOK, ThreadsAgree
<1>11. ListedRuns'
  BY <1>1, <1>3 DEF IInv, ListedRuns, Free
<1>12. StoppedIsUnused'
  <2>1. \A q \in Listed : phase[info[q].client] = "running" BY <1>1 DEF IInv, ListedRuns, Free
  <2> QED BY <1>1, <2>1, <1>6, NobodyStops DEF IInv, TypeOK, StoppedIsUnused
<1>13. Alone' BY <1>6 DEF Alone
<1> QED BY <1>4, <1>7, <1>8, <1>9, <1>10, <1>11, <1>12, <1>13 DEF IInv

\* A manager is the first of its parent: it gets a new client, and control.
LEMMA CreateClientStep == ASSUME IInv, NEW m \in Managers, CreateClient(m) PROVE IInv'
<1> DEFINE info == m_mediaPlayerClientsInfo
<1> USE DEF CreateClient, Goto, Returned, SetOwn
<1> PICK p : p = target[m] OBVIOUS
<1>1. /\ Free /\ p \notin Listed /\ pc[m] = "create" /\ m_client[m] = Null
      /\ m_currentGstBinParent[m] = Null /\ p \in Parents /\ p # Null
  BY ManagerAssumption DEF IInv, TypeOK, ThreadsAgree
<1>2. created' \in 0..MaxClients /\ created' = created + 1 /\ created' \in 1..MaxClients
      /\ created' # Null /\ created \in 0..MaxClients
  BY ManagerAssumption DEF IInv, TypeOK
<1>3. /\ Listed' = Listed \cup {p}
      /\ \A q \in Listed : info'[q] = info[q]
      /\ info'[p].client = created' /\ info'[p].controller = m /\ info'[p].refCount = 1
      /\ info' \in [Listed' -> InfoType]
  <2>1. Listed' = Listed \cup {p} BY DEF Listed
  <2>2. \A q \in Listed : info'[q] = info[q] BY <1>1
  <2>3. info'[p] = [client |-> created + 1, controller |-> m, refCount |-> 1] OBVIOUS
  <2>4. info'[p] \in InfoType BY <1>2, <2>3 DEF InfoType
  <2>5. \A q \in Listed : info[q] \in InfoType BY InfoFacts DEF IInv
  <2>6. info' = [q \in Listed \cup {p} |-> info'[q]] OBVIOUS
  <2> QED BY <1>2, <2>1, <2>2, <2>3, <2>4, <2>5, <2>6
<1>4. TypeOK'
  <2>1. m_client' \in [Managers -> (1..MaxClients) \cup {Null}] BY <1>2 DEF IInv, TypeOK
  <2>2. m_currentGstBinParent' \in [Managers -> Parents \cup {Null}] BY <1>1 DEF IInv, TypeOK
  <2>3. \A n \in Managers : /\ m_client'[n] = Null <=> m_currentGstBinParent'[n] = Null
                            /\ mutex' = n <=> pc'[n] \in {"stop", "destroy"}
    BY <1>1, <1>2 DEF IInv, TypeOK
  <2> QED BY <1>1, <1>2, <1>3, <2>1, <2>2, <2>3 DEF IInv, TypeOK
<1>5. /\ \A q \in Listed : Users(q)' = Users(q)
      /\ Users(p) = {} /\ Users(p)' = {m}
  <2>1. \A n \in Managers : m_currentGstBinParent[n] # p BY <1>1 DEF IInv, OneClientPerParent
  <2>2. \A n \in Managers : m_currentGstBinParent'[n]
                              = IF n = m THEN p ELSE m_currentGstBinParent[n]
    BY DEF IInv, TypeOK
  <2>3. \A q \in Listed : q # p /\ q # m_currentGstBinParent[m]
    BY <1>1, InfoFacts DEF IInv
  <2> QED BY <2>1, <2>2, <2>3 DEF Users
<1>6. \A n \in Managers : pc'[n] \notin {"stop", "destroy"}
  BY <1>1, NobodyStops DEF IInv, TypeOK
<1>7. RefCountExact'
  <2> SUFFICES ASSUME NEW q \in Listed'
               PROVE  info'[q].refCount + Cardinality(LastUser(q)') = Cardinality(Users(q)')
    BY DEF RefCountExact
  <2>1. LastUser(q)' = {} BY <1>6 DEF LastUser, Users
  <2>2. CASE q = p
    <3>1. Users(q)' = {m} /\ info'[q].refCount = 1 BY <1>3, <1>5, <2>2
    <3>2. Cardinality(Users(q)') = 1 /\ Cardinality(LastUser(q)') = 0
      BY <2>1, <3>1, FS_EmptySet, FS_Singleton
    <3> QED BY <3>1, <3>2
  <2>3. CASE q \in Listed
    <3>1. info[q].refCount = Cardinality(Users(q)) BY <1>1, <2>3, NobodyStops
    <3> QED BY <1>3, <1>5, <2>1, <2>3, <3>1, FS_EmptySet, UsersFinite
  <2> QED BY <1>3, <2>2, <2>3
<1>8. OneClientPerParent'
  <2>1. \A q \in Listed : info[q].client \in 1..created BY DEF IInv, ListedRuns
  <2>2. \A q \in Listed : info'[q].client # created' BY <1>2, <1>3, <2>1
  <2>3. \A q, r \in Listed' : info'[q].client = info'[r].client => q = r
    BY <1>3, <2>2 DEF IInv, OneClientPerParent
  <2>4. /\ m_currentGstBinParent'[m] = p /\ m_client'[m] = created'
        /\ \A n \in Managers \ {m} : /\ m_currentGstBinParent'[n] = m_currentGstBinParent[n]
                                      /\ m_client'[n] = m_client[n]
    BY <1>2 DEF IInv, TypeOK
  <2>5. ASSUME NEW n \in Managers, m_currentGstBinParent'[n] # Null
        PROVE  /\ m_currentGstBinParent'[n] \in Listed'
               /\ m_client'[n] = info'[m_currentGstBinParent'[n]].client
    <3>1. CASE n = m BY <1>3, <2>4, <3>1
    <3>2. CASE n # m BY <1>3, <2>4, <2>5, <3>2, AliveFacts DEF IInv, OneClientPerParent
    <3> QED BY <3>1, <3>2
  <2> QED BY <2>3, <2>5 DEF OneClientPerParent
<1>9. ControllerIsUser' BY <1>3, <1>5 DEF IInv, ControllerIsUser
<1>10. ThreadsAgree' BY <1>1, <1>2 DEF IInv, TypeOK, ThreadsAgree
<1>11. ListedRuns'
  <2>1. phase[created'] = "running" BY <1>2 DEF IInv, ListedRuns
  <2>2. \A q \in Listed : phase[info[q].client] = "running" /\ info[q].client \in 1..created
    BY <1>1 DEF IInv, ListedRuns, Free
  <2>3. \A q \in Listed' : info'[q].client \in 1..created' /\ phase'[info'[q].client] = "running"
    BY <1>2, <1>3, <2>1, <2>2
  <2>4. \A c \in (created' + 1)..MaxClients : c \in (created + 1)..MaxClients
    BY <1>2, ManagerAssumption
  <2>5. \A c \in (created' + 1)..MaxClients : phase'[c] = "running"
    BY <2>4 DEF IInv, ListedRuns
  <2> QED BY <2>3, <2>5 DEF ListedRuns
<1>12. StoppedIsUnused'
  <2>1. phase[created'] = "running" BY <1>2 DEF IInv, ListedRuns
  <2> QED BY <1>1, <1>2, <2>1, NobodyStops DEF IInv, TypeOK, StoppedIsUnused
<1>13. Alone' BY <1>6 DEF Alone
<1> QED BY <1>4, <1>7, <1>8, <1>9, <1>10, <1>11, <1>12, <1>13 DEF IInv

\* A manager leaves a client that others still use.
LEMMA ReleaseSharedStep == ASSUME IInv, NEW m \in Managers, ReleaseShared(m) PROVE IInv'
<1> DEFINE p == m_currentGstBinParent[m]
           info == m_mediaPlayerClientsInfo
<1> USE DEF ReleaseShared, Goto, SetOwn
<1>1. /\ Free /\ p \in Listed /\ pc[m] = "release" /\ m_client[m] # Null
      /\ p \in Parents /\ p # Null /\ m \in Users(p)
  BY InfoFacts DEF IInv, TypeOK, ThreadsAgree, Users
<1>2. info[p].refCount - 1 \in Nat /\ info[p].refCount = Cardinality(Users(p))
  <2>1. info[p].refCount = Cardinality(Users(p)) /\ info[p].refCount \in Nat
    BY <1>1, NobodyStops, InfoFacts DEF IInv
  <2>2. Cardinality(Users(p)) # 0 BY <1>1, UsersFinite, FS_EmptySet
  <2> QED BY <2>1, <2>2
<1>3. /\ Listed' = Listed
      /\ \A q \in Listed : q # p => info'[q] = info[q]
      /\ info'[p].client = info[p].client
      /\ info'[p].controller = IF info[p].controller = m THEN Null ELSE info[p].controller
      /\ info'[p].refCount = info[p].refCount - 1
      /\ info' \in [Listed -> InfoType]
  <2>1. info \in [Listed -> InfoType] /\ info[p] \in InfoType
        /\ info[p].controller \in Managers \cup {Null}
    BY <1>1, InfoFacts DEF IInv, TypeOK
  <2>2. Listed' = Listed BY DEF Listed
  <2>3. \A q \in Listed : q # p => info'[q] = info[q] BY <2>1
  <2>4. info'[p] = [info[p] EXCEPT !.refCount = info[p].refCount - 1,
                        !.controller = IF info[p].controller = m THEN Null ELSE info[p].controller]
    BY <1>1, <2>1 DEF LeaveController
  <2>5. /\ info'[p].client = info[p].client
        /\ info'[p].controller = IF info[p].controller = m THEN Null ELSE info[p].controller
        /\ info'[p].refCount = info[p].refCount - 1 /\ info'[p] \in InfoType
    BY <1>2, <2>1, <2>4 DEF InfoType
  <2>6. info' = [q \in Listed |-> info'[q]] BY <2>1
  <2>7. \A q \in Listed : info[q] \in InfoType BY <2>1
  <2> QED BY <2>2, <2>3, <2>5, <2>6, <2>7
<1>4. AfterRelease(m) \in {"idle", "create"} BY DEF AfterRelease
<1>5. TypeOK'
  <2>1. m_client' \in [Managers -> (1..MaxClients) \cup {Null}] BY DEF IInv, TypeOK
  <2>2. m_currentGstBinParent' \in [Managers -> Parents \cup {Null}] BY DEF IInv, TypeOK
  <2>3. \A n \in Managers : /\ m_client'[n] = Null <=> m_currentGstBinParent'[n] = Null
                            /\ mutex' = n <=> pc'[n] \in {"stop", "destroy"}
    BY <1>1, <1>4 DEF IInv, TypeOK
  <2> QED BY <1>3, <1>4, <2>1, <2>2, <2>3 DEF IInv, TypeOK
<1>6. \A q \in Listed : Users(q)' = IF q = p THEN Users(p) \ {m} ELSE Users(q)
  <2>1. \A n \in Managers : m_currentGstBinParent'[n]
                              = IF n = m THEN Null ELSE m_currentGstBinParent[n]
    BY DEF IInv, TypeOK
  <2>2. \A q \in Listed : q # Null BY InfoFacts DEF IInv
  <2> QED BY <2>1, <2>2 DEF Users
<1>7. \A n \in Managers : pc'[n] \notin {"stop", "destroy"}
  BY <1>1, <1>4, NobodyStops DEF IInv, TypeOK
<1>8. RefCountExact'
  <2> SUFFICES ASSUME NEW q \in Listed
               PROVE  info'[q].refCount + Cardinality(LastUser(q)') = Cardinality(Users(q)')
    BY <1>3 DEF RefCountExact
  <2>1. LastUser(q)' = {} BY <1>7 DEF LastUser, Users
  <2>2. info[q].refCount = Cardinality(Users(q)) BY <1>1, NobodyStops
  <2>3. Cardinality(Users(q)') = IF q = p THEN Cardinality(Users(q)) - 1 ELSE Cardinality(Users(q))
    BY <1>1, <1>6, UsersFinite, FS_RemoveElement
  <2> QED BY <2>1, <2>2, <2>3, <1>3, FS_EmptySet, UsersFinite
<1>9. OneClientPerParent'
  <2>1. \A q \in Listed : info'[q].client = info[q].client BY <1>3
  <2>2. \A n \in Managers : /\ m_client'[n] = IF n = m THEN Null ELSE m_client[n]
                            /\ m_currentGstBinParent'[n]
                                 = IF n = m THEN Null ELSE m_currentGstBinParent[n]
    BY DEF IInv, TypeOK
  <2>3. OneClientPerParent /\ Listed' = Listed BY <1>3 DEF IInv
  <2> QED BY ONLY <2>1, <2>2, <2>3 DEF OneClientPerParent
<1>10. ControllerIsUser' BY <1>1, <1>3, <1>6 DEF IInv, ControllerIsUser
<1>11. ThreadsAgree' BY <1>1 DEF IInv, TypeOK, ThreadsAgree, AfterRelease
<1>12. ListedRuns'
  <2>1. \A q \in Listed : info'[q].client = info[q].client BY <1>3
  <2>2. \A q \in Listed : phase[info[q].client] = "running" BY <1>1 DEF IInv, ListedRuns, Free
  <2>3. UNCHANGED <<phase, created>> OBVIOUS
  <2>4. ListedRuns /\ Listed' = Listed BY <1>3 DEF IInv
  <2> QED BY ONLY <2>1, <2>2, <2>3, <2>4 DEF ListedRuns
<1>13. StoppedIsUnused' BY <1>1, <1>7, NobodyStops DEF IInv, TypeOK, StoppedIsUnused
<1>14. Alone' BY <1>7 DEF Alone
<1> QED BY <1>5, <1>8, <1>9, <1>10, <1>11, <1>12, <1>13, <1>14 DEF IInv

\* The last user begins to shut its client down, and keeps the mutex.
LEMMA ReleaseLastStep == ASSUME IInv, NEW m \in Managers, ReleaseLast(m) PROVE IInv'
<1> DEFINE info == m_mediaPlayerClientsInfo
<1> USE DEF ReleaseLast, Goto
<1> PICK p : p = m_currentGstBinParent[m] OBVIOUS
<1>1. /\ Free /\ p \in Listed /\ pc[m] = "release" /\ m_client[m] # Null
      /\ p \in Parents /\ p # Null /\ m \in Users(p) /\ m_client[m] = info[p].client
      /\ m \in Managers /\ m # Null
  BY InfoFacts, ManagerAssumption DEF IInv, TypeOK, ThreadsAgree, Users, OneClientPerParent
<1>2. Users(p) = {m}
  <2>1. Cardinality(Users(p)) = 1 BY <1>1, NobodyStops
  <2>2. PICK x : Users(p) = {x} BY <2>1, UsersFinite, FS_Singleton
  <2> QED BY <1>1, <2>2
<1>3. /\ Listed' = Listed
      /\ \A q \in Listed : q # p => info'[q] = info[q]
      /\ \A q \in Listed : /\ info'[q].client = info[q].client
                           /\ info'[q].controller = info[q].controller
      /\ info'[p].refCount = 0
      /\ info' \in [Listed -> InfoType]
  <2>1. info \in [Listed -> InfoType] /\ info[p] \in InfoType BY <1>1, InfoFacts DEF IInv, TypeOK
  <2>2. Listed' = Listed BY DEF Listed
  <2>3. \A q \in Listed : q # p => info'[q] = info[q] BY <2>1
  <2>4. info'[p] = [info[p] EXCEPT !.refCount = 0] BY <1>1, <2>1
  <2>5. /\ info'[p].client = info[p].client /\ info'[p].controller = info[p].controller
        /\ info'[p].refCount = 0 /\ info'[p] \in InfoType
    BY <2>1, <2>4 DEF InfoType
  <2>6. info' = [q \in Listed |-> info'[q]] BY <2>1
  <2>7. \A q \in Listed : info[q] \in InfoType BY <2>1
  <2> QED BY <2>2, <2>3, <2>5, <2>6, <2>7
<1>4. /\ m_client' = m_client /\ m_currentGstBinParent' = m_currentGstBinParent
      /\ \A q : Users(q)' = Users(q)
  BY DEF own, Users
<1>5. \A n \in Managers : pc'[n] \in {"stop", "destroy"} <=> n = m
  BY <1>1, NobodyStops DEF IInv, TypeOK
<1>6. /\ phase' \in [1..MaxClients -> {"running", "stopping", "stopped", "destroyed"}]
      /\ \A c \in 1..MaxClients : c # info[p].client => phase'[c] = phase[c]
  BY <1>1, InfoFacts DEF IInv, TypeOK
<1>7. TypeOK'
  BY <1>1, <1>3, <1>4, <1>5, <1>6 DEF IInv, TypeOK
<1>8. RefCountExact'
  <2> SUFFICES ASSUME NEW q \in Listed
               PROVE  info'[q].refCount + Cardinality(LastUser(q)') = Cardinality(Users(q)')
    BY <1>3 DEF RefCountExact
  <2>1. info[q].refCount = Cardinality(Users(q)) /\ info[q].refCount \in Nat
    BY <1>1, NobodyStops, InfoFacts DEF IInv
  <2>2. CASE q = p
    <3>1. LastUser(q)' = {m} /\ Users(q)' = {m} BY <1>2, <1>4, <1>5, <2>2 DEF LastUser
    <3>2. Cardinality({m}) = 1 BY FS_Singleton
    <3> QED BY <1>3, <2>2, <3>1, <3>2
  <2>3. CASE q # p
    <3>1. LastUser(q)' = {} BY <1>4, <1>5, <2>3 DEF LastUser, Users
    <3> QED BY <1>3, <1>4, <2>1, <2>3, <3>1, FS_EmptySet
  <2> QED BY <2>2, <2>3
<1>9. OneClientPerParent' /\ ControllerIsUser'
  BY <1>3, <1>4 DEF IInv, OneClientPerParent, ControllerIsUser
<1>10. ThreadsAgree' BY <1>1, <1>4 DEF IInv, TypeOK, ThreadsAgree
<1>11. ListedRuns'
  <2>1. \A q \in Listed : q # p => info[q].client # info[p].client /\ info[q].client \in 1..MaxClients
    BY <1>1, InfoFacts DEF IInv, OneClientPerParent
  <2>2. \A q \in Listed : info[q].client \in 1..created /\ phase[info[q].client] = "running"
    BY <1>1 DEF IInv, ListedRuns, Free
  <2>3. \A c \in (created + 1)..MaxClients : c # info[p].client /\ c \in 1..MaxClients
    BY <1>1, <2>2, ManagerAssumption DEF IInv, TypeOK
  <2>4. mutex' = m /\ m_currentGstBinParent'[m] = p /\ created' = created BY <1>4
  <2>5. \A q \in Listed : /\ info'[q].client \in 1..created'
                          /\ phase'[info'[q].client] # "running" => q = p
    BY <1>3, <1>6, <2>1, <2>2, <2>4
  <2>6. \A c \in (created' + 1)..MaxClients : phase'[c] = "running"
    BY <1>6, <2>3, <2>4 DEF IInv, ListedRuns
  <2> QED BY <1>1, <1>3, <2>4, <2>5, <2>6 DEF ListedRuns
<1>12. StoppedIsUnused'
  <2> SUFFICES ASSUME NEW n \in Managers, m_client[n] # Null, phase'[m_client[n]] # "running"
               PROVE  n = m
    BY <1>4, <1>5 DEF StoppedIsUnused
  <2>1. phase[m_client[n]] = "running" BY <1>1, NobodyStops DEF IInv, StoppedIsUnused
  <2>2. m_client[n] = info[p].client BY <1>6, <2>1 DEF IInv, TypeOK
  <2>3. m_currentGstBinParent[n] = p
    BY <1>1, <2>2, AliveFacts DEF IInv, OneClientPerParent
  <2> QED BY <1>2, <2>3 DEF Users
<1>13. Alone' BY <1>2, <1>4, <1>5 DEF Alone
<1> QED BY <1>7, <1>8, <1>9, <1>10, <1>11, <1>12, <1>13 DEF IInv

\* The one who shuts a client down: what everybody else has is untouched.
LEMMA StopperFacts ==
    ASSUME IInv, NEW m \in Managers, pc[m] \in {"stop", "destroy"}
    PROVE  /\ mutex = m /\ m # Null /\ m_client[m] \in 1..MaxClients
           /\ m_currentGstBinParent[m] \in Listed /\ m_currentGstBinParent[m] # Null
           /\ m_client[m] = m_mediaPlayerClientsInfo[m_currentGstBinParent[m]].client
           /\ \A n \in Managers : n # m => /\ pc[n] \notin {"stop", "destroy"}
                                           /\ m_currentGstBinParent[n] # m_currentGstBinParent[m]
                                           /\ m_client[n] # m_client[m]
                                           /\ m_client[n] # Null => phase[m_client[n]] = "running"
<1>1. mutex = m /\ m # Null /\ m_client[m] # Null BY ManagerAssumption DEF IInv, TypeOK, ThreadsAgree
<1>2. m_client[m] \in 1..MaxClients BY <1>1 DEF IInv, TypeOK
<1>3. /\ m_currentGstBinParent[m] \in Listed /\ m_currentGstBinParent[m] # Null
      /\ m_client[m] = m_mediaPlayerClientsInfo[m_currentGstBinParent[m]].client
  BY <1>1, AliveFacts, InfoFacts DEF IInv
<1>4. ASSUME NEW n \in Managers, n # m
      PROVE  /\ pc[n] \notin {"stop", "destroy"}
             /\ m_currentGstBinParent[n] # m_currentGstBinParent[m]
             /\ m_client[n] # m_client[m]
             /\ m_client[n] # Null => phase[m_client[n]] = "running"
  <2>1. pc[n] \notin {"stop", "destroy"} BY <1>1, <1>4 DEF IInv, TypeOK
  <2>2. m_currentGstBinParent[n] # m_currentGstBinParent[m] BY <1>4 DEF IInv, Alone, Users
  <2>3. m_client[n] # m_client[m]
    BY <1>1, <1>3, <2>2, AliveFacts DEF IInv, OneClientPerParent
  <2> QED BY <2>1, <2>2, <2>3 DEF IInv, StoppedIsUnused
<1> QED BY <1>1, <1>2, <1>3, <1>4

\* stop() and stopStreaming() of the client have returned.
LEMMA StopReturnsStep == ASSUME IInv, NEW m \in Managers, StopReturns(m) PROVE IInv'
<1> USE DEF StopReturns, Goto
<1>1. pc[m] = "stop" /\ pc' = [pc EXCEPT ![m] = "destroy"] OBVIOUS
<1>2. /\ pc' \in [Managers -> {"idle", "create", "release", "stop", "destroy"}]
      /\ \A n \in Managers : pc'[n] \in {"stop", "destroy"} <=> pc[n] \in {"stop", "destroy"}
      /\ \A n \in Managers : n # m => pc'[n] = pc[n]
      /\ pc'[m] = "destroy"
  BY <1>1 DEF IInv, TypeOK
<1>3. /\ phase' \in [1..MaxClients -> {"running", "stopping", "stopped", "destroyed"}]
      /\ \A c \in 1..MaxClients : c # m_client[m] => phase'[c] = phase[c]
  BY DEF IInv, TypeOK
<1>4. Listed' = Listed /\ \A p : Users(p)' = Users(p) BY DEF own, Listed, Users
<1>5. \A p : LastUser(p)' = LastUser(p) BY <1>2, <1>4 DEF LastUser, Users
<1>6. TypeOK' BY <1>2, <1>3, <1>4 DEF IInv, TypeOK, own
<1>7. RefCountExact' /\ ControllerIsUser'
  BY <1>4, <1>5 DEF IInv, RefCountExact, ControllerIsUser
<1>8. OneClientPerParent' BY <1>4 DEF IInv, OneClientPerParent, own
<1>9. ThreadsAgree' BY <1>1, <1>2 DEF IInv, ThreadsAgree, own
<1>10. ListedRuns'
  <2>1. \A p \in Listed : m_mediaPlayerClientsInfo[p].client = m_client[m]
                            => p = m_currentGstBinParent[m]
    BY <1>1, StopperFacts DEF IInv, OneClientPerParent
  <2>2. m_client[m] \in 1..created BY <1>1, StopperFacts DEF IInv, ListedRuns
  <2>3. \A c \in (created + 1)..MaxClients : c # m_client[m] /\ c \in 1..MaxClients
    BY <2>2, ManagerAssumption DEF IInv, TypeOK
  <2>4. \A p \in Listed : m_mediaPlayerClientsInfo[p].client \in 1..MaxClients
    BY InfoFacts DEF IInv
  <2>5. \A p \in Listed : phase'[m_mediaPlayerClientsInfo[p].client] # "running" =>
                              mutex # Null /\ m_currentGstBinParent[mutex] = p
    BY <1>1, <1>3, <2>1, <2>4, StopperFacts DEF IInv, ListedRuns
  <2> QED BY <1>3, <1>4, <2>3, <2>5 DEF IInv, ListedRuns, own
<1>11. StoppedIsUnused'
  <2>1. \A n \in Managers : n # m /\ m_client[n] # Null => phase'[m_client[n]] = "running"
    BY <1>1, <1>3, StopperFacts DEF IInv, TypeOK
  <2> QED BY <1>1, <1>2, <2>1, StopperFacts DEF StoppedIsUnused, own
<1>12. Alone' BY <1>2, <1>4 DEF IInv, Alone, own
<1> QED BY <1>6, <1>7, <1>8, <1>9, <1>10, <1>11, <1>12 DEF IInv

\* The entry of a client that was shut down is erased, and the mutex given
\* back: nobody was left who could have looked at it.
LEMMA DestroyClientStep == ASSUME IInv, NEW m \in Managers, DestroyClient(m) PROVE IInv'
<1> DEFINE info == m_mediaPlayerClientsInfo
<1> USE DEF DestroyClient, Goto, SetOwn, Unlock
<1> PICK p : p = m_currentGstBinParent[m] OBVIOUS
<1>1. /\ pc[m] = "destroy" /\ pc' = [pc EXCEPT ![m] = AfterRelease(m)]
      /\ AfterRelease(m) \in {"idle", "create"}
  BY DEF AfterRelease
<1>2. /\ pc' \in [Managers -> {"idle", "create", "release", "stop", "destroy"}]
      /\ \A n \in Managers : pc'[n] \notin {"stop", "destroy"}
      /\ \A n \in Managers : n # m => pc'[n] = pc[n]
      /\ pc'[m] = AfterRelease(m)
  BY <1>1, StopperFacts DEF IInv, TypeOK
<1>3. /\ phase' \in [1..MaxClients -> {"running", "stopping", "stopped", "destroyed"}]
      /\ \A c \in 1..MaxClients : c # m_client[m] => phase'[c] = phase[c]
  BY DEF IInv, TypeOK
<1>4. /\ Listed' = Listed \ {p} /\ \A q \in Listed' : info'[q] = info[q]
      /\ info' \in [Listed' -> InfoType]
  <2>1. Listed' = Listed \ {p} BY DEF Listed
  <2>2. \A q \in Listed' : info'[q] = info[q] BY <2>1
  <2>3. \A q \in Listed : info[q] \in InfoType BY InfoFacts DEF IInv
  <2>4. info' = [q \in Listed \ {p} |-> info[q]] OBVIOUS
  <2> QED BY <2>1, <2>2, <2>3, <2>4
<1>5. /\ m_client' \in [Managers -> (1..MaxClients) \cup {Null}]
      /\ m_currentGstBinParent' \in [Managers -> Parents \cup {Null}]
      /\ \A n \in Managers : /\ n # m => /\ m_client'[n] = m_client[n]
                                         /\ m_currentGstBinParent'[n] = m_currentGstBinParent[n]
                                         /\ m_currentGstBinParent[n] # p
                             /\ n = m => m_client'[n] = Null /\ m_currentGstBinParent'[n] = Null
  BY <1>1, StopperFacts DEF IInv, TypeOK
<1>6. TypeOK'
  <2>1. \A n \in Managers : n # Null BY ManagerAssumption
  <2> QED BY <1>2, <1>3, <1>4, <1>5, <2>1 DEF IInv, TypeOK
<1>7. \A q \in Listed' : q \in Listed /\ q # p /\ Users(q)' = Users(q)
  <2>1. \A q \in Listed : q # Null BY InfoFacts DEF IInv
  <2> QED BY <1>4, <1>5, <2>1 DEF Users
<1>8. RefCountExact'
  <2> SUFFICES ASSUME NEW q \in Listed'
               PROVE  info'[q].refCount + Cardinality(LastUser(q)') = Cardinality(Users(q)')
    BY DEF RefCountExact
  <2>1. LastUser(q)' = {} BY <1>2 DEF LastUser, Users
  <2>2. LastUser(q) = {} BY <1>1, <1>7, StopperFacts DEF LastUser, Users
  <2>3. info[q].refCount + Cardinality(LastUser(q)) = Cardinality(Users(q))
    BY <1>7 DEF IInv, RefCountExact
  <2> QED BY <1>4, <1>7, <2>1, <2>2, <2>3
<1>9. OneClientPerParent'
  BY <1>4, <1>5, <1>7 DEF IInv, OneClientPerParent
<1>10. ControllerIsUser' BY <1>4, <1>7 DEF IInv, ControllerIsUser
<1>11. ThreadsAgree' BY <1>1, <1>2, <1>5 DEF IInv, TypeOK, ThreadsAgree, AfterRelease
<1>12. ListedRuns'
  <2>1. \A q \in Listed' : info[q].client # m_client[m] /\ info[q].client \in 1..MaxClients
    BY <1>1, <1>7, StopperFacts, InfoFacts DEF IInv, OneClientPerParent
  <2>2. \A q \in Listed' : phase[info[q].client] = "running" /\ info[q].client \in 1..created
    BY <1>1, <1>7, StopperFacts DEF IInv, ListedRuns
  <2>3. m_client[m] \in 1..created BY <1>1, StopperFacts DEF IInv, ListedRuns
  <2>4. \A c \in (created + 1)..MaxClients : c # m_client[m] /\ c \in 1..MaxClients
    BY <2>3, ManagerAssumption DEF IInv, TypeOK
  <2> QED BY <1>3, <1>4, <2>1, <2>2, <2>4 DEF IInv, ListedRuns
<1>13. StoppedIsUnused'
  <2>1. \A n \in Managers : m_client'[n] # Null =>
            n # m /\ m_client[n] # m_client[m] /\ m_client[n] \in 1..MaxClients
            /\ phase[m_client[n]] = "running"
    BY <1>1, <1>5, StopperFacts DEF IInv, TypeOK
  <2> QED BY <1>3, <1>5, <2>1 DEF StoppedIsUnused
<1>14. Alone' BY <1>2 DEF Alone
<1> QED BY <1>6, <1>8, <1>9, <1>10, <1>11, <1>12, <1>13, <1>14 DEF IInv

\* hasControl() has seen a client, without the mutex.
LEMMA HasControlCallStep == ASSUME IInv, NEW m \in Managers, HasControlCall(m) PROVE IInv'
<1> USE DEF HasControlCall
<1>1. Listed' = Listed /\ \A p : Users(p)' = Users(p) /\ LastUser(p)' = LastUser(p)
  BY DEF own, Listed, Users, LastUser
<1>2. TypeOK' BY <1>1 DEF IInv, TypeOK, own
<1>3. RefCountExact' /\ ControllerIsUser' BY <1>1 DEF IInv, RefCountExact, ControllerIsUser
<1>4. OneClientPerParent' /\ ListedRuns' BY <1>1 DEF IInv, OneClientPerParent, ListedRuns, own
<1>5. StoppedIsUnused' /\ Alone' /\ ThreadsAgree'
  BY <1>1 DEF IInv, StoppedIsUnused, Alone, ThreadsAgree, own
<1> QED BY <1>2, <1>3, <1>4, <1>5 DEF IInv

\* hasControl() takes the control that is free, of the parent the manager
\* has by now, if any.
LEMMA HasControlStep == ASSUME IInv, NEW m \in Managers, HasControl(m) PROVE IInv'
<1> DEFINE info == m_mediaPlayerClientsInfo
           p == m_currentGstBinParent[m]
<1> USE DEF HasControl
<1>1. \A q : Users(q)' = Users(q) /\ LastUser(q)' = LastUser(q) BY DEF own, Users, LastUser
<1>2. ASSUME NEW q \in Listed
      PROVE  /\ info'[q].client = info[q].client /\ info'[q].refCount = info[q].refCount
             /\ info'[q].controller = info[q].controller
                    \/ (q = p /\ info'[q].controller = m)
             /\ info'[q] \in InfoType
  <2>1. /\ info'[q] = (IF q = p THEN AcquireControl(m, info[q]) ELSE info[q])
        /\ info[q] \in InfoType
    BY InfoFacts DEF IInv
  <2>2. CASE q = p /\ info[q].controller = Null
    <3>1. info'[q] = [info[q] EXCEPT !.controller = m] BY <2>1, <2>2 DEF AcquireControl
    <3> QED BY <2>1, <2>2, <3>1 DEF InfoType
  <2>3. CASE ~(q = p /\ info[q].controller = Null) BY <2>1, <2>3 DEF AcquireControl
  <2> QED BY <2>2, <2>3
<1>3. Listed' = Listed /\ info' \in [Listed -> InfoType] BY <1>2 DEF Listed
<1>4. TypeOK' BY <1>3 DEF IInv, TypeOK, own
<1>5. RefCountExact' BY <1>1, <1>2, <1>3 DEF IInv, RefCountExact
<1>6. ControllerIsUser'
  <2>1. \A q \in Listed : q = p => m \in Users(q) BY DEF Users
  <2>2. \A q \in Listed : info'[q].controller \in Users(q) \cup {Null}
    BY <1>2, <2>1 DEF IInv, ControllerIsUser
  <2> QED BY <1>1, <1>3, <2>2 DEF ControllerIsUser
<1>7. OneClientPerParent' /\ ListedRuns'
  BY <1>2, <1>3 DEF IInv, OneClientPerParent, ListedRuns, own
<1>8. StoppedIsUnused' /\ Alone' /\ ThreadsAgree'
  BY <1>1 DEF IInv, StoppedIsUnused, Alone, ThreadsAgree, own
<1> QED BY <1>4, <1>5, <1>6, <1>7, <1>8 DEF IInv

\* No step of any thread disturbs the inductive invariant.
LEMMA NextIInv == ASSUME IInv, [Next]_vars PROVE IInv'
<1>1. CASE UNCHANGED vars
  <2>1. Listed' = Listed /\ \A p : Users(p)' = Users(p) /\ LastUser(p)' = LastUser(p)
    BY <1>1 DEF vars, own, Listed, Users, LastUser
  <2>2. TypeOK' BY <1>1, <2>1 DEF IInv, TypeOK, vars, own
  <2>3. RefCountExact' /\ ControllerIsUser'
    BY <1>1, <2>1 DEF IInv, RefCountExact, ControllerIsUser, vars
  <2>4. OneClientPerParent' /\ ListedRuns'
    BY <1>1, <2>1 DEF IInv, OneClientPerParent, ListedRuns, vars, own
  <2>5. StoppedIsUnused' /\ Alone' /\ ThreadsAgree'
    BY <1>1, <2>1 DEF IInv, StoppedIsUnused, Alone, ThreadsAgree, vars, own
  <2> QED BY <2>2, <2>3, <2>4, <2>5 DEF IInv
<1>2. ASSUME NEW m \in Managers, NEW p \in Parents, Attach(m, p) PROVE IInv'
  BY <1>2, AttachStep
<1>3. ASSUME NEW m \in Managers, Continue(m) PROVE IInv'
  BY <1>3, JoinClientStep, CreateClientStep, CreateFailsStep, ReleaseSharedStep, ReleaseLastStep,
     StopReturnsStep, DestroyClientStep DEF Continue
<1>4. ASSUME NEW m \in Managers, Release(m) \/ HasControlCall(m) \/ HasControl(m) PROVE IInv'
  BY <1>4, ReleaseStep, HasControlCallStep, HasControlStep
<1> QED BY <1>1, <1>2, <1>3, <1>4 DEF Next

LEMMA Invariance == Spec => []IInv
<1>1. Init => IInv BY InitIInv
<1>2. IInv /\ [Next]_vars => IInv' BY NextIInv
<1> QED BY <1>1, <1>2, PTL DEF Spec

\* A manager has a client exactly when it has a parent, and the mutex stays
\* locked between two steps only while a client is shut down.
THEOREM ManagerTypeCorrect == Spec => []TypeOK
<1>1. IInv => TypeOK BY DEF IInv
<1> QED BY <1>1, Invariance, PTL

\* refCount is the number of managers that use the client, however many
\* sinks attach, move to another bin and let go in whatever order
\* (releaseMediaPlayerClient decides on the shutdown by it).
THEOREM CountsItsUsers == Spec => []RefCountExact
<1>1. IInv => RefCountExact BY DEF IInv
<1> QED BY <1>1, Invariance, PTL

\* The sinks of one bin share one client, and no other sink has it.
THEOREM SharesOneClient == Spec => []OneClientPerParent
<1>1. IInv => OneClientPerParent BY DEF IInv
<1> QED BY <1>1, Invariance, PTL

\* The control of a client never stays with a manager that has let it go,
\* although hasControl() reads m_client before it has the mutex.
THEOREM ControlStaysWithUsers == Spec => []ControllerIsUser
<1>1. IInv => ControllerIsUser BY DEF IInv
<1> QED BY <1>1, Invariance, PTL

\* A client that is stopped has no user but the one who stops it, and it is
\* given to nobody afterwards.
THEOREM StopsOnlyUnused == Spec => []StoppedIsUnused
<1>1. IInv => StoppedIsUnused BY DEF IInv
<1> QED BY <1>1, Invariance, PTL
=============================================================================

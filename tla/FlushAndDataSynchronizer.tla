----------------------- MODULE FlushAndDataSynchronizer -----------------------
(***************************************************************************)
(* source/FlushAndDataSynchronizer.cpp: what is known about the flush and  *)
(* about the data of every source, and the condition a thread that starts  *)
(* a flush waits for.  The entries are kept by source id; an operation on  *)
(* an id that has no entry creates one, as operator[] of std::map does.    *)
(* Every operation holds m_mutex, so it is one step.                       *)
(***************************************************************************)
VARIABLE m_sourceStates

FlushStates == {"IDLE", "FLUSHING", "FLUSHED"}
DataStates == {"NO_DATA", "DATA_RECEIVED", "DATA_PUSHED"}
SourceState == [flushState : FlushStates, dataState : DataStates]

\* m_sourceStates[id], with the value a missing entry is created with.
StateOf(id) ==
    IF id \in DOMAIN m_sourceStates THEN m_sourceStates[id]
    ELSE [flushState |-> "IDLE", dataState |-> "NO_DATA"]

SetState(id, flush, data) ==
    m_sourceStates' = [i \in DOMAIN m_sourceStates \cup {id} |->
        IF i = id THEN [flushState |-> flush, dataState |-> data] ELSE m_sourceStates[i]]

SyncInit == m_sourceStates = [i \in {} |-> [flushState |-> "IDLE", dataState |-> "NO_DATA"]]

AddSource(id) == SetState(id, "IDLE", "NO_DATA")

SyncRemoveSource(id) ==
    m_sourceStates' = [i \in DOMAIN m_sourceStates \ {id} |-> m_sourceStates[i]]

NotifyFlushStarted(id) == SetState(id, "FLUSHING", "NO_DATA")

\* A completion that is not recorded (mutant).
NotifyFlushCompletedLost(id) == UNCHANGED m_sourceStates
NotifyFlushCompleted(id) == SetState(id, "FLUSHED", StateOf(id).dataState)

NotifyDataReceived(id) ==
    SetState(id, StateOf(id).flushState,
             IF StateOf(id).dataState = "NO_DATA" THEN "DATA_RECEIVED" ELSE StateOf(id).dataState)

NotifyDataPushed(id) == SetState(id, "IDLE", "DATA_PUSHED")

\* The predicate of waitIfRequired(id).
MayStartFlush(id) ==
    \A i \in DOMAIN m_sourceStates :
        /\ ~(i = id /\ m_sourceStates[i].flushState = "FLUSHING")
        /\ ~(m_sourceStates[i].flushState # "IDLE"
               /\ m_sourceStates[i].dataState = "DATA_RECEIVED")

IsAnySourceFlushing ==
    \E i \in DOMAIN m_sourceStates : m_sourceStates[i].flushState = "FLUSHING"
=============================================================================

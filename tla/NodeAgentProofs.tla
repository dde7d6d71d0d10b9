---------------------------- MODULE NodeAgentProofs ----------------------------
(***************************************************************************)
(* Proofs about the whole node agent, for any tasks, slots, requests,      *)
(* links, sizes and faults: AgentInv, together with the types, is the      *)
(* inductive invariant.                                                    *)
(***************************************************************************)
EXTENDS NodeAgent, TaskQueueProofs, StorageAgentProofs

-----------------------------------------------------------------------------
(* Settled rows *)

\* A settled row stays settled, and is never written but to fail or expire.
LEMMA SettledStep ==
  ASSUME SessionsInv, Next, NEW t \in Tasks, Settled(t)
  PROVE  /\ Settled(t)'
         /\ db'[t] = db[t] \/ db'[t].status \in {"failed", "expired"}
<1> DEFINE Kept == Settled(t)' /\ (db'[t] = db[t] \/ db'[t].status \in {"failed", "expired"})
<1>1. CASE SyncLoad
  <2>1. t \notin InSession'
    BY <1>1 DEF SyncLoad, Open, Load, InStatus, InSession, Settled, NoRow
  <2> QED
    BY <1>1, <2>1 DEF SyncLoad, nodeVars, Settled
<1>2. CASE FillPick
  <2>1. PICK S \in SUBSET InStatus({"queued"}) : Open(S)
    BY <1>2 DEF FillPick
  <2>2. t \notin S
    BY <2>1 DEF InStatus, Settled
  <2>3. t \notin InSession'
    BY <2>1, <2>2 DEF Open, Load, InSession, NoRow
  <2> QED
    BY <1>2, <2>3 DEF FillPick, nodeVars, Settled
<1>3. CASE SyncCommit
  BY <1>3, SyncCommitRows DEF SyncCommit, Settled
<1>4. CASE FillCommit
  BY <1>4, FillCommitRows DEF FillCommit, Settled
<1>5. CASE UNCHANGED db /\ pc' \notin {"sync", "fill"}
  BY <1>5 DEF Settled
<1>6. ASSUME UNCHANGED <<pc, snap>>, db'[t] = db[t] \/ db'[t].status \in {"failed", "expired"}
      PROVE  Kept
  BY <1>6 DEF Settled, InSession
<1>7. ASSUME NEW u \in Tasks, Enqueue(u), UNCHANGED tickVars
      PROVE  Kept
  <2>1. db'[t] = db[t]
    BY <1>7 DEF Enqueue, Settled, SessionsInv, TypeOK, NodeTypeOK
  <2> QED
    BY <1>6, <1>7, <2>1 DEF tickVars
<1>8. ASSUME NEW h \in Handlers, DeleteCommit(h), UNCHANGED tickVars
      PROVE  Kept
  <2>1. db'[t] = db[t] \/ db'[t].status \in {"failed", "expired"}
    BY <1>8, DeleteCommitRow
  <2> QED
    BY <1>6, <1>8, <2>1 DEF tickVars
<1>9. CASE UNCHANGED <<db, pc, snap>>
  BY <1>6, <1>9
<1> QED
  BY <1>1, <1>2, <1>3, <1>4, <1>5, <1>7, <1>8, <1>9
     DEF Next, LifecycleStep, TickNext, TickStep, SyncStatus, FillCount, FillAdd, TickAborts,
         AriaNext, AriaStep, AriaStart, AriaComplete, AriaError, AriaRestart, DeleteNext,
         DeleteStep, DeleteLoad, DeleteQueued, DeleteForce, DeleteResult, DeletePurge,
         DeleteAborts, NodeRestart, nodeVars, tickVars

\* A commit that expires settled rows keeps the invariant of the tick and the requests.
LEMMA ExpireInv ==
  ASSUME SessionsInv, TypeOK', UNCHANGED <<aria2, tickVars, req>>, faults' >= faults,
         \A t \in Tasks : db'[t] = db[t] \/ (Settled(t) /\ db'[t].status = "expired")
  PROVE  SessionsInv'
<1> USE DEF SessionsInv, tickVars
<1>1. \A u \in Tasks : Gids(u)' = Gids(u)
  BY DEF Gids
<1>2. InSession' = InSession
  BY DEF InSession
<1>3. RowsConsistent'
  BY <1>1 DEF RowsConsistent
<1>4. Downloading' \subseteq Downloading /\ Downloading \subseteq Tasks
  BY DEF Downloading, InStatus
<1>5. /\ Cardinality(Downloading') \in Nat /\ Cardinality(Downloading) \in Nat
      /\ Cardinality(Downloading') <= Cardinality(Downloading)
  BY <1>4, CardinalityOfSubset
<1>6. SlotBound' /\ SlotsCounted'
  BY <1>5, LimitAssumption DEF SlotBound, SlotsCounted, TypeOK, TickTypeOK
<1>7. SyncSession'
  BY <1>1, <1>2 DEF SyncSession, Settled
<1>8. FillSession'
  <2>1. Downloading' \cup InSession' \subseteq Downloading \cup InSession
    BY <1>2, <1>4
  <2>2. Downloading \cup InSession \subseteq Tasks
    BY <1>4 DEF InSession
  <2>3. /\ Cardinality(Downloading' \cup InSession') \in Nat
        /\ Cardinality(Downloading \cup InSession) \in Nat
        /\ Cardinality(Downloading' \cup InSession') <= Cardinality(Downloading \cup InSession)
    BY <2>1, <2>2, CardinalityOfSubset
  <2> QED
    BY <1>1, <1>2, <2>3, LimitAssumption DEF FillSession, Settled
<1>9. Requests'
  BY <1>2 DEF Requests, Request, Settled
<1>10. AddsCounted'
  <2>1. \A u \in Tasks : Len(aria2[u]) \in Nat
    BY AriaLen DEF TypeOK, NodeTypeOK
  <2>2. faults \in Nat /\ faults' \in Nat
    BY DEF TypeOK, NodeTypeOK
  <2> QED
    BY <1>2, <2>1, <2>2 DEF AddsCounted, Settled
<1> QED
  BY <1>3, <1>6, <1>7, <1>8, <1>9, <1>10

\* What a commit of the storage loop writes.
LEMMA StorageCommitRows ==
  ASSUME NodeTypeOK, StorageTypeOK, StorageSession, db' = Flush(ssnap, scur), NEW t \in Tasks
  PROVE  /\ t \in InStorage \ stodo => Settled(t) /\ db'[t].status = "expired"
         /\ t \notin InStorage \ stodo => db'[t] = db[t]
<1>1. db[t] \in Row /\ ssnap[t] \in Row /\ scur[t] \in Row
  BY DEF NodeTypeOK, StorageTypeOK
<1>2. db'[t] = FlushRow(db[t], ssnap[t], scur[t])
  BY DEF Flush
<1>3. CASE t \in InStorage \ stodo
  <2>1. ssnap[t].status = "completed" /\ scur[t] = Purged(ssnap[t]) /\ Settled(t)
    BY <1>3 DEF StorageSession
  <2>2. scur[t].status = "expired"
    BY <1>1, <2>1 DEF Purged, Row
  <2> QED
    BY <1>2, <1>3, <2>1, <2>2 DEF FlushRow, Column
<1>4. CASE t \notin InStorage \ stodo
  <2>1. scur[t] = ssnap[t]
    BY <1>4 DEF StorageSession
  <2> QED
    BY <1>1, <1>2, <1>4, <2>1 DEF FlushRow, Column, Row
<1> QED
  BY <1>3, <1>4

\* The storage loop leaves every row as it is, or expires one that is settled.
LEMMA StorageRows ==
  ASSUME NodeTypeOK, StorageTypeOK, StorageSession, StorageNext, NEW t \in Tasks
  PROVE  db'[t] = db[t] \/ (Settled(t) /\ db'[t].status = "expired")
BY StorageKeeps, StorageCommitRows

\* Settled rows stay settled under the storage loop.
LEMMA StorageSettled ==
  ASSUME NodeTypeOK, StorageTypeOK, StorageSession, StorageNext, UNCHANGED tickVars,
         NEW t \in Tasks, Settled(t)
  PROVE  /\ Settled(t)'
         /\ db'[t] = db[t] \/ db'[t].status = "expired"
<1>1. db'[t] = db[t] \/ db'[t].status = "expired"
  BY StorageRows
<1> QED
  BY <1>1 DEF Settled, InSession, tickVars

-----------------------------------------------------------------------------
(* The storage sessions and the links while others work *)

\* Settled rows stay settled, and are only written to fail or expire.
RowsSettle ==
  \A t \in Tasks : Settled(t) => /\ Settled(t)'
                                 /\ db'[t] = db[t] \/ db'[t].status \in {"failed", "expired"}

\* What the storage loop and the links rely on survives the steps of the others.
LEMMA StorageSessionKept ==
  ASSUME TypeOK, StorageTypeOK, StorageSession, RowsSettle, UNCHANGED storageVars,
         now' \in Nat, now' >= now
  PROVE  StorageSession'
<1>1. UNCHANGED <<spc, ssnap, scur, stodo>> /\ InStorage' = InStorage
  BY DEF storageVars, InStorage
<1>2. ASSUME spc = "clean", NEW t \in InStorage
      PROVE  ssnap[t].completedAt + TTL < now'
  <2>1. t \in Tasks /\ ssnap[t].completedAt \in Int /\ now \in Nat
    BY DEF InStorage, StorageTypeOK, Row, NoTime, TypeOK, NodeTypeOK
  <2> QED
    BY <1>2, <2>1, TTLAssumption DEF StorageSession
<1>3. \A t \in InStorage :
        Settled(t)' /\ (db'[t].status = "completed" => db'[t].completedAt = ssnap[t].completedAt)
  BY DEF StorageSession, RowsSettle, InStorage
<1> QED
  BY <1>1, <1>2, <1>3 DEF StorageSession

LEMMA QuotaSessionKept ==
  ASSUME QuotaSession, RowsSettle, UNCHANGED storageVars
  PROVE  QuotaSession'
<1>1. UNCHANGED <<spc, ssnap, scur, stodo, listed, freed>>
  BY DEF storageVars
<1>2. InStorage' = InStorage /\ Listed' = Listed /\ Listed \subseteq Tasks
  BY <1>1 DEF InStorage, Listed
<1>3. ASSUME spc \in {"evict", "purge"}
      PROVE  QuotaSession'
  <2>1. \A t \in Listed : Settled(t) /\ Settled(t)'
                           /\ (db[t].status # "completed" => db'[t].status # "completed")
    BY <1>2, <1>3 DEF QuotaSession, RowsSettle
  <2> QED
    BY <1>1, <1>2, <1>3, <2>1 DEF QuotaSession
<1> QED
  BY <1>1, <1>2, <1>3 DEF QuotaSession

LEMMA LinkSessionKept ==
  ASSUME LinkSession, RowsSettle, UNCHANGED <<link, ssnap>>
  PROVE  LinkSession'
<1>1. InStorage' = InStorage
  BY DEF InStorage
<1> QED
  BY <1>1 DEF LinkSession, RowsSettle

-----------------------------------------------------------------------------
(* The steps of the storage loop *)

\* A completed row is settled: no session of the tick holds one.
LEMMA CompletedSettled ==
  ASSUME SessionsInv, NEW t \in Tasks, db[t].status = "completed"
  PROVE  Settled(t)
BY DEF Settled, SessionsInv, SyncSession, FillSession

\* A loop that sleeps relies on nothing.
LEMMA SleepsSessions ==
  ASSUME StorageSleeps
  PROVE  StorageSession' /\ QuotaSession' /\ InStorage' = {}
<1>1. InStorage' = {} /\ Listed' = {}
  BY DEF StorageSleeps, EmptySession, InStorage, Listed, NoRow
<1> QED
  BY <1>1 DEF StorageSleeps, EmptySession, StorageSession, QuotaSession

\* A row enters a storage session as the table holds it, completed.
LEMMA StorageLoads ==
  ASSUME StorageTypeOK, StorageNext, NEW t \in InStorage'
  PROVE  \/ t \in InStorage /\ ssnap'[t] = ssnap[t]
         \/ db[t].status = "completed" /\ ssnap'[t] = db[t]
<1>0. t \in Tasks /\ ssnap'[t].status # "none"
  BY DEF InStorage
<1>1. CASE CleanLoad
  BY <1>0, <1>1 DEF CleanLoad, Load, Due, NoRow
<1>2. CASE UNCHANGED ssnap
  BY <1>0, <1>2 DEF InStorage
<1>3. CASE ssnap' = EmptySession
  BY <1>0, <1>3 DEF EmptySession, NoRow
<1>4. ASSUME NEW u \in Tasks, QuotaGet(u)
      PROVE  \/ t \in InStorage /\ ssnap'[t] = ssnap[t]
             \/ db[t].status = "completed" /\ ssnap'[t] = db[t]
  BY <1>0, <1>4 DEF QuotaGet, StorageTypeOK, InStorage
<1> QED
  BY <1>1, <1>2, <1>3, <1>4
     DEF StorageNext, StorageStep, CleanPurge, CleanCommit, QuotaList, QuotaPurge, Purge,
         QuotaCommit, StorageAborts, StorageSleeps

\* cleanup_expired loads what is due.
LEMMA CleanLoadSessions ==
  ASSUME SessionsInv, StorageTypeOK, QuotaSession, CleanLoad, UNCHANGED tickVars
  PROVE  StorageSession' /\ QuotaSession'
<1> DEFINE S == {t \in Tasks : Due(db[t])}
<1>1. /\ spc = "idle" /\ spc' = "clean" /\ stodo' = S
      /\ \A t \in Tasks : ssnap'[t] = (IF t \in S THEN db[t] ELSE NoRow) /\ scur'[t] = ssnap'[t]
      /\ UNCHANGED <<db, now, listed, freed>>
  BY DEF CleanLoad, Load, nodeVars
<1>2. \A t \in Tasks : t \in S => /\ db[t].status = "completed"
                                  /\ db[t].completedAt + TTL < now
                                  /\ Settled(t)
  BY CompletedSettled DEF Due
<1>3. \A t \in Tasks : Settled(t) => Settled(t)'
  BY <1>1 DEF Settled, tickVars, InSession
<1>0. S \subseteq Tasks
  OBVIOUS
<1> HIDE DEF S
<1>4. InStorage' = S
  BY <1>1, <1>2, CleanLoad DEF InStorage, NoRow, CleanLoad
<1>5. StorageSession'
  <2>1. ASSUME NEW t \in Tasks, t \in S
        PROVE  /\ ssnap'[t].status = "completed" /\ scur'[t] = ssnap'[t]
               /\ ssnap'[t].completedAt + TTL < now' /\ Settled(t)'
               /\ db'[t].completedAt = ssnap'[t].completedAt
    <3>1. ssnap'[t] = db[t] /\ db'[t] = db[t] /\ now' = now
      BY <1>1, <2>1
    <3> QED
      BY <1>1, <1>2, <1>3, <2>1, <3>1
  <2>2. \A t \in Tasks : t \notin S => scur'[t] = ssnap'[t]
    BY <1>1
  <2> QED
    BY <1>1, <1>0, <1>4, <2>1, <2>2 DEF StorageSession
<1>6. Listed' = Listed
  BY <1>1 DEF Listed
<1> QED
  BY <1>1, <1>5, <1>6 DEF QuotaSession

\* An rmtree and its assignments, in a session of either kind.
LEMMA PurgeSession ==
  ASSUME StorageTypeOK, StorageSession, NEW t \in Tasks, t \in InStorage, Purge(t),
         spc \notin {"idle", "list"}, spc' = spc \/ spc' = "evict", UNCHANGED tickVars
  PROVE  StorageSession' /\ InStorage' = InStorage
<1>1. /\ UNCHANGED <<db, now, ssnap>> /\ stodo' = stodo \ {t}
      /\ scur' = [scur EXCEPT ![t] = Purged(ssnap[t])]
  BY DEF Purge
<1>2. InStorage' = InStorage
  BY <1>1 DEF InStorage
<1>3. \A u \in Tasks : Settled(u) => Settled(u)'
  BY <1>1 DEF Settled, tickVars, InSession
<1>4. \A u \in Tasks : scur'[u] = IF u = t THEN Purged(ssnap[u]) ELSE scur[u]
  BY <1>1 DEF StorageTypeOK
<1>5. \A u \in Tasks : Purged(ssnap[u])' = Purged(ssnap[u])
  BY <1>1 DEF Purged
<1> QED
  BY <1>1, <1>2, <1>3, <1>4, <1>5 DEF StorageSession

\* enforce_quota lists what is completed.
LEMMA QuotaListSessions ==
  ASSUME SessionsInv, StorageTypeOK, StorageSession, QuotaSession, QuotaList, UNCHANGED tickVars
  PROVE  StorageSession' /\ QuotaSession'
<1> DEFINE S == {t \in Tasks : db[t].status = "completed" /\ db[t].path}
<1>1. CASE StorageSleeps
  BY <1>1, SleepsSessions
<1>2. CASE /\ listed' = Load(S) /\ stodo' = S /\ spc' = "evict"
           /\ UNCHANGED <<ssnap, scur, freed>>
  <2>1. UNCHANGED <<db, now>> /\ spc = "list"
    BY DEF QuotaList, nodeVars
  <2>2. InStorage = {} /\ InStorage' = {}
    BY <1>2, <2>1 DEF StorageSession, InStorage
  <2>3. \A t \in Tasks : listed'[t] = IF t \in S THEN db[t] ELSE NoRow
    BY <1>2 DEF Load
  <2>4. Listed' = S
    BY <2>3 DEF Listed, NoRow
  <2>5. \A t \in S : t \in Tasks /\ Settled(t)' /\ db[t].completedAt # NoTime
    <3>1. \A t \in S : t \in Tasks /\ Settled(t) /\ db[t].completedAt # NoTime
      BY CompletedSettled DEF SessionsInv, RowsConsistent
    <3> QED
      BY <3>1, <2>1 DEF Settled, tickVars, InSession
  <2>6. StorageSession'
    BY <1>2, <2>1, <2>2 DEF StorageSession
  <2>7. freed = 0
    BY <2>1 DEF QuotaSession
  <2>8. freed' <= Total(InStorage' \ stodo')
    <3>1. InStorage' \ stodo' = {}
      BY <2>2
    <3>2. Total(InStorage' \ stodo') = 0
      BY <3>1, TotalEmpty, Zenon
    <3> QED
      BY <1>2, <2>7, <3>2
  <2> HIDE DEF S
  <2>9. QuotaSession'
    BY <1>2, <2>2, <2>3, <2>4, <2>5, <2>8 DEF QuotaSession
  <2> QED
    BY <2>6, <2>9
<1> QED
  BY <1>1, <1>2 DEF QuotaList

\* enforce_quota reads a row again before it removes the files.
LEMMA QuotaGetSessions ==
  ASSUME SessionsInv, StorageTypeOK, StorageSession, QuotaSession,
         NEW t \in Tasks, QuotaGet(t), UNCHANGED tickVars
  PROVE  StorageSession' /\ QuotaSession'
<1>1. /\ UNCHANGED <<db, now, listed, freed>>
      /\ spc = "evict" /\ t \in stodo /\ \A u \in stodo : Earlier(listed[t], listed[u])
  BY DEF QuotaGet, nodeVars
<1>2. InStorage \cap stodo = {} /\ t \notin InStorage
  BY <1>1 DEF QuotaSession
<1>3. \A u \in Tasks : Settled(u) => Settled(u)'
  BY <1>1 DEF Settled, tickVars, InSession
<1>4. Listed' = Listed /\ stodo \subseteq Listed /\ Listed \subseteq Tasks
  BY <1>1 DEF Listed, QuotaSession
<1>5. CASE /\ db[t].status = "completed"
           /\ ssnap' = [ssnap EXCEPT ![t] = db[t]]
           /\ scur' = [scur EXCEPT ![t] = db[t]]
           /\ spc' = "purge" /\ UNCHANGED stodo
  <2>1. \A u \in Tasks : /\ ssnap'[u] = IF u = t THEN db[u] ELSE ssnap[u]
                        /\ scur'[u] = IF u = t THEN db[u] ELSE scur[u]
    BY <1>5 DEF StorageTypeOK
  <2>2. InStorage' = InStorage \cup {t}
    BY <1>5, <2>1 DEF InStorage
  <2>3. Settled(t)
    BY <1>5, CompletedSettled
  <2>4. StorageSession'
    <3>1. \A u \in Tasks \ {t} : Purged(ssnap[u])' = Purged(ssnap[u])
      BY <2>1 DEF Purged
    <3> QED
      BY <1>1, <1>3, <1>5, <2>1, <2>2, <2>3, <3>1 DEF StorageSession
  <2>5. InStorage' \ stodo' = InStorage \ stodo
    BY <1>1, <1>5, <2>2
  <2>6. freed' <= Total(InStorage' \ stodo')
    BY <1>1, <2>5 DEF QuotaSession
  <2>7. InStorage' \cap stodo' = {t}
    BY <1>1, <1>2, <1>5, <2>2
  <2>8. \A v \in InStorage', u \in stodo' : Earlier(listed[v], listed[u])'
    BY <1>1, <1>5, <2>2 DEF QuotaSession, Earlier
  <2>9. QuotaSession'
    BY <1>1, <1>3, <1>4, <1>5, <2>2, <2>6, <2>7, <2>8 DEF QuotaSession
  <2> QED
    BY <2>4, <2>9
<1>6. CASE db[t].status # "completed" /\ stodo' = stodo \ {t} /\ UNCHANGED <<spc, ssnap, scur>>
  <2>1. InStorage' = InStorage
    BY <1>6 DEF InStorage
  <2>2. StorageSession'
    <3>1. \A u \in Tasks : Purged(ssnap[u])' = Purged(ssnap[u])
      BY <1>6 DEF Purged
    <3> QED
      BY <1>1, <1>2, <1>3, <1>6, <2>1, <3>1 DEF StorageSession
  <2>3. InStorage' \ stodo' = InStorage \ stodo
    BY <1>2, <1>6, <2>1
  <2>4. freed' <= Total(InStorage' \ stodo')
    BY <1>1, <2>3 DEF QuotaSession
  <2>5. \A v \in InStorage', u \in stodo' : Earlier(listed[v], listed[u])'
    BY <1>1, <1>6, <2>1 DEF QuotaSession, Earlier
  <2>6. QuotaSession'
    BY <1>1, <1>3, <1>4, <1>6, <2>1, <2>4, <2>5 DEF QuotaSession
  <2> QED
    BY <2>2, <2>6
<1> QED
  BY <1>5, <1>6 DEF QuotaGet

\* enforce_quota removes the files of the row it read, and credits them at most.
LEMMA QuotaPurgeSessions ==
  ASSUME StorageTypeOK, StorageSession, QuotaSession,
         NEW t \in Tasks, QuotaPurge(t), UNCHANGED tickVars
  PROVE  StorageSession' /\ QuotaSession'
<1>1. /\ spc = "purge" /\ spc' = "evict" /\ t \in stodo /\ t \in InStorage
      /\ Purge(t) /\ UNCHANGED <<db, ssnap, listed>> /\ stodo' = stodo \ {t}
      /\ freed' = IF disk[t] = "absent" THEN freed ELSE freed + Size[t]
  BY DEF QuotaPurge, Purge, InStorage
<1>2. StorageSession' /\ InStorage' = InStorage
  BY <1>1, PurgeSession
<1>3. \A u \in Tasks : Settled(u) => Settled(u)'
  BY <1>1 DEF Settled, tickVars, InSession
<1>4. Listed' = Listed /\ Listed \subseteq Tasks
  BY <1>1 DEF Listed
<1>5. InStorage \cap stodo = {t}
  BY <1>1 DEF QuotaSession
<1>6. freed' <= Total(InStorage' \ stodo')
  <2>1. /\ InStorage \ stodo' \in SUBSET Tasks /\ t \in InStorage \ stodo'
        /\ (InStorage \ stodo') \ {t} = InStorage \ stodo
        /\ InStorage \ stodo \in SUBSET Tasks
    BY <1>1 DEF InStorage
  <2>2. Total(InStorage \ stodo') = Total((InStorage \ stodo') \ {t}) + Size[t]
    BY <2>1, TotalRemove
  <2>3. Total(InStorage \ stodo') = Total(InStorage \ stodo) + Size[t]
    BY <2>1, <2>2, Zenon
  <2>4. freed \in Nat /\ Size[t] \in Nat /\ Total(InStorage \ stodo) \in Nat
    BY <2>1, TotalType, StorageAssumption DEF StorageTypeOK
  <2>5. freed <= Total(InStorage \ stodo)
    BY <1>1 DEF QuotaSession
  <2>6. freed' <= Total(InStorage \ stodo')
    BY <1>1, <2>3, <2>4, <2>5
  <2> QED
    BY <1>2, <2>6
<1>7. InStorage' \cap stodo' = {}
  BY <1>1, <1>2, <1>5
<1>8. \A v \in InStorage', u \in stodo' : Earlier(listed[v], listed[u])'
  BY <1>1, <1>2 DEF QuotaSession, Earlier
<1>9. QuotaSession'
  BY <1>1, <1>2, <1>3, <1>4, <1>6, <1>7, <1>8 DEF QuotaSession
<1> QED
  BY <1>2, <1>9

\* Every step of the loop keeps what its sessions rely on.
LEMMA StorageSessionsStep ==
  ASSUME SessionsInv, StorageTypeOK, StorageSession, QuotaSession, StorageNext,
         UNCHANGED tickVars
  PROVE  StorageSession' /\ QuotaSession'
<1>1. ASSUME NEW t \in Tasks, CleanPurge(t)
      PROVE  StorageSession' /\ QuotaSession'
  <2>1. spc = "clean" /\ UNCHANGED <<spc, freed, listed>> /\ t \in InStorage /\ Purge(t)
    BY <1>1 DEF CleanPurge, Purge, StorageSession
  <2>2. Listed' = Listed
    BY <2>1 DEF Listed
  <2> QED
    BY <2>1, <2>2, PurgeSession DEF QuotaSession
<1>2. CASE CleanCommit
  <2>1. InStorage' = {}
    BY <1>2 DEF CleanCommit, InStorage, EmptySession, NoRow
  <2>2. Listed' = Listed
    BY <1>2 DEF CleanCommit, Listed
  <2> QED
    BY <1>2, <2>1, <2>2 DEF CleanCommit, StorageSession, QuotaSession, EmptySession
<1> QED
  BY <1>1, <1>2, CleanLoadSessions, QuotaListSessions, QuotaGetSessions, QuotaPurgeSessions,
     SleepsSessions DEF StorageNext, StorageStep, QuotaCommit, StorageAborts

-----------------------------------------------------------------------------
(* The invariant, but for its part on the files *)

\* What holds of rows and sessions through any fault.
RowsInv ==
  SessionsInv /\ StorageTypeOK /\ LinkTypeOK /\ StorageSession /\ QuotaSession /\ LinkSession

\* The steps of TaskLifecycle leave the clock alone.
LEMMA NextKeepsClock ==
  ASSUME Next
  PROVE  now' = now
BY DEF Next, LifecycleStep, TickNext, TickStep, SyncLoad, SyncStatus, SyncCommit, FillCount,
       FillPick, FillAdd, FillCommit, TickAborts, AriaNext, AriaStep, AriaStart, AriaComplete,
       AriaError, AriaRestart, Enqueue, DeleteNext, DeleteStep, DeleteLoad, DeleteQueued,
       DeleteForce, DeleteResult, DeletePurge, DeleteCommit, DeleteAborts, NodeRestart, nodeVars

LEMMA NoLinkType ==
  NoLink \in [pc : {"idle", "loaded", "sending"}, task : Tasks \cup {-1}, row : Row]
BY NoRowType DEF NoLink

\* A step of the tick, aria2 or a request.
LEMMA LifecycleRows ==
  ASSUME RowsInv, LifecycleStep, UNCHANGED <<storageVars, link>>
  PROVE  RowsInv'
<1> USE DEF RowsInv
<1>1. Next /\ now' = now
  BY NextKeepsClock DEF Next
<1>2. SessionsInv'
  BY <1>1, SessionsStep
<1>3. RowsSettle
  BY <1>1, SettledStep DEF RowsSettle
<1>4. StorageSession'
  BY <1>1, <1>3, StorageSessionKept DEF SessionsInv, TypeOK, NodeTypeOK
<1>5. QuotaSession' /\ LinkSession'
  BY <1>3, QuotaSessionKept, LinkSessionKept DEF storageVars
<1>6. StorageTypeOK' /\ LinkTypeOK'
  BY DEF StorageTypeOK, LinkTypeOK, storageVars
<1> QED
  BY <1>2, <1>4, <1>5, <1>6

\* What enforce_quota counts as freed there is.
LEMMA FreedBound ==
  ASSUME QuotaSession', freed' \in Nat
  PROVE  freed' \in 0..Total(Tasks)
<1>1. Total(Tasks) \in Nat
  BY TotalType
<1>2. (InStorage \ stodo)' \in SUBSET Tasks
  BY DEF InStorage
<1>3. Total((InStorage \ stodo)') \in Nat /\ Total((InStorage \ stodo)') <= Total(Tasks)
  BY <1>2, TotalType, TotalMonotone
<1>4. freed' <= Total((InStorage \ stodo)') \/ freed' = 0
  BY DEF QuotaSession
<1> QED
  BY <1>1, <1>3, <1>4

\* A step of the storage loop.
LEMMA StorageRowsInv ==
  ASSUME RowsInv, StorageNext, UNCHANGED <<tickVars, req, link>>
  PROVE  RowsInv'
<1> USE DEF RowsInv
<1>0. NodeTypeOK
  BY DEF SessionsInv, TypeOK
<1>1. /\ NodeTypeOK' /\ spc' \in StoragePc
      /\ ssnap' \in [Tasks -> Row] /\ scur' \in [Tasks -> Row]
      /\ stodo' \in SUBSET Tasks /\ listed' \in [Tasks -> Row]
      /\ freed' \in Nat
  BY <1>0, StorageType
<1>2. TypeOK'
  BY <1>1 DEF SessionsInv, TypeOK, TickTypeOK, ApiTypeOK, tickVars
<1>3. UNCHANGED aria2 /\ faults' >= faults
  BY <1>0, StorageKeeps
<1>4. SessionsInv'
  BY <1>0, <1>2, <1>3, StorageRows, ExpireInv
<1>5. StorageSession' /\ QuotaSession'
  BY StorageSessionsStep
<1>6. StorageTypeOK'
  <2>1. freed' \in 0..Total(Tasks)
    BY <1>1, <1>5, FreedBound
  <2> QED
    BY <1>1, <2>1 DEF StorageTypeOK
<1>7. LinkTypeOK'
  BY DEF LinkTypeOK
<1>8. LinkSession'
  <2> SUFFICES ASSUME NEW l \in Links, link[l].pc # "idle", link[l].row.status = "completed"
               PROVE  LET t == link[l].task
                      IN  /\ t \in Tasks
                          /\ Settled(t)'
                          /\ db'[t].status = "completed" => db'[t].completedAt = link[l].row.completedAt
                          /\ t \in InStorage' => ssnap'[t].completedAt = link[l].row.completedAt
    BY DEF LinkSession
  <2> DEFINE t == link[l].task
  <2>1. /\ t \in Tasks /\ Settled(t)
        /\ db[t].status = "completed" => db[t].completedAt = link[l].row.completedAt
        /\ t \in InStorage => ssnap[t].completedAt = link[l].row.completedAt
    BY DEF LinkSession
  <2>2. Settled(t)' /\ (db'[t] = db[t] \/ db'[t].status = "expired")
    BY <1>0, <2>1, StorageSettled
  <2>3. t \in InStorage' => ssnap'[t].completedAt = link[l].row.completedAt
    BY <2>1, StorageLoads
  <2> QED
    BY <2>1, <2>2, <2>3
<1> QED
  BY <1>4, <1>5, <1>6, <1>7, <1>8

\* A link loads a row, answers, or is done.
LEMMA LinkRows ==
  ASSUME RowsInv, LinkNext, UNCHANGED <<tickVars, req, storageVars>>
  PROVE  RowsInv'
<1> USE DEF RowsInv
<1>1. UNCHANGED <<nodeVars, tickVars, req, storageVars>>
  BY DEF LinkNext, LinkLoad, LinkAnswer, LinkSend
<1>2. SessionsInv' /\ UNCHANGED <<db, pc, snap, ssnap, now>>
  BY <1>1, SessionsStep DEF vars, nodeVars, tickVars, storageVars
<1>3. RowsSettle
  BY <1>2 DEF RowsSettle, Settled, InSession
<1>4. StorageSession'
  BY <1>1, <1>2, <1>3, StorageSessionKept DEF SessionsInv, TypeOK, NodeTypeOK
<1>5. QuotaSession'
  BY <1>1, <1>3, QuotaSessionKept
<1>6. StorageTypeOK'
  BY <1>1 DEF StorageTypeOK, storageVars
<1>7. PICK l \in Links : /\ \A k \in Links \ {l} : link'[k] = link[k]
                         /\ \/ link'[l] = NoLink
                            \/ link[l].pc # "idle" /\ link'[l] = [link[l] EXCEPT !.pc = "sending"]
                            \/ \E t \in Tasks : link'[l] = [pc |-> "loaded", task |-> t, row |-> db[t]]
                         /\ link' = [link EXCEPT ![l] = link'[l]]
  BY DEF LinkNext, LinkLoad, LinkAnswer, LinkSend, LinkTypeOK
<1>8. LinkTypeOK'
  <2>1. link'[l] \in [pc : {"idle", "loaded", "sending"}, task : Tasks \cup {-1}, row : Row]
    <3>1. link[l] \in [pc : {"idle", "loaded", "sending"}, task : Tasks \cup {-1}, row : Row]
      BY DEF LinkTypeOK
    <3>2. \A t \in Tasks : db[t] \in Row
      BY DEF SessionsInv, TypeOK, NodeTypeOK
    <3>3. [link[l] EXCEPT !.pc = "sending"]
            \in [pc : {"idle", "loaded", "sending"}, task : Tasks \cup {-1}, row : Row]
      BY <3>1
    <3>4. \A t \in Tasks : [pc |-> "loaded", task |-> t, row |-> db[t]]
            \in [pc : {"idle", "loaded", "sending"}, task : Tasks \cup {-1}, row : Row]
      BY <3>2
    <3> QED
      BY <1>7, <3>3, <3>4, NoLinkType
  <2> QED
    BY <1>7, <2>1 DEF LinkTypeOK
<1>9. LinkSession'
  <2>1. ASSUME NEW k \in Links, link'[k].pc # "idle", link'[k].row.status = "completed"
        PROVE  LET t == link'[k].task
               IN  /\ t \in Tasks
                   /\ Settled(t)
                   /\ db[t].status = "completed" => db[t].completedAt = link'[k].row.completedAt
                   /\ t \in InStorage => ssnap[t].completedAt = link'[k].row.completedAt
    <3>1. CASE link'[k] = link[k]
      BY <2>1, <3>1 DEF LinkSession
    <3>2. CASE link[k].pc # "idle" /\ link'[k] = [link[k] EXCEPT !.pc = "sending"]
      <4>1. link'[k].task = link[k].task /\ link'[k].row = link[k].row
        BY <3>2 DEF LinkTypeOK
      <4> QED
        BY <2>1, <3>2, <4>1 DEF LinkSession
    <3>3. CASE link'[k] = NoLink
      BY <2>1, <3>3 DEF NoLink
    <3>4. ASSUME NEW t \in Tasks, link'[k] = [pc |-> "loaded", task |-> t, row |-> db[t]]
          PROVE  /\ link'[k].task = t /\ link'[k].row = db[t] /\ Settled(t)
                 /\ t \in InStorage => ssnap[t].completedAt = db[t].completedAt
      BY <2>1, <3>4, CompletedSettled DEF StorageSession
    <3> QED
      BY <1>7, <3>1, <3>2, <3>3, <3>4
  <2>2. InStorage' = InStorage
    BY <1>2 DEF InStorage
  <2> QED
    BY <1>2, <1>3, <2>1, <2>2 DEF LinkSession, RowsSettle
<1> QED
  BY <1>2, <1>4, <1>5, <1>6, <1>8, <1>9

\* The process starts anew.
LEMMA AgentRestartRows ==
  ASSUME RowsInv, AgentRestart
  PROVE  RowsInv'
<1> USE DEF RowsInv
<1>1. NodeRestart /\ StorageSleeps /\ link' = [l \in Links |-> NoLink]
  BY DEF AgentRestart
<1>2. SessionsInv'
  BY <1>1, SessionsStep DEF Next
<1>3. StorageSession' /\ QuotaSession'
  BY <1>1, SleepsSessions
<1>4. StorageTypeOK'
  BY <1>1, SleepsType, TotalType DEF StorageTypeOK
<1>5. LinkTypeOK' /\ LinkSession'
  BY <1>1, NoLinkType DEF LinkTypeOK, LinkSession, NoLink
<1> QED
  BY <1>2, <1>3, <1>4, <1>5

\* Time passes.
LEMMA ClockRows ==
  ASSUME RowsInv, Clock
  PROVE  RowsInv'
<1> USE DEF RowsInv
<1>1. /\ now \in Nat /\ now' = now + 1 /\ faults \in Nat
      /\ UNCHANGED <<db, aria2, disk, faults, tickVars, req, storageVars, link>>
  BY DEF Clock, SessionsInv, TypeOK, NodeTypeOK
<1>2. TypeOK'
  BY <1>1 DEF SessionsInv, TypeOK, NodeTypeOK, TickTypeOK, ApiTypeOK, tickVars
<1>3. Requests'
  BY <1>1 DEF SessionsInv, Requests, Request, InSession, tickVars
<1>4. SessionsInv'
  BY <1>1, <1>2, <1>3, RequestStepInv
<1>5. RowsSettle
  BY <1>1 DEF RowsSettle, Settled, InSession, tickVars
<1>6. StorageSession'
  BY <1>1, <1>5, StorageSessionKept DEF SessionsInv
<1>7. QuotaSession' /\ LinkSession'
  BY <1>1, <1>5, QuotaSessionKept, LinkSessionKept DEF storageVars
<1>8. StorageTypeOK' /\ LinkTypeOK'
  BY <1>1 DEF StorageTypeOK, LinkTypeOK, storageVars
<1> QED
  BY <1>4, <1>6, <1>7, <1>8

LEMMA RowsStep == RowsInv /\ [AgentNext]_agentVars => RowsInv'
<1> SUFFICES ASSUME RowsInv, [AgentNext]_agentVars
             PROVE  RowsInv'
  OBVIOUS
<1>1. CASE UNCHANGED agentVars
  <2>1. UNCHANGED <<vars, storageVars, link, db, pc, snap, now, ssnap>>
    BY <1>1 DEF agentVars, vars, nodeVars, tickVars, storageVars
  <2>2. SessionsInv'
    BY <2>1, SessionsStep DEF RowsInv
  <2>3. RowsSettle
    BY <2>1 DEF RowsSettle, Settled, InSession
  <2>4. StorageSession' /\ QuotaSession' /\ LinkSession'
    BY <2>1, <2>3, StorageSessionKept, QuotaSessionKept, LinkSessionKept
       DEF RowsInv, SessionsInv, TypeOK, NodeTypeOK
  <2>5. StorageTypeOK' /\ LinkTypeOK'
    BY <2>1 DEF RowsInv, StorageTypeOK, LinkTypeOK, storageVars
  <2> QED
    BY <2>2, <2>4, <2>5 DEF RowsInv
<1> QED
  BY <1>1, LifecycleRows, StorageRowsInv, LinkRows, AgentRestartRows, ClockRows DEF AgentNext

LEMMA RowsInit == AgentInit => RowsInv
<1> SUFFICES ASSUME AgentInit
             PROVE  RowsInv
  OBVIOUS
<1> USE DEF AgentInit
<1>1. SessionsInv
  BY SessionsInit
<1>2. ssnap = EmptySession /\ scur = EmptySession /\ listed = EmptySession
  BY DEF StorageInit
<1>3. InStorage = {} /\ Listed = {}
  BY <1>2 DEF InStorage, Listed, EmptySession, NoRow
<1>4. StorageSession /\ QuotaSession
  BY <1>2, <1>3 DEF StorageSession, QuotaSession, StorageInit
<1>5. StorageTypeOK
  BY <1>2, EmptySessionType, TotalType DEF StorageTypeOK, StorageInit, StoragePc
<1>6. LinkTypeOK /\ LinkSession
  BY NoLinkType DEF LinkInit, LinkTypeOK, LinkSession, NoLink
<1> QED
  BY <1>1, <1>4, <1>5, <1>6 DEF RowsInv

-----------------------------------------------------------------------------
(* The files *)

\* While Intact holds, no commit and no file operation has failed.
LEMMA CheapFault ==
  ASSUME NodeTypeOK, NEW k, Fault(k), Intact'
  PROVE  k \in {"rpc", "aria2"}
BY DEF Fault, Intact, NodeTypeOK

\* What completed is settled, whoever remembers it.
LEMMA FinishedSettled ==
  ASSUME RowsInv, NEW t \in Tasks, Finished(t)
  PROVE  Settled(t)
<1>1. CASE db[t].status \in {"completed", "expired"}
  BY <1>1 DEF Settled, RowsInv, SessionsInv, SyncSession, FillSession
<1>2. CASE t \in InStorage
  BY <1>2 DEF RowsInv, StorageSession
<1>3. ASSUME NEW h \in Handlers, req[h].pc # "idle", req[h].task = t,
             req[h].row.status = "completed"
      PROVE  Settled(t)
  BY <1>3 DEF Settled, RowsInv, SessionsInv, Requests, Request
<1>4. ASSUME NEW l \in Links, link[l].pc # "idle", link[l].task = t,
             link[l].row.status = "completed"
      PROVE  Settled(t)
  BY <1>4 DEF RowsInv, LinkSession
<1> QED
  BY <1>1, <1>2, <1>3, <1>4 DEF Finished

\* The rows whose files the storage loop has removed.
LEMMA EvictingRows ==
  ASSUME RowsInv, NEW t \in Tasks
  PROVE  Evicting(t) <=> t \in InStorage \ stodo
<1>1. ssnap[t] \in Row /\ (t \in InStorage <=> ssnap[t].status # "none")
  BY DEF RowsInv, StorageTypeOK, InStorage
<1>2. Purged(ssnap[t]).status = "expired"
  BY <1>1 DEF Purged, Row
<1>3. CASE t \in InStorage
  BY <1>1, <1>2, <1>3 DEF RowsInv, StorageSession, Evicting
<1>4. CASE t \notin InStorage
  BY <1>1, <1>4 DEF RowsInv, StorageSession, Evicting
<1> QED
  BY <1>3, <1>4

\* Somebody remembers the task whose files are being removed.
LEMMA PurgingFinished ==
  ASSUME RowsInv, NEW t \in Tasks, Purging(t) \/ Evicting(t)
  PROVE  Finished(t)
BY EvictingRows DEF Purging, Finished

\* What holds of the directory; r: while aria2 remembers, too.
Files(t, r) == FilesKept(t) /\ (r => FilesFreed(t))

\* A step that concerns other tasks.
LEMMA FilesSame ==
  ASSUME NEW t \in Tasks, NEW r \in BOOLEAN, Files(t, r),
         aria2'[t] = aria2[t], disk'[t] = disk[t], db'[t].status = db[t].status,
         UNCHANGED pc, snap'[t] = snap[t], cur'[t] = cur[t], t \in todo' => t \in todo,
         Finished(t)' => Finished(t),
         Purging(t)' <=> Purging(t), Evicting(t)' <=> Evicting(t)
  PROVE  Files(t, r)'
<1>1. t \in InSession' <=> t \in InSession
  BY DEF InSession
<1>2. Gids(t)' = Gids(t)
  BY DEF Gids
<1>3. Ceased(t)' <=> Ceased(t)
  BY <1>2 DEF Ceased
<1> QED
  BY <1>1, <1>2, <1>3 DEF Files, FilesKept, FilesFreed

\* A step of the tick, aria2 or POST leaves the requests, the storage loop and the links.
LEMMA OthersKept ==
  ASSUME UNCHANGED <<req, storageVars, link>>, NEW t \in Tasks
  PROVE  /\ Purging(t)' <=> Purging(t)
         /\ Evicting(t)' <=> Evicting(t)
         /\ Finished(t)' => db'[t].status \in {"completed", "expired"} \/ Finished(t)
BY DEF Purging, Evicting, Finished, InStorage, storageVars

\* The sync session loads rows whose directory exists.
LEMMA SyncLoadFiles ==
  ASSUME RowsInv, SyncLoad, UNCHANGED <<req, storageVars, link>>, NEW t \in Tasks, NEW r \in BOOLEAN, Files(t, r)
  PROVE  Files(t, r)'
<1>1. /\ UNCHANGED <<db, aria2, disk>> /\ pc' = "sync" /\ pc = "idle"
      /\ t \in InSession' => /\ db[t].status \in {"downloading", "queued"}
                             /\ cur'[t] = db[t]
  BY DEF SyncLoad, nodeVars, Open, Load, InStatus, InSession, NoRow
<1>2. Gids(t)' = Gids(t) /\ (Ceased(t)' <=> Ceased(t))
  BY <1>1 DEF Gids, Ceased
<1>3. /\ Purging(t)' <=> Purging(t)
      /\ Evicting(t)' <=> Evicting(t)
      /\ Finished(t)' => Finished(t)
  BY <1>1, OthersKept DEF Finished
<1> QED
  BY <1>1, <1>2, <1>3 DEF Files, FilesKept, FilesFreed

\* A row is only completed after aria2 has said so, of the one download there is.
LEMMA SyncStatusFiles ==
  ASSUME RowsInv, NEW u \in Tasks, SyncStatus(u), UNCHANGED <<req, storageVars, link>>,
         NEW t \in Tasks, NEW r \in BOOLEAN, Files(t, r)
  PROVE  Files(t, r)'
<1>1. /\ UNCHANGED <<db, aria2, disk, now, pc, snap>> /\ pc = "sync" /\ u \in todo
      /\ todo' \subseteq todo /\ \A w \in Tasks \ {u} : cur'[w] = cur[w]
  BY DEF SyncStatus, SyncAnswer, SyncNoAnswer, Assign, RowsInv, SessionsInv, TypeOK, TickTypeOK
<1>2. /\ Purging(t)' <=> Purging(t)
      /\ Evicting(t)' <=> Evicting(t)
      /\ Finished(t)' => Finished(t)
  BY <1>1, OthersKept DEF Finished
<1>3. CASE t # u
  BY <1>1, <1>2, <1>3, FilesSame
<1>4. CASE t = u
  <2>1. Gids(t)' = Gids(t) /\ (Ceased(t)' <=> Ceased(t)) /\ InSession' = InSession
    BY <1>1 DEF Gids, Ceased, InSession
  <2>2. cur[t] \in Row /\ cur[t].status = "downloading" /\ t \in InSession
    BY <1>1, <1>4 DEF RowsInv, SessionsInv, TypeOK, TickTypeOK, SyncSession
  <2>3. cur'[t].status = "completed" => TellStatus(t, cur[t].gid) = "complete"
    <3>1. cur'[t] = Lost(cur[t]) \/ cur'[t] = Synced(cur[t], StatusMap[TellStatus(t, cur[t].gid)])
      BY <1>4 DEF SyncStatus, SyncAnswer, SyncNoAnswer, Assign, RowsInv, SessionsInv, TypeOK,
         TickTypeOK
    <3>2. Lost(cur[t]).status = "failed"
      BY <2>2 DEF Lost, MarkFailed, Row
    <3>3. \A st : Synced(cur[t], st).status = "completed" => st = "completed"
      BY <2>2 DEF Synced, MarkStarted, MarkFailed, Row
    <3>4. CASE cur'[t] = Lost(cur[t])
      BY <3>2, <3>4
    <3>5. CASE TellStatus(t, cur[t].gid) # "gone" /\ cur'[t] = Synced(cur[t], StatusMap[TellStatus(t, cur[t].gid)])
      <4>1. TellStatus(t, cur[t].gid) \in {"waiting", "active", "complete", "error", "removed"}
        BY <3>5 DEF TellStatus, Gids, RowsInv, SessionsInv, TypeOK, NodeTypeOK, AriaStatus
      <4> QED
        BY <3>3, <3>5, <4>1 DEF StatusMap
    <3> QED
      BY <1>4, <3>4, <3>5 DEF SyncStatus, SyncAnswer, SyncNoAnswer, Assign, RowsInv, SessionsInv,
         TypeOK, TickTypeOK
  <2>4. TellStatus(t, cur[t].gid) = "complete" => Ceased(t) /\ disk[t] = "full"
    <3>1. SUFFICES ASSUME TellStatus(t, cur[t].gid) = "complete"
                   PROVE  Ceased(t) /\ disk[t] = "full"
      OBVIOUS
    <3>2. cur[t].gid \in Gids(t) /\ aria2[t][cur[t].gid] = "complete"
      BY <3>1 DEF TellStatus
    <3>3. Len(aria2[t]) \in Nat /\ Len(aria2[t]) <= 1
      BY AriaLen DEF Files, FilesKept, FilesFreed, RowsInv, SessionsInv, TypeOK, NodeTypeOK
    <3>4. \A g \in Gids(t) : g = cur[t].gid
      BY <3>2, <3>3 DEF Gids
    <3>5. Ceased(t)
      BY <3>2, <3>4 DEF Ceased
    <3>6. disk[t] = "full"
      BY <1>1, <2>2, <3>2 DEF Files, FilesKept, FilesFreed
    <3> QED
      BY <3>5, <3>6
  <2>5. cur'[t].status = "completed" => Ceased(t) /\ disk[t] = "full"
    BY <2>3, <2>4
  <2> QED
    BY <1>1, <1>2, <2>1, <2>5 DEF Files, FilesKept, FilesFreed
<1> QED
  BY <1>3, <1>4

\* The sync session commits what aria2 said of its rows.
LEMMA SyncCommitFiles ==
  ASSUME RowsInv, SyncCommit, UNCHANGED <<req, storageVars, link>>, NEW t \in Tasks, NEW r \in BOOLEAN, Files(t, r)
  PROVE  Files(t, r)'
<1>1. UNCHANGED <<aria2, disk>> /\ pc = "sync" /\ pc' = "count"
  BY DEF SyncCommit
<1>2. Gids(t)' = Gids(t) /\ (Ceased(t)' <=> Ceased(t))
  BY <1>1 DEF Gids, Ceased
<1>3. /\ Purging(t)' <=> Purging(t)
      /\ Evicting(t)' <=> Evicting(t)
      /\ Finished(t)' => db'[t].status \in {"completed", "expired"} \/ Finished(t)
  BY OthersKept
<1>4. CASE t \notin InSession
  <2>1. db'[t] = db[t]
    BY <1>4, SyncCommitRows DEF RowsInv
  <2>2. Finished(t)' => Finished(t)
    BY <1>3, <2>1 DEF Finished
  <2> QED
    BY <1>1, <1>2, <1>3, <1>4, <2>1, <2>2 DEF Files, FilesKept, FilesFreed
<1>5. CASE t \in InSession
  <2>1. /\ db'[t].status \in {"downloading", "completed", "failed"}
        /\ db'[t].status = "completed" => cur[t].status = "completed"
    <3>1. /\ snap[t].status = "downloading"
          /\ db[t].status \in {"downloading", "failed"}
          /\ cur[t].status \in {"downloading", "completed", "failed"}
      BY <1>1, <1>5 DEF RowsInv, SessionsInv, SyncSession, InSession
    <3>2. db'[t].status = Column(db[t].status, snap[t].status, cur[t].status)
      BY DEF SyncCommit, Flush, FlushRow
    <3> QED
      BY <3>1, <3>2 DEF Column
  <2>2. ~Finished(t)
    BY <1>1, <1>5, FinishedSettled DEF Settled
  <2>3. ~Purging(t) /\ ~Evicting(t)
    BY <2>2, PurgingFinished
  <2> QED
    BY <1>1, <1>2, <1>3, <1>5, <2>1, <2>2, <2>3 DEF Files, FilesKept, FilesFreed
<1> QED
  BY <1>4, <1>5

\* The slots are counted.
LEMMA FillCountFiles ==
  ASSUME RowsInv, FillCount, UNCHANGED <<req, storageVars, link>>, NEW t \in Tasks, NEW r \in BOOLEAN, Files(t, r)
  PROVE  Files(t, r)'
<1>1. UNCHANGED <<db, aria2, disk>> /\ pc = "count" /\ pc' \in {"idle", "pick"}
  BY DEF FillCount, nodeVars
<1>2. Gids(t)' = Gids(t) /\ (Ceased(t)' <=> Ceased(t))
  BY <1>1 DEF Gids, Ceased
<1>3. /\ Purging(t)' <=> Purging(t)
      /\ Evicting(t)' <=> Evicting(t)
      /\ Finished(t)' => Finished(t)
  BY <1>1, OthersKept DEF Finished
<1> QED
  BY <1>1, <1>2, <1>3 DEF Files, FilesKept, FilesFreed

\* The fill session loads queued rows, of which aria2 knows nothing.
LEMMA FillPickFiles ==
  ASSUME RowsInv, FillPick, UNCHANGED <<req, storageVars, link>>, NEW t \in Tasks, NEW r \in BOOLEAN, Files(t, r)
  PROVE  Files(t, r)'
<1>1. PICK S \in SUBSET InStatus({"queued"}) : Open(S)
  BY DEF FillPick
<1>2. /\ UNCHANGED <<db, aria2, disk>> /\ pc = "pick" /\ pc' = "fill" /\ todo' = S
      /\ t \in InSession' => t \in S
  BY <1>1 DEF FillPick, nodeVars, Open, Load, InSession, NoRow
<1>3. t \in S => db[t].status = "queued"
  BY DEF InStatus
<1>4. Gids(t)' = Gids(t) /\ (Ceased(t)' <=> Ceased(t))
  BY <1>2 DEF Gids, Ceased
<1>5. /\ Purging(t)' <=> Purging(t)
      /\ Evicting(t)' <=> Evicting(t)
      /\ Finished(t)' => Finished(t)
  BY <1>2, OthersKept DEF Finished
<1> QED
  BY <1>2, <1>3, <1>4, <1>5 DEF Files, FilesKept, FilesFreed

\* addUri makes the one download of its task, if the answer is lost, too.
LEMMA FillAddFiles ==
  ASSUME RowsInv, NEW u \in Tasks, FillAdd(u), UNCHANGED <<req, storageVars, link>>,
         NEW t \in Tasks, NEW r \in BOOLEAN, Files(t, r)
  PROVE  Files(t, r)'
<1>1. /\ UNCHANGED <<db, now, pc, snap>> /\ pc = "fill" /\ u \in todo
      /\ todo' = todo \ {u} /\ \A w \in Tasks \ {u} : cur'[w] = cur[w]
      /\ disk' = [disk EXCEPT ![u] = IF @ = "absent" THEN "empty" ELSE @]
      /\ aria2' = aria2 \/ aria2' = [aria2 EXCEPT ![u] = Append(@, "waiting")]
      /\ disk \in [Tasks -> Dir] /\ aria2 \in [Tasks -> Seq(AriaStatus)]
  BY DEF FillAdd, Added, AddFailed, AddUri, Assign, RowsInv, SessionsInv, TypeOK, TickTypeOK,
     NodeTypeOK
<1>2. /\ Purging(t)' <=> Purging(t)
      /\ Evicting(t)' <=> Evicting(t)
      /\ Finished(t)' => Finished(t)
  BY <1>1, OthersKept DEF Finished
<1>3. CASE t # u
  <2>1. aria2'[t] = aria2[t] /\ disk'[t] = disk[t]
    BY <1>1, <1>3
  <2> QED
    BY <1>1, <1>2, <1>3, <2>1, FilesSame
<1>4. CASE t = u
  <2>1. t \in InSession /\ InSession' = InSession /\ db[t].status \in {"queued", "failed"}
    BY <1>1, <1>4 DEF RowsInv, SessionsInv, FillSession, InSession
  <2>2. ~Finished(t) /\ ~Purging(t) /\ ~Evicting(t)
    BY <1>1, <2>1, FinishedSettled, PurgingFinished DEF Settled
  <2>3. Len(aria2[t]) = 0
    BY <1>1, <1>4 DEF Files, FilesKept, FilesFreed
  <2>4. Len(aria2'[t]) <= 1 /\ \A g \in Gids(t)' : aria2'[t][g] = "waiting"
    <3>1. CASE aria2' = aria2
      BY <2>3, <3>1 DEF Gids
    <3>2. CASE aria2' = [aria2 EXCEPT ![u] = Append(@, "waiting")]
      <4>1. aria2'[t] = Append(aria2[t], "waiting") /\ aria2[t] \in Seq(AriaStatus)
        BY <1>1, <1>4, <3>2
      <4>2. Len(aria2'[t]) = 1 /\ aria2'[t][1] = "waiting"
        BY <2>3, <4>1 DEF AriaStatus
      <4> QED
        BY <4>2 DEF Gids
    <3> QED
      BY <1>1, <3>1, <3>2
  <2>5. disk'[t] # "absent"
    BY <1>1, <1>4
  <2>6. t \notin todo' /\ t \in InSession' /\ pc' = "fill" /\ db'[t] = db[t]
    BY <1>1, <1>4, <2>1
  <2> QED
    BY <1>2, <2>1, <2>2, <2>4, <2>5, <2>6 DEF Files, FilesKept, FilesFreed
<1> QED
  BY <1>3, <1>4

\* The fill session commits: its rows are downloading, or failed.
LEMMA FillCommitFiles ==
  ASSUME RowsInv, FillCommit, UNCHANGED <<req, storageVars, link>>, NEW t \in Tasks, NEW r \in BOOLEAN, Files(t, r)
  PROVE  Files(t, r)'
<1>1. UNCHANGED <<aria2, disk>> /\ pc = "fill" /\ pc' = "idle"
  BY DEF FillCommit
<1>2. Gids(t)' = Gids(t) /\ (Ceased(t)' <=> Ceased(t))
  BY <1>1 DEF Gids, Ceased
<1>3. /\ Purging(t)' <=> Purging(t)
      /\ Evicting(t)' <=> Evicting(t)
      /\ Finished(t)' => db'[t].status \in {"completed", "expired"} \/ Finished(t)
  BY OthersKept
<1>4. CASE t \notin InSession
  <2>1. db'[t] = db[t]
    BY <1>4, FillCommitRows DEF RowsInv
  <2>2. Finished(t)' => Finished(t)
    BY <1>3, <2>1 DEF Finished
  <2> QED
    BY <1>1, <1>2, <1>3, <1>4, <2>1, <2>2 DEF Files, FilesKept, FilesFreed
<1>5. CASE t \in InSession
  <2>1. db'[t].status \in {"downloading", "failed"}
    BY <1>5, FillCommitRows DEF RowsInv
  <2>2. ~Finished(t)
    BY <1>1, <1>5, FinishedSettled DEF Settled
  <2>3. ~Purging(t) /\ ~Evicting(t)
    BY <2>2, PurgingFinished
  <2> QED
    BY <1>1, <1>2, <1>3, <1>5, <2>1, <2>2, <2>3 DEF Files, FilesKept, FilesFreed
<1> QED
  BY <1>4, <1>5

\* aria2 works on one task at a time, and never on one that is over.
LEMMA AriaStepFiles ==
  ASSUME RowsInv, NEW u \in Tasks, NEW i \in Gids(u), AriaStep(u, i),
         UNCHANGED <<tickVars, req, storageVars, link>>, NEW t \in Tasks, NEW r \in BOOLEAN, Files(t, r)
  PROVE  Files(t, r)'
<1>1. /\ UNCHANGED <<db, pc, snap, cur, todo>>
      /\ disk \in [Tasks -> Dir] /\ aria2 \in [Tasks -> Seq(AriaStatus)]
  BY DEF AriaStep, AriaStart, AriaComplete, AriaError, tickVars, RowsInv, SessionsInv, TypeOK,
     NodeTypeOK
<1>2. /\ Purging(t)' <=> Purging(t)
      /\ Evicting(t)' <=> Evicting(t)
      /\ Finished(t)' => Finished(t)
  BY <1>1, OthersKept DEF Finished
<1>3. CASE t # u
  <2>1. aria2'[t] = aria2[t] /\ disk'[t] = disk[t]
    BY <1>1, <1>3 DEF AriaStep, AriaStart, AriaComplete, AriaError
  <2> QED
    BY <1>1, <1>2, <1>3, <2>1, FilesSame
<1>4. CASE t = u
  <2>1. PICK s \in AriaStatus : /\ aria2' = [aria2 EXCEPT ![t][i] = s]
                                /\ aria2[t][i] \in Live
                                /\ s = "complete" /\ disk[t] # "absent" => disk'[t] = "full"
                                /\ disk[t] # "absent" => disk'[t] # "absent"
                                /\ disk[t] = "full" => disk'[t] = "full"
    BY <1>1, <1>4 DEF AriaStep, AriaStart, AriaComplete, AriaError, AriaStatus, Live
  <2>2. Len(aria2'[t]) = Len(aria2[t]) /\ Gids(t)' = Gids(t)
    BY <1>1, <1>4, <2>1, AriaExcept DEF Gids
  <2>3. \A g \in Gids(t) : aria2'[t][g] = IF g = i THEN s ELSE aria2[t][g]
    BY <1>1, <1>4, <2>1 DEF Gids
  <2>4. ~Ceased(t)
    BY <1>4, <2>1 DEF Ceased, Live
  <2>5. InSession' = InSession
    BY <1>1 DEF InSession
  <2>6. /\ Len(aria2'[t]) <= 1
        /\ db'[t].status \in {"none", "queued"} /\ ~(pc' = "fill" /\ t \in InSession')
             => Len(aria2'[t]) = 0
        /\ pc' = "fill" /\ t \in todo' => Len(aria2'[t]) = 0
    BY <1>1, <2>2, <2>5 DEF Files, FilesKept
  <2>7. db'[t].status \in {"queued", "downloading"} \/ (pc' \in {"sync", "fill"} /\ t \in InSession')
          => /\ disk'[t] # "absent"
             /\ \A g \in Gids(t)' : aria2'[t][g] = "complete" => disk'[t] = "full"
    BY <1>1, <2>1, <2>2, <2>3, <2>5 DEF Files, FilesKept
  <2>8. pc' = "sync" /\ t \in InSession' /\ cur'[t].status = "completed" => disk'[t] = "full"
    BY <1>1, <2>1, <2>5 DEF Files, FilesKept
  <2>9. db'[t].status = "completed" => disk'[t] = "full" \/ Purging(t)' \/ Evicting(t)'
    BY <1>1, <1>2, <2>1 DEF Files, FilesKept
  <2>10. FilesKept(t)'
    BY <2>6, <2>7, <2>8, <2>9 DEF FilesKept
  <2>11. ASSUME r
         PROVE  FilesFreed(t)'
    <3>1. ~Finished(t) /\ ~Purging(t) /\ ~Evicting(t)
      BY <2>4, <2>11, PurgingFinished DEF Files, FilesFreed
    <3>2. ~(pc' = "sync" /\ t \in InSession' /\ cur'[t].status = "completed")
      BY <1>1, <2>4, <2>5, <2>11 DEF Files, FilesFreed
    <3>3. ~Finished(t)' /\ ~Purging(t)' /\ ~Evicting(t)' /\ db'[t].status # "expired"
      BY <1>1, <1>2, <3>1 DEF Finished
    <3> QED
      BY <3>2, <3>3 DEF FilesFreed
  <2> QED
    BY <2>10, <2>11 DEF Files
<1> QED
  BY <1>3, <1>4

\* aria2 resumes what its session file holds, but a full file stays full.
LEMMA AriaRestartFiles ==
  ASSUME RowsInv, AriaRestart, UNCHANGED <<tickVars, req, storageVars, link>>,
         NEW t \in Tasks, FilesKept(t)
  PROVE  FilesKept(t)'
<1>1. UNCHANGED <<db, disk, pc, snap, cur, todo>> /\ aria2 \in [Tasks -> Seq(AriaStatus)]
  BY DEF AriaRestart, tickVars, RowsInv, SessionsInv, TypeOK, NodeTypeOK
<1>2. (Purging(t)' <=> Purging(t)) /\ (Evicting(t)' <=> Evicting(t))
  BY OthersKept
<1>3. Len(aria2'[t]) = Len(aria2[t]) /\ Gids(t)' = Gids(t)
  BY <1>1, AriaRestartLists DEF Gids
<1>4. \A g \in Gids(t) : aria2'[t][g] # "complete"
  <2>1. PICK saved \in SUBSET Downloads(AriaStatus \ {"lost"}) :
          aria2' = [v \in Tasks |-> [g \in Gids(v) |->
                      IF <<v, g>> \in saved THEN "waiting" ELSE "lost"]]
    BY DEF AriaRestart
  <2> QED
    BY <2>1
<1>5. InSession' = InSession
  BY <1>1 DEF InSession
<1> QED
  BY <1>1, <1>2, <1>3, <1>4, <1>5 DEF FilesKept

\* A new task gets its directory.
LEMMA EnqueueFiles ==
  ASSUME RowsInv, Intact', NEW u \in Tasks, Enqueue(u),
         UNCHANGED <<tickVars, req, storageVars, link>>, NEW t \in Tasks, NEW r \in BOOLEAN, Files(t, r)
  PROVE  Files(t, r)'
<1>1. /\ UNCHANGED <<aria2, pc, snap, cur, todo>> /\ db[u].status = "none"
      /\ db' = [db EXCEPT ![u] = QueuedRow] /\ db \in [Tasks -> Row]
      /\ disk' = [disk EXCEPT ![u] = "empty"] /\ disk \in [Tasks -> Dir]
  <2>1. ~Fault("fs")
    BY CheapFault DEF RowsInv, SessionsInv, TypeOK
  <2> QED
    BY <2>1 DEF Enqueue, tickVars, RowsInv, SessionsInv, TypeOK, NodeTypeOK
<1>2. /\ Purging(t)' <=> Purging(t)
      /\ Evicting(t)' <=> Evicting(t)
      /\ Finished(t)' => db'[t].status \in {"completed", "expired"} \/ Finished(t)
  BY OthersKept
<1>3. CASE t # u
  <2>1. db'[t] = db[t] /\ disk'[t] = disk[t]
    BY <1>1, <1>3
  <2>2. Finished(t)' => Finished(t)
    BY <1>2, <2>1 DEF Finished
  <2> QED
    BY <1>1, <1>2, <2>1, <2>2, FilesSame
<1>4. CASE t = u
  <2>1. db'[t].status = "queued" /\ disk'[t] = "empty" /\ db[t].status = "none"
    BY <1>1, <1>4 DEF QueuedRow, NoRow
  <2>2. ~Finished(t) /\ ~Purging(t) /\ ~Evicting(t)
    BY <2>1, FinishedSettled, PurgingFinished DEF Settled
  <2>3. pc \in {"sync", "fill"} => t \notin InSession
    BY <2>1 DEF RowsInv, SessionsInv, SyncSession, FillSession
  <2>4. Len(aria2[t]) = 0
    BY <2>1, <2>3 DEF Files, FilesKept, FilesFreed
  <2>5. InSession' = InSession /\ Gids(t)' = {}
    BY <1>1, <2>4 DEF InSession, Gids
  <2> QED
    BY <1>1, <1>2, <2>1, <2>2, <2>3, <2>4, <2>5 DEF Files, FilesKept, FilesFreed
<1> QED
  BY <1>3, <1>4

-----------------------------------------------------------------------------
(* ... and DELETE *)

\* A step of a DELETE leaves the tick, the storage loop and the links; what it
\* remembers as completed was so before, and what it purges it remembers.
LEMMA DeleteRemembers ==
  ASSUME RowsInv, NEW h \in Handlers, DeleteNext(h), UNCHANGED <<tickVars, storageVars, link>>,
         NEW t \in Tasks
  PROVE  /\ UNCHANGED <<pc, snap, cur, todo>> /\ InSession' = InSession
         /\ Evicting(t)' <=> Evicting(t)
         /\ Finished(t)' => Finished(t)
<1>1. UNCHANGED <<pc, snap, cur, todo, ssnap, scur, link>> /\ InSession' = InSession
      /\ InStorage' = InStorage
  BY DEF tickVars, storageVars, InSession, InStorage
<1>2. Evicting(t)' <=> Evicting(t)
  BY <1>1 DEF Evicting
<1>3. ASSUME NEW k \in Handlers, req'[k].pc # "idle", req'[k].task = t,
             req'[k].row.status = "completed"
      PROVE  Finished(t)
  <2>1. CASE req'[k].row = req[k].row /\ req'[k].task = req[k].task /\ req[k].pc # "idle"
    BY <1>3, <2>1 DEF Finished
  <2>2. ASSUME NEW u \in Tasks, DeleteLoad(h, u), k = h
        PROVE  Finished(t)
    <3>1. req'[k].task = u /\ req'[k].row = db[u]
      BY <2>2 DEF DeleteLoad, RowsInv, SessionsInv, TypeOK, ApiTypeOK
    <3> QED
      BY <1>3, <3>1 DEF Finished
  <2>3. CASE req'[k] = NoRequest
    BY <1>3, <2>3 DEF NoRequest
  <2>4. \/ req'[k] = req[k] \/ req'[k] = NoRequest
        \/ k = h /\ \E u \in Tasks : DeleteLoad(h, u)
        \/ req'[k].row = req[k].row /\ req'[k].task = req[k].task /\ req[k].pc # "idle"
    BY DEF DeleteNext, DeleteStep, DeleteLoad, DeleteQueued, DeleteForce, DeleteResult,
       DeletePurge, DeleteCommit, DeleteAborts, AssignRow, RowsInv, SessionsInv, TypeOK, ApiTypeOK
  <2> QED
    BY <1>3, <2>1, <2>2, <2>3, <2>4
<1>4. db'[t].status \in {"completed", "expired"} => Finished(t)
  <2>1. CASE db' = db
    BY <2>1 DEF Finished
  <2>2. CASE DeleteCommit(h)
    <3>1. CASE t # req[h].task
      BY <2>2, <3>1, DeleteCommitRow DEF Finished, RowsInv
    <3>2. CASE t = req[h].task
      <4>1. /\ req[h].pc = "commit"
            /\ db'[t].status = IF req[h].row.status = "completed" THEN "expired" ELSE "failed"
        BY <2>2, <3>2, DeleteCommitRow DEF RowsInv, DeleteCommit
      <4> QED
        BY <3>2, <4>1 DEF Finished
    <3> QED
      BY <3>1, <3>2
  <2> QED
    BY <2>1, <2>2 DEF DeleteNext, DeleteStep, DeleteLoad, DeleteQueued, DeleteForce, DeleteResult,
       DeletePurge, DeleteAborts, nodeVars
<1>5. Finished(t)' => Finished(t)
  BY <1>1, <1>3, <1>4 DEF Finished
<1> QED
  BY <1>1, <1>2, <1>5

\* A request that begins, or that cancels a queued task: no file is touched.
LEMMA DeleteQuietFiles ==
  ASSUME RowsInv, NEW h \in Handlers, (\E u \in Tasks : DeleteLoad(h, u)) \/ DeleteQueued(h),
         UNCHANGED <<tickVars, storageVars, link>>, NEW t \in Tasks, NEW r \in BOOLEAN, Files(t, r)
  PROVE  Files(t, r)'
<1>1. UNCHANGED <<db, aria2, disk>> /\ DeleteNext(h)
  BY DEF DeleteLoad, DeleteQueued, nodeVars, DeleteNext, DeleteStep
<1>2. \A k \in Handlers : /\ req[k].pc = "commit" => req'[k] = req[k]
                          /\ req'[k].pc = "commit" /\ req'[k].row.status = "completed"
                               => req'[k] = req[k]
  BY DEF DeleteLoad, DeleteQueued, AssignRow, RowsInv, SessionsInv, TypeOK, ApiTypeOK
<1>3. Purging(t)' <=> Purging(t)
  BY <1>2 DEF Purging
<1> QED
  BY <1>1, <1>3, DeleteRemembers, FilesSame

\* What a request for a downloading task asks of aria2.
LEMMA DeleteCallFiles ==
  ASSUME RowsInv, NEW h \in Handlers, DeleteForce(h) \/ DeleteResult(h),
         UNCHANGED <<tickVars, storageVars, link>>, NEW t \in Tasks, NEW r \in BOOLEAN, Files(t, r)
  PROVE  Files(t, r)'
<1>1. UNCHANGED <<db, disk>> /\ DeleteNext(h)
  BY DEF DeleteForce, DeleteResult, DeleteNext, DeleteStep
<1>2. Purging(t)' <=> Purging(t)
  <2>1. req[h].row.status = "downloading" /\ req[h].pc \in {"loaded", "result"}
    BY DEF DeleteForce, DeleteResult, RowsInv, SessionsInv, Requests, Request
  <2>2. \A k \in Handlers : req'[k].row = req[k].row /\ (k # h => req'[k] = req[k])
    BY DEF DeleteForce, DeleteResult, AssignRow, RowsInv, SessionsInv, TypeOK, ApiTypeOK
  <2> QED
    BY <2>1, <2>2 DEF Purging
<1>3. Len(aria2'[t]) = Len(aria2[t]) /\ Gids(t)' = Gids(t)
  BY DeleteCalls DEF Gids, RowsInv, SessionsInv, TypeOK
<1>4. \A g \in Gids(t) : aria2'[t][g] = aria2[t][g] \/ aria2'[t][g] \in {"removed", "gone"}
  <2> DEFINE u == req[h].task
             i == req[h].row.gid
  <2>1. \/ aria2' = aria2
        \/ i \in Gids(u) /\ \E s \in {"removed", "gone"} : aria2' = [aria2 EXCEPT ![u][i] = s]
    BY DEF DeleteForce, DeleteResult, ForceRemove, RemoveResult, TellStatus, Live
  <2>2. aria2 \in [Tasks -> Seq(AriaStatus)]
    BY DEF RowsInv, SessionsInv, TypeOK, NodeTypeOK
  <2> HIDE DEF u, i
  <2> QED
    BY <2>1, <2>2 DEF Gids
<1>5. Ceased(t) => Ceased(t)'
  BY <1>3, <1>4 DEF Ceased
<1> QED
  BY <1>1, <1>2, <1>3, <1>4, <1>5, DeleteRemembers DEF Files, FilesKept, FilesFreed

\* A request for a completed task removes the files.
LEMMA DeletePurgeFiles ==
  ASSUME RowsInv, Intact', NEW h \in Handlers, DeletePurge(h),
         UNCHANGED <<tickVars, storageVars, link>>, NEW t \in Tasks, NEW r \in BOOLEAN, Files(t, r)
  PROVE  Files(t, r)'
<1>1. UNCHANGED <<db, aria2>> /\ DeleteNext(h)
  BY DEF DeletePurge, DeleteNext, DeleteStep
<1>2. /\ req[h].pc = "loaded" /\ req[h].row.status = "completed" /\ req[h].task \in Tasks
      /\ disk' = [disk EXCEPT ![req[h].task] = "absent"] /\ disk \in [Tasks -> Dir]
      /\ req'[h].pc = "commit" /\ req'[h].task = req[h].task /\ req'[h].row = req[h].row
      /\ \A k \in Handlers \ {h} : req'[k] = req[k]
  <2>1. ~Fault("fs")
    BY CheapFault DEF RowsInv, SessionsInv, TypeOK
  <2> QED
    BY <2>1 DEF DeletePurge, RemoveDir, AssignRow, RowsInv, SessionsInv, TypeOK, NodeTypeOK,
       ApiTypeOK, Requests, Request
<1>3. CASE t # req[h].task
  <2>1. disk'[t] = disk[t]
    BY <1>2, <1>3
  <2>2. Purging(t)' <=> Purging(t)
    BY <1>2, <1>3 DEF Purging
  <2> QED
    BY <1>1, <2>1, <2>2, DeleteRemembers, FilesSame
<1>4. CASE t = req[h].task
  <2>1. Purging(t)' /\ disk'[t] = "absent" /\ Finished(t) /\ Settled(t)
    BY <1>2, <1>4, FinishedSettled DEF Purging, Finished
  <2>2. Gids(t)' = Gids(t) /\ (Ceased(t)' <=> Ceased(t))
    BY <1>1 DEF Gids, Ceased
  <2> QED
    BY <1>1, <2>1, <2>2, DeleteRemembers DEF Files, FilesKept, FilesFreed, Settled
<1> QED
  BY <1>3, <1>4

\* A request commits what it did.
LEMMA DeleteCommitFiles ==
  ASSUME RowsInv, NEW h \in Handlers, DeleteCommit(h),
         UNCHANGED <<tickVars, storageVars, link>>, NEW t \in Tasks, NEW r \in BOOLEAN, Files(t, r)
  PROVE  Files(t, r)'
<1>1. UNCHANGED <<aria2, disk>> /\ DeleteNext(h)
  BY DEF DeleteCommit, DeleteNext, DeleteStep
<1>2. /\ req[h].pc = "commit" /\ req[h].task \in Tasks
      /\ \A u \in Tasks \ {req[h].task} : db'[u] = db[u]
      /\ db'[req[h].task].status = IF req[h].row.status = "completed" THEN "expired" ELSE "failed"
  BY DeleteCommitRow DEF DeleteCommit, RowsInv, Request
<1>3. req'[h].pc = "idle" /\ \A k \in Handlers \ {h} : req'[k] = req[k]
  BY DEF DeleteCommit, RowsInv, SessionsInv, TypeOK, ApiTypeOK, NoRequest
<1>4. Purging(t)' => Purging(t)
  BY <1>3 DEF Purging
<1>5. CASE t # req[h].task
  <2>1. db'[t] = db[t]
    BY <1>2, <1>5
  <2>2. Purging(t)' <=> Purging(t)
    BY <1>3, <1>5 DEF Purging
  <2> QED
    BY <1>1, <2>1, <2>2, DeleteRemembers, FilesSame
<1>6. CASE t = req[h].task
  <2>1. db'[t].status \in {"expired", "failed"} /\ (db'[t].status = "expired" => Purging(t))
    BY <1>2, <1>6 DEF Purging
  <2>2. Gids(t)' = Gids(t) /\ (Ceased(t)' <=> Ceased(t))
    BY <1>1 DEF Gids, Ceased
  <2> QED
    BY <1>1, <1>4, <2>1, <2>2, DeleteRemembers DEF Files, FilesKept, FilesFreed
<1> QED
  BY <1>5, <1>6

-----------------------------------------------------------------------------
(* ... and the storage loop *)

\* A step of the loop remembers as completed what was so before.
LEMMA StorageRemembers ==
  ASSUME RowsInv, StorageNext, UNCHANGED <<tickVars, req, link>>, NEW t \in Tasks
  PROVE  /\ UNCHANGED <<aria2, pc, snap, cur, todo>> /\ InSession' = InSession
         /\ Purging(t)' <=> Purging(t)
         /\ Finished(t)' => Finished(t)
<1>1. UNCHANGED <<aria2, pc, snap, cur, todo>> /\ InSession' = InSession
  BY StorageKeeps DEF tickVars, InSession, RowsInv, SessionsInv, TypeOK
<1>2. Purging(t)' <=> Purging(t)
  BY DEF Purging
<1>3. t \in InStorage' => Finished(t)
  BY StorageLoads DEF Finished, RowsInv
<1>4. db'[t].status \in {"completed", "expired"} => Finished(t)
  <2>1. CASE db' = db
    BY <2>1 DEF Finished
  <2>2. CASE db' = Flush(ssnap, scur)
    BY <2>2, StorageCommitRows DEF Finished, RowsInv, SessionsInv, TypeOK
  <2> QED
    BY <2>1, <2>2, StorageKeeps DEF RowsInv, SessionsInv, TypeOK
<1> QED
  BY <1>1, <1>2, <1>3, <1>4 DEF Finished

\* The loop removes the files of a row it read as completed.
LEMMA PurgeFiles ==
  ASSUME RowsInv, Intact', StorageNext, NEW u \in InStorage, Purge(u),
         UNCHANGED <<tickVars, req, link>>, NEW t \in Tasks, NEW r \in BOOLEAN, Files(t, r)
  PROVE  Files(t, r)'
<1>1. /\ UNCHANGED <<db, aria2, ssnap>> /\ u \in Tasks
      /\ disk' = [disk EXCEPT ![u] = "absent"] /\ disk \in [Tasks -> Dir]
      /\ scur' = [scur EXCEPT ![u] = Purged(ssnap[u])] /\ scur \in [Tasks -> Row]
  <2>1. ~Fault("fs")
    BY CheapFault DEF RowsInv, SessionsInv, TypeOK
  <2> QED
    BY <2>1 DEF Purge, RemoveDir, InStorage, RowsInv, SessionsInv, TypeOK, NodeTypeOK,
       StorageTypeOK
<1>2. CASE t # u
  <2>1. disk'[t] = disk[t] /\ (Evicting(t)' <=> Evicting(t))
    BY <1>1, <1>2 DEF Evicting
  <2> QED
    BY <1>1, <2>1, StorageRemembers, FilesSame
<1>3. CASE t = u
  <2>1. Finished(t) /\ Settled(t)
    BY <1>3, FinishedSettled DEF Finished
  <2>2. disk'[t] = "absent" /\ Evicting(t)'
    <3>1. ssnap[t] \in Row
      BY DEF RowsInv, StorageTypeOK
    <3> QED
      BY <1>1, <1>3, <3>1 DEF Evicting, Purged, Row
  <2>3. Gids(t)' = Gids(t) /\ (Ceased(t)' <=> Ceased(t))
    BY <1>1 DEF Gids, Ceased
  <2> QED
    BY <1>1, <2>1, <2>2, <2>3, StorageRemembers DEF Files, FilesKept, FilesFreed, Settled
<1> QED
  BY <1>2, <1>3

\* The loop commits: what it removed is expired.
LEMMA StorageCommitFiles ==
  ASSUME RowsInv, CleanCommit \/ QuotaCommit,
         UNCHANGED <<tickVars, req, link>>, NEW t \in Tasks, NEW r \in BOOLEAN, Files(t, r)
  PROVE  Files(t, r)'
<1>1. db' = Flush(ssnap, scur) /\ UNCHANGED <<aria2, disk>> /\ scur' = EmptySession /\ StorageNext
  BY DEF CleanCommit, QuotaCommit, StorageSleeps, StorageNext, StorageStep
<1>2. ~Evicting(t)'
  BY <1>1 DEF Evicting, EmptySession, NoRow
<1>3. IF Evicting(t) THEN db'[t].status = "expired" ELSE db'[t] = db[t]
  BY <1>1, EvictingRows, StorageCommitRows DEF RowsInv, SessionsInv, TypeOK
<1>4. Gids(t)' = Gids(t) /\ (Ceased(t)' <=> Ceased(t))
  BY <1>1 DEF Gids, Ceased
<1>5. Evicting(t) => Settled(t)
  BY EvictingRows DEF RowsInv, StorageSession
<1> QED
  BY <1>1, <1>2, <1>3, <1>4, <1>5, StorageRemembers DEF Files, FilesKept, FilesFreed, Settled

\* The loop reads.
LEMMA StorageReadFiles ==
  ASSUME RowsInv, CleanLoad \/ QuotaList \/ (\E u \in Tasks : QuotaGet(u)),
         UNCHANGED <<tickVars, req, link>>, NEW t \in Tasks, NEW r \in BOOLEAN, Files(t, r)
  PROVE  Files(t, r)'
<1>1. UNCHANGED <<db, aria2, disk>> /\ StorageNext
  BY DEF CleanLoad, QuotaList, QuotaGet, nodeVars, StorageNext, StorageStep
<1>2. Evicting(t)' <=> Evicting(t)
  <2>1. CASE CleanLoad
    <3>1. InStorage = {}
      BY <2>1 DEF CleanLoad, RowsInv, StorageSession
    <3>2. scur'[t].status # "expired"
      BY <2>1 DEF CleanLoad, Load, Due, NoRow
    <3> QED
      BY <3>1, <3>2, EvictingRows DEF Evicting
  <2>2. CASE QuotaList
    <3>1. InStorage = {}
      BY <2>2 DEF QuotaList, RowsInv, StorageSession
    <3>2. scur'[t] = scur[t] \/ scur'[t].status = "none"
      BY <2>2 DEF QuotaList, StorageSleeps, EmptySession, NoRow
    <3> QED
      BY <3>1, <3>2, EvictingRows DEF Evicting
  <2>3. ASSUME NEW u \in Tasks, QuotaGet(u)
        PROVE  Evicting(t)' <=> Evicting(t)
    <3>1. u \in stodo /\ ~Evicting(u)
      BY <2>3, EvictingRows DEF QuotaGet
    <3>2. scur'[t] = scur[t] \/ (t = u /\ scur'[t].status = "completed")
      BY <2>3 DEF QuotaGet, RowsInv, StorageTypeOK
    <3> QED
      BY <3>1, <3>2 DEF Evicting
  <2> QED
    BY <2>1, <2>2, <2>3
<1> QED
  BY <1>1, <1>2, StorageRemembers, FilesSame

-----------------------------------------------------------------------------
(* ... and links and time *)

\* Links read, and time changes no file.
LEMMA LinkFiles ==
  ASSUME RowsInv, LinkNext \/ UNCHANGED link,
         UNCHANGED <<db, aria2, disk, tickVars, req, storageVars>>,
         NEW t \in Tasks, NEW r \in BOOLEAN, Files(t, r)
  PROVE  Files(t, r)'
<1>1. UNCHANGED <<pc, snap, cur, todo, ssnap, scur>> /\ InStorage' = InStorage
  BY DEF tickVars, storageVars, InStorage
<1>2. ASSUME NEW k \in Links, link'[k].pc # "idle", link'[k].task = t,
             link'[k].row.status = "completed"
      PROVE  Finished(t)
  <2>1. CASE link'[k] = link[k]
    BY <1>2, <2>1 DEF Finished
  <2>2. ASSUME LinkNext
        PROVE  \/ link'[k] = link[k] \/ link'[k] = NoLink
               \/ \E u \in Tasks : link'[k] = [pc |-> "loaded", task |-> u, row |-> db[u]]
               \/ link[k].pc # "idle" /\ link'[k].task = link[k].task /\ link'[k].row = link[k].row
    BY <2>2 DEF LinkNext, LinkLoad, LinkAnswer, LinkSend, RowsInv, LinkTypeOK
  <2>3. CASE link'[k] = NoLink
    BY <1>2, <2>3 DEF NoLink
  <2>4. CASE \E u \in Tasks : link'[k] = [pc |-> "loaded", task |-> u, row |-> db[u]]
    BY <1>2, <2>4 DEF Finished
  <2>5. CASE link[k].pc # "idle" /\ link'[k].task = link[k].task /\ link'[k].row = link[k].row
    BY <1>2, <2>5 DEF Finished
  <2> QED
    BY <2>1, <2>2, <2>3, <2>4, <2>5
<1>3. Finished(t)' => Finished(t)
  BY <1>1, <1>2 DEF Finished
<1>4. (Purging(t)' <=> Purging(t)) /\ (Evicting(t)' <=> Evicting(t))
  BY <1>1 DEF Purging, Evicting
<1> QED
  BY <1>1, <1>3, <1>4, FilesSame

\* Faults are only counted up.
LEMMA FaultsCounted ==
  ASSUME [AgentNext]_agentVars
  PROVE  faults' = faults \/ faults' = faults + 1
BY DEF AgentNext, LifecycleStep, TickNext, TickStep, SyncLoad, SyncStatus, SyncAnswer,
       SyncNoAnswer, SyncCommit, FillCount, FillPick, FillAdd, Added, AddFailed, FillCommit,
       TickAborts, TableFails, MkdirFails, AriaNext, AriaStep, AriaStart, AriaComplete,
       AriaError, AriaRestart, Enqueue, DeleteNext, DeleteStep, DeleteLoad, DeleteQueued,
       DeleteForce, DeleteResult, DeletePurge, DeleteCommit, DeleteAborts, ForceRemove,
       RemoveResult, RemoveDir, StorageNext, StorageStep, CleanLoad, CleanPurge, CleanCommit,
       QuotaList, QuotaGet, QuotaPurge, QuotaCommit, StorageAborts, Purge, LinkNext, LinkLoad,
       LinkAnswer, LinkSend, AgentRestart, NodeRestart, Clock, Fault, agentVars, vars, nodeVars

LEMMA TickFiles ==
  ASSUME RowsInv, Intact', TickNext, UNCHANGED <<req, storageVars, link>>,
         NEW t \in Tasks, NEW r \in BOOLEAN, Files(t, r)
  PROVE  Files(t, r)'
<1>1. ~TickAborts
  BY CheapFault DEF TickAborts, TableFails, MkdirFails, RowsInv, SessionsInv, TypeOK
<1> QED
  BY <1>1, SyncLoadFiles, SyncStatusFiles, SyncCommitFiles, FillCountFiles, FillPickFiles,
     FillAddFiles, FillCommitFiles DEF TickNext, TickStep

LEMMA DeleteFiles ==
  ASSUME RowsInv, Intact', NEW h \in Handlers, DeleteNext(h),
         UNCHANGED <<tickVars, storageVars, link>>, NEW t \in Tasks, NEW r \in BOOLEAN, Files(t, r)
  PROVE  Files(t, r)'
<1>1. ~DeleteAborts(h)
  BY CheapFault DEF DeleteAborts, RowsInv, SessionsInv, TypeOK
<1> QED
  BY <1>1, DeleteQuietFiles, DeleteCallFiles, DeletePurgeFiles, DeleteCommitFiles
     DEF DeleteNext, DeleteStep

LEMMA StorageFiles ==
  ASSUME RowsInv, Intact', StorageNext, UNCHANGED <<tickVars, req, link>>,
         NEW t \in Tasks, NEW r \in BOOLEAN, Files(t, r)
  PROVE  Files(t, r)'
<1>1. ~StorageAborts
  BY CheapFault DEF StorageAborts, RowsInv, SessionsInv, TypeOK
<1>2. ASSUME NEW u \in Tasks, CleanPurge(u)
      PROVE  u \in InStorage /\ Purge(u)
  BY <1>2 DEF CleanPurge, RowsInv, StorageSession
<1>3. ASSUME NEW u \in Tasks, QuotaPurge(u)
      PROVE  u \in InStorage /\ Purge(u)
  BY <1>3 DEF QuotaPurge, InStorage
<1> QED
  BY <1>1, <1>2, <1>3, StorageReadFiles, PurgeFiles, StorageCommitFiles DEF StorageNext, StorageStep

\* The whole invariant is inductive.
LEMMA AgentInvStep ==
  ASSUME AgentTypeOK, AgentInv, [AgentNext]_agentVars
  PROVE  AgentTypeOK' /\ AgentInv'
<1>1. RowsInv
  BY DEF AgentTypeOK, AgentInv, RowsInv
<1>2. RowsInv'
  BY <1>1, RowsStep
<1>3. ASSUME Intact', NEW t \in Tasks, NEW r \in BOOLEAN, Files(t, r),
             r => ~AriaRestart
      PROVE  Files(t, r)'
  <2>3. CASE LifecycleStep /\ UNCHANGED <<storageVars, link>>
    <3>1. CASE TickNext /\ UNCHANGED req
      BY <1>1, <1>3, <2>3, <3>1, TickFiles
    <3>2. CASE AriaNext /\ UNCHANGED <<tickVars, req>>
      <4>1. AriaRestart => FilesKept(t)'
        BY <1>1, <1>3, <2>3, <3>2, AriaRestartFiles DEF Files
      <4> QED
        BY <1>1, <1>3, <2>3, <3>2, <4>1, AriaStepFiles DEF AriaNext, Files
    <3>3. CASE \E u \in Tasks : Enqueue(u) /\ UNCHANGED <<tickVars, req>>
      BY <1>1, <1>3, <2>3, <3>3, EnqueueFiles
    <3>4. CASE \E h \in Handlers : DeleteNext(h) /\ UNCHANGED tickVars
      BY <1>1, <1>3, <2>3, <3>4, DeleteFiles
    <3> QED
      BY <2>3, <3>1, <3>2, <3>3, <3>4 DEF LifecycleStep
  <2>4. CASE StorageNext /\ UNCHANGED <<tickVars, req, link>>
    BY <1>1, <1>3, <2>4, StorageFiles
  <2>5. CASE LinkNext /\ UNCHANGED <<tickVars, req, storageVars>>
    <3>1. UNCHANGED <<db, aria2, disk>>
      BY <2>5 DEF LinkNext, LinkLoad, LinkAnswer, LinkSend, nodeVars
    <3> QED
      BY <1>1, <1>3, <2>5, <3>1, LinkFiles
  <2>6. ~AgentRestart
    BY <1>1, <1>3, CheapFault DEF AgentRestart, NodeRestart, RowsInv, SessionsInv, TypeOK
  <2>7. CASE Clock \/ UNCHANGED agentVars
    BY <1>1, <1>3, <2>7, LinkFiles DEF Clock, agentVars, vars, nodeVars
  <2> QED
    BY <2>3, <2>4, <2>5, <2>6, <2>7 DEF AgentNext
<1>4. ASSUME Intact', NEW t \in Tasks
      PROVE  FilesKept(t)'
  <2>1. Intact
    BY <1>1, <1>4, FaultsCounted DEF Intact, RowsInv, SessionsInv, TypeOK, NodeTypeOK
  <2>2. Files(t, FALSE)
    BY <2>1 DEF AgentInv, Files
  <2> QED
    BY <1>3, <1>4, <2>2 DEF Files
<1>5. ASSUME Remembered', NEW t \in Tasks
      PROVE  FilesFreed(t)'
  <2>1. Remembered /\ Intact'
    BY <1>1, <1>5, FaultsCounted DEF Intact, Remembered, RowsInv, SessionsInv, TypeOK, NodeTypeOK
  <2>2. Intact
    BY <2>1 DEF Intact, Remembered
  <2>3. Files(t, TRUE)
    BY <2>1, <2>2 DEF AgentInv, Files
  <2>4. ~AriaRestart
    BY <1>1, <1>5 DEF AriaRestart, Fault, Remembered, RowsInv, SessionsInv, TypeOK, NodeTypeOK
  <2>5. Files(t, TRUE)'
    BY <1>3, <2>1, <2>3, <2>4
  <2> QED
    BY <2>5 DEF Files
<1> QED
  BY <1>2, <1>4, <1>5 DEF RowsInv, SessionsInv, AgentTypeOK, AgentInv

LEMMA AgentInvInit ==
  ASSUME AgentInit
  PROVE  AgentTypeOK /\ AgentInv
<1>1. RowsInv
  BY RowsInit
<1>2. ASSUME NEW t \in Tasks
      PROVE  FilesKept(t) /\ FilesFreed(t)
  <2>1. /\ db[t].status = "none" /\ aria2[t] = <<>> /\ pc = "idle" /\ scur[t].status = "none"
        /\ ssnap[t].status = "none" /\ \A h \in Handlers : req[h].pc = "idle"
        /\ \A l \in Links : link[l].pc = "idle"
    BY DEF AgentInit, Init, NodeInit, TickInit, ApiInit, StorageInit, LinkInit, EmptySession,
       NoRow, NoRequest, NoLink
  <2>2. ~Finished(t) /\ ~Purging(t) /\ ~Evicting(t) /\ Len(aria2[t]) = 0
    BY <2>1 DEF Finished, Purging, Evicting, InStorage
  <2> QED
    BY <2>1, <2>2 DEF FilesKept, FilesFreed
<1> QED
  BY <1>1, <1>2 DEF RowsInv, SessionsInv, AgentTypeOK, AgentInv

-----------------------------------------------------------------------------
(* The theorems *)

\* Rows, sessions, requests, links and files fit each other at every moment: the
\* inductive invariant behind the theorems below.
THEOREM AgentInvariant == AgentSpec => [](AgentTypeOK /\ AgentInv)
<1>1. AgentInit => AgentTypeOK /\ AgentInv
  BY AgentInvInit
<1>2. AgentTypeOK /\ AgentInv /\ [AgentNext]_agentVars => (AgentTypeOK /\ AgentInv)'
  BY AgentInvStep
<1> QED
  BY <1>1, <1>2, PTL DEF AgentSpec

\* Every variable of the node keeps its type; enforce_quota never counts more as freed
\* than there is.
THEOREM AgentTypesCorrect == AgentSpec => []AgentTypeOK
BY AgentInvariant, PTL

\* The storage loop, links and restarts break neither the slots, nor the rows, nor the
\* count of downloads.
THEOREM AgentKeepsLifecycle == AgentSpec => [](SlotBound /\ RowsConsistent /\ AddsBounded)
<1>1. AgentInv => SlotBound /\ RowsConsistent /\ AddsBounded
  BY DEF AgentInv, SessionsInv, AddsCounted, AddsBounded
<1> QED
  BY <1>1, AgentInvariant, PTL

\* A completed row has its file until somebody is removing it, through lost answers and
\* restarts of aria2, as long as no commit, file operation or process has failed.
THEOREM CompletedAreServed == AgentSpec => [](Intact => ServedUntilPurged)
<1>1. AgentInv => (Intact => ServedUntilPurged)
  BY DEF AgentInv, FilesKept, ServedUntilPurged
<1> QED
  BY <1>1, AgentInvariant, PTL

\* An expired task has no files left, and nothing writes them again, while nothing but RPC
\* calls fails: a restart of aria2 may take up again what has completed.
THEOREM ExpiredAreFreed == AgentSpec => []ExpiredIsFreed
<1>1. AgentInv => ExpiredIsFreed
  BY DEF AgentInv, FilesFreed, ExpiredIsFreed
<1> QED
  BY <1>1, AgentInvariant, PTL

\* While nothing failed, a link in time loses its file to DELETE and the quota only.
THEOREM LinksOutliveCleanup == AgentSpec => []LinkOutlives
<1>1. ASSUME AgentTypeOK, AgentInv, faults = 0, NEW l \in Links,
             link[l].pc = "loaded", link[l].row.status = "completed", ~TokenExpired(link[l].row)
      PROVE  LET t == link[l].task
             IN  \/ IsFile(t, "own")
                 \/ Purging(t)
                 \/ spc \in {"evict", "purge"} /\ Evicting(t)
                 \/ db[t].status \in {"expired", "failed"}
  <2> DEFINE t == link[l].task
  <2>1. /\ t \in Tasks /\ Settled(t)
        /\ t \in InStorage => ssnap[t].completedAt = link[l].row.completedAt
    BY <1>1 DEF AgentInv, LinkSession
  <2>2. db[t].status = "completed" => disk[t] = "full" \/ Purging(t) \/ Evicting(t)
    BY <1>1, <2>1 DEF AgentInv, Intact, FilesKept
  <2>3. ASSUME Evicting(t)
        PROVE  spc \in {"evict", "purge"}
    <3>1. t \in InStorage
      BY <1>1, <2>1, <2>3, EvictingRows DEF AgentTypeOK, AgentInv, RowsInv
    <3>2. spc = "clean" => ssnap[t].completedAt + TTL < now
      BY <1>1, <3>1 DEF AgentInv, StorageSession
    <3>3. link[l].row.completedAt \in Int /\ now \in Nat
      BY <1>1 DEF AgentTypeOK, LinkTypeOK, Row, NoTime, TypeOK, NodeTypeOK
    <3>4. spc # "clean"
      BY <1>1, <2>1, <3>1, <3>2, <3>3, TTLAssumption DEF TokenExpired, ExpiresAt
    <3> QED
      BY <1>1, <3>1, <3>4 DEF AgentTypeOK, StorageTypeOK, StoragePc, AgentInv, StorageSession
  <2> QED
    BY <2>1, <2>2, <2>3 DEF Settled, IsFile
<1>2. AgentTypeOK /\ AgentInv => LinkOutlives
  BY <1>1 DEF LinkOutlives
<1> QED
  BY <1>2, AgentInvariant, PTL

\* While nothing failed, a link never sends a file that is not whole.
THEOREM LinksServeWholeFiles == AgentSpec => ServesWholeFile
<1>1. ASSUME AgentTypeOK, AgentInv, faults = 0, NEW l \in Links, NEW name \in Names,
             LinkAnswer(l, TRUE, name), link'[l].pc = "sending"
      PROVE  disk[link[l].task] = "full"
  <2> DEFINE t == link[l].task
             row == link[l].row
  <2>1. link[l].pc = "loaded" /\ Answer(t, row, TRUE, name) = "OK"
    BY <1>1 DEF LinkAnswer, AgentTypeOK, LinkTypeOK, NoLink
  <2>2. row.status = "completed" /\ IsFile(t, name)
    BY <2>1 DEF Answer
  <2>3. t \in Tasks /\ Finished(t)
    BY <1>1, <2>1, <2>2 DEF AgentInv, LinkSession, Finished
  <2>4. disk[t] \in {"full", "absent"}
    BY <1>1, <2>3 DEF AgentInv, Remembered, FilesFreed
  <2> QED
    BY <2>2, <2>4 DEF IsFile
<1>2. AgentTypeOK /\ AgentInv =>
        [faults = 0 => \A l \in Links, name \in Names :
           LinkAnswer(l, TRUE, name) /\ link'[l].pc = "sending" => disk[link[l].task] = "full"]_agentVars
  BY <1>1
<1> QED
  BY <1>2, AgentInvariant, PTL DEF AgentSpec, ServesWholeFile

\* What a quota commit leaves of the rows it listed.
LEMMA QuotaCommitRows ==
  ASSUME AgentTypeOK, AgentInv, QuotaCommit, NEW t \in Listed
  PROVE  /\ t \in Tasks
         /\ t \in InStorage => db'[t].status = "expired"
         /\ t \notin InStorage => db'[t] = db[t] /\ (t \notin stodo => db[t].status # "completed")
<1>1. /\ t \in Tasks /\ spc = "evict" /\ InStorage \cap stodo = {}
      /\ t \notin stodo => t \in InStorage \/ db[t].status # "completed"
  BY DEF Listed, QuotaCommit, QuotaDone, AgentInv, QuotaSession
<1> QED
  BY <1>1, StorageCommitRows DEF QuotaCommit, AgentTypeOK, TypeOK, AgentInv

\* What enforce_quota listed fits the quota when it commits, for any sizes, and whatever
\* was deleted, expired or failed to be freed while it worked.
THEOREM QuotaIsEffective == AgentSpec => QuotaEffective
<1>1. ASSUME AgentTypeOK, AgentInv, QuotaCommit
      PROVE  Total({t \in Listed : db'[t].status = "completed"}) <= StorageLimit
  <2> DEFINE Kept == {t \in Listed : db'[t].status = "completed"}
             Rest == Listed \ InStorage
  <2>1. /\ spc = "evict" /\ InStorage \cap stodo = {} /\ InStorage \subseteq Listed
        /\ freed <= Total(InStorage \ stodo) /\ (stodo = {} \/ freed >= NeedFree)
    BY <1>1 DEF QuotaCommit, QuotaDone, AgentInv, QuotaSession
  <2>2. Listed \in SUBSET Tasks /\ Kept \in SUBSET Rest /\ Rest \in SUBSET Tasks
    BY <1>1, QuotaCommitRows DEF Listed
  <2>3. /\ Total(Kept) \in Nat /\ Total(Rest) \in Nat /\ Total(Listed) \in Nat
        /\ Total(InStorage) \in Nat /\ StorageLimit \in Nat /\ freed \in Nat
    <3>1. Kept \in SUBSET Tasks /\ InStorage \in SUBSET Tasks
      BY <2>2 DEF InStorage
    <3>2. freed \in Nat
      BY <1>1, TotalType DEF AgentTypeOK, StorageTypeOK
    <3> HIDE DEF Kept, Rest
    <3> QED
      BY <2>2, <3>1, <3>2, TotalType, StorageAssumption
  <2>4. CASE stodo = {}
    <3>1. Kept = {}
      BY <1>1, <2>4, QuotaCommitRows
    <3> HIDE DEF Kept
    <3>2. Total(Kept) = 0
      BY <3>1, TotalEmpty, Zenon
    <3>3. Total(Kept) <= StorageLimit
      BY <2>3, <3>2
    <3> QED
      BY <3>3 DEF Kept
  <2>5. CASE freed >= NeedFree
    <3>1. InStorage \ stodo = InStorage /\ Listed \ InStorage = Rest
      BY <2>1
    <3>2. freed <= Total(InStorage)
      BY <2>1, <3>1
    <3> HIDE DEF Kept, Rest
    <3>3. Total(Listed) = Total(InStorage) + Total(Listed \ InStorage)
      BY <2>1, <2>2, TotalMonotone
    <3>4. Total(Listed) = Total(InStorage) + Total(Rest)
      BY <3>1, <3>3, Zenon
    <3>5. Total(Kept) <= Total(Rest)
      BY <2>2, TotalMonotone
    <3>6. freed >= Total(Listed) - StorageLimit
      BY <2>5 DEF NeedFree
    <3>7. Total(Kept) <= StorageLimit
      BY <2>3, <3>2, <3>4, <3>5, <3>6
    <3> QED
      BY <3>7 DEF Kept
  <2> QED
    BY <2>1, <2>4, <2>5
<1>2. AgentTypeOK /\ AgentInv =>
        [QuotaCommit => Total({t \in Listed : db'[t].status = "completed"}) <= StorageLimit]_agentVars
  BY <1>1
<1> QED
  BY <1>2, AgentInvariant, PTL DEF AgentSpec, QuotaEffective

\* enforce_quota keeps no task that completed before one it removed, although rows come
\* and go while it walks its list.
THEOREM OldestAreEvicted == AgentSpec => EvictsOldest
<1>1. ASSUME AgentTypeOK, AgentInv, QuotaCommit, NEW t \in Listed, NEW u \in Listed,
             Evicting(t), db'[u].status = "completed"
      PROVE  listed[t].completedAt <= listed[u].completedAt
  <2>1. t \in Tasks /\ t \in InStorage
    BY <1>1, EvictingRows DEF AgentTypeOK, AgentInv, RowsInv, Listed
  <2>2. u \in stodo
    BY <1>1, QuotaCommitRows
  <2>3. Earlier(listed[t], listed[u]) /\ listed[u].completedAt # NoTime
    BY <1>1, <2>1, <2>2 DEF QuotaCommit, QuotaDone, AgentInv, QuotaSession
  <2> QED
    BY <2>3 DEF Earlier
<1>2. AgentTypeOK /\ AgentInv =>
        [QuotaCommit => \A t, u \in Listed : Evicting(t) /\ db'[u].status = "completed"
                          => listed[t].completedAt <= listed[u].completedAt]_agentVars
  BY <1>1
<1> QED
  BY <1>2, AgentInvariant, PTL DEF AgentSpec, EvictsOldest

\* The storage loop moves no task backwards either.
THEOREM AgentNeverBackwards == AgentSpec => NeverBackwards
<1>1. AgentTypeOK /\ AgentInv /\ [AgentNext]_agentVars => [\A t \in Tasks : Forward(t)]_vars
  <2> SUFFICES ASSUME AgentTypeOK, AgentInv, [AgentNext]_agentVars
               PROVE  [\A t \in Tasks : Forward(t)]_vars
    OBVIOUS
  <2>1. CASE [Next]_vars
    BY <2>1, ForwardStep DEF AgentInv
  <2>2. CASE StorageNext
    BY <2>2, StorageRows DEF AgentTypeOK, AgentInv, TypeOK, Settled, Forward
  <2>3. CASE UNCHANGED db
    BY <2>3 DEF Forward
  <2> QED
    BY <2>1, <2>2, <2>3 DEF AgentNext, Next, LinkNext, LinkLoad, LinkAnswer, LinkSend,
       AgentRestart, Clock, agentVars, nodeVars, vars
<1> QED
  BY <1>1, AgentInvariant, PTL DEF AgentSpec, NeverBackwards

-----------------------------------------------------------------------------
(* The documented life of a task, its end included *)

\* Without DELETE, what the storage loop holds is still completed.
Unrivalled == \A t \in InStorage : db[t].status = "completed"

LEMMA UnrivalledStep ==
  ASSUME Handlers = {}, AgentTypeOK, AgentInv, Unrivalled, [AgentNext]_agentVars
  PROVE  Unrivalled'
<1>0. \A t \in InStorage : t \in Tasks /\ Settled(t)
  BY DEF AgentInv, StorageSession, InStorage
<1>1. CASE [Next]_vars /\ UNCHANGED storageVars
  <2>1. InStorage' = InStorage
    BY <1>1 DEF storageVars, InStorage
  <2>2. \A t \in InStorage : db'[t] = db[t]
    <3>1. CASE SyncCommit
      BY <1>0, <3>1, SyncCommitRows DEF AgentInv, SyncCommit, Settled
    <3>2. CASE FillCommit
      BY <1>0, <3>2, FillCommitRows DEF AgentInv, FillCommit, Settled
    <3>3. ASSUME NEW u \in Tasks, Enqueue(u)
          PROVE  \A t \in InStorage : db'[t] = db[t]
      BY <1>0, <3>3 DEF Enqueue, Settled, AgentTypeOK, TypeOK, NodeTypeOK
    <3> QED
      BY <1>1, <3>1, <3>2, <3>3, WritingSteps
  <2> QED
    BY <2>1, <2>2 DEF Unrivalled
<1>2. CASE StorageNext
  <2>1. CASE UNCHANGED db
    BY <1>2, <2>1, StorageLoads DEF Unrivalled, AgentTypeOK
  <2>2. CASE CleanCommit \/ QuotaCommit
    <3>1. InStorage' = {}
      BY <2>2 DEF CleanCommit, QuotaCommit, StorageSleeps, InStorage, EmptySession, NoRow
    <3> QED
      BY <3>1 DEF Unrivalled
  <2> QED
    BY <1>2, <2>1, <2>2, StorageKeeps DEF AgentTypeOK, TypeOK
<1>3. CASE AgentRestart
  BY <1>3, SleepsSessions DEF AgentRestart, Unrivalled
<1>4. CASE UNCHANGED <<db, storageVars>>
  BY <1>4 DEF storageVars, InStorage, Unrivalled
<1> QED
  BY <1>1, <1>2, <1>3, <1>4 DEF AgentNext, Next, LinkNext, LinkLoad, LinkAnswer, LinkSend, Clock,
     agentVars, nodeVars, vars

LEMMA ExpireIsDocumented ==
  ASSUME NEW S \in SUBSET Tasks, Documented!Expire(S)
  PROVE  Documented!Next
BY DEF Documented!Next

\* A commit of the storage loop is the documented expiry.
LEMMA ExpireStep ==
  ASSUME AgentTypeOK, AgentInv, Unrivalled, StorageNext
  PROVE  [Documented!Next]_([t \in Tasks |-> db[t].status])
<1>1. CASE UNCHANGED db
  BY <1>1
<1>2. CASE db' = Flush(ssnap, scur)
  <2> DEFINE status == [t \in Tasks |-> db[t].status]
             statusNext == [t \in Tasks |-> db'[t].status]
  <2>. PICK S \in SUBSET Tasks : S = InStorage \ stodo
    BY DEF InStorage
  <2>1. \A t \in S : db[t].status = "completed"
    BY DEF Unrivalled
  <2>2. \A t \in Tasks : statusNext[t] = IF t \in S THEN "expired" ELSE status[t]
    BY <1>2, StorageCommitRows DEF AgentTypeOK, TypeOK, AgentInv
  <2>3. statusNext = [t \in Tasks |-> IF t \in S THEN "expired" ELSE status[t]]
    BY <2>2
  <2>4. Documented!Expire(S)
    <3>1. S \subseteq Documented!Is("completed")
      BY <2>1 DEF Documented!Is
    <3> QED
      BY <2>3, <3>1, Zenon DEF Documented!Expire, Documented!Move
  <2> QED
    BY <2>4, ExpireIsDocumented
<1> QED
  BY <1>1, <1>2, StorageKeeps DEF AgentTypeOK, TypeOK

\* The storage loop disturbs no session of the tick.
LEMMA UndisturbedAgentStep ==
  ASSUME Handlers = {}, AgentTypeOK, AgentInv, Undisturbed, [AgentNext]_agentVars
  PROVE  Undisturbed'
<1>1. CASE [Next]_vars
  BY <1>1, UndisturbedStep DEF AgentInv
<1>2. CASE StorageNext /\ UNCHANGED <<tickVars, req, link>>
  <2>1. \A t \in Tasks : db'[t] = db[t] \/ Settled(t)
    BY <1>2, StorageRows DEF AgentTypeOK, TypeOK, AgentInv
  <2> QED
    BY <1>2, <2>1 DEF Undisturbed, InSession, tickVars, Settled
<1>3. CASE UNCHANGED <<db, tickVars>>
  BY <1>3 DEF Undisturbed, InSession, tickVars
<1> QED
  BY <1>1, <1>2, <1>3 DEF AgentNext, Next, LinkNext, LinkLoad, LinkAnswer, LinkSend,
     AgentRestart, Clock, agentVars, nodeVars, vars

\* Without DELETE requests the whole node implements the documented life of a task, from
\* queued to expired, through any faults and restarts.
THEOREM AgentImplementsTaskQueue ==
  ASSUME Handlers = {}
  PROVE  AgentSpec => ImplementsTaskQueue
<1>1. AgentInit => Documented!Init /\ Undisturbed /\ Unrivalled
  BY DEF AgentInit, Init, NodeInit, TickInit, NoRow, Documented!Init, Undisturbed, StorageInit,
     EmptySession, InStorage, Unrivalled
<1>2. AgentTypeOK /\ AgentInv /\ Undisturbed /\ Unrivalled /\ [AgentNext]_agentVars
        => /\ Undisturbed' /\ Unrivalled'
           /\ [Documented!Next]_([t \in Tasks |-> db[t].status])
  <2> SUFFICES ASSUME AgentTypeOK, AgentInv, Undisturbed, Unrivalled, [AgentNext]_agentVars
               PROVE  /\ Undisturbed' /\ Unrivalled'
                      /\ [Documented!Next]_([t \in Tasks |-> db[t].status])
    OBVIOUS
  <2>1. Undisturbed' /\ Unrivalled'
    BY UndisturbedAgentStep, UnrivalledStep
  <2>2. CASE [Next]_vars
    BY <2>1, <2>2, DocumentedStep DEF AgentInv
  <2>3. CASE StorageNext
    BY <2>1, <2>3, ExpireStep
  <2>4. CASE UNCHANGED db
    BY <2>1, <2>4
  <2> QED
    BY <2>1, <2>2, <2>3, <2>4 DEF AgentNext, Next, LinkNext, LinkLoad, LinkAnswer, LinkSend,
       AgentRestart, Clock, agentVars, nodeVars, vars
<1> QED
  BY <1>1, <1>2, AgentInvariant, PTL DEF AgentSpec, ImplementsTaskQueue, Documented!Spec

-----------------------------------------------------------------------------
(* Downloads nobody knows of, while tasks expire too *)

\* A task that expires keeps its error.
LEMMA StorageKeepsError ==
  ASSUME NodeTypeOK, StorageTypeOK, StorageSession, StorageNext, NEW t \in Tasks
  PROVE  db'[t].error = db[t].error
<1>1. CASE UNCHANGED db
  BY <1>1
<1>2. CASE db' = Flush(ssnap, scur)
  <2>1. ssnap[t] \in Row /\ scur[t] \in Row
    BY DEF StorageTypeOK
  <2>2. scur[t] \in {ssnap[t], Purged(ssnap[t])}
    BY DEF StorageSession
  <2>3. scur[t].error = ssnap[t].error
    BY <2>1, <2>2 DEF Purged, Row
  <2>4. db'[t] = FlushRow(db[t], ssnap[t], scur[t])
    BY <1>2 DEF Flush
  <2> QED
    BY <2>3, <2>4 DEF FlushRow, Column
<1> QED
  BY <1>1, <1>2, StorageKeeps

LEMMA StorageOrphans ==
  ASSUME AgentTypeOK, AgentInv, OrphansInv, StorageNext, UNCHANGED <<tickVars, req, link>>
  PROVE  OrphansInv'
<1>0. NodeTypeOK /\ StorageTypeOK /\ StorageSession /\ SessionsInv /\ Requests
  BY DEF AgentTypeOK, TypeOK, AgentInv, SessionsInv
<1>1. aria2' = aria2 /\ UNCHANGED <<pc, snap, cur, todo>> /\ InSession' = InSession
  BY <1>0, StorageKeeps DEF tickVars, InSession
<1>2. faults' >= faults /\ faults \in Nat /\ faults' \in Nat
  BY <1>0, StorageKeeps, StorageType, FaultAssumption DEF NodeTypeOK
<1>3. ASSUME NEW t \in Tasks
      PROVE  /\ db'[t].error = db[t].error
             /\ db'[t] = db[t] \/ (Settled(t) /\ Ended(db[t]) /\ Ended(db'[t]))
  <2>1. db'[t].error = db[t].error
    BY <1>0, StorageKeepsError
  <2>2. db'[t] = db[t] \/ Settled(t)
    BY <1>0, StorageRows
  <2>3. Settled(t) => Ended(db[t])
    BY DEF Settled, Ended
  <2>4. Settled(t) => db'[t] = db[t] \/ db'[t].status = "expired"
    BY <1>0, StorageSettled
  <2> QED
    BY <2>1, <2>2, <2>3, <2>4 DEF Ended
<1>4. RowErrors'
  BY <1>3 DEF OrphansInv, RowErrors, Ended
<1>5. RequestErrors'
  BY <1>0, <1>3, RequestErrorsKept DEF OrphansInv
<1>6. SessionErrors'
  BY <1>1, <1>3 DEF OrphansInv, SessionErrors, Settled, InSession
<1>7. ASSUME NEW t \in Tasks, SaidEnded(t)'
      PROVE  Slack(t)'
  <2>1. SaidEnded(t)
    BY <1>1, <1>3, <1>7 DEF SaidEnded, Ended
  <2>2. Slack(t)
    BY <2>1 DEF OrphansInv
  <2>3. Len(aria2[t]) \in Nat
    BY <1>0, AriaLen DEF NodeTypeOK
  <2>4. Len(aria2[t]) <= faults => Len(aria2[t]) <= faults'
    BY <1>2, <2>3
  <2> QED
    BY <1>1, <2>2, <2>4 DEF Slack, Gids
<1> QED
  BY <1>4, <1>5, <1>6, <1>7 DEF OrphansInv

\* The storage loop, links and restarts leave no orphan either: aria2 works on no more
\* downloads that no row knows of than there were faults, but for cancelled tasks.
THEOREM AgentOrphansAreCounted == AgentSpec => []OrphansCounted
<1>1. AgentInit => OrphansInv
  BY OrphansBegin DEF AgentInit
<1>2. AgentTypeOK /\ AgentInv /\ OrphansInv /\ [AgentNext]_agentVars => OrphansInv'
  <2> SUFFICES ASSUME AgentTypeOK, AgentInv, OrphansInv, [AgentNext]_agentVars
               PROVE  OrphansInv'
    OBVIOUS
  <2>1. CASE [Next]_vars
    BY <2>1, OrphansStep DEF AgentInv
  <2>2. CASE StorageNext /\ UNCHANGED <<tickVars, req, link>>
    BY <2>2, StorageOrphans
  <2>3. CASE UNCHANGED <<db, aria2, faults, tickVars, req>>
    BY <2>3 DEF OrphansInv, RowErrors, SessionErrors, RequestErrors, SaidEnded, Slack, Ended,
       InSession, Gids, tickVars
  <2> QED
    BY <2>1, <2>2, <2>3 DEF AgentNext, Next, LinkNext, LinkLoad, LinkAnswer, LinkSend,
       AgentRestart, Clock, agentVars, nodeVars, vars
<1>3. AgentInv /\ OrphansInv => OrphansCounted
  BY OrphansFollow DEF AgentInv
<1> QED
  BY <1>1, <1>2, <1>3, AgentInvariant, PTL DEF AgentSpec
=============================================================================

------------------------- MODULE TaskLifecycleProofs -------------------------
(***************************************************************************)
(* Proofs, for any tasks, slots, faults and requests, that the life of a   *)
(* task is type correct and keeps the safety properties of TaskLifecycle.  *)
(* SessionsInv is the inductive invariant; there is one lemma per action.  *)
(***************************************************************************)
EXTENDS TaskLifecycle, NodeStateProofs

-----------------------------------------------------------------------------
(* Types *)

LEMMA SyncedType ==
  ASSUME NEW row \in Row, now \in Nat, NEW st
  PROVE  Synced(row, st) \in Row /\ Lost(row) \in Row
<1>1. "aria2" \in Error
  BY DEF Error
<1>2. /\ MarkStarted(row) \in Row
      /\ MarkCompleted(row) \in Row
      /\ MarkFailed(row, "aria2") \in Row
  BY <1>1, MarkTypes
<1>3. [MarkCompleted(row) EXCEPT !.path = TRUE] \in Row
  BY <1>2 DEF Row
<1> QED
  BY <1>2, <1>3 DEF Synced, Lost

\* An answer never touches the gid, leaves a downloading row downloading or ends
\* it, and completes it only with a path and a time.
LEMMA SyncedRow ==
  ASSUME NEW row \in Row, row.status = "downloading", now \in Nat, NEW st,
         NEW new, new = Synced(row, st) \/ new = Lost(row)
  PROVE  /\ new.gid = row.gid
         /\ new.status \in {"downloading", "completed", "failed"}
         /\ new.status = "completed" => new.path /\ new.completedAt # NoTime
<1>1. \/ new = [MarkCompleted(row) EXCEPT !.path = TRUE]
      \/ new = MarkFailed(row, "aria2")
      \/ new = row
  BY DEF Synced, Lost
<1>2. CASE new = [MarkCompleted(row) EXCEPT !.path = TRUE]
  BY <1>2 DEF MarkCompleted, Row, NoTime
<1>3. CASE new = MarkFailed(row, "aria2")
  BY <1>3 DEF MarkFailed, Row
<1>4. CASE new = row
  BY <1>4
<1> QED
  BY <1>1, <1>2, <1>3, <1>4

LEMMA OpenType ==
  ASSUME NodeTypeOK, NEW S \in SUBSET Tasks, Open(S)
  PROVE  snap' \in [Tasks -> Row] /\ cur' \in [Tasks -> Row] /\ todo' \in SUBSET Tasks
BY LoadType DEF Open, NodeTypeOK

LEMMA ClosedType ==
  ASSUME Closed
  PROVE  snap' \in [Tasks -> Row] /\ cur' \in [Tasks -> Row] /\ todo' \in SUBSET Tasks
BY EmptySessionType DEF Closed

LEMMA AssignType ==
  ASSUME TickTypeOK, NEW t \in Tasks, NEW row \in Row, Assign(t, row)
  PROVE  cur' \in [Tasks -> Row] /\ todo' \in SUBSET Tasks
BY DEF TickTypeOK, Assign

LEMMA SlotsType ==
  ASSUME NodeTypeOK
  PROVE  Cardinality(InStatus({"downloading"})) \in Nat
<1>1. InStatus({"downloading"}) \subseteq Tasks
  BY DEF InStatus
<1> QED
  BY <1>1, TasksAssumption, FS_Subset, FS_CardinalityType

\* Every step of the tick keeps the types.
LEMMA TickType ==
  ASSUME NodeTypeOK, TickTypeOK, TickNext
  PROVE  NodeTypeOK' /\ TickTypeOK'
<1> USE DEF TickPc
<1>1. CASE SyncLoad
  <2>1. InStatus({"downloading", "queued"}) \subseteq Tasks
    BY DEF InStatus
  <2> QED
    BY <1>1, <2>1, OpenType DEF SyncLoad, nodeVars, NodeTypeOK, TickTypeOK
<1>2. ASSUME NEW t \in Tasks, SyncStatus(t)
      PROVE  NodeTypeOK' /\ TickTypeOK'
  <2>1. cur[t] \in Row /\ now \in Nat
    BY DEF TickTypeOK, NodeTypeOK
  <2>2. faults' \in 0..MaxFaults
    BY <1>2, FaultType DEF SyncStatus, SyncAnswer, SyncNoAnswer, NodeTypeOK
  <2>3. \E row \in Row : Assign(t, row)
    BY <1>2, <2>1, SyncedType DEF SyncStatus, SyncAnswer, SyncNoAnswer
  <2> QED
    BY <1>2, <2>2, <2>3, AssignType DEF SyncStatus, NodeTypeOK, TickTypeOK
<1>3. CASE SyncCommit
  BY <1>3, FlushType, ClosedType DEF SyncCommit, NodeTypeOK, TickTypeOK
<1>4. CASE FillCount
  BY <1>4, SlotsType, LimitAssumption DEF FillCount, nodeVars, NodeTypeOK, TickTypeOK
<1>5. CASE FillPick
  <2>1. PICK S \in SUBSET InStatus({"queued"}) : Open(S)
    BY <1>5 DEF FillPick
  <2>2. S \in SUBSET Tasks
    BY <2>1 DEF InStatus
  <2> QED
    BY <1>5, <2>1, <2>2, OpenType DEF FillPick, nodeVars, NodeTypeOK, TickTypeOK
<1>6. ASSUME NEW t \in Tasks, FillAdd(t)
      PROVE  NodeTypeOK' /\ TickTypeOK'
  <2>1. cur[t] \in Row /\ now \in Nat /\ "aria2" \in Error /\ Len(aria2[t]) \in Nat
    BY AriaLen DEF TickTypeOK, NodeTypeOK, Error
  <2>2. aria2' \in [Tasks -> Seq(AriaStatus)]
    <3>1. CASE UNCHANGED aria2
      BY <3>1 DEF NodeTypeOK
    <3>2. CASE aria2' = [aria2 EXCEPT ![t] = Append(@, "waiting")]
      BY <3>2, AriaAppend DEF NodeTypeOK
    <3> QED
      BY <1>6, <3>1, <3>2 DEF FillAdd, Added, AddFailed, AddUri
  <2>3. faults' \in 0..MaxFaults
    BY <1>6, FaultType DEF FillAdd, Added, AddFailed, NodeTypeOK
  <2>4. \E row \in Row : Assign(t, row)
    <3>1. MarkStarted(cur[t]) \in Row /\ MarkFailed(cur[t], "aria2") \in Row
      BY <2>1, MarkTypes
    <3>2. [MarkStarted(cur[t]) EXCEPT !.gid = Len(aria2[t]) + 1] \in Row
      BY <2>1, <3>1 DEF Row
    <3> QED
      BY <1>6, <3>1, <3>2 DEF FillAdd, Added, AddFailed
  <2>5. disk' \in [Tasks -> Dir]
    BY <1>6 DEF FillAdd, NodeTypeOK, Dir
  <2> QED
    BY <1>6, <2>2, <2>3, <2>4, <2>5, AssignType DEF FillAdd, NodeTypeOK, TickTypeOK
<1>7. CASE FillCommit
  BY <1>7, FlushType, ClosedType DEF FillCommit, NodeTypeOK, TickTypeOK
<1>8. CASE TickAborts
  <2>1. faults' \in 0..MaxFaults
    BY <1>8, FaultType DEF TickAborts, TableFails, MkdirFails, NodeTypeOK
  <2> QED
    BY <1>8, <2>1, ClosedType DEF TickAborts, NodeTypeOK, TickTypeOK
<1> QED
  BY <1>1, <1>2, <1>3, <1>4, <1>5, <1>6, <1>7, <1>8 DEF TickNext, TickStep

LEMMA DeletedType ==
  ASSUME NEW row \in Row, now \in Nat
  PROVE  Deleted(row) \in Row
<1>1. "cancelled" \in Error
  BY DEF Error
<1>2. MarkFailed(row, "cancelled") \in Row
  BY <1>1, MarkTypes
<1>3. Purged(row) \in Row
  BY DEF Purged, Row, Status
<1> QED
  BY <1>2, <1>3 DEF Deleted

LEMMA AssignRowType ==
  ASSUME NodeTypeOK, ApiTypeOK, NEW h \in Handlers, AssignRow(h)
  PROVE  ApiTypeOK'
<1>1. Deleted(req[h].row) \in Row
  BY DeletedType DEF NodeTypeOK, ApiTypeOK
<1> QED
  BY <1>1 DEF AssignRow, ApiTypeOK, RequestPc

\* The aria2 calls of a DELETE change the state of one record at most.
LEMMA DeleteCalls ==
  ASSUME NodeTypeOK, NEW h \in Handlers, DeleteForce(h) \/ DeleteResult(h)
  PROVE  /\ aria2' \in [Tasks -> Seq(AriaStatus)]
         /\ \A u \in Tasks : Len(aria2'[u]) = Len(aria2[u])
         /\ faults' \in 0..MaxFaults
         /\ faults' >= faults
<1> DEFINE t == req[h].task
           g == req[h].row.gid
<1>1. aria2' = aria2 \/ (g \in Gids(t) /\ \E s \in AriaStatus : aria2' = [aria2 EXCEPT ![t][g] = s])
  BY DEF DeleteForce, DeleteResult, ForceRemove, RemoveResult, TellStatus, Live, AriaStatus
<1>2. faults' \in 0..MaxFaults /\ faults' >= faults
  BY FaultType DEF DeleteForce, DeleteResult, ForceRemove, RemoveResult, NodeTypeOK
<1>3. CASE aria2' = aria2
  BY <1>2, <1>3 DEF NodeTypeOK
<1>4. CASE g \in Gids(t) /\ \E s \in AriaStatus : aria2' = [aria2 EXCEPT ![t][g] = s]
  <2>1. CASE t \in Tasks
    BY <1>2, <1>4, <2>1, AriaExcept DEF NodeTypeOK
  <2>2. CASE t \notin Tasks
    BY <1>2, <1>4, <2>2 DEF NodeTypeOK
  <2> QED
    BY <2>1, <2>2
<1> QED
  BY <1>1, <1>3, <1>4

\* Every step of a request keeps the types.
LEMMA DeleteType ==
  ASSUME NodeTypeOK, ApiTypeOK, NEW h \in Handlers, DeleteNext(h)
  PROVE  NodeTypeOK' /\ ApiTypeOK'
<1>0. NoRequest \in [pc : RequestPc, task : Tasks \cup {NoTask}, row : Row, new : Row]
  BY NoRowType DEF NoRequest, RequestPc
<1>1. ASSUME NEW t \in Tasks, DeleteLoad(h, t)
      PROVE  NodeTypeOK' /\ ApiTypeOK'
  <2>1. [pc |-> "loaded", task |-> t, row |-> db[t], new |-> db[t]]
          \in [pc : RequestPc, task : Tasks \cup {NoTask}, row : Row, new : Row]
    BY DEF NodeTypeOK, RequestPc
  <2> QED
    BY <1>1, <2>1 DEF DeleteLoad, nodeVars, NodeTypeOK, ApiTypeOK
<1>2. CASE DeleteQueued(h)
  BY <1>2, AssignRowType DEF DeleteQueued, nodeVars, NodeTypeOK
<1>3. CASE DeleteForce(h)
  <2>1. ApiTypeOK'
    <3>1. CASE AssignRow(h)
      BY <3>1, AssignRowType
    <3>2. CASE req' = [req EXCEPT ![h].pc = "result"]
      BY <3>2 DEF ApiTypeOK, RequestPc
    <3> QED
      BY <1>3, <3>1, <3>2 DEF DeleteForce
  <2>2. NodeTypeOK'
    BY <1>3, DeleteCalls DEF DeleteForce, NodeTypeOK
  <2> QED
    BY <2>1, <2>2
<1>4. CASE DeleteResult(h)
  BY <1>4, AssignRowType, DeleteCalls DEF DeleteResult, NodeTypeOK
<1>5. CASE DeletePurge(h)
  BY <1>5, AssignRowType, RemoveDirType DEF DeletePurge, NodeTypeOK
<1>6. CASE DeleteCommit(h)
  <2>1. req[h].row \in Row /\ req[h].new \in Row
    BY DEF ApiTypeOK
  <2>2. db' \in [Tasks -> Row]
    BY <1>6, <2>1, FlushRowType DEF DeleteCommit, NodeTypeOK
  <2> QED
    BY <1>0, <1>6, <2>2 DEF DeleteCommit, NodeTypeOK, ApiTypeOK
<1>7. CASE DeleteAborts(h)
  BY <1>0, <1>7, FaultType DEF DeleteAborts, NodeTypeOK, ApiTypeOK
<1> QED
  BY <1>1, <1>2, <1>3, <1>4, <1>5, <1>6, <1>7 DEF DeleteNext, DeleteStep

\* Every step of the node keeps the types.
LEMMA TypeStep == TypeOK /\ [Next]_vars => TypeOK'
<1> SUFFICES ASSUME TypeOK, [Next]_vars
             PROVE  TypeOK'
  OBVIOUS
<1> USE DEF TypeOK
<1>1. CASE TickNext /\ UNCHANGED req
  BY <1>1, TickType DEF ApiTypeOK
<1>2. CASE AriaNext /\ UNCHANGED <<tickVars, req>>
  BY <1>2, AriaNextPreserves DEF tickVars, TickTypeOK, ApiTypeOK
<1>3. ASSUME NEW t \in Tasks, Enqueue(t), UNCHANGED <<tickVars, req>>
      PROVE  TypeOK'
  <2>1. db' \in [Tasks -> Row] /\ disk' \in [Tasks -> Dir] /\ faults' \in 0..MaxFaults
    BY <1>3, QueuedRowType, FaultType DEF Enqueue, NodeTypeOK, Dir
  <2> QED
    BY <1>3, <2>1 DEF Enqueue, NodeTypeOK, tickVars, TickTypeOK, ApiTypeOK
<1>4. ASSUME NEW h \in Handlers, DeleteNext(h), UNCHANGED tickVars
      PROVE  TypeOK'
  BY <1>4, DeleteType DEF tickVars, TickTypeOK
<1>5. CASE NodeRestart
  <2>1. [h \in Handlers |-> NoRequest] \in
          [Handlers -> [pc : RequestPc, task : Tasks \cup {NoTask}, row : Row, new : Row]]
    BY NoRowType DEF NoRequest, RequestPc
  <2>2. faults' \in 0..MaxFaults
    BY <1>5, FaultType DEF NodeRestart, NodeTypeOK
  <2> QED
    BY <1>5, <2>1, <2>2, ClosedType DEF NodeRestart, NodeTypeOK, TickTypeOK, ApiTypeOK, TickPc
<1>6. CASE UNCHANGED vars
  BY <1>6 DEF vars, nodeVars, tickVars, NodeTypeOK, TickTypeOK, ApiTypeOK
<1> QED
  BY <1>1, <1>2, <1>3, <1>4, <1>5, <1>6 DEF Next, LifecycleStep

LEMMA TypeInit == Init => TypeOK
<1> SUFFICES ASSUME Init
             PROVE  TypeOK
  OBVIOUS
<1>1. NodeTypeOK
  BY NoRowType, FaultAssumption DEF Init, NodeInit, NodeTypeOK, Dir
<1>2. TickTypeOK
  BY EmptySessionType, LimitAssumption DEF Init, TickInit, TickTypeOK, TickPc
<1>3. ApiTypeOK
  BY NoRowType DEF Init, ApiInit, ApiTypeOK, NoRequest, RequestPc
<1> QED
  BY <1>1, <1>2, <1>3 DEF TypeOK

\* The node never leaves its types; in particular _fill_queued_tasks computes a
\* number of slots between 0 and concurrent_limit.
THEOREM TypeCorrect == Spec => []TypeOK
BY TypeInit, TypeStep, PTL DEF Spec

-----------------------------------------------------------------------------
(* Facts used for several actions *)

LEMMA CardinalityOfSubset ==
  ASSUME NEW S \in SUBSET Tasks, NEW T \in SUBSET S
  PROVE  /\ Cardinality(S) \in Nat
         /\ Cardinality(T) \in Nat
         /\ Cardinality(T) <= Cardinality(S)
<1>1. IsFiniteSet(S) /\ IsFiniteSet(T)
  BY TasksAssumption, FS_Subset
<1> QED
  BY <1>1, FS_Subset, FS_CardinalityType

\* While the table is not written its properties stay; gids are never taken back.
LEMMA RowsKept ==
  ASSUME RowsConsistent, SlotBound, db' = db, \A t \in Tasks : Gids(t) \subseteq Gids(t)'
  PROVE  RowsConsistent' /\ SlotBound' /\ Downloading' = Downloading
BY DEF RowsConsistent, SlotBound, Downloading, InStatus

\* What a request knows about its row survives a step that starts or ends no
\* request, never returns a row to the queue, revives none that ended, and loads
\* none that ended into a session.
LEMMA RequestsKept ==
  ASSUME Requests, req' = req,
         \A t \in Tasks :
           /\ db[t].status # "none" => db'[t].status # "none"
           /\ db[t].status \notin {"none", "queued"} => db'[t].status # "queued"
           /\ /\ db[t].status \in {"completed", "failed", "expired"}
              /\ pc \in {"sync", "fill"} => t \notin InSession
              => /\ db'[t].status \in {"completed", "failed", "expired"}
                 /\ pc' \in {"sync", "fill"} => t \notin InSession'
  PROVE  Requests'
BY DEF Requests, Request

LEMMA GidsSame ==
  ASSUME \A u \in Tasks : Len(aria2'[u]) = Len(aria2[u])
  PROVE  \A u \in Tasks : Gids(u)' = Gids(u)
BY DEF Gids

-----------------------------------------------------------------------------
(* aria2, new tasks, restarts *)

LEMMA AriaInv ==
  ASSUME SessionsInv, AriaNext, UNCHANGED <<tickVars, req>>, TypeOK'
  PROVE  SessionsInv'
<1> USE DEF SessionsInv, tickVars
<1>1. /\ db' = db
      /\ \A u \in Tasks : Len(aria2'[u]) = Len(aria2[u])
      /\ faults' >= faults /\ faults \in Nat /\ faults' \in Nat
  BY AriaNextPreserves DEF TypeOK, NodeTypeOK
<1>2. \A u \in Tasks : Gids(u)' = Gids(u)
  BY <1>1, GidsSame
<1>3. RowsConsistent' /\ SlotBound' /\ Downloading' = Downloading
  BY <1>1, <1>2, RowsKept
<1>4. InSession' = InSession
  BY DEF InSession
<1>5. SyncSession'
  BY <1>1, <1>2, <1>4 DEF SyncSession
<1>6. FillSession'
  BY <1>1, <1>2, <1>3, <1>4 DEF FillSession
<1>7. SlotsCounted'
  BY <1>3 DEF SlotsCounted
<1>8. Requests'
  BY <1>1, <1>4, RequestsKept
<1>9. AddsCounted'
  <2>1. \A u \in Tasks : Len(aria2[u]) \in Nat
    BY AriaLen DEF TypeOK, NodeTypeOK
  <2> QED
    BY <1>1, <1>4, <2>1 DEF AddsCounted
<1> QED
  BY <1>3, <1>5, <1>6, <1>7, <1>8, <1>9

LEMMA EnqueueInv ==
  ASSUME SessionsInv, NEW t \in Tasks, Enqueue(t), UNCHANGED <<tickVars, req>>, TypeOK'
  PROVE  SessionsInv'
<1> USE DEF SessionsInv, tickVars
<1>1. /\ db[t].status = "none" /\ db' = [db EXCEPT ![t] = QueuedRow]
      /\ UNCHANGED <<aria2, now>>
      /\ db \in [Tasks -> Row] /\ faults \in Nat /\ faults' \in Nat
  BY DEF Enqueue, TypeOK, NodeTypeOK
<1>2. db'[t] = QueuedRow /\ \A u \in Tasks \ {t} : db'[u] = db[u]
  BY <1>1
<1>3. QueuedRow.status = "queued"
  BY DEF QueuedRow, NoRow
<1>4. \A u \in Tasks : Gids(u)' = Gids(u)
  BY <1>1 DEF Gids
<1>5. RowsConsistent'
  BY <1>2, <1>3, <1>4 DEF RowsConsistent, QueuedRow
<1>6. Downloading' = Downloading
  BY <1>1, <1>2, <1>3 DEF Downloading, InStatus
<1>7. InSession' = InSession
  BY DEF InSession
<1>8. SlotBound' /\ SlotsCounted'
  BY <1>6 DEF SlotBound, SlotsCounted
<1>9. SyncSession'
  BY <1>1, <1>2, <1>4, <1>7 DEF SyncSession
<1>10. FillSession'
  BY <1>1, <1>2, <1>4, <1>6, <1>7 DEF FillSession
<1>11. Requests'
  BY <1>1, <1>2, <1>3, <1>7, RequestsKept
<1>12. AddsCounted'
  <2>1. faults' >= faults
    BY DEF Enqueue, Fault, TypeOK, NodeTypeOK
  <2>2. \A u \in Tasks : Len(aria2[u]) \in Nat
    BY AriaLen DEF TypeOK, NodeTypeOK
  <2>3. pc = "fill" => t \notin InSession
    BY <1>1 DEF FillSession
  <2> QED
    BY <1>1, <1>2, <1>3, <1>7, <2>1, <2>2, <2>3 DEF AddsCounted
<1> QED
  BY <1>5, <1>8, <1>9, <1>10, <1>11, <1>12

\* A step that drops the tick's session needs a fault, which pays for the gids
\* the session has not committed.
LEMMA DroppedSessionInv ==
  ASSUME SessionsInv, TypeOK', Closed, pc' = "idle", Requests',
         UNCHANGED <<db, aria2>>, faults' = faults + 1
  PROVE  SessionsInv'
<1> USE DEF SessionsInv
<1>1. \A u \in Tasks : Gids(u)' = Gids(u)
  BY DEF Gids
<1>2. RowsConsistent' /\ SlotBound'
  BY <1>1, RowsKept
<1>3. SyncSession' /\ FillSession' /\ SlotsCounted'
  BY DEF SyncSession, FillSession, SlotsCounted
<1>4. \A u \in Tasks : Len(aria2[u]) \in Nat
  BY AriaLen DEF TypeOK, NodeTypeOK
<1>5. faults \in Nat
  BY DEF TypeOK, NodeTypeOK
<1>6. AddsCounted'
  BY <1>4, <1>5 DEF AddsCounted
<1> QED
  BY <1>2, <1>3, <1>6

LEMMA RestartInv ==
  ASSUME SessionsInv, NodeRestart, TypeOK'
  PROVE  SessionsInv'
<1>1. Requests'
  BY DEF NodeRestart, Requests, NoRequest
<1>2. faults' = faults + 1
  BY DEF NodeRestart, Fault
<1> QED
  BY <1>1, <1>2, DroppedSessionInv DEF NodeRestart

LEMMA TickAbortsInv ==
  ASSUME SessionsInv, TickAborts, UNCHANGED req, TypeOK'
  PROVE  SessionsInv'
<1>1. Requests'
  BY RequestsKept DEF SessionsInv, TickAborts
<1>2. faults' = faults + 1
  BY DEF TickAborts, TableFails, MkdirFails, Fault
<1> QED
  BY <1>1, <1>2, DroppedSessionInv DEF TickAborts

-----------------------------------------------------------------------------
(* _sync_downloading_tasks *)

LEMMA SyncLoadInv ==
  ASSUME SessionsInv, SyncLoad, UNCHANGED req, TypeOK'
  PROVE  SessionsInv'
<1> USE DEF SessionsInv
<1> DEFINE S == {t \in InStatus({"downloading", "queued"}) : db[t].gid # NoGid}
<1>1. /\ Open(S) /\ pc = "idle" /\ pc' = "sync" /\ UNCHANGED <<db, aria2, faults>>
  BY DEF SyncLoad, nodeVars
<1>2. \A t \in Tasks : snap'[t] = IF t \in S THEN db[t] ELSE NoRow
  BY <1>1 DEF Open, Load
<1>3. cur' = snap' /\ todo' = S
  BY <1>1 DEF Open
<1>4. \A t \in Tasks : db[t].status = "queued" => db[t].gid = NoGid
  BY DEF RowsConsistent, NoRow
<1>5. S = {t \in Tasks : db[t].status = "downloading" /\ db[t].gid # NoGid}
  BY <1>4 DEF InStatus
<1>6. InSession' = S
  BY <1>2, <1>5 DEF InSession, NoRow
<1>7. \A u \in Tasks : Gids(u)' = Gids(u)
  BY <1>1 DEF Gids
<1>8. RowsConsistent' /\ SlotBound'
  BY <1>1, <1>7, RowsKept
<1>9. SyncSession'
  BY <1>1, <1>2, <1>3, <1>5, <1>6, <1>7 DEF SyncSession, RowsConsistent
<1>10. FillSession' /\ SlotsCounted'
  BY <1>1 DEF FillSession, SlotsCounted
<1>11. Requests'
  BY <1>1, <1>5, <1>6, RequestsKept
<1>12. AddsCounted'
  BY <1>1 DEF AddsCounted
<1> QED
  BY <1>8, <1>9, <1>10, <1>11, <1>12

LEMMA SyncStatusInv ==
  ASSUME SessionsInv, NEW t \in Tasks, SyncStatus(t), UNCHANGED req, TypeOK'
  PROVE  SessionsInv'
<1> USE DEF SessionsInv
<1>1. /\ pc = "sync" /\ t \in todo /\ UNCHANGED <<db, aria2, now, pc, snap, slots>>
      /\ \E row : Assign(t, row)
      /\ faults' >= faults /\ faults \in Nat /\ faults' \in Nat
  BY DEF SyncStatus, SyncAnswer, SyncNoAnswer, Fault, TypeOK, NodeTypeOK
<1>2. /\ t \in InSession /\ cur[t] = snap[t] /\ cur[t].status = "downloading"
      /\ cur[t] \in Row /\ now \in Nat
  BY <1>1 DEF SyncSession, TypeOK, TickTypeOK, NodeTypeOK
<1>3. todo' = todo \ {t} /\ \A u \in Tasks \ {t} : cur'[u] = cur[u]
  BY <1>1 DEF Assign, TypeOK, TickTypeOK
<1>4. cur'[t] = Lost(cur[t]) \/ \E st : cur'[t] = Synced(cur[t], st)
  BY DEF SyncStatus, SyncAnswer, SyncNoAnswer, Assign, TypeOK, TickTypeOK
<1>5. /\ cur'[t].gid = cur[t].gid
      /\ cur'[t].status \in {"downloading", "completed", "failed"}
      /\ cur'[t].status = "completed" => cur'[t].path /\ cur'[t].completedAt # NoTime
  BY <1>2, <1>4, SyncedRow
<1>6. \A u \in Tasks : Gids(u)' = Gids(u)
  BY <1>1 DEF Gids
<1>7. RowsConsistent' /\ SlotBound'
  BY <1>1, <1>6, RowsKept
<1>8. InSession' = InSession
  BY <1>1 DEF InSession
<1>9. SyncSession'
  BY <1>1, <1>2, <1>3, <1>5, <1>6, <1>8 DEF SyncSession
<1>10. FillSession' /\ SlotsCounted'
  BY <1>1 DEF FillSession, SlotsCounted
<1>11. Requests'
  BY <1>1, <1>8, RequestsKept
<1>12. AddsCounted'
  <2>1. \A u \in Tasks : Len(aria2[u]) \in Nat
    BY AriaLen DEF TypeOK, NodeTypeOK
  <2> QED
    BY <1>1, <2>1 DEF AddsCounted
<1> QED
  BY <1>7, <1>9, <1>10, <1>11, <1>12

\* What the sync commit leaves in a row it loaded.
LEMMA SyncCommitRows ==
  ASSUME SessionsInv, SyncCommit, NEW t \in Tasks
  PROVE  /\ t \notin InSession => db'[t] = db[t]
         /\ t \in InSession =>
              /\ db[t].status \in {"downloading", "failed"}
              /\ db'[t].gid \in Gids(t)
              /\ db'[t].status \in {db[t].status, "completed", "failed"}
              /\ db'[t].status = "completed" => db'[t].path /\ db'[t].completedAt # NoTime
<1> USE DEF SessionsInv
<1>1. /\ pc = "sync"
      /\ db' = [u \in Tasks |-> FlushRow(db[u], snap[u], cur[u])]
  BY DEF SyncCommit, Flush
<1>2. snap[t] \in Row /\ cur[t] \in Row /\ db[t] \in Row
  BY DEF TypeOK, NodeTypeOK, TickTypeOK
<1>3. CASE t \notin InSession
  <2>1. cur[t] = snap[t]
    BY <1>1, <1>3 DEF SyncSession
  <2> QED
    BY <1>1, <1>2, <1>3, <2>1 DEF FlushRow, Column, Row
<1>4. CASE t \in InSession
  <2>1. /\ snap[t].status = "downloading"
        /\ db[t].status \in {"downloading", "failed"}
        /\ snap[t].gid \in Gids(t) /\ db[t].gid = snap[t].gid /\ cur[t].gid = snap[t].gid
        /\ db[t].path = snap[t].path
        /\ snap[t].completedAt # NoTime => db[t].completedAt # NoTime
        /\ cur[t].status \in {"downloading", "completed", "failed"}
        /\ cur[t].status = "completed" => cur[t].path /\ cur[t].completedAt # NoTime
    BY <1>1, <1>4 DEF SyncSession
  <2>2. /\ db'[t].gid = db[t].gid
        /\ db'[t].status = IF cur[t].status = snap[t].status THEN db[t].status ELSE cur[t].status
        /\ db'[t].path = IF cur[t].path = snap[t].path THEN db[t].path ELSE cur[t].path
        /\ db'[t].completedAt = IF cur[t].completedAt = snap[t].completedAt
                                THEN db[t].completedAt ELSE cur[t].completedAt
    BY <1>1, <2>1 DEF FlushRow, Column
  <2> QED
    BY <1>2, <1>4, <2>1, <2>2
<1> QED
  BY <1>3, <1>4

LEMMA SyncCommitInv ==
  ASSUME SessionsInv, SyncCommit, UNCHANGED req, TypeOK'
  PROVE  SessionsInv'
<1> USE DEF SessionsInv
<1>1. pc = "sync" /\ pc' = "count" /\ UNCHANGED <<aria2, faults>>
  BY DEF SyncCommit
<1>2. \A u \in Tasks : Gids(u)' = Gids(u)
  BY <1>1 DEF Gids
<1>3. RowsConsistent'
  BY <1>2, SyncCommitRows DEF RowsConsistent
<1>4. Downloading' \subseteq Downloading /\ Downloading \subseteq Tasks
  BY SyncCommitRows DEF Downloading, InStatus
<1>5. SlotBound'
  <2>1. Cardinality(Downloading) \in Nat /\ Cardinality(Downloading') \in Nat
    BY <1>4, CardinalityOfSubset
  <2>2. Cardinality(Downloading') <= Cardinality(Downloading)
    BY <1>4, CardinalityOfSubset
  <2> QED
    BY <2>1, <2>2, LimitAssumption DEF SlotBound
<1>6. SyncSession' /\ FillSession' /\ SlotsCounted'
  BY <1>1 DEF SyncSession, FillSession, SlotsCounted
<1>7. Requests'
  BY <1>1, SyncCommitRows, RequestsKept
<1>8. AddsCounted'
  BY <1>1, SyncCommitRows DEF AddsCounted
<1> QED
  BY <1>3, <1>5, <1>6, <1>7, <1>8

-----------------------------------------------------------------------------
(* _fill_queued_tasks *)

LEMMA FillCountInv ==
  ASSUME SessionsInv, FillCount, UNCHANGED req, TypeOK'
  PROVE  SessionsInv'
<1> USE DEF SessionsInv
<1>1. /\ pc = "count" /\ pc' \in {"idle", "pick"}
      /\ UNCHANGED <<db, aria2, faults, snap, cur, todo>>
  BY DEF FillCount, nodeVars
<1>2. \A u \in Tasks : Gids(u)' = Gids(u)
  BY <1>1 DEF Gids
<1>3. RowsConsistent' /\ SlotBound' /\ Downloading' = Downloading
  BY <1>1, <1>2, RowsKept
<1>4. SlotsCounted'
  <2>1. Cardinality(Downloading) \in Nat
    BY SlotsType DEF TypeOK, Downloading
  <2>2. slots' = IF Cardinality(Downloading) < ConcurrentLimit
                 THEN ConcurrentLimit - Cardinality(Downloading) ELSE 0
    BY DEF FillCount, Downloading
  <2> QED
    BY <1>3, <2>1, <2>2, LimitAssumption DEF SlotsCounted, SlotBound
<1>5. SyncSession' /\ FillSession'
  BY <1>1 DEF SyncSession, FillSession
<1>6. Requests'
  BY <1>1, RequestsKept
<1>7. AddsCounted'
  BY <1>1 DEF AddsCounted
<1> QED
  BY <1>3, <1>4, <1>5, <1>6, <1>7

LEMMA FillPickInv ==
  ASSUME SessionsInv, FillPick, UNCHANGED req, TypeOK'
  PROVE  SessionsInv'
<1> USE DEF SessionsInv
<1>1. /\ pc = "pick" /\ pc' = "fill" /\ UNCHANGED <<db, aria2, faults>>
  BY DEF FillPick, nodeVars
<1>2. PICK S \in SUBSET InStatus({"queued"}) : Cardinality(S) <= slots /\ Open(S)
  BY DEF FillPick, IsOldest
<1>3. S \subseteq Tasks /\ \A t \in S : db[t].status = "queued" /\ db[t] = QueuedRow
  BY <1>2 DEF InStatus, RowsConsistent, QueuedRow
<1>4. \A t \in Tasks : snap'[t] = IF t \in S THEN db[t] ELSE NoRow
  BY <1>2 DEF Open, Load
<1>5. cur' = snap' /\ todo' = S
  BY <1>2 DEF Open
<1>6. InSession' = S
  BY <1>3, <1>4 DEF InSession, NoRow
<1>7. \A u \in Tasks : Gids(u)' = Gids(u)
  BY <1>1 DEF Gids
<1>8. RowsConsistent' /\ SlotBound' /\ Downloading' = Downloading
  BY <1>1, <1>7, RowsKept
<1>9. Cardinality(Downloading \cup S) <= ConcurrentLimit
  <2>1. IsFiniteSet(Downloading) /\ IsFiniteSet(S)
    BY <1>3, TasksAssumption, FS_Subset DEF Downloading, InStatus
  <2>2. /\ Cardinality(Downloading \cup S)
             = Cardinality(Downloading) + Cardinality(S) - Cardinality(Downloading \cap S)
        /\ IsFiniteSet(Downloading \cap S)
    BY <2>1, FS_Union, FS_Subset
  <2>3. /\ Cardinality(Downloading) \in Nat /\ Cardinality(S) \in Nat
        /\ Cardinality(Downloading \cap S) \in Nat
    BY <2>1, <2>2, FS_CardinalityType
  <2>4. Cardinality(Downloading) + slots <= ConcurrentLimit /\ slots \in Nat
    BY <1>1 DEF SlotsCounted, TypeOK, TickTypeOK
  <2> QED
    BY <1>2, <2>2, <2>3, <2>4, LimitAssumption
<1>10. FillSession'
  <2>1. \A t \in S : snap'[t] = QueuedRow /\ QueuedRow.status = "queued"
    BY <1>3, <1>4 DEF QueuedRow, NoRow
  <2> QED
    BY <1>1, <1>3, <1>5, <1>6, <1>8, <1>9, <2>1 DEF FillSession
<1>11. SyncSession' /\ SlotsCounted'
  BY <1>1 DEF SyncSession, SlotsCounted
<1>12. Requests'
  BY <1>1, <1>3, <1>6, RequestsKept
<1>13. AddsCounted'
  BY <1>1, <1>3, <1>5, <1>6 DEF AddsCounted
<1> QED
  BY <1>8, <1>10, <1>11, <1>12, <1>13

LEMMA FillAddInv ==
  ASSUME SessionsInv, NEW t \in Tasks, FillAdd(t), UNCHANGED req, TypeOK'
  PROVE  SessionsInv'
<1> USE DEF SessionsInv
<1>1. /\ pc = "fill" /\ t \in todo /\ UNCHANGED <<db, now, pc, snap, slots>>
      /\ faults \in Nat /\ faults' \in Nat
      /\ aria2 \in [Tasks -> Seq(AriaStatus)]
  BY DEF FillAdd, TypeOK, NodeTypeOK
<1>2. \A u \in Tasks : Len(aria2[u]) \in Nat /\ Len(aria2'[u]) \in Nat
  BY <1>1, AriaLen DEF TypeOK, NodeTypeOK
<1>3. /\ t \in InSession /\ cur[t] = snap[t] /\ snap[t] = QueuedRow
      /\ cur[t] \in Row /\ now \in Nat
  BY <1>1 DEF FillSession, TypeOK, TickTypeOK, NodeTypeOK
<1>4. todo' = todo \ {t} /\ \A u \in Tasks \ {t} : cur'[u] = cur[u]
  BY DEF FillAdd, Added, AddFailed, Assign, TypeOK, TickTypeOK
<1>5. /\ cur'[t].status \in {"downloading", "failed"}
      /\ cur'[t].status = "downloading" => cur'[t].gid = Len(aria2'[t])
                                           /\ Len(aria2'[t]) = Len(aria2[t]) + 1
      /\ faults' >= faults
      /\ \A u \in Tasks : Len(aria2'[u]) \in {Len(aria2[u]), Len(aria2[u]) + 1}
      /\ \A u \in Tasks \ {t} : Len(aria2'[u]) = Len(aria2[u])
  <2>1. CASE Added(t)
    <3>1. cur'[t] = [MarkStarted(cur[t]) EXCEPT !.gid = Len(aria2[t]) + 1]
      BY <1>1, <2>1 DEF Added, Assign, TypeOK, TickTypeOK
    <3>2. cur'[t].status = "downloading" /\ cur'[t].gid = Len(aria2[t]) + 1
      BY <1>3, <3>1 DEF MarkStarted, Row
    <3>3. \A u \in Tasks : Len(aria2'[u]) = Len(aria2[u]) + (IF u = t THEN 1 ELSE 0)
      BY <1>1, <2>1, AriaAppend DEF Added, AddUri
    <3> QED
      BY <1>1, <1>2, <2>1, <3>2, <3>3 DEF Added, AddUri
  <2>2. CASE AddFailed(t)
    <3>1. cur'[t] = MarkFailed(cur[t], "aria2")
      BY <1>1, <2>2 DEF AddFailed, Assign, TypeOK, TickTypeOK
    <3>2. cur'[t].status = "failed"
      BY <1>3, <3>1 DEF MarkFailed, Row
    <3>3. \A u \in Tasks : \/ Len(aria2'[u]) = Len(aria2[u])
                            \/ Len(aria2'[u]) = Len(aria2[u]) + (IF u = t THEN 1 ELSE 0)
      BY <1>1, <2>2, AriaAppend DEF AddFailed, AddUri
    <3> QED
      BY <1>1, <1>2, <2>2, <3>2, <3>3 DEF AddFailed, AddUri, Fault
  <2> QED
    BY <2>1, <2>2 DEF FillAdd
<1>6. \A u \in Tasks : Gids(u) \subseteq Gids(u)'
  BY <1>2, <1>5 DEF Gids
<1>7. RowsConsistent' /\ SlotBound' /\ Downloading' = Downloading
  BY <1>1, <1>6, RowsKept
<1>8. InSession' = InSession
  BY <1>1 DEF InSession
<1>9. cur'[t].status = "downloading" => cur'[t].gid \in Gids(t)'
  BY <1>2, <1>5 DEF Gids
<1>10. FillSession'
  <2>1. Cardinality(Downloading' \cup InSession') <= ConcurrentLimit
    BY <1>1, <1>7, <1>8 DEF FillSession
  <2>2. ASSUME NEW u \in Tasks
        PROVE  /\ u \notin InSession' => cur'[u] = snap'[u]
               /\ u \in todo' => u \in InSession' /\ cur'[u] = snap'[u]
               /\ u \in InSession' =>
                    /\ snap'[u] = QueuedRow
                    /\ db'[u].status \in {"queued", "failed"}
                    /\ cur'[u].status \in {"queued", "downloading", "failed"}
                    /\ cur'[u].status = "downloading" => cur'[u].gid \in Gids(u)'
                    /\ u \notin todo' => cur'[u].status # "queued"
    <3>1. CASE u = t
      BY <1>1, <1>3, <1>4, <1>5, <1>8, <1>9, <3>1 DEF FillSession
    <3>2. CASE u # t
      BY <1>1, <1>4, <1>6, <1>8, <3>2 DEF FillSession
    <3> QED
      BY <3>1, <3>2
  <2> QED
    BY <2>1, <2>2 DEF FillSession
<1>11. SyncSession' /\ SlotsCounted'
  BY <1>1 DEF SyncSession, SlotsCounted
<1>12. Requests'
  BY <1>1, <1>8, RequestsKept
<1>13. AddsCounted'
  BY <1>1, <1>2, <1>3, <1>4, <1>5, <1>8 DEF AddsCounted
<1> QED
  BY <1>7, <1>10, <1>11, <1>12, <1>13

\* What the fill commit leaves in a row it loaded.
LEMMA FillCommitRows ==
  ASSUME SessionsInv, FillCommit, NEW t \in Tasks
  PROVE  /\ t \notin InSession => db'[t] = db[t]
         /\ t \in InSession =>
              /\ db[t].status \in {"queued", "failed"}
              /\ db'[t].status \in {"downloading", "failed"}
              /\ db'[t].status = "downloading" => db'[t].gid \in Gids(t)
<1> USE DEF SessionsInv
<1>1. /\ pc = "fill" /\ todo = {}
      /\ db' = [u \in Tasks |-> FlushRow(db[u], snap[u], cur[u])]
  BY DEF FillCommit, Flush
<1>2. db[t] \in Row /\ snap[t] \in Row /\ cur[t] \in Row
  BY DEF TypeOK, NodeTypeOK, TickTypeOK
<1>3. CASE t \notin InSession
  <2>1. cur[t] = snap[t]
    BY <1>1, <1>3 DEF FillSession
  <2> QED
    BY <1>1, <1>2, <1>3, <2>1 DEF FlushRow, Column, Row
<1>4. CASE t \in InSession
  <2>1. /\ snap[t] = QueuedRow
        /\ db[t].status \in {"queued", "failed"}
        /\ cur[t].status \in {"downloading", "failed"}
        /\ cur[t].status = "downloading" => cur[t].gid \in Gids(t)
    BY <1>1, <1>4 DEF FillSession
  <2>2. snap[t].status = "queued" /\ snap[t].gid = NoGid
    BY <2>1 DEF QueuedRow, NoRow
  <2>3. /\ db'[t].status = IF cur[t].status = snap[t].status THEN db[t].status ELSE cur[t].status
        /\ db'[t].gid = IF cur[t].gid = snap[t].gid THEN db[t].gid ELSE cur[t].gid
    BY <1>1, <1>2 DEF FlushRow, Column
  <2>4. NoGid \notin Gids(t)
    BY DEF Gids, NoGid
  <2> QED
    BY <1>4, <2>1, <2>2, <2>3, <2>4
<1> QED
  BY <1>3, <1>4

LEMMA FillCommitInv ==
  ASSUME SessionsInv, FillCommit, UNCHANGED req, TypeOK'
  PROVE  SessionsInv'
<1> USE DEF SessionsInv
<1>1. pc = "fill" /\ todo = {} /\ pc' = "idle" /\ UNCHANGED <<aria2, faults>>
  BY DEF FillCommit
<1>2. \A u \in Tasks : Gids(u)' = Gids(u)
  BY <1>1 DEF Gids
<1>3. RowsConsistent'
  BY <1>2, FillCommitRows DEF RowsConsistent
<1>4. SlotBound'
  <2>1. /\ Downloading' \subseteq Downloading \cup InSession
        /\ Downloading \cup InSession \subseteq Tasks
    BY FillCommitRows DEF Downloading, InStatus, InSession
  <2>2. /\ Cardinality(Downloading') \in Nat
        /\ Cardinality(Downloading \cup InSession) \in Nat
        /\ Cardinality(Downloading') <= Cardinality(Downloading \cup InSession)
    BY <2>1, CardinalityOfSubset
  <2> QED
    BY <1>1, <2>2, LimitAssumption DEF FillSession, SlotBound
<1>5. SyncSession' /\ FillSession' /\ SlotsCounted'
  BY <1>1 DEF SyncSession, FillSession, SlotsCounted
<1>6. Requests'
  <2>1. ASSUME NEW t \in Tasks
        PROVE  /\ db[t].status # "none" => db'[t].status # "none"
               /\ db[t].status \notin {"none", "queued"} => db'[t].status # "queued"
               /\ db[t].status \in {"completed", "failed", "expired"} /\ t \notin InSession
                    => db'[t].status \in {"completed", "failed", "expired"}
    BY FillCommitRows
  <2> QED
    BY <1>1, <2>1, RequestsKept
<1>7. AddsCounted'
  BY <1>1, FillCommitRows DEF AddsCounted
<1> QED
  BY <1>3, <1>4, <1>5, <1>6, <1>7

-----------------------------------------------------------------------------
(* DELETE *)

\* A step of a request that does not commit leaves the tick's sessions alone.
LEMMA RequestStepInv ==
  ASSUME SessionsInv, UNCHANGED <<db, tickVars>>, Requests', TypeOK',
         \A u \in Tasks : Len(aria2'[u]) = Len(aria2[u]), faults' >= faults
  PROVE  SessionsInv'
<1> USE DEF SessionsInv, tickVars
<1>1. \A u \in Tasks : Gids(u)' = Gids(u)
  BY GidsSame
<1>2. RowsConsistent' /\ SlotBound' /\ Downloading' = Downloading
  BY <1>1, RowsKept
<1>3. InSession' = InSession
  BY DEF InSession
<1>4. SyncSession'
  BY <1>1, <1>3 DEF SyncSession
<1>5. FillSession'
  BY <1>1, <1>2, <1>3 DEF FillSession
<1>6. SlotsCounted'
  BY <1>2 DEF SlotsCounted
<1>7. AddsCounted'
  <2>1. \A u \in Tasks : Len(aria2[u]) \in Nat
    BY AriaLen DEF TypeOK, NodeTypeOK
  <2>2. faults \in Nat /\ faults' \in Nat
    BY DEF TypeOK, NodeTypeOK
  <2> QED
    BY <1>3, <2>1, <2>2 DEF AddsCounted
<1> QED
  BY <1>2, <1>4, <1>5, <1>6, <1>7

\* What a request will commit follows from the row it loaded.
LEMMA AssignRowRequests ==
  ASSUME SessionsInv, NEW h \in Handlers, req[h].pc # "idle", AssignRow(h),
         UNCHANGED <<db, tickVars>>
  PROVE  Requests'
<1> DEFINE row == req[h].row
           new == Deleted(row)
<1>1. /\ req'[h].pc = "commit" /\ req'[h].task = req[h].task
      /\ req'[h].row = row /\ req'[h].new = new
      /\ \A k \in Handlers \ {h} : req'[k] = req[k]
  BY DEF AssignRow, SessionsInv, TypeOK, ApiTypeOK
<1>2. row \in Row /\ now \in Nat
  BY DEF SessionsInv, TypeOK, ApiTypeOK, NodeTypeOK
<1>3. /\ new.gid = row.gid
      /\ new.completedAt # NoTime \/ new.completedAt = row.completedAt
      /\ IF row.status = "completed"
         THEN new.status = "expired"
         ELSE new.status = "failed" /\ new.path = row.path
  BY <1>2 DEF Deleted, Purged, MarkFailed, Stamp, Row, NoTime
<1>4. InSession' = InSession /\ pc' = pc
  BY DEF InSession, tickVars
<1>5. Request(h) /\ \A k \in Handlers : req[k].pc # "idle" => Request(k)
  BY DEF SessionsInv, Requests
<1>6. Request(h)'
  BY <1>1, <1>3, <1>4, <1>5 DEF Request
<1>7. ASSUME NEW k \in Handlers, k # h, req'[k].pc # "idle"
      PROVE  Request(k)'
  BY <1>1, <1>4, <1>5, <1>7 DEF Request
<1> QED
  BY <1>6, <1>7 DEF Requests

LEMMA DeleteLoadInv ==
  ASSUME SessionsInv, NEW h \in Handlers, NEW t \in Tasks, DeleteLoad(h, t),
         UNCHANGED tickVars, TypeOK'
  PROVE  SessionsInv'
<1> USE DEF SessionsInv
<1>1. /\ db[t].status \in {"queued", "downloading", "completed"}
      /\ UNCHANGED <<db, aria2, faults, pc, snap>>
      /\ req'[h].pc = "loaded" /\ req'[h].task = t /\ req'[h].row = db[t]
      /\ \A k \in Handlers \ {h} : req'[k] = req[k]
  BY DEF DeleteLoad, nodeVars, tickVars, TypeOK, ApiTypeOK
<1>2. InSession' = InSession
  BY <1>1 DEF InSession
<1>3. db[t].status = "completed" /\ pc \in {"sync", "fill"} => t \notin InSession
  BY DEF SyncSession, FillSession
<1>4. Request(h)'
  BY <1>1, <1>2, <1>3 DEF Request
<1>5. \A k \in Handlers \ {h} : req'[k].pc # "idle" => Request(k)'
  BY <1>1, <1>2 DEF Requests, Request
<1>6. Requests'
  BY <1>4, <1>5 DEF Requests
<1>7. faults' >= faults
  BY <1>1 DEF TypeOK, NodeTypeOK
<1> QED
  BY <1>1, <1>6, <1>7, RequestStepInv

LEMMA DeleteStepInv ==
  ASSUME SessionsInv, NEW h \in Handlers,
         DeleteQueued(h) \/ DeleteForce(h) \/ DeleteResult(h) \/ DeletePurge(h),
         UNCHANGED tickVars, TypeOK'
  PROVE  SessionsInv'
<1> USE DEF SessionsInv
<1>1. req[h].pc \in {"loaded", "result"} /\ UNCHANGED db
  BY DEF DeleteQueued, DeleteForce, DeleteResult, DeletePurge, nodeVars
<1>2. /\ \A u \in Tasks : Len(aria2'[u]) = Len(aria2[u])
      /\ faults' >= faults
  BY DeleteCalls, RemoveDirType DEF DeleteQueued, DeletePurge, nodeVars, TypeOK, NodeTypeOK
<1>3. Requests'
  <2>1. CASE AssignRow(h)
    BY <1>1, <2>1, AssignRowRequests
  <2>2. CASE req' = [req EXCEPT ![h].pc = "result"] /\ req[h].row.status = "downloading"
    <3>1. /\ req'[h].pc = "result" /\ req'[h].task = req[h].task /\ req'[h].row = req[h].row
          /\ \A k \in Handlers \ {h} : req'[k] = req[k]
      BY <2>2 DEF TypeOK, ApiTypeOK
    <3>2. InSession' = InSession /\ pc' = pc
      BY DEF InSession, tickVars
    <3>3. Request(h)'
      BY <1>1, <2>2, <3>1, <3>2 DEF Requests, Request
    <3>4. \A k \in Handlers \ {h} : req'[k].pc # "idle" => Request(k)'
      BY <1>1, <3>1, <3>2 DEF Requests, Request
    <3> QED
      BY <3>3, <3>4 DEF Requests
  <2> QED
    BY <2>1, <2>2 DEF DeleteQueued, DeleteForce, DeleteResult, DeletePurge
<1> QED
  BY <1>1, <1>2, <1>3, RequestStepInv

\* What the commit of a DELETE leaves in its row.
LEMMA DeleteCommitRow ==
  ASSUME SessionsInv, NEW h \in Handlers, DeleteCommit(h)
  PROVE  LET t == req[h].task  row == req[h].row
         IN  /\ Request(h)
             /\ \A u \in Tasks \ {t} : db'[u] = db[u]
             /\ db'[t].status = IF row.status = "completed" THEN "expired" ELSE "failed"
             /\ db'[t].gid = db[t].gid
             /\ row.status # "completed" => db'[t].path = db[t].path
             /\ db[t].completedAt # NoTime => db'[t].completedAt # NoTime
<1> DEFINE t == req[h].task
           row == req[h].row
           new == req[h].new
<1>1. req[h].pc = "commit" /\ Request(h)
  BY DEF DeleteCommit, SessionsInv, Requests
<1>2. t \in Tasks /\ db \in [Tasks -> Row]
  BY <1>1 DEF Request, SessionsInv, TypeOK, NodeTypeOK
<1>3. /\ db'[t] = FlushRow(db[t], row, new)
      /\ \A u \in Tasks \ {t} : db'[u] = db[u]
  BY <1>2 DEF DeleteCommit
<1>4. /\ db'[t].status = IF new.status = row.status THEN db[t].status ELSE new.status
      /\ db'[t].gid = IF new.gid = row.gid THEN db[t].gid ELSE new.gid
      /\ db'[t].path = IF new.path = row.path THEN db[t].path ELSE new.path
      /\ db'[t].completedAt = IF new.completedAt = row.completedAt
                              THEN db[t].completedAt ELSE new.completedAt
  BY <1>3 DEF FlushRow, Column
<1>5. /\ row.status \in {"queued", "downloading", "completed"}
      /\ new.gid = row.gid
      /\ new.completedAt # NoTime \/ new.completedAt = row.completedAt
      /\ IF row.status = "completed"
         THEN new.status = "expired"
         ELSE new.status = "failed" /\ new.path = row.path
  BY <1>1 DEF Request
<1> QED
  BY <1>1, <1>3, <1>4, <1>5

LEMMA DeleteCommitInv ==
  ASSUME SessionsInv, NEW h \in Handlers, DeleteCommit(h), UNCHANGED tickVars, TypeOK'
  PROVE  SessionsInv'
<1> USE DEF SessionsInv
<1> DEFINE t == req[h].task
           row == req[h].row
<1>1. /\ Request(h) /\ t \in Tasks
      /\ \A u \in Tasks \ {t} : db'[u] = db[u]
      /\ db'[t].status = IF row.status = "completed" THEN "expired" ELSE "failed"
      /\ db'[t].gid = db[t].gid
      /\ row.status # "completed" => db'[t].path = db[t].path
      /\ db[t].completedAt # NoTime => db'[t].completedAt # NoTime
      /\ row.status = "completed" => /\ db[t].status \in {"completed", "failed", "expired"}
                                     /\ pc \in {"sync", "fill"} => t \notin InSession
      /\ db[t].status # "none"
  BY DeleteCommitRow DEF Request
<1>2. /\ UNCHANGED <<aria2, faults, pc, snap, cur, todo, slots>>
      /\ req'[h].pc = "idle" /\ \A k \in Handlers \ {h} : req'[k] = req[k]
  BY DEF DeleteCommit, tickVars, TypeOK, ApiTypeOK, NoRequest
<1>3. \A u \in Tasks : Gids(u)' = Gids(u)
  BY <1>2 DEF Gids
<1>4. InSession' = InSession
  BY <1>2 DEF InSession
<1>5. RowsConsistent'
  <2>1. ASSUME NEW u \in Tasks, u # t
        PROVE  db'[u] = db[u]
    BY <1>1, <2>1
  <2>2. db'[t].status \in {"expired", "failed"}
    BY <1>1
  <2> QED
    BY <1>3, <2>1, <2>2 DEF RowsConsistent
<1>6. Downloading' \subseteq Downloading /\ Downloading \subseteq Tasks
  BY <1>1 DEF Downloading, InStatus
<1>7. /\ Cardinality(Downloading') \in Nat /\ Cardinality(Downloading) \in Nat
      /\ Cardinality(Downloading') <= Cardinality(Downloading)
  BY <1>6, CardinalityOfSubset
<1>8. SlotBound' /\ SlotsCounted'
  BY <1>2, <1>7, LimitAssumption DEF SlotBound, SlotsCounted, TypeOK, TickTypeOK
<1>9. SyncSession'
  BY <1>1, <1>2, <1>3, <1>4 DEF SyncSession
<1>10. FillSession'
  <2>1. Downloading' \cup InSession' \subseteq Downloading \cup InSession
    BY <1>4, <1>6
  <2>2. Downloading \cup InSession \subseteq Tasks
    BY <1>6 DEF InSession
  <2>3. /\ Cardinality(Downloading' \cup InSession') \in Nat
        /\ Cardinality(Downloading \cup InSession) \in Nat
        /\ Cardinality(Downloading' \cup InSession') <= Cardinality(Downloading \cup InSession)
    BY <2>1, <2>2, CardinalityOfSubset
  <2> QED
    BY <1>1, <1>2, <1>3, <1>4, <2>3, LimitAssumption DEF FillSession
<1>11. Requests'
  <2>1. \A u \in Tasks :
          /\ db[u].status # "none" => db'[u].status # "none"
          /\ db[u].status \notin {"none", "queued"} => db'[u].status # "queued"
          /\ db[u].status \in {"completed", "failed", "expired"}
               => db'[u].status \in {"completed", "failed", "expired"}
    BY <1>1
  <2> QED
    BY <1>2, <1>4, <2>1 DEF Requests, Request
<1>12. AddsCounted'
  BY <1>1, <1>2, <1>4 DEF AddsCounted
<1> QED
  BY <1>5, <1>8, <1>9, <1>10, <1>11, <1>12

LEMMA DeleteAbortsInv ==
  ASSUME SessionsInv, NEW h \in Handlers, DeleteAborts(h), UNCHANGED tickVars, TypeOK'
  PROVE  SessionsInv'
<1>1. /\ UNCHANGED <<db, aria2>>
      /\ req'[h].pc = "idle" /\ \A k \in Handlers \ {h} : req'[k] = req[k]
  BY DEF DeleteAborts, SessionsInv, TypeOK, ApiTypeOK, NoRequest
<1>2. faults' >= faults
  BY DEF DeleteAborts, Fault, SessionsInv, TypeOK, NodeTypeOK
<1>3. InSession' = InSession /\ pc' = pc
  BY DEF InSession, tickVars
<1>4. Requests'
  BY <1>1, <1>3 DEF SessionsInv, Requests, Request
<1> QED
  BY <1>1, <1>2, <1>4, RequestStepInv

-----------------------------------------------------------------------------
(* The theorems *)

LEMMA SessionsInit == Init => SessionsInv
<1> SUFFICES ASSUME Init
             PROVE  SessionsInv
  OBVIOUS
<1>1. TypeOK
  BY TypeInit
<1>2. /\ \A t \in Tasks : db[t] = NoRow /\ aria2[t] = <<>>
      /\ pc = "idle" /\ faults = 0
      /\ \A h \in Handlers : req[h].pc = "idle"
  BY DEF Init, NodeInit, TickInit, ApiInit, NoRequest
<1>3. RowsConsistent
  <2>1. NoRow.status = "none" /\ NoRow = [NoRow EXCEPT !.status = NoRow.status]
    BY DEF NoRow
  <2> QED
    BY <1>2, <2>1 DEF RowsConsistent
<1>4. SlotBound
  <2>1. Downloading = {}
    BY <1>2 DEF Downloading, InStatus, NoRow
  <2> QED
    BY <2>1, FS_EmptySet, LimitAssumption DEF SlotBound
<1>5. SyncSession /\ FillSession /\ SlotsCounted /\ Requests
  BY <1>2 DEF SyncSession, FillSession, SlotsCounted, Requests
<1>6. AddsCounted
  BY <1>2 DEF AddsCounted
<1> QED
  BY <1>1, <1>3, <1>4, <1>5, <1>6 DEF SessionsInv

LEMMA SessionsStep == SessionsInv /\ [Next]_vars => SessionsInv'
<1> SUFFICES ASSUME SessionsInv, [Next]_vars
             PROVE  SessionsInv'
  OBVIOUS
<1>0. TypeOK'
  BY TypeStep DEF SessionsInv
<1>1. CASE TickNext /\ UNCHANGED req
  BY <1>0, <1>1, SyncLoadInv, SyncStatusInv, SyncCommitInv, FillCountInv, FillPickInv,
     FillAddInv, FillCommitInv, TickAbortsInv DEF TickNext, TickStep
<1>2. CASE AriaNext /\ UNCHANGED <<tickVars, req>>
  BY <1>0, <1>2, AriaInv
<1>3. ASSUME NEW t \in Tasks, Enqueue(t), UNCHANGED <<tickVars, req>>
      PROVE  SessionsInv'
  BY <1>0, <1>3, EnqueueInv
<1>4. ASSUME NEW h \in Handlers, DeleteNext(h), UNCHANGED tickVars
      PROVE  SessionsInv'
  BY <1>0, <1>4, DeleteLoadInv, DeleteStepInv, DeleteCommitInv, DeleteAbortsInv
     DEF DeleteNext, DeleteStep
<1>5. CASE NodeRestart
  BY <1>0, <1>5, RestartInv
<1>6. CASE UNCHANGED vars
  <2>1. UNCHANGED <<db, aria2, faults, pc, snap, cur, todo, slots, req>>
    BY <1>6 DEF vars, nodeVars, tickVars
  <2> QED
    BY <1>0, <2>1 DEF SessionsInv, RowsConsistent, SlotBound, Downloading, InStatus, Gids,
       SyncSession, FillSession, SlotsCounted, Requests, Request, AddsCounted, InSession
<1> QED
  BY <1>1, <1>2, <1>3, <1>4, <1>5, <1>6 DEF Next, LifecycleStep

\* What every open session and request will overwrite is what it may overwrite:
\* the inductive invariant behind the theorems below.
THEOREM SessionsInvariant == Spec => []SessionsInv
BY SessionsInit, SessionsStep, PTL DEF Spec

\* The strict limit of _fill_queued_tasks holds for any number of tasks, slots and
\* concurrent DELETE requests, and through any faults.
THEOREM SlotsNeverExceeded == Spec => []SlotBound
BY SessionsInvariant, PTL DEF SessionsInv

\* Column-wise commits over stale reads never leave a row whose columns disagree.
THEOREM RowsStayConsistent == Spec => []RowsConsistent
BY SessionsInvariant, PTL DEF SessionsInv

\* Only faults make the node hand a task to aria2 again, one time each at most.
THEOREM AddsStayBounded == Spec => []AddsBounded
<1>1. SessionsInv => AddsBounded
  BY DEF SessionsInv, AddsCounted, AddsBounded
<1> QED
  BY <1>1, SessionsInvariant, PTL

LEMMA ForwardStep == SessionsInv /\ [Next]_vars => [\A t \in Tasks : Forward(t)]_vars
<1> SUFFICES ASSUME SessionsInv, Next, NEW t \in Tasks
             PROVE  Forward(t)
  OBVIOUS
<1>1. CASE UNCHANGED db
  BY <1>1 DEF Forward
<1>2. CASE SyncCommit
  <2>1. \/ db'[t] = db[t]
        \/ /\ db[t].status \in {"downloading", "failed"}
           /\ db'[t].status \in {"downloading", "completed", "failed"}
    BY <1>2, SyncCommitRows DEF SyncCommit
  <2> QED
    BY <2>1 DEF Forward
<1>3. CASE FillCommit
  BY <1>3, FillCommitRows DEF Forward
<1>4. ASSUME NEW u \in Tasks, Enqueue(u)
      PROVE  Forward(t)
  <2>1. db[u].status = "none" /\ (t # u => db'[t] = db[t])
    BY <1>4 DEF Enqueue, SessionsInv, TypeOK, NodeTypeOK
  <2> QED
    BY <2>1 DEF Forward
<1>5. ASSUME NEW h \in Handlers, DeleteCommit(h)
      PROVE  Forward(t)
  BY <1>5, DeleteCommitRow DEF Forward, Request
<1> QED
  BY <1>1, <1>2, <1>3, <1>4, <1>5
     DEF Next, LifecycleStep, TickNext, TickStep, SyncLoad, SyncStatus, FillCount, FillPick,
         FillAdd, TickAborts, AriaNext, AriaStep, AriaStart, AriaComplete, AriaError, AriaRestart,
         DeleteNext, DeleteStep, DeleteLoad, DeleteQueued, DeleteForce, DeleteResult,
         DeletePurge, DeleteAborts, NodeRestart, nodeVars

\* No session, however old what it read, moves a task backwards.
THEOREM StatusNeverBackwards == Spec => NeverBackwards
BY SessionsInvariant, ForwardStep, PTL DEF Spec, NeverBackwards
=============================================================================

--------------------------- MODULE TaskQueueProofs ---------------------------
(***************************************************************************)
(* Without DELETE requests the node implements the documented life of a    *)
(* task (TaskQueue), for any tasks, slots and faults.  With them it does   *)
(* not: a commit of the tick may overwrite a cancellation, as the run      *)
(* cancel_overwritten shows.  But with them, too, aria2 works on no more   *)
(* downloads nobody knows of than there were faults.                       *)
(***************************************************************************)
EXTENDS TaskLifecycleProofs

\* Nobody else writes a row while a session is open.
Undisturbed ==
  /\ pc = "sync" => \A t \in InSession : db[t].status = "downloading"
  /\ pc = "fill" => \A t \in InSession : db[t].status = "queued"

\* The steps that write the table when no request runs.
LEMMA WritingSteps ==
  ASSUME Handlers = {}, [Next]_vars
  PROVE  \/ SyncCommit
         \/ FillCommit
         \/ \E t \in Tasks : Enqueue(t) /\ UNCHANGED tickVars
         \/ UNCHANGED db
BY DEF Next, LifecycleStep, TickNext, TickStep, SyncLoad, SyncStatus, FillCount, FillPick,
       FillAdd, TickAborts, AriaNext, AriaStep, AriaStart, AriaComplete, AriaError, AriaRestart,
       NodeRestart, nodeVars, tickVars, vars

LEMMA UndisturbedStep ==
  ASSUME Handlers = {}, SessionsInv, Undisturbed, [Next]_vars
  PROVE  Undisturbed'
<1>1. CASE SyncLoad
  <2> DEFINE S == {t \in InStatus({"downloading", "queued"}) : db[t].gid # NoGid}
  <2>1. /\ pc' = "sync" /\ db' = db
        /\ \A t \in Tasks : snap'[t] = IF t \in S THEN db[t] ELSE NoRow
    BY <1>1 DEF SyncLoad, Open, Load, nodeVars
  <2>2. \A t \in S : db[t].status = "downloading"
    BY DEF InStatus, SessionsInv, RowsConsistent, NoRow
  <2>3. InSession' \subseteq S
    BY <2>1 DEF InSession, NoRow
  <2> QED
    BY <2>1, <2>2, <2>3 DEF Undisturbed
<1>2. CASE FillPick
  <2>1. PICK S \in SUBSET InStatus({"queued"}) : Open(S)
    BY <1>2 DEF FillPick
  <2>2. /\ pc' = "fill" /\ db' = db
        /\ \A t \in Tasks : snap'[t] = IF t \in S THEN db[t] ELSE NoRow
    BY <1>2, <2>1 DEF FillPick, Open, Load, nodeVars
  <2>3. InSession' \subseteq S
    BY <2>2 DEF InSession, NoRow
  <2> QED
    BY <2>1, <2>2, <2>3 DEF Undisturbed, InStatus
<1>3. CASE pc' \notin {"sync", "fill"}
  BY <1>3 DEF Undisturbed
<1>4. ASSUME UNCHANGED <<pc, snap>>, UNCHANGED db \/ \E t \in Tasks : Enqueue(t)
      PROVE  Undisturbed'
  <2>1. InSession' = InSession
    BY <1>4 DEF InSession
  <2>2. \A t \in Tasks : db[t].status \in {"downloading", "queued"} => db'[t] = db[t]
    BY <1>4 DEF Enqueue, SessionsInv, TypeOK, NodeTypeOK
  <2> QED
    BY <1>4, <2>1, <2>2 DEF Undisturbed, InSession
<1>5. \/ SyncLoad \/ FillPick \/ pc' \notin {"sync", "fill"}
      \/ UNCHANGED <<pc, snap>> /\ (UNCHANGED db \/ \E t \in Tasks : Enqueue(t))
  BY DEF Next, LifecycleStep, TickNext, TickStep, SyncStatus, SyncCommit, FillCount, FillAdd,
         FillCommit, TickAborts, AriaNext, AriaStep, AriaStart, AriaComplete, AriaError,
         AriaRestart, NodeRestart, nodeVars, tickVars, vars
<1> QED
  BY <1>1, <1>2, <1>3, <1>4, <1>5

LEMMA CommitIsDocumented ==
  ASSUME NEW S \in SUBSET Tasks, NEW other \in SUBSET Tasks,
         Documented!Dispatch(S, other) \/ Documented!Finish(S, other)
  PROVE  Documented!Next
BY DEF Documented!Next

\* The instance has a Cardinality of its own.
LEMMA SameCardinality ==
  ASSUME NEW S
  PROVE  Documented!Cardinality(S) = Cardinality(S)
BY DEF Documented!Cardinality, Cardinality

\* Every step is a documented one, or none.
LEMMA DocumentedStep ==
  ASSUME Handlers = {}, SessionsInv, Undisturbed, [Next]_vars
  PROVE  [Documented!Next]_([t \in Tasks |-> db[t].status])
<1> DEFINE status == [t \in Tasks |-> db[t].status]
           statusNext == [t \in Tasks |-> db'[t].status]
<1>1. CASE SyncCommit
  <2>0. InSession \subseteq Tasks
    BY DEF InSession
  <2>. PICK done \in SUBSET Tasks, broken \in SUBSET Tasks :
         /\ done = {t \in InSession : db'[t].status = "completed"}
         /\ broken = {t \in InSession : db'[t].status = "failed"}
    BY <2>0
  <2>1. \A t \in Tasks :
          /\ t \notin InSession => db'[t] = db[t]
          /\ t \in InSession =>
               /\ db[t].status = "downloading"
               /\ db'[t].status \in {"downloading", "completed", "failed"}
    BY <1>1, SyncCommitRows DEF SyncCommit, Undisturbed
  <2>2. Documented!Finish(done, broken)
    BY <2>0, <2>1 DEF Documented!Finish, Documented!Is
  <2> QED
    BY <2>2, CommitIsDocumented
<1>2. CASE FillCommit
  <2>0. InSession \subseteq Tasks
    BY DEF InSession
  <2>. PICK started \in SUBSET Tasks, refused \in SUBSET Tasks :
         /\ started = {t \in InSession : db'[t].status = "downloading"}
         /\ refused = {t \in InSession : db'[t].status = "failed"}
    BY <2>0
  <2>1. \A t \in Tasks :
          /\ t \notin InSession => db'[t] = db[t]
          /\ t \in InSession =>
               /\ db[t].status = "queued"
               /\ db'[t].status \in {"downloading", "failed"}
    BY <1>2, FillCommitRows DEF FillCommit, Undisturbed
  <2>3. Documented!Cardinality(Documented!Is("downloading") \cup started) <= ConcurrentLimit
    <3>1. Documented!Is("downloading") = Downloading
      BY DEF Documented!Is, Downloading, InStatus
    <3>2. Cardinality(Downloading \cup InSession) <= ConcurrentLimit
      BY <1>2 DEF FillCommit, SessionsInv, FillSession
    <3>3. /\ Downloading \cup started \subseteq Downloading \cup InSession
          /\ Downloading \cup InSession \subseteq Tasks
      BY <2>0 DEF Downloading, InStatus
    <3> QED
      BY <3>1, <3>2, <3>3, CardinalityOfSubset, SameCardinality, LimitAssumption
  <2>4. Documented!Dispatch(started, refused)
    <3>1. started \cup refused \subseteq Documented!Is("queued") /\ started \cap refused = {}
      BY <2>0, <2>1 DEF Documented!Is
    <3>2. \A t \in Tasks : statusNext[t] = CASE t \in started -> "downloading"
                                            [] t \in refused -> "failed"
                                            [] OTHER -> status[t]
      BY <2>0, <2>1
    <3>3. statusNext = [t \in Tasks |-> CASE t \in started -> "downloading"
                                         [] t \in refused -> "failed"
                                         [] OTHER -> status[t]]
      BY <3>2
    <3> QED
      BY <2>3, <3>1, <3>3, Zenon DEF Documented!Dispatch
  <2> QED
    BY <2>4, CommitIsDocumented
<1>3. ASSUME NEW t \in Tasks, Enqueue(t)
      PROVE  Documented!Next
  <2>1. Documented!Submit(t)
    BY <1>3 DEF Enqueue, QueuedRow, NoRow, Documented!Submit, Documented!Move,
       SessionsInv, TypeOK, NodeTypeOK
  <2> QED
    BY <2>1 DEF Documented!Next
<1>4. CASE UNCHANGED db
  BY <1>4
<1> QED
  BY <1>1, <1>2, <1>3, <1>4, WritingSteps

\* The node without DELETE requests implements the documented life of a task:
\* whatever faults occur, the status column only shows queued -> downloading ->
\* completed / failed, within the slots.
THEOREM NodeImplementsTaskQueue ==
  ASSUME Handlers = {}
  PROVE  Spec => ImplementsTaskQueue
<1>1. Init => Documented!Init /\ Undisturbed
  BY DEF Init, NodeInit, TickInit, NoRow, Documented!Init, Undisturbed
<1>2. SessionsInv /\ Undisturbed /\ [Next]_vars
        => Undisturbed' /\ [Documented!Next]_([t \in Tasks |-> db[t].status])
  BY UndisturbedStep, DocumentedStep
<1> QED
  BY <1>1, <1>2, SessionsInvariant, PTL DEF Spec, ImplementsTaskQueue, Documented!Spec

-----------------------------------------------------------------------------
(* A download that nobody knows of costs a fault, DELETE requests, restarts *)
(* of the node and of aria2 included.  A row that ended has, unless it was  *)
(* cancelled, one gid aria2 no longer works on, or so few gids that faults  *)
(* account for them all.                                                    *)

Ended(row) == row.status \in {"completed", "failed", "expired"}

\* Who wrote the errors, and what sessions and requests do to them.
RowErrors == \A t \in Tasks : db[t].error = "aria2" => Ended(db[t])

SessionErrors ==
  pc \in {"sync", "fill"} =>
    \A t \in InSession :
      /\ cur[t].error = snap[t].error \/ (cur[t].error = "aria2" /\ cur[t].status = "failed")
      /\ pc = "fill" /\ db[t].status # "queued" => db[t].error = "cancelled"

RequestErrors ==
  \A h \in Handlers : req[h].pc # "idle" =>
    /\ req[h].row.status = "queued" => req[h].row.error = "null"
    /\ req[h].row.error # "null" => db[req[h].task].error # "null"
    /\ req[h].pc = "commit" =>
         req[h].new.error = IF req[h].row.status = "completed"
                            THEN req[h].row.error
                            ELSE "cancelled"

\* The row, or what a session has made of it, says that the task has ended.
SaidEnded(t) ==
  \/ Ended(db[t]) /\ db[t].error # "cancelled"
  \/ pc \in {"sync", "fill"} /\ t \in InSession \ todo /\ Ended(cur[t])

\* aria2 works on fewer gids than it gave out, or there were faults for all of them.
Slack(t) ==
  Len(aria2[t]) <= faults \/ \E g \in Gids(t) : aria2[t][g] \notin Live

OrphansInv ==
  /\ RowErrors /\ SessionErrors /\ RequestErrors
  /\ \A t \in Tasks : SaidEnded(t) => Slack(t)

LEMMA FewWorking ==
  ASSUME NEW n \in Nat, NEW f \in Nat, n <= 1 + f, NEW S \in SUBSET (1..n),
         n <= f \/ S # 1..n
  PROVE  Cardinality(S) <= f
<1>1. IsFiniteSet(1..n) /\ Cardinality(1..n) = n
  <2>1. 1 \in Int /\ n \in Int
    OBVIOUS
  <2> QED
    BY <2>1, FS_Interval
<1>2. IsFiniteSet(S) /\ Cardinality(S) \in Nat /\ Cardinality(S) <= Cardinality(1..n)
  BY <1>1, FS_Subset, FS_CardinalityType
<1>3. S # 1..n => Cardinality(S) # n
  BY <1>1, FS_Subset
<1>4. PICK c \in Nat : c = Cardinality(S)
  BY <1>2
<1>5. c <= n /\ (S # 1..n => c # n)
  BY <1>1, <1>2, <1>3, <1>4
<1>6. c <= f
  BY <1>5
<1> QED
  BY <1>4, <1>6

LEMMA OrphansFollow ==
  ASSUME SessionsInv, OrphansInv
  PROVE  OrphansCounted
<1> SUFFICES ASSUME NEW t \in Tasks, db[t].error # "cancelled"
             PROVE  Cardinality({g \in Working(t) : ~Accounted(t, g)}) <= faults
  BY DEF OrphansCounted
<1>1. PICK n \in Nat : n = Len(aria2[t]) /\ Gids(t) = 1..n
  BY AriaLen DEF Gids, SessionsInv, TypeOK, NodeTypeOK
<1>2. PICK f \in Nat : f = faults
  BY FaultAssumption DEF SessionsInv, TypeOK, NodeTypeOK
<1>3. n <= 1 + f
  <2>1. Len(aria2[t]) <= 1 + faults
    BY DEF SessionsInv, AddsCounted
  <2> QED
    BY <1>1, <1>2, <2>1
<1>4. PICK S \in SUBSET (1..n) : S = {g \in Working(t) : ~Accounted(t, g)}
  BY <1>1 DEF Working
<1>5. n <= f \/ S # 1..n
  <2>1. ASSUME Slack(t)
        PROVE  n <= f \/ S # 1..n
    <3>1. CASE Len(aria2[t]) <= faults
      BY <1>1, <1>2, <3>1
    <3>2. CASE \E g \in Gids(t) : aria2[t][g] \notin Live
      BY <1>1, <1>4, <3>2 DEF Working
    <3> QED
      BY <2>1, <3>1, <3>2 DEF Slack
  <2>2. CASE Ended(db[t])
    BY <2>1, <2>2 DEF OrphansInv, SaidEnded
  <2>3. CASE db[t].status = "downloading"
    <3>1. db[t].gid \in 1..n /\ Accounted(t, db[t].gid)
      BY <1>1, <2>3 DEF SessionsInv, RowsConsistent, Accounted
    <3> QED
      BY <1>4, <3>1
  <2>4. CASE db[t].status \in {"none", "queued"} /\ ~(pc = "fill" /\ t \in InSession)
    <3>1. Len(aria2[t]) <= faults
      BY <2>4 DEF SessionsInv, AddsCounted
    <3> QED
      BY <1>1, <1>2, <3>1
  <2>5. CASE pc = "fill" /\ t \in InSession
    <3>1. CASE t \in todo
      <4>1. Len(aria2[t]) <= faults
        BY <2>5, <3>1 DEF SessionsInv, AddsCounted
      <4> QED
        BY <1>1, <1>2, <4>1
    <3>2. CASE t \notin todo /\ cur[t].status = "downloading"
      <4>1. cur[t].gid \in 1..n /\ Accounted(t, cur[t].gid)
        BY <1>1, <2>5, <3>2 DEF SessionsInv, FillSession, Accounted
      <4> QED
        BY <1>4, <4>1
    <3>3. CASE t \notin todo /\ cur[t].status = "failed"
      BY <2>1, <2>5, <3>3 DEF OrphansInv, SaidEnded, Ended
    <3>4. t \notin todo => cur[t].status \in {"downloading", "failed"}
      BY <2>5 DEF SessionsInv, FillSession
    <3> QED
      BY <3>1, <3>2, <3>3, <3>4
  <2>6. db[t].status \in Status
    BY DEF SessionsInv, TypeOK, NodeTypeOK, Row
  <2> QED
    BY <2>2, <2>3, <2>4, <2>5, <2>6 DEF Status, Ended
<1>6. Cardinality(S) <= f
  BY <1>3, <1>5, FewWorking
<1> QED
  BY <1>2, <1>4, <1>6

\* A record of aria2 changes, but none that is over comes back.
Quieter ==
  \E u \in Tasks : \E i \in Gids(u), st \in AriaStatus :
    /\ aria2[u][i] \in Live \/ st \notin Live
    /\ aria2' = [aria2 EXCEPT ![u][i] = st]

\* After a fault there were faults for every gid.
LEMMA FaultGivesSlack ==
  ASSUME SessionsInv, [Next]_vars, faults' # faults, NEW t \in Tasks
  PROVE  Len(aria2'[t]) <= faults'
<1>0. NodeTypeOK /\ aria2 \in [Tasks -> Seq(AriaStatus)]
  BY DEF SessionsInv, TypeOK, NodeTypeOK
<1>1. faults' = faults + 1
  BY DEF Next, LifecycleStep, TickNext, TickStep, SyncLoad, SyncStatus, SyncAnswer, SyncNoAnswer,
     SyncCommit, FillCount, FillPick, FillAdd, Added, AddFailed, FillCommit, TickAborts, TableFails,
     MkdirFails, AriaNext, AriaStep, AriaStart, AriaComplete, AriaError, AriaRestart, Enqueue,
     DeleteNext, DeleteStep, DeleteLoad, DeleteQueued, DeleteForce, DeleteResult, DeletePurge,
     DeleteCommit, DeleteAborts, ForceRemove, RemoveResult, RemoveDir, NodeRestart, nodeVars, vars,
     Fault
<1>2. PICK n \in Nat : n = Len(aria2[t])
  BY <1>0, AriaLen
<1>3. PICK f \in Nat : f = faults
  BY <1>0, FaultAssumption DEF NodeTypeOK
<1>4. n <= 1 + f
  <2>1. Len(aria2[t]) <= 1 + faults
    BY DEF SessionsInv, AddsCounted
  <2> QED
    BY <1>2, <1>3, <2>1
<1>5. CASE Len(aria2'[t]) = Len(aria2[t])
  BY <1>1, <1>2, <1>3, <1>4, <1>5
<1>6. ASSUME NEW u \in Tasks, FillAdd(u), AddUri(u)
      PROVE  Len(aria2'[t]) <= faults'
  <2>1. \A v \in Tasks : Len(aria2'[v]) = Len(aria2[v]) + (IF v = u THEN 1 ELSE 0)
    BY <1>0, <1>6, AriaAppend DEF AddUri
  <2>2. CASE t = u
    <3>1. Len(aria2[t]) <= faults
      BY <1>6, <2>2 DEF FillAdd, SessionsInv, AddsCounted
    <3>2. Len(aria2'[t]) = n + 1
      BY <1>2, <2>1, <2>2
    <3>3. n <= f
      BY <1>2, <1>3, <3>1
    <3> QED
      BY <1>1, <1>3, <3>2, <3>3
  <2>3. CASE t # u
    <3>1. aria2'[t] = aria2[t]
      BY <1>0, <1>6, <2>3 DEF AddUri
    <3> QED
      BY <1>5, <3>1
  <2> QED
    BY <2>2, <2>3
<1>7. \/ UNCHANGED aria2
      \/ AriaNext
      \/ \E u \in Tasks : FillAdd(u) /\ AddUri(u)
      \/ \E h \in Handlers : DeleteForce(h) \/ DeleteResult(h)
  BY DEF Next, LifecycleStep, TickNext, TickStep, SyncLoad, SyncStatus, SyncCommit, FillCount,
     FillPick, FillAdd, Added, AddFailed, FillCommit, TickAborts, Enqueue, DeleteNext, DeleteStep,
     DeleteLoad, DeleteQueued, DeletePurge, DeleteCommit, DeleteAborts, NodeRestart, nodeVars, vars
<1>8. AriaNext => Len(aria2'[t]) = Len(aria2[t])
  BY <1>0, AriaNextPreserves
<1>9. \A h \in Handlers : DeleteForce(h) \/ DeleteResult(h) => Len(aria2'[t]) = Len(aria2[t])
  BY <1>0, DeleteCalls
<1> QED
  BY <1>5, <1>6, <1>7, <1>8, <1>9

\* A step without a fault that does not hand the task to aria2 takes no slack away.
LEMMA QuietAria ==
  ASSUME SessionsInv, [Next]_vars, faults' = faults
  PROVE  \/ UNCHANGED aria2
         \/ Quieter
         \/ \E u \in Tasks : FillAdd(u) /\ AddUri(u)
<1>0. faults \in Nat /\ faults' # faults + 1
  <2>1. faults \in Nat
    BY FaultAssumption DEF SessionsInv, TypeOK, NodeTypeOK
  <2> QED
    BY <2>1
<1>1. \A k : ~Fault(k)
  BY <1>0 DEF Fault
<1>2. ASSUME NEW u \in Tasks, NEW i \in Gids(u), AriaStep(u, i)
      PROVE  Quieter
  <2>1. PICK st \in AriaStatus : aria2[u][i] \in Live /\ aria2' = [aria2 EXCEPT ![u][i] = st]
    BY <1>2 DEF AriaStep, AriaStart, AriaComplete, AriaError, Live, AriaStatus
  <2> QED
    BY <2>1 DEF Quieter
<1>3. ASSUME NEW h \in Handlers, DeleteForce(h) \/ DeleteResult(h)
      PROVE  UNCHANGED aria2 \/ Quieter
  <2> DEFINE u == req[h].task
             i == req[h].row.gid
  <2>1. u \in Tasks
    BY <1>3 DEF DeleteForce, DeleteResult, SessionsInv, Requests, Request
  <2>2. \/ UNCHANGED aria2
        \/ ForceRemove(u, i) /\ TellStatus(u, i) \in Live /\ aria2' = [aria2 EXCEPT ![u][i] = "removed"]
        \/ RemoveResult(u, i) /\ TellStatus(u, i) \notin Live \cup {"gone"}
           /\ aria2' = [aria2 EXCEPT ![u][i] = "gone"]
    BY <1>1, <1>3 DEF DeleteForce, DeleteResult, ForceRemove, RemoveResult
  <2>3. TellStatus(u, i) # "gone" => i \in Gids(u)
    BY DEF TellStatus
  <2>4. "gone" \notin Live /\ "removed" \notin Live /\ {"gone", "removed"} \subseteq AriaStatus
    BY DEF Live, AriaStatus
  <2> QED
    BY <2>1, <2>2, <2>3, <2>4 DEF Quieter
<1>4. \/ UNCHANGED aria2
      \/ \E u \in Tasks : \E i \in Gids(u) : AriaStep(u, i)
      \/ \E u \in Tasks : FillAdd(u) /\ AddUri(u)
      \/ \E h \in Handlers : DeleteForce(h) \/ DeleteResult(h)
  BY <1>1 DEF Next, LifecycleStep, TickNext, TickStep, SyncLoad, SyncStatus, SyncCommit, FillCount,
     FillPick, FillAdd, Added, AddFailed, FillCommit, TickAborts, AriaNext, AriaRestart, Enqueue,
     DeleteNext, DeleteStep, DeleteLoad, DeleteQueued, DeletePurge, DeleteCommit, DeleteAborts,
     NodeRestart, nodeVars, vars
<1> QED
  BY <1>2, <1>3, <1>4

LEMMA SlackStays ==
  ASSUME SessionsInv, [Next]_vars, NEW t \in Tasks, Slack(t),
         ~(FillAdd(t) /\ Len(aria2[t]) <= faults)
  PROVE  Slack(t)'
<1>0. /\ aria2 \in [Tasks -> Seq(AriaStatus)] /\ Len(aria2[t]) \in Nat
      /\ Gids(t) = 1..Len(aria2[t]) /\ faults \in Nat
  BY AriaLen, FaultAssumption DEF SessionsInv, TypeOK, NodeTypeOK, Gids
<1>1. CASE faults' # faults
  BY <1>1, FaultGivesSlack DEF Slack
<1>2. CASE faults' = faults /\ UNCHANGED aria2
  BY <1>2 DEF Slack, Gids
<1>3. ASSUME faults' = faults,
             NEW u \in Tasks, NEW i \in Gids(u), NEW st \in AriaStatus,
             aria2[u][i] \in Live \/ st \notin Live, aria2' = [aria2 EXCEPT ![u][i] = st]
      PROVE  Slack(t)'
  <2>1. CASE u # t
    <3>1. aria2'[t] = aria2[t]
      BY <1>0, <1>3, <2>1
    <3> QED
      BY <1>3, <3>1 DEF Slack, Gids
  <2>2. CASE u = t
    <3>1. aria2'[t] = [aria2[t] EXCEPT ![i] = st]
      BY <1>0, <1>3, <2>2
    <3>2. Len(aria2'[t]) = Len(aria2[t]) /\ Gids(t)' = Gids(t)
      BY <1>0, <3>1 DEF Gids
    <3>3. CASE Len(aria2[t]) <= faults
      BY <1>3, <3>2, <3>3 DEF Slack
    <3>4. ASSUME NEW g \in Gids(t), aria2[t][g] \notin Live
          PROVE  aria2'[t][g] \notin Live
      BY <1>0, <1>3, <2>2, <3>1, <3>4
    <3> QED
      BY <3>2, <3>3, <3>4 DEF Slack
  <2> QED
    BY <2>1, <2>2
<1>4. ASSUME faults' = faults, NEW u \in Tasks, FillAdd(u), AddUri(u)
      PROVE  Slack(t)'
  <2>1. CASE u # t
    <3>1. aria2'[t] = aria2[t]
      BY <1>0, <1>4, <2>1 DEF AddUri
    <3> QED
      BY <1>4, <3>1 DEF Slack, Gids
  <2>2. CASE u = t
    <3>1. PICK g \in Gids(t) : aria2[t][g] \notin Live
      BY <1>4, <2>2 DEF Slack
    <3>2. aria2'[t] = Append(aria2[t], "waiting")
      BY <1>0, <1>4, <2>2 DEF AddUri
    <3>3. Len(aria2'[t]) = Len(aria2[t]) + 1 /\ aria2'[t][g] = aria2[t][g]
      BY <1>0, <3>2
    <3> QED
      BY <1>0, <3>1, <3>3 DEF Slack, Gids
  <2> QED
    BY <2>1, <2>2
<1> QED
  BY <1>1, <1>2, <1>3, <1>4, QuietAria DEF Quieter

\* The sessions and requests of the step before, when no row was written.
LEMMA ErrorsKept ==
  ASSUME RowErrors, SessionErrors, RequestErrors, UNCHANGED <<db, pc, snap, cur, req>>
  PROVE  RowErrors' /\ SessionErrors' /\ RequestErrors'
BY DEF RowErrors, SessionErrors, RequestErrors, InSession, Ended

\* No session is left, or it just read its rows.
LEMMA FreshSession ==
  ASSUME \/ pc' \notin {"sync", "fill"}
         \/ pc' = "sync" /\ cur' = snap'
         \/ /\ pc' = "fill" /\ cur' = snap'
            /\ \A t \in Tasks : snap'[t].status # "none" => db'[t].status = "queued"
  PROVE  SessionErrors'
BY DEF SessionErrors, InSession

\* Errors are never taken back.
LEMMA RequestErrorsKept ==
  ASSUME Requests, RequestErrors, req' = req,
         \A t \in Tasks : db[t].error # "null" => db'[t].error # "null"
  PROVE  RequestErrors'
BY DEF RequestErrors, Requests, Request

\* What the commits of a tick leave in the error column.
LEMMA CommittedErrors ==
  ASSUME SessionsInv, RowErrors, SessionErrors, SyncCommit \/ FillCommit, NEW t \in Tasks
  PROVE  /\ db[t].error # "null" => db'[t].error # "null"
         /\ db'[t].error = "aria2" => Ended(db'[t])
         /\ Ended(db'[t]) /\ db'[t].error # "cancelled" => SaidEnded(t)
<1>1. snap[t] \in Row /\ cur[t] \in Row /\ db[t] \in Row
  BY DEF SessionsInv, TypeOK, NodeTypeOK, TickTypeOK
<1>2. CASE t \notin InSession
  BY <1>2, SyncCommitRows, FillCommitRows DEF RowErrors, SaidEnded
<1>3. CASE t \in InSession
  <2>1. pc \in {"sync", "fill"} /\ todo = {} /\ db'[t] = FlushRow(db[t], snap[t], cur[t])
    BY DEF SyncCommit, FillCommit, Flush
  <2>2. /\ db'[t].error = IF cur[t].error = snap[t].error THEN db[t].error ELSE cur[t].error
        /\ db'[t].status = IF cur[t].status = snap[t].status THEN db[t].status ELSE cur[t].status
    BY <2>1 DEF FlushRow, Column
  <2>3. /\ cur[t].error = snap[t].error \/ (cur[t].error = "aria2" /\ cur[t].status = "failed")
        /\ pc = "fill" /\ db[t].status # "queued" => db[t].error = "cancelled"
    BY <1>3, <2>1 DEF SessionErrors
  <2>4. /\ snap[t].status \in {"downloading", "queued"}
        /\ cur[t].status \in {"queued", "downloading", "completed", "failed"}
        /\ pc = "sync" => snap[t].status = "downloading" /\ cur[t].status # "queued"
        /\ pc = "fill" => snap[t].status = "queued"
    BY <1>3, <2>1 DEF SessionsInv, SyncSession, FillSession, QueuedRow, NoRow
  <2>5. Ended(cur[t]) => SaidEnded(t)
    BY <1>3, <2>1 DEF SaidEnded
  <2>6. cur[t].status # snap[t].status \/ (~Ended(cur[t]) /\ cur[t].error = snap[t].error)
    BY <2>3, <2>4 DEF Ended
  <2>7. CASE Ended(cur[t])
    <3>1. db'[t].status = cur[t].status
      BY <2>2, <2>4, <2>7 DEF Ended
    <3> QED
      BY <2>2, <2>3, <2>5, <2>7, <3>1 DEF Ended
  <2>8. CASE ~Ended(cur[t])
    <3>1. db'[t].error = db[t].error
      BY <2>2, <2>3, <2>8 DEF Ended
    <3>2. CASE cur[t].status = snap[t].status
      <4>1. db'[t].status = db[t].status
        BY <2>2, <3>2
      <4> QED
        BY <3>1, <4>1 DEF RowErrors, SaidEnded, Ended
    <3>3. CASE cur[t].status # snap[t].status
      <4>1. pc = "fill" /\ db'[t].status = cur[t].status
        BY <1>3, <2>1, <2>2, <2>4, <2>8, <3>3 DEF Ended
      <4>2. ~Ended(db'[t])
        BY <2>8, <4>1 DEF Ended
      <4>3. db[t].status = "queued" => db[t].error = "null"
        BY DEF SessionsInv, RowsConsistent, NoRow
      <4>4. db[t].error # "aria2"
        BY <2>3, <4>1, <4>3
      <4> QED
        BY <3>1, <4>2, <4>4
    <3> QED
      BY <3>2, <3>3
  <2> QED
    BY <2>7, <2>8
<1> QED
  BY <1>2, <1>3

\* What the commit of a DELETE leaves in the error column.
LEMMA DeletedErrors ==
  ASSUME SessionsInv, RowErrors, SessionErrors, RequestErrors, NEW h \in Handlers, DeleteCommit(h)
  PROVE  LET t == req[h].task
         IN  /\ t \in Tasks /\ \A u \in Tasks \ {t} : db'[u] = db[u]
             /\ Ended(db'[t])
             /\ db[t].error # "null" => db'[t].error # "null"
             /\ db'[t].error # "cancelled" => SaidEnded(t)
             /\ pc = "fill" /\ t \in InSession => db'[t].error = "cancelled"
<1> DEFINE t == req[h].task
           row == req[h].row
           new == req[h].new
<1>1. /\ Request(h) /\ \A u \in Tasks \ {t} : db'[u] = db[u]
      /\ db'[t].status = IF row.status = "completed" THEN "expired" ELSE "failed"
  BY DeleteCommitRow
<1>2. /\ t \in Tasks /\ db'[t] = FlushRow(db[t], row, new)
      /\ row.status = "queued" => row.error = "null"
      /\ row.error # "null" => db[t].error # "null"
      /\ new.error = IF row.status = "completed" THEN row.error ELSE "cancelled"
  BY <1>1 DEF DeleteCommit, Request, RequestErrors, SessionsInv, TypeOK, NodeTypeOK
<1>3. db'[t].error = IF new.error = row.error THEN db[t].error ELSE new.error
  BY <1>2 DEF FlushRow, Column
<1>4. db[t].error \in {"null", "aria2", "cancelled"}
  BY <1>2 DEF SessionsInv, TypeOK, NodeTypeOK, Row, Error
<1>5. /\ row.status \in {"queued", "downloading", "completed"}
      /\ row.status = "downloading" => db[t].status # "queued"
      /\ row.status = "completed" =>
           /\ db[t].status \in {"completed", "failed", "expired"}
           /\ pc \in {"sync", "fill"} => t \notin InSession
  BY <1>1 DEF Request
<1>6. pc = "fill" /\ t \in InSession => db[t].status = "queued" \/ db[t].error = "cancelled"
  BY DEF SessionErrors
<1>7. Ended(db'[t])
  BY <1>1 DEF Ended
<1>8. CASE row.status = "completed"
  <2>1. db'[t].error = db[t].error /\ Ended(db[t])
    BY <1>2, <1>3, <1>5, <1>8 DEF Ended
  <2> QED
    BY <1>1, <1>2, <1>5, <1>7, <1>8, <2>1 DEF SaidEnded
<1>9. CASE row.status # "completed"
  <2>1. db'[t].error = "cancelled" \/ (db[t].error = "aria2" /\ row.error = "cancelled" /\ db'[t].error = "aria2")
    BY <1>2, <1>3, <1>4, <1>9
  <2>2. db[t].error = "aria2" => SaidEnded(t)
    BY <1>2 DEF RowErrors, SaidEnded
  <2>3. row.error = "cancelled" => row.status # "queued"
    BY <1>2
  <2>4. pc = "fill" /\ t \in InSession => db'[t].error = "cancelled"
    BY <1>5, <1>6, <1>9, <2>1, <2>3
  <2> QED
    BY <1>1, <1>2, <1>7, <2>1, <2>2, <2>4
<1> QED
  BY <1>8, <1>9

\* An answer of aria2 about a row, or a refusal, leaves its error or fails it.
LEMMA AnsweredError ==
  ASSUME NEW row \in Row, now \in Nat, NEW st, NEW new,
         \/ new = Synced(row, st)
         \/ new = Lost(row)
         \/ new = MarkFailed(row, "aria2")
         \/ \E g \in Nat : new = [MarkStarted(row) EXCEPT !.gid = g]
  PROVE  new.error = row.error \/ (new.error = "aria2" /\ new.status = "failed")
<1>1. \/ new = [MarkCompleted(row) EXCEPT !.path = TRUE]
      \/ new = MarkFailed(row, "aria2")
      \/ new = MarkStarted(row)
      \/ \E g \in Nat : new = [MarkStarted(row) EXCEPT !.gid = g]
      \/ new = row
  BY DEF Synced, Lost
<1>2. CASE new = [MarkCompleted(row) EXCEPT !.path = TRUE]
  BY <1>2 DEF MarkCompleted, Row
<1>3. CASE new = MarkFailed(row, "aria2")
  BY <1>3 DEF MarkFailed, Row
<1>4. CASE new = MarkStarted(row) \/ \E g \in Nat : new = [MarkStarted(row) EXCEPT !.gid = g]
  BY <1>4 DEF MarkStarted, Row
<1> QED
  BY <1>1, <1>2, <1>3, <1>4

\* The steps of a tick by the session they leave.
LEMMA TickMoves ==
  ASSUME [Next]_vars
  PROVE  /\ pc' = "sync" => \/ SyncLoad
                            \/ \E t \in Tasks : SyncStatus(t)
                            \/ pc = "sync" /\ UNCHANGED <<snap, cur, todo>>
         /\ pc' = "fill" => \/ FillPick
                            \/ \E t \in Tasks : FillAdd(t)
                            \/ pc = "fill" /\ UNCHANGED <<snap, cur, todo>>
BY DEF Next, LifecycleStep, TickNext, TickStep, SyncLoad, SyncStatus, SyncCommit, FillCount,
       FillPick, FillAdd, FillCommit, TickAborts, NodeRestart, tickVars, vars

\* The steps that write the table.
LEMMA TableMoves ==
  ASSUME [Next]_vars
  PROVE  \/ SyncCommit /\ UNCHANGED req
         \/ FillCommit /\ UNCHANGED req
         \/ \E t \in Tasks : Enqueue(t) /\ UNCHANGED <<tickVars, req>>
         \/ \E h \in Handlers : DeleteCommit(h) /\ UNCHANGED tickVars
         \/ UNCHANGED db
BY DEF Next, LifecycleStep, TickNext, TickStep, SyncLoad, SyncStatus, FillCount, FillPick,
       FillAdd, TickAborts, AriaNext, AriaStep, AriaStart, AriaComplete, AriaError, AriaRestart,
       DeleteNext, DeleteStep, DeleteLoad, DeleteQueued, DeleteForce, DeleteResult, DeletePurge,
       DeleteAborts, NodeRestart, nodeVars, tickVars, vars

\* One row is worked on; the others stay as the session has them.
LEMMA WorkedOn ==
  ASSUME SessionsInv, NEW t \in Tasks, SyncStatus(t) \/ FillAdd(t)
  PROVE  /\ pc \in {"sync", "fill"} /\ UNCHANGED <<db, pc, snap>> /\ InSession' = InSession
         /\ t \in todo /\ t \in InSession /\ cur[t] = snap[t] /\ todo' = todo \ {t}
         /\ \A u \in Tasks \ {t} : cur'[u] = cur[u]
         /\ cur'[t].error = snap[t].error \/ (cur'[t].error = "aria2" /\ cur'[t].status = "failed")
<1>0. cur \in [Tasks -> Row] /\ cur[t] \in Row /\ now \in Nat /\ Len(aria2[t]) + 1 \in Nat
  BY AriaLen DEF SessionsInv, TypeOK, NodeTypeOK, TickTypeOK
<1>1. pc \in {"sync", "fill"} /\ UNCHANGED <<db, pc, snap>> /\ t \in todo
  BY DEF SyncStatus, FillAdd
<1>2. t \in InSession /\ cur[t] = snap[t] /\ InSession' = InSession
  BY <1>1 DEF SessionsInv, SyncSession, FillSession, InSession
<1>3. PICK st, new :
        /\ Assign(t, new)
        /\ \/ new = Synced(cur[t], st)
           \/ new = Lost(cur[t])
           \/ new = MarkFailed(cur[t], "aria2")
           \/ \E g \in Nat : new = [MarkStarted(cur[t]) EXCEPT !.gid = g]
  <2>1. CASE SyncStatus(t)
    BY <2>1 DEF SyncStatus, SyncAnswer, SyncNoAnswer
  <2>2. CASE FillAdd(t)
    BY <1>0, <2>2 DEF FillAdd, Added, AddFailed
  <2> QED
    BY <2>1, <2>2
<1>4. cur'[t] = new /\ todo' = todo \ {t} /\ \A u \in Tasks \ {t} : cur'[u] = cur[u]
  BY <1>0, <1>3 DEF Assign
<1>5. new.error = cur[t].error \/ (new.error = "aria2" /\ new.status = "failed")
  BY <1>0, <1>3, AnsweredError
<1> QED
  BY <1>1, <1>2, <1>4, <1>5

LEMMA ErrorsStep ==
  ASSUME SessionsInv, RowErrors, SessionErrors, RequestErrors, [Next]_vars
  PROVE  RowErrors' /\ SessionErrors' /\ RequestErrors'
<1>0. db \in [Tasks -> Row] /\ Requests
  BY DEF SessionsInv, TypeOK, NodeTypeOK
<1>1. CASE (SyncCommit \/ FillCommit) /\ UNCHANGED req
  <2>1. \A t \in Tasks : /\ db[t].error # "null" => db'[t].error # "null"
                         /\ db'[t].error = "aria2" => Ended(db'[t])
    BY <1>1, CommittedErrors
  <2>2. pc' \notin {"sync", "fill"}
    BY <1>1 DEF SyncCommit, FillCommit
  <2> QED
    BY <1>0, <1>1, <2>1, <2>2, FreshSession, RequestErrorsKept DEF RowErrors, Ended
<1>2. ASSUME NEW t \in Tasks, Enqueue(t), UNCHANGED <<tickVars, req>>
      PROVE  RowErrors' /\ SessionErrors' /\ RequestErrors'
  <2>1. /\ db'[t].status = "queued" /\ db'[t].error = "null" /\ db[t].status = "none"
        /\ \A u \in Tasks \ {t} : db'[u] = db[u]
    BY <1>0, <1>2 DEF Enqueue, QueuedRow, NoRow
  <2>2. db[t].error = "null"
    BY <2>1 DEF SessionsInv, RowsConsistent, NoRow
  <2>3. UNCHANGED <<pc, snap, cur>>
    BY <1>2 DEF tickVars
  <2>4. RowErrors' /\ RequestErrors'
    BY <1>0, <1>2, <2>1, <2>2, RequestErrorsKept DEF RowErrors, Ended
  <2>5. SessionErrors'
    BY <2>1, <2>3 DEF SessionErrors, InSession
  <2> QED
    BY <2>4, <2>5
<1>3. ASSUME NEW h \in Handlers, DeleteCommit(h), UNCHANGED tickVars
      PROVE  RowErrors' /\ SessionErrors' /\ RequestErrors'
  <2> DEFINE t == req[h].task
  <2>1. /\ t \in Tasks /\ \A u \in Tasks \ {t} : db'[u] = db[u]
        /\ Ended(db'[t])
        /\ db[t].error # "null" => db'[t].error # "null"
        /\ pc = "fill" /\ t \in InSession => db'[t].error = "cancelled"
    BY <1>3, DeletedErrors
  <2>2. RowErrors'
    BY <2>1 DEF RowErrors, Ended
  <2>3. UNCHANGED <<pc, snap, cur>> /\ InSession' = InSession
    BY <1>3 DEF tickVars, InSession
  <2>4. SessionErrors'
    <3>1. \A u \in InSession : pc = "fill" /\ db'[u].status # "queued" => db'[u].error = "cancelled"
      <4> SUFFICES ASSUME NEW u \in InSession, pc = "fill", db'[u].status # "queued"
                   PROVE  db'[u].error = "cancelled"
        OBVIOUS
      <4>1. CASE u = t
        BY <2>1, <4>1
      <4>2. CASE u # t
        <5>1. db'[u] = db[u]
          BY <2>1, <4>2 DEF InSession
        <5> QED
          BY <5>1 DEF SessionErrors
      <4> QED
        BY <4>1, <4>2
    <3> QED
      BY <2>3, <3>1 DEF SessionErrors
  <2>5. req'[h].pc = "idle" /\ \A k \in Handlers \ {h} : req'[k] = req[k]
    BY <1>3 DEF DeleteCommit, NoRequest, SessionsInv, TypeOK, ApiTypeOK
  <2>6. \A u \in Tasks : db[u].error # "null" => db'[u].error # "null"
    BY <2>1
  <2>7. RequestErrors'
    BY <1>0, <2>5, <2>6 DEF RequestErrors, Requests, Request
  <2> QED
    BY <2>2, <2>4, <2>7
<1>4. CASE UNCHANGED db
  <2>1. RowErrors'
    BY <1>4 DEF RowErrors, Ended
  <2>2. SessionErrors'
    <3>1. CASE pc' \notin {"sync", "fill"}
      BY <3>1, FreshSession
    <3>2. CASE SyncLoad
      BY <3>2, FreshSession DEF SyncLoad, Open
    <3>3. CASE FillPick
      <4>1. PICK S \in SUBSET InStatus({"queued"}) : Open(S)
        BY <3>3 DEF FillPick
      <4>2. pc' = "fill" /\ cur' = snap' /\ \A t \in Tasks : snap'[t] = IF t \in S THEN db[t] ELSE NoRow
        BY <3>3, <4>1 DEF FillPick, Open, Load
      <4>3. \A t \in Tasks : snap'[t].status # "none" => db'[t].status = "queued"
        BY <1>4, <4>2 DEF InStatus, NoRow
      <4> QED
        BY <4>2, <4>3, FreshSession
    <3>4. ASSUME NEW t \in Tasks, SyncStatus(t) \/ FillAdd(t)
          PROVE  SessionErrors'
      BY <3>4, WorkedOn DEF SessionErrors, InSession
    <3>5. CASE UNCHANGED <<pc, snap, cur>>
      BY <1>4, <3>5 DEF SessionErrors, InSession
    <3> QED
      BY <3>1, <3>2, <3>3, <3>4, <3>5, TickMoves
  <2>3. RequestErrors'
    <3>1. CASE req' = req
      BY <1>0, <1>4, <3>1, RequestErrorsKept
    <3>2. ASSUME NEW h \in Handlers, \A k \in Handlers \ {h} : req'[k] = req[k],
                 \/ req'[h].pc = "idle"
                 \/ /\ req[h].pc # "idle" /\ req'[h].row = req[h].row /\ req'[h].task = req[h].task
                    /\ req'[h].pc # "commit"
                 \/ /\ req[h].pc # "idle" /\ req'[h].row = req[h].row /\ req'[h].task = req[h].task
                    /\ req'[h].new = Deleted(req[h].row)
                 \/ \E t \in Tasks : req'[h].row = db[t] /\ req'[h].task = t /\ req'[h].pc = "loaded"
          PROVE  RequestErrors'
      <4>1. \A row \in Row : Deleted(row).error = IF row.status = "completed" THEN row.error ELSE "cancelled"
        BY DEF Deleted, Purged, MarkFailed, Row
      <4>2. req[h].row \in Row
        BY DEF SessionsInv, TypeOK, ApiTypeOK
      <4>3. \A t \in Tasks : db[t].status = "queued" => db[t].error = "null"
        BY DEF SessionsInv, RowsConsistent, NoRow
      <4> QED
        BY <1>0, <1>4, <3>2, <4>1, <4>2, <4>3 DEF RequestErrors
    <3>3. CASE NodeRestart
      BY <3>3 DEF NodeRestart, NoRequest, RequestErrors
    <3>4. ASSUME NEW h \in Handlers, DeleteNext(h)
          PROVE  RequestErrors'
      <4>1. req \in [Handlers -> [pc : RequestPc, task : Tasks \cup {NoTask}, row : Row, new : Row]]
        BY DEF SessionsInv, TypeOK, ApiTypeOK
      <4>2. CASE DeleteCommit(h) \/ DeleteAborts(h)
        BY <3>2, <4>1, <4>2 DEF DeleteCommit, DeleteAborts, NoRequest
      <4>3. CASE \E t \in Tasks : DeleteLoad(h, t)
        BY <3>2, <4>1, <4>3 DEF DeleteLoad
      <4>4. CASE AssignRow(h) /\ req[h].pc # "idle"
        BY <3>2, <4>1, <4>4 DEF AssignRow
      <4>5. CASE req[h].pc # "idle" /\ req' = [req EXCEPT ![h].pc = "result"]
        BY <3>2, <4>1, <4>5
      <4> QED
        BY <3>4, <4>2, <4>3, <4>4, <4>5 DEF DeleteNext, DeleteStep, DeleteQueued, DeleteForce,
           DeleteResult, DeletePurge
    <3> QED
      BY <3>1, <3>3, <3>4 DEF Next, LifecycleStep, vars
  <2> QED
    BY <2>1, <2>2, <2>3
<1> QED
  BY <1>1, <1>2, <1>3, <1>4, TableMoves

\* An answer that ends a row comes from a download that is over.
LEMMA AnswerHasSlack ==
  ASSUME SessionsInv, NEW t \in Tasks, pc = "sync", t \in todo, SyncAnswer(t), Ended(cur'[t])
  PROVE  Slack(t)
<1> DEFINE s == TellStatus(t, cur[t].gid)
<1>1. /\ cur[t] \in Row /\ cur \in [Tasks -> Row] /\ now \in Nat
      /\ cur[t].status = "downloading" /\ cur[t].gid \in Gids(t)
  BY DEF SessionsInv, TypeOK, NodeTypeOK, TickTypeOK, SyncSession
<1>2. cur'[t] = IF s = "gone" THEN Lost(cur[t]) ELSE Synced(cur[t], StatusMap[s])
  BY <1>1 DEF SyncAnswer, Assign
<1>3. s \in Live => cur'[t] = cur[t]
  BY <1>1, <1>2 DEF Live, StatusMap, Synced
<1>4. s \notin Live
  BY <1>1, <1>3 DEF Ended
<1>5. aria2[t][cur[t].gid] \notin Live
  BY <1>1, <1>4 DEF TellStatus, Live
<1> QED
  BY <1>1, <1>5 DEF Slack

\* Without a fault, nothing is said to have ended that has no slack.
LEMMA EndedHadSlack ==
  ASSUME SessionsInv, OrphansInv, [Next]_vars, faults' = faults, NEW t \in Tasks, SaidEnded(t)'
  PROVE  Slack(t) /\ ~FillAdd(t)
<1>0. db \in [Tasks -> Row] /\ ~Fault("rpc") /\ RowErrors /\ SessionErrors /\ RequestErrors
  <2>1. faults \in Nat
    BY FaultAssumption DEF SessionsInv, TypeOK, NodeTypeOK
  <2> QED
    BY <2>1 DEF SessionsInv, TypeOK, NodeTypeOK, OrphansInv, Fault
<1>1. SaidEnded(t) => Slack(t)
  BY DEF OrphansInv
<1>2. ASSUME Ended(db'[t]), db'[t].error # "cancelled"
      PROVE  SaidEnded(t) /\ ~FillAdd(t)
  <2>1. CASE SyncCommit \/ FillCommit
    <3>1. SaidEnded(t)
      BY <1>0, <1>2, <2>1, CommittedErrors
    <3>2. todo = {}
      BY <2>1 DEF SyncCommit, FillCommit
    <3> QED
      BY <3>1, <3>2 DEF FillAdd
  <2>2. ASSUME NEW u \in Tasks, Enqueue(u), UNCHANGED tickVars
        PROVE  SaidEnded(t) /\ ~FillAdd(t)
    <3>1. db'[t] = db[t]
      BY <1>0, <1>2, <2>2 DEF Enqueue, QueuedRow, NoRow, Ended
    <3>2. t \in todo => todo' # todo \ {t}
      BY <2>2 DEF tickVars
    <3> QED
      BY <1>2, <3>1, <3>2, WorkedOn DEF SaidEnded
  <2>3. ASSUME NEW h \in Handlers, DeleteCommit(h), UNCHANGED tickVars
        PROVE  SaidEnded(t) /\ ~FillAdd(t)
    <3>1. SaidEnded(t)
      <4>1. CASE t = req[h].task
        BY <1>0, <1>2, <2>3, <4>1, DeletedErrors
      <4>2. CASE t # req[h].task
        <5>1. db'[t] = db[t]
          BY <1>0, <2>3, <4>2, DeletedErrors
        <5> QED
          BY <1>2, <5>1 DEF SaidEnded
      <4> QED
        BY <4>1, <4>2
    <3>2. t \in todo => todo' # todo \ {t}
      BY <2>3 DEF tickVars
    <3> QED
      BY <3>1, <3>2, WorkedOn
  <2>4. CASE UNCHANGED db
    <3>1. SaidEnded(t)
      BY <1>2, <2>4 DEF SaidEnded
    <3>2. FillAdd(t) => pc = "fill" /\ t \in InSession
      BY WorkedOn DEF FillAdd
    <3>3. pc = "fill" /\ t \in InSession => ~(Ended(db[t]) /\ db[t].error # "cancelled")
      BY <1>0 DEF SessionErrors, Ended
    <3> QED
      BY <1>2, <2>4, <3>1, <3>2, <3>3
  <2> QED
    BY <2>1, <2>2, <2>3, <2>4, TableMoves
<1>3. ASSUME pc' \in {"sync", "fill"}, t \in InSession' \ todo', Ended(cur'[t])
      PROVE  Slack(t) /\ ~FillAdd(t)
  <2>1. ASSUME Ended(cur[t]), t \in InSession \ todo, pc \in {"sync", "fill"}
        PROVE  Slack(t) /\ ~FillAdd(t)
    BY <1>1, <2>1 DEF SaidEnded, FillAdd
  <2>2. CASE SyncLoad \/ FillPick
    <3>1. PICK S \in SUBSET Tasks : Open(S)
      BY <2>2 DEF SyncLoad, FillPick, InStatus
    <3>2. InSession' \subseteq todo'
      BY <3>1 DEF Open, Load, InSession, NoRow
    <3> QED
      BY <1>3, <3>2
  <2>3. ASSUME NEW u \in Tasks, SyncStatus(u) \/ FillAdd(u), u # t
        PROVE  Slack(t) /\ ~FillAdd(t)
    <3>1. /\ pc \in {"sync", "fill"} /\ InSession' = InSession /\ todo' = todo \ {u}
          /\ cur'[t] = cur[t]
      BY <2>3, WorkedOn
    <3> QED
      BY <1>3, <2>1, <2>3, <3>1
  <2>4. CASE SyncStatus(t)
    <3>1. pc = "sync" /\ t \in todo /\ SyncAnswer(t)
      BY <1>0, <2>4 DEF SyncStatus, SyncNoAnswer
    <3> QED
      BY <1>3, <3>1, AnswerHasSlack DEF FillAdd
  <2>5. ~FillAdd(t)
    <3> SUFFICES ASSUME FillAdd(t)
                 PROVE  FALSE
      OBVIOUS
    <3>1. cur'[t] = [MarkStarted(cur[t]) EXCEPT !.gid = Len(aria2[t]) + 1]
      BY <1>0 DEF FillAdd, Added, AddFailed, Assign, SessionsInv, TypeOK, TickTypeOK
    <3>2. cur[t] \in Row
      BY DEF SessionsInv, TypeOK, TickTypeOK
    <3>3. cur'[t].status = "downloading"
      BY <3>1, <3>2 DEF MarkStarted, Row
    <3> QED
      BY <1>3, <3>3 DEF Ended
  <2>6. CASE pc = pc' /\ UNCHANGED <<snap, cur, todo>>
    BY <1>3, <2>1, <2>6 DEF InSession
  <2> QED
    BY <1>3, <2>2, <2>3, <2>4, <2>5, <2>6, TickMoves
<1> QED
  BY <1>1, <1>2, <1>3 DEF SaidEnded

LEMMA OrphansStep ==
  ASSUME SessionsInv, OrphansInv, [Next]_vars
  PROVE  OrphansInv'
<1>1. RowErrors' /\ SessionErrors' /\ RequestErrors'
  BY ErrorsStep DEF OrphansInv
<1>2. ASSUME NEW t \in Tasks, SaidEnded(t)'
      PROVE  Slack(t)'
  <2>1. CASE faults' # faults
    BY <2>1, FaultGivesSlack DEF Slack
  <2>2. CASE faults' = faults
    BY <1>2, <2>2, EndedHadSlack, SlackStays
  <2> QED
    BY <2>1, <2>2
<1> QED
  BY <1>1, <1>2 DEF OrphansInv

LEMMA OrphansBegin ==
  ASSUME Init
  PROVE  OrphansInv
<1>1. \A t \in Tasks : db[t].status = "none" /\ db[t].error = "null"
  BY DEF Init, NodeInit, NoRow
<1>2. pc = "idle" /\ \A h \in Handlers : req[h].pc = "idle"
  BY DEF Init, TickInit, ApiInit, NoRequest
<1> QED
  BY <1>1, <1>2 DEF OrphansInv, RowErrors, SessionErrors, RequestErrors, SaidEnded, Ended

\* aria2 works on a download that no row and no session knows of only after a fault, and
\* on no more of them than there were faults, unless a DELETE cancelled the task: for any
\* requests, and through any restarts of the node and of aria2.
THEOREM OrphansAreCounted == Spec => []OrphansCounted
<1>1. SessionsInv /\ OrphansInv /\ [Next]_vars => OrphansInv'
  BY OrphansStep
<1>2. SessionsInv /\ OrphansInv => OrphansCounted
  BY OrphansFollow
<1> QED
  BY <1>1, <1>2, OrphansBegin, SessionsInvariant, PTL DEF Spec
=============================================================================

-------------------------- MODULE NodeProcessProofs --------------------------
(***************************************************************************)
(* Proofs, for any tasks, slots and faults, that rows stay consistent and  *)
(* downloads bounded when two node processes overlap.  Both ticks take the *)
(* same steps (Moves) on sessions of their own; what one of them knows     *)
(* survives the steps of the other because rows only gain.                 *)
(***************************************************************************)
EXTENDS NodeProcess, TaskLifecycleProofs

-----------------------------------------------------------------------------
(* Rows *)

\* A row only gains.
Gains(row, new) ==
  /\ row.status # "none" => new.status # "none"
  /\ row.status \notin {"none", "queued"} => new.status \notin {"none", "queued"}
  /\ row.path => new.path
  /\ row.completedAt # NoTime => new.completedAt # NoTime
  /\ row.gid # NoGid => new.gid # NoGid

\* What a session knows of a row survives what others make of it.
LEMMA HeldGains ==
  ASSUME NEW c, NEW row \in Row, NEW row2 \in Row, NEW n \in Nat, NEW n2 \in Nat,
         NEW old \in Row, NEW new \in Row, NEW due \in BOOLEAN,
         Held(c, row, n, old, new, due), Gains(row, row2), n <= n2
  PROVE  Held(c, row2, n2, old, new, due)
  BY DEF Held, Gains, Row

\* A row whose task gets another gid is sound still.
LEMMA SoundGrows ==
  ASSUME NEW row \in Row, NEW n \in Nat, NEW n2 \in Nat, RowSound(row, n), n <= n2
  PROVE  RowSound(row, n2)
  BY DEF RowSound, Row

\* What a commit writes over a row that others may have written since.
LEMMA FlushSound ==
  ASSUME NEW c \in {"sync", "fill"}, NEW row \in Row, NEW n \in Nat, NEW old \in Row,
         NEW new \in Row, RowSound(row, n), Held(c, row, n, old, new, FALSE)
  PROVE  /\ RowSound(FlushRow(row, old, new), n)
         /\ Gains(row, FlushRow(row, old, new))
         /\ FlushRow(row, old, new).status \notin {"none", "queued"}
<1> DEFINE f == FlushRow(row, old, new)
<1>1. /\ f.status = IF new.status = old.status THEN row.status ELSE new.status
      /\ f.gid = IF new.gid = old.gid THEN row.gid ELSE new.gid
      /\ f.completedAt = IF new.completedAt = old.completedAt THEN row.completedAt
                                                             ELSE new.completedAt
      /\ f.path = IF new.path = old.path THEN row.path ELSE new.path
  BY DEF FlushRow, Column
<1> HIDE DEF f
<1>2. CASE c = "sync"
  <2>1. /\ old.status = "downloading" /\ row.status \notin {"none", "queued"}
        /\ row.gid # NoGid /\ new.gid = old.gid
        /\ new.status \in {"downloading", "completed", "failed"}
        /\ new.status = "completed" => new.path /\ new.completedAt # NoTime
        /\ old.path => row.path /\ new.path
        /\ old.completedAt # NoTime => row.completedAt # NoTime /\ new.completedAt # NoTime
    BY <1>2 DEF Held
  <2>2. f.status \notin {"none", "queued"} /\ f.gid = row.gid
    BY <1>1, <2>1
  <2>3. row.path \/ new.path => f.path
    BY <1>1, <2>1 DEF Row
  <2>4. row.completedAt # NoTime \/ new.completedAt # NoTime => f.completedAt # NoTime
    BY <1>1, <2>1
  <2>5. f.status = "completed" => f.path /\ f.completedAt # NoTime
    BY <1>1, <2>1, <2>3, <2>4 DEF RowSound
  <2> QED
    BY <2>1, <2>2, <2>3, <2>4, <2>5 DEF RowSound, Gains, f
<1>3. CASE c = "fill"
  <2>1. /\ old.status = "queued" /\ old.gid = NoGid /\ old.completedAt = NoTime /\ old.path = FALSE
        /\ new.status \in {"downloading", "failed"} /\ new.gid \in 0..n
        /\ new.status = "downloading" => new.gid # NoGid
    BY <1>3 DEF Held, QueuedRow, NoRow
  <2>2. f.status = new.status
    BY <1>1, <2>1
  <2>3. f.gid \in 0..n /\ (row.gid # NoGid \/ new.gid # NoGid => f.gid # NoGid)
    BY <1>1, <2>1 DEF RowSound
  <2>4. row.path => f.path
    BY <1>1, <2>1 DEF Row
  <2>5. row.completedAt # NoTime => f.completedAt # NoTime
    BY <1>1, <2>1
  <2> QED
    BY <2>1, <2>2, <2>3, <2>4, <2>5 DEF RowSound, Gains, f
<1> QED
  BY <1>2, <1>3

-----------------------------------------------------------------------------
(* The steps of a tick: at c with s loaded, u assigned and d to do, it goes to c1, s1, u1 *)
(* and d1. *)

MovesToSync(c, s, u, d, c1, s1, u1, d1) ==
  /\ c = "idle" /\ c1 = "sync"
  /\ d1 = {t \in InStatus({"downloading", "queued"}) : db[t].gid # NoGid}
  /\ s1 = Load(d1) /\ u1 = s1
  /\ UNCHANGED nodeVars

MovesSync(c, s, u, d, c1, s1, u1, d1) ==
  /\ c = "sync" /\ c1 = c /\ s1 = s
  /\ \E t \in d, row \in Row :
       /\ row = Lost(u[t]) \/ \E st : row = Synced(u[t], st)
       /\ u1 = [u EXCEPT ![t] = row]
       /\ d1 = d \ {t}
  /\ UNCHANGED <<db, aria2, disk, now>>
  /\ UNCHANGED faults \/ Fault("rpc")

MovesCommit(c, s, u, d, c1, s1, u1, d1) ==
  /\ c \in {"sync", "fill"} /\ c1 \in {"idle", "count"} /\ d = {}
  /\ db' = Flush(s, u)
  /\ s1 = EmptySession /\ u1 = EmptySession /\ d1 = {}
  /\ UNCHANGED <<aria2, disk, now, faults>>

MovesCount(c, s, u, d, c1, s1, u1, d1) ==
  /\ c = "count" /\ c1 \in {"idle", "pick"}
  /\ s1 = s /\ u1 = u /\ d1 = d
  /\ UNCHANGED nodeVars

MovesPick(c, s, u, d, c1, s1, u1, d1) ==
  /\ c = "pick" /\ c1 = "fill"
  /\ d1 \subseteq InStatus({"queued"})
  /\ s1 = Load(d1) /\ u1 = s1
  /\ UNCHANGED nodeVars

MovesAdd(c, s, u, d, c1, s1, u1, d1) ==
  /\ c = "fill" /\ c1 = c /\ s1 = s
  /\ \E t \in d, row \in Row :
       /\ \/ /\ row = [MarkStarted(u[t]) EXCEPT !.gid = Len(aria2[t]) + 1]
             /\ AddUri(t) /\ UNCHANGED faults
          \/ /\ row = MarkFailed(u[t], "aria2")
             /\ UNCHANGED aria2 \/ AddUri(t)
             /\ Fault("rpc")
       /\ u1 = [u EXCEPT ![t] = row]
       /\ d1 = d \ {t}
       /\ disk' = [disk EXCEPT ![t] = IF @ = "absent" THEN "empty" ELSE @]
  /\ UNCHANGED <<db, now>>

Moves(c, s, u, d, c1, s1, u1, d1) ==
  \/ MovesToSync(c, s, u, d, c1, s1, u1, d1)
  \/ MovesSync(c, s, u, d, c1, s1, u1, d1)
  \/ MovesCommit(c, s, u, d, c1, s1, u1, d1)
  \/ MovesCount(c, s, u, d, c1, s1, u1, d1)
  \/ MovesPick(c, s, u, d, c1, s1, u1, d1)
  \/ MovesAdd(c, s, u, d, c1, s1, u1, d1)

\* The rows FillAdd assigns are rows.
LEMMA AddedTypes ==
  ASSUME NodeTypeOK, NEW t \in Tasks, NEW row \in Row
  PROVE  /\ [MarkStarted(row) EXCEPT !.gid = Len(aria2[t]) + 1] \in Row
         /\ MarkFailed(row, "aria2") \in Row
<1>1. "aria2" \in Error /\ Len(aria2[t]) \in Nat /\ now \in Nat
  BY AriaLen DEF NodeTypeOK, Error
<1>2. MarkStarted(row) \in Row /\ MarkFailed(row, "aria2") \in Row
  BY <1>1, MarkTypes
<1> QED
  BY <1>1, <1>2 DEF Row

\* What the first tick does.
LEMMA FirstMoves ==
  ASSUME NodeTypeOK, TickTypeOK, TickStep
  PROVE  /\ Moves(pc, snap, cur, todo, pc', snap', cur', todo')
         /\ slots' \in 0..ConcurrentLimit
<1> DEFINE Goal == Moves(pc, snap, cur, todo, pc', snap', cur', todo')
                     /\ slots' \in 0..ConcurrentLimit
<1>0. slots \in 0..ConcurrentLimit
  BY DEF TickTypeOK
<1>1. CASE SyncLoad
  BY <1>0, <1>1 DEF SyncLoad, Open, Moves, MovesToSync
<1>2. ASSUME NEW t \in Tasks, SyncStatus(t)
      PROVE  Goal
  <2>1. PICK row \in Row : /\ row = Lost(cur[t]) \/ \E st : row = Synced(cur[t], st)
                           /\ Assign(t, row)
    <3>1. cur[t] \in Row /\ now \in Nat
      BY DEF TickTypeOK, NodeTypeOK
    <3> QED
      BY <1>2, <3>1, SyncedType DEF SyncStatus, SyncAnswer, SyncNoAnswer
  <2>2. UNCHANGED faults \/ Fault("rpc")
    BY <1>2 DEF SyncStatus, SyncAnswer, SyncNoAnswer
  <2>3. /\ pc = "sync" /\ t \in todo
        /\ UNCHANGED <<db, aria2, disk, now, pc, snap, slots>>
    BY <1>2 DEF SyncStatus
  <2>4. MovesSync(pc, snap, cur, todo, pc', snap', cur', todo')
    BY <2>1, <2>2, <2>3 DEF MovesSync, Assign
  <2> QED
    BY <1>0, <2>3, <2>4 DEF Moves
<1>3. CASE SyncCommit
  BY <1>0, <1>3 DEF SyncCommit, Closed, Moves, MovesCommit
<1>4. CASE FillCount
  <2>1. Cardinality(InStatus({"downloading"})) \in Nat
    BY SlotsType
  <2>2. slots' \in 0..ConcurrentLimit
    BY <1>4, <2>1, LimitAssumption DEF FillCount
  <2> QED
    BY <1>4, <2>2 DEF FillCount, Moves, MovesCount
<1>5. CASE FillPick
  BY <1>0, <1>5 DEF FillPick, Open, Moves, MovesPick
<1>6. ASSUME NEW t \in Tasks, FillAdd(t)
      PROVE  Goal
  <2>1. PICK row \in Row :
          /\ Assign(t, row)
          /\ \/ /\ row = [MarkStarted(cur[t]) EXCEPT !.gid = Len(aria2[t]) + 1]
                /\ AddUri(t) /\ UNCHANGED faults
             \/ /\ row = MarkFailed(cur[t], "aria2")
                /\ UNCHANGED aria2 \/ AddUri(t)
                /\ Fault("rpc")
    <3>1. cur[t] \in Row
      BY DEF TickTypeOK
    <3> QED
      BY <1>6, <3>1, AddedTypes DEF FillAdd, Added, AddFailed
  <2>2. /\ pc = "fill" /\ t \in todo
        /\ disk' = [disk EXCEPT ![t] = IF @ = "absent" THEN "empty" ELSE @]
        /\ UNCHANGED <<db, now, pc, snap, slots>>
    BY <1>6 DEF FillAdd
  <2>3. MovesAdd(pc, snap, cur, todo, pc', snap', cur', todo')
    BY <2>1, <2>2 DEF MovesAdd, Assign
  <2> QED
    BY <1>0, <2>2, <2>3 DEF Moves
<1>7. CASE FillCommit
  BY <1>0, <1>7 DEF FillCommit, Closed, Moves, MovesCommit
<1> QED
  BY <1>1, <1>2, <1>3, <1>4, <1>5, <1>6, <1>7 DEF TickStep

\* The second tick is made of the same definitions.
LEMMA SecondIs ==
  /\ Second!Row = Row
  /\ \A S : Second!InStatus(S) = InStatus(S)
  /\ \A S : Second!Load(S) = Load(S)
  /\ \A row : Second!Lost(row) = Lost(row)
  /\ \A row, st : Second!Synced(row, st) = Synced(row, st)
  /\ \A row : Second!MarkStarted(row) = MarkStarted(row)
  /\ \A row, error : Second!MarkFailed(row, error) = MarkFailed(row, error)
  /\ \A s, u : Second!Flush(s, u) = Flush(s, u)
  /\ Second!EmptySession = EmptySession
  /\ Second!NoGid = NoGid
<1>1. Second!NoRow = NoRow /\ Second!NoGid = NoGid /\ Second!NoTime = NoTime
  BY DEF Second!NoRow, NoRow, Second!NoGid, NoGid, Second!NoTime, NoTime
<1>2. \A S : Second!InStatus(S) = InStatus(S)
  BY DEF Second!InStatus, InStatus
<1>3. (\A S : Second!Load(S) = Load(S)) /\ Second!EmptySession = EmptySession
  BY <1>1 DEF Second!Load, Load, Second!EmptySession, EmptySession
<1>4. \A row : /\ Second!MarkStarted(row) = MarkStarted(row)
               /\ Second!MarkCompleted(row) = MarkCompleted(row)
               /\ Second!Stamp(row) = Stamp(row)
  BY <1>1 DEF Second!MarkStarted, MarkStarted, Second!MarkCompleted, MarkCompleted, Second!Stamp,
              Stamp
<1>5. \A row, error : Second!MarkFailed(row, error) = MarkFailed(row, error)
  BY <1>4 DEF Second!MarkFailed, MarkFailed
<1>6. (\A row : Second!Lost(row) = Lost(row)) /\ (\A row, st : Second!Synced(row, st) = Synced(row, st))
  BY <1>4, <1>5 DEF Second!Lost, Lost, Second!Synced, Synced
<1>7. \A s, u : Second!Flush(s, u) = Flush(s, u)
  BY DEF Second!Flush, Flush, Second!FlushRow, FlushRow, Second!Column, Column
<1>8. Second!Row = Row
  BY <1>1 DEF Second!Row, Row, Second!Status, Status, Second!Error, Error
<1> QED
  BY <1>1, <1>2, <1>3, <1>4, <1>5, <1>6, <1>7, <1>8

\* The second tick moves like the first.
LEMMA SecondMoves ==
  ASSUME NodeTypeOK, Second!TickTypeOK, Second!TickStep
  PROVE  /\ Moves(pc2, snap2, cur2, todo2, pc2', snap2', cur2', todo2')
         /\ slots2' \in 0..ConcurrentLimit
<1> DEFINE Goal == Moves(pc2, snap2, cur2, todo2, pc2', snap2', cur2', todo2')
                     /\ slots2' \in 0..ConcurrentLimit
<1> USE SecondIs
<1>0. slots2 \in 0..ConcurrentLimit
  BY DEF Second!TickTypeOK
<1>1. CASE Second!SyncLoad
  BY <1>0, <1>1 DEF Second!SyncLoad, Second!Open, Second!nodeVars, nodeVars, Moves, MovesToSync
<1>2. ASSUME NEW t \in Tasks, Second!SyncStatus(t)
      PROVE  Goal
  <2>1. PICK row \in Row : /\ row = Lost(cur2[t]) \/ \E st : row = Synced(cur2[t], st)
                           /\ Second!Assign(t, row)
    <3>1. cur2[t] \in Row /\ now \in Nat
      BY DEF Second!TickTypeOK, NodeTypeOK
    <3> QED
      BY <1>2, <3>1, SyncedType DEF Second!SyncStatus, Second!SyncAnswer, Second!SyncNoAnswer
  <2>2. UNCHANGED faults \/ Fault("rpc")
    BY <1>2 DEF Second!SyncStatus, Second!SyncAnswer, Second!SyncNoAnswer, Second!Fault, Fault
  <2>3. /\ pc2 = "sync" /\ t \in todo2
        /\ UNCHANGED <<db, aria2, disk, now, pc2, snap2, slots2>>
    BY <1>2 DEF Second!SyncStatus
  <2>4. MovesSync(pc2, snap2, cur2, todo2, pc2', snap2', cur2', todo2')
    BY <2>1, <2>2, <2>3 DEF MovesSync, Second!Assign
  <2> QED
    BY <1>0, <2>3, <2>4 DEF Moves
<1>3. CASE Second!SyncCommit
  BY <1>0, <1>3 DEF Second!SyncCommit, Second!Closed, Moves, MovesCommit
<1>4. CASE Second!FillCount
  <2>1. PICK busy \in Nat : busy = Cardinality(Second!InStatus({"downloading"}))
    BY SlotsType
  <2>2. slots2' = IF busy < ConcurrentLimit THEN ConcurrentLimit - busy ELSE 0
    <3>1. Second!Cardinality(Second!InStatus({"downloading"}))
            = Cardinality(Second!InStatus({"downloading"}))
      BY DEF Second!Cardinality, Cardinality
    <3> QED
      BY <1>4, <2>1, <3>1 DEF Second!FillCount
  <2>3. slots2' \in 0..ConcurrentLimit
    BY <2>1, <2>2, LimitAssumption
  <2> QED
    BY <1>4, <2>3 DEF Second!FillCount, Second!nodeVars, nodeVars, Moves, MovesCount
<1>5. CASE Second!FillPick
  BY <1>0, <1>5 DEF Second!FillPick, Second!Open, Second!nodeVars, nodeVars, Moves, MovesPick
<1>6. ASSUME NEW t \in Tasks, Second!FillAdd(t)
      PROVE  Goal
  <2>1. PICK row \in Row :
          /\ Second!Assign(t, row)
          /\ \/ /\ row = [MarkStarted(cur2[t]) EXCEPT !.gid = Len(aria2[t]) + 1]
                /\ AddUri(t) /\ UNCHANGED faults
             \/ /\ row = MarkFailed(cur2[t], "aria2")
                /\ UNCHANGED aria2 \/ AddUri(t)
                /\ Fault("rpc")
    <3>1. cur2[t] \in Row
      BY DEF Second!TickTypeOK
    <3> QED
      BY <1>6, <3>1, AddedTypes
      DEF Second!FillAdd, Second!Added, Second!AddFailed, Second!AddUri, AddUri, Second!Fault, Fault
  <2>2. /\ pc2 = "fill" /\ t \in todo2
        /\ disk' = [disk EXCEPT ![t] = IF @ = "absent" THEN "empty" ELSE @]
        /\ UNCHANGED <<db, now, pc2, snap2, slots2>>
    BY <1>6 DEF Second!FillAdd
  <2>3. MovesAdd(pc2, snap2, cur2, todo2, pc2', snap2', cur2', todo2')
    BY <2>1, <2>2 DEF MovesAdd, Second!Assign
  <2> QED
    BY <1>0, <2>2, <2>3 DEF Moves
<1>7. CASE Second!FillCommit
  BY <1>0, <1>7 DEF Second!FillCommit, Second!Closed, Moves, MovesCommit
<1> QED
  BY <1>1, <1>2, <1>3, <1>4, <1>5, <1>6, <1>7 DEF Second!TickStep

-----------------------------------------------------------------------------
(* What a move preserves. *)

Session == [Tasks -> Row]

\* Rows, lists of downloads and the session of a tick fit each other: SessionSound, of any
\* rows and lists.
Fits(rows, lists, c, s, u, d) ==
  /\ d \subseteq Loaded(s)
  /\ c \notin {"sync", "fill"} => Loaded(s) = {}
  /\ \A t \in Tasks :
       IF s[t].status = "none"
       THEN u[t] = s[t]
       ELSE Held(c, rows[t], Len(lists[t]), s[t], u[t], t \in d)

Rows == \A t \in Tasks : RowSound(db[t], Len(aria2[t]))

\* What one tick does to the rows and lists, as the other sees it.
Onward(rows, rows2, lists, lists2) ==
  \A t \in Tasks : Gains(rows[t], rows2[t]) /\ Len(lists[t]) <= Len(lists2[t])

LEMMA FitsOnward ==
  ASSUME NEW rows \in Session, NEW rows2 \in Session,
         NEW lists \in [Tasks -> Seq(AriaStatus)], NEW lists2 \in [Tasks -> Seq(AriaStatus)],
         NEW c, NEW s \in Session, NEW u \in Session, NEW d,
         Fits(rows, lists, c, s, u, d), Onward(rows, rows2, lists, lists2)
  PROVE  Fits(rows2, lists2, c, s, u, d)
<1>1. ASSUME NEW t \in Tasks, s[t].status # "none"
      PROVE  Held(c, rows2[t], Len(lists2[t]), s[t], u[t], t \in d)
  <2>1. /\ rows[t] \in Row /\ rows2[t] \in Row /\ s[t] \in Row /\ u[t] \in Row
        /\ Len(lists[t]) \in Nat /\ Len(lists2[t]) \in Nat
    BY DEF Session
  <2>2. /\ Held(c, rows[t], Len(lists[t]), s[t], u[t], t \in d)
        /\ Gains(rows[t], rows2[t]) /\ Len(lists[t]) <= Len(lists2[t])
    BY <1>1 DEF Fits, Onward
  <2>3. PICK due \in BOOLEAN : due <=> t \in d
    OBVIOUS
  <2>4. Held(c, rows[t], Len(lists[t]), s[t], u[t], due)
    BY <2>2, <2>3 DEF Held
  <2>5. Held(c, rows2[t], Len(lists2[t]), s[t], u[t], due)
    BY <2>1, <2>2, <2>4, HeldGains
  <2> QED
    BY <2>3, <2>5 DEF Held
<1> QED
  BY <1>1 DEF Fits

LEMMA GainsSelf == \A row : Gains(row, row)
  BY DEF Gains

\* A move keeps the types, of what it shares and of its session.
LEMMA MovesTypes ==
  ASSUME NodeTypeOK, NEW c \in TickPc, NEW s \in Session, NEW u \in Session,
         NEW d \in SUBSET Tasks, NEW c1, NEW s1, NEW u1, NEW d1,
         Moves(c, s, u, d, c1, s1, u1, d1)
  PROVE  /\ NodeTypeOK'
         /\ c1 \in TickPc /\ s1 \in Session /\ u1 \in Session /\ d1 \in SUBSET Tasks
         /\ faults' \in Nat /\ faults <= faults'
<1> DEFINE Goal == /\ NodeTypeOK'
                   /\ c1 \in TickPc /\ s1 \in Session /\ u1 \in Session /\ d1 \in SUBSET Tasks
                   /\ faults' \in Nat /\ faults <= faults'
<1>0. faults \in Nat
  BY FaultAssumption DEF NodeTypeOK
<1>1. CASE MovesToSync(c, s, u, d, c1, s1, u1, d1)
  <2>1. d1 \in SUBSET Tasks
    BY <1>1 DEF MovesToSync, InStatus
  <2>2. s1 \in Session
    BY <1>1, LoadType DEF MovesToSync, NodeTypeOK, Session
  <2> QED
    BY <1>0, <1>1, <2>1, <2>2 DEF MovesToSync, nodeVars, NodeTypeOK, TickPc
<1>2. CASE MovesSync(c, s, u, d, c1, s1, u1, d1)
  <2>1. u1 \in Session /\ d1 \in SUBSET Tasks
    BY <1>2 DEF MovesSync, Session
  <2>2. faults' \in 0..MaxFaults /\ faults <= faults'
    BY <1>0, <1>2, FaultType DEF MovesSync, NodeTypeOK
  <2> QED
    BY <1>2, <2>1, <2>2, FaultAssumption DEF MovesSync, NodeTypeOK
<1>3. CASE MovesCommit(c, s, u, d, c1, s1, u1, d1)
  <2>1. db' \in [Tasks -> Row]
    BY <1>3, FlushType DEF MovesCommit, NodeTypeOK, Session
  <2>2. s1 \in Session /\ u1 \in Session /\ d1 \in SUBSET Tasks /\ c1 \in TickPc
    BY <1>3, EmptySessionType DEF MovesCommit, Session, TickPc
  <2> QED
    BY <1>0, <1>3, <2>1, <2>2 DEF MovesCommit, NodeTypeOK
<1>4. CASE MovesCount(c, s, u, d, c1, s1, u1, d1)
  BY <1>0, <1>4 DEF MovesCount, nodeVars, NodeTypeOK, TickPc
<1>5. CASE MovesPick(c, s, u, d, c1, s1, u1, d1)
  <2>1. d1 \in SUBSET Tasks
    BY <1>5 DEF MovesPick, InStatus
  <2>2. s1 \in Session
    BY <1>5, LoadType DEF MovesPick, NodeTypeOK, Session
  <2> QED
    BY <1>0, <1>5, <2>1, <2>2 DEF MovesPick, nodeVars, NodeTypeOK, TickPc
<1>6. CASE MovesAdd(c, s, u, d, c1, s1, u1, d1)
  <2>1. PICK t \in d, row \in Row :
          /\ UNCHANGED aria2 \/ AddUri(t)
          /\ UNCHANGED faults \/ Fault("rpc")
          /\ u1 = [u EXCEPT ![t] = row]
          /\ d1 = d \ {t}
          /\ disk' = [disk EXCEPT ![t] = IF @ = "absent" THEN "empty" ELSE @]
    BY <1>6 DEF MovesAdd
  <2>2. t \in Tasks /\ u1 \in Session /\ d1 \in SUBSET Tasks
    BY <2>1 DEF Session
  <2>3. faults' \in 0..MaxFaults /\ faults <= faults'
    BY <1>0, <2>1, FaultType DEF NodeTypeOK
  <2>4. aria2' \in [Tasks -> Seq(AriaStatus)]
    BY <2>1, <2>2, AriaAppend DEF AddUri, NodeTypeOK
  <2>5. disk' \in [Tasks -> Dir]
    BY <2>1 DEF NodeTypeOK, Dir
  <2> QED
    BY <1>6, <2>2, <2>3, <2>4, <2>5, FaultAssumption DEF MovesAdd, NodeTypeOK
<1> QED
  BY <1>1, <1>2, <1>3, <1>4, <1>5, <1>6 DEF Moves

\* An assignment to one row of a session.
LEMMA FitsAssign ==
  ASSUME NEW rows \in Session, NEW lists \in [Tasks -> Seq(AriaStatus)], NEW c \in {"sync", "fill"},
         NEW s \in Session, NEW u \in Session, NEW d \in SUBSET Tasks,
         NEW u1, NEW d1, NEW t \in d, NEW row,
         Fits(rows, lists, c, s, u, d),
         u1 = [u EXCEPT ![t] = row], d1 = d \ {t},
         Held(c, rows[t], Len(lists[t]), s[t], u[t], TRUE) =>
           Held(c, rows[t], Len(lists[t]), s[t], row, FALSE)
  PROVE  Fits(rows, lists, c, s, u1, d1)
<1>1. t \in Tasks /\ s[t].status # "none"
  BY DEF Fits, Loaded
<1>2. Held(c, rows[t], Len(lists[t]), s[t], u[t], t \in d)
  BY <1>1 DEF Fits
<1>3. Held(c, rows[t], Len(lists[t]), s[t], u[t], TRUE)
  BY <1>2 DEF Held
<1>4. Held(c, rows[t], Len(lists[t]), s[t], u1[t], t \in d1)
  BY <1>1, <1>3 DEF Held, Session
<1>5. ASSUME NEW x \in Tasks, x # t
      PROVE  u1[x] = u[x] /\ (x \in d1 <=> x \in d)
  BY <1>5 DEF Session
<1>6. ASSUME NEW x \in Tasks, x # t, s[x].status # "none"
      PROVE  Held(c, rows[x], Len(lists[x]), s[x], u1[x], x \in d1)
  BY <1>5, <1>6 DEF Fits, Held
<1>7. ASSUME NEW x \in Tasks, s[x].status = "none"
      PROVE  u1[x] = s[x]
  BY <1>1, <1>5, <1>7 DEF Fits
<1> QED
  BY <1>4, <1>6, <1>7 DEF Fits

\* A session that has just loaded the rows of S.
LEMMA FitsLoad ==
  ASSUME NEW rows \in Session, NEW lists \in [Tasks -> Seq(AriaStatus)], NEW c \in {"sync", "fill"},
         NEW S \in SUBSET Tasks, NEW s1,
         s1 = [t \in Tasks |-> IF t \in S THEN rows[t] ELSE NoRow],
         \A t \in S : rows[t].status # "none" /\ RowSound(rows[t], Len(lists[t])),
         \A t \in S : rows[t].status = IF c = "sync" THEN "downloading" ELSE "queued"
  PROVE  Fits(rows, lists, c, s1, s1, S)
<1>1. Loaded(s1) = S
  BY DEF Loaded, NoRow
<1>2. ASSUME NEW t \in S
      PROVE  Held(c, rows[t], Len(lists[t]), rows[t], rows[t], TRUE)
  <2>1. rows[t] \in Row /\ rows[t].status # "none" /\ RowSound(rows[t], Len(lists[t]))
    BY DEF Session
  <2>2. CASE c = "sync"
    BY <2>1, <2>2 DEF Held, RowSound
  <2>3. CASE c = "fill"
    <3>1. rows[t] = QueuedRow
      BY <2>1, <2>3 DEF RowSound, QueuedRow
    <3> QED
      BY <2>1, <2>3, <3>1 DEF Held, RowSound
  <2> QED
    BY <2>2, <2>3
<1>3. ASSUME NEW t \in Tasks, s1[t].status # "none"
      PROVE  Held(c, rows[t], Len(lists[t]), s1[t], s1[t], t \in S)
  <2>1. t \in S /\ s1[t] = rows[t]
    BY <1>3 DEF NoRow
  <2> QED
    BY <1>2, <2>1 DEF Held
<1> QED
  BY <1>1, <1>3 DEF Fits

\* An answer takes neither a path nor a time from a downloading row.
LEMMA SyncedGains ==
  ASSUME NEW row \in Row, row.status = "downloading", now \in Nat, NEW st,
         NEW new, new = Synced(row, st) \/ new = Lost(row)
  PROVE  (row.path => new.path) /\ (row.completedAt # NoTime => new.completedAt # NoTime)
<1>1. \/ new = [MarkCompleted(row) EXCEPT !.path = TRUE]
      \/ new = MarkFailed(row, "aria2")
      \/ new = row
  BY DEF Synced, Lost
<1>2. CASE new = [MarkCompleted(row) EXCEPT !.path = TRUE]
  BY <1>2 DEF MarkCompleted, Row, NoTime
<1>3. CASE new = MarkFailed(row, "aria2")
  BY <1>3 DEF MarkFailed, Stamp, Row, NoTime
<1>4. CASE new = row
  BY <1>4
<1> QED
  BY <1>1, <1>2, <1>3, <1>4

\* A move keeps rows sound and its own session fitting, and lets rows only gain.
LEMMA MovesKeep ==
  ASSUME NodeTypeOK, Rows, NEW c \in TickPc, NEW s \in Session, NEW u \in Session,
         NEW d \in SUBSET Tasks, NEW c1, NEW s1, NEW u1, NEW d1,
         Fits(db, aria2, c, s, u, d),
         Moves(c, s, u, d, c1, s1, u1, d1)
  PROVE  /\ Rows'
         /\ Onward(db, db', aria2, aria2')
         /\ Fits(db', aria2', c1, s1, u1, d1)
<1> DEFINE Goal == /\ Rows'
                   /\ Onward(db, db', aria2, aria2')
                   /\ Fits(db', aria2', c1, s1, u1, d1)
<1>0. /\ db \in Session /\ aria2 \in [Tasks -> Seq(AriaStatus)] /\ now \in Nat
      /\ \A t \in Tasks : Len(aria2[t]) \in Nat
  BY DEF NodeTypeOK, Session
<1>a. ASSUME UNCHANGED <<db, aria2>>
      PROVE  Rows' /\ Onward(db, db', aria2, aria2')
  <2>1. db' = db /\ aria2' = aria2
    BY <1>a
  <2> QED
    BY <1>0, <2>1, GainsSelf DEF Rows, Onward
<1>1. CASE MovesToSync(c, s, u, d, c1, s1, u1, d1)
  <2>1. /\ UNCHANGED <<db, aria2>> /\ c1 = "sync" /\ u1 = s1
        /\ s1 = [t \in Tasks |-> IF t \in d1 THEN db[t] ELSE NoRow]
        /\ d1 = {t \in InStatus({"downloading", "queued"}) : db[t].gid # NoGid}
    BY <1>1 DEF MovesToSync, nodeVars, Load
  <2>2. d1 \in SUBSET Tasks
    BY <2>1 DEF InStatus
  <2>3. ASSUME NEW t \in d1
        PROVE  db[t].status = "downloading" /\ RowSound(db[t], Len(aria2[t]))
    <3>1. t \in Tasks /\ db[t].status \in {"downloading", "queued"} /\ db[t].gid # NoGid
      BY <2>1 DEF InStatus
    <3>2. RowSound(db[t], Len(aria2[t]))
      BY <3>1 DEF Rows
    <3>3. db[t].status # "queued"
      BY <3>1, <3>2 DEF RowSound, NoRow
    <3> QED
      BY <3>1, <3>2, <3>3
  <2>4. Fits(db, aria2, c1, s1, s1, d1)
    BY <1>0, <2>1, <2>2, <2>3, FitsLoad
  <2> QED
    BY <1>a, <2>1, <2>4
<1>2. CASE MovesSync(c, s, u, d, c1, s1, u1, d1)
  <2>1. PICK t \in d, row \in Row : /\ row = Lost(u[t]) \/ \E st : row = Synced(u[t], st)
                                    /\ u1 = [u EXCEPT ![t] = row]
                                    /\ d1 = d \ {t}
    BY <1>2 DEF MovesSync
  <2>2. UNCHANGED <<db, aria2>> /\ c = "sync" /\ c1 = c /\ s1 = s
    BY <1>2 DEF MovesSync
  <2>3. u[t] \in Row /\ s[t] \in Row
    BY DEF Session
  <2>4. ASSUME Held(c, db[t], Len(aria2[t]), s[t], u[t], TRUE)
        PROVE  Held(c, db[t], Len(aria2[t]), s[t], row, FALSE)
    <3>1. u[t] = s[t] /\ u[t].status = "downloading"
      BY <2>2, <2>4 DEF Held
    <3>2. /\ row.gid = u[t].gid
          /\ row.status \in {"downloading", "completed", "failed"}
          /\ row.status = "completed" => row.path /\ row.completedAt # NoTime
      BY <1>0, <2>1, <2>3, <3>1, SyncedRow
    <3>3. (u[t].path => row.path) /\ (u[t].completedAt # NoTime => row.completedAt # NoTime)
      BY <1>0, <2>1, <2>3, <3>1, SyncedGains
    <3> QED
      BY <2>2, <2>4, <3>1, <3>2, <3>3 DEF Held
  <2>5. Fits(db, aria2, c, s, u1, d1)
    BY <1>0, <2>1, <2>2, <2>4, FitsAssign
  <2> QED
    BY <1>a, <2>2, <2>5
<1>3. CASE MovesCommit(c, s, u, d, c1, s1, u1, d1)
  <2>1. /\ c \in {"sync", "fill"} /\ c1 \in {"idle", "count"} /\ d = {}
        /\ aria2' = aria2 /\ db' = [t \in Tasks |-> FlushRow(db[t], s[t], u[t])]
        /\ s1 = EmptySession /\ u1 = s1 /\ d1 = {}
    BY <1>3 DEF MovesCommit, Flush
  <2>2. ASSUME NEW t \in Tasks
        PROVE  RowSound(db'[t], Len(aria2'[t])) /\ Gains(db[t], db'[t])
    <3>1. db[t] \in Row /\ s[t] \in Row /\ u[t] \in Row /\ RowSound(db[t], Len(aria2[t]))
      BY <1>0 DEF Session, Rows
    <3>2. CASE s[t].status = "none"
      <4>1. u[t] = s[t]
        BY <3>2 DEF Fits
      <4>2. FlushRow(db[t], s[t], u[t]) = db[t]
        BY <3>1, <4>1 DEF FlushRow, Column, Row
      <4> QED
        BY <2>1, <3>1, <4>2, GainsSelf
    <3>3. CASE s[t].status # "none"
      <4>1. Held(c, db[t], Len(aria2[t]), s[t], u[t], t \in d)
        BY <3>3 DEF Fits
      <4>2. Held(c, db[t], Len(aria2[t]), s[t], u[t], FALSE)
        BY <2>1, <4>1 DEF Held
      <4>3. /\ RowSound(FlushRow(db[t], s[t], u[t]), Len(aria2[t]))
            /\ Gains(db[t], FlushRow(db[t], s[t], u[t]))
        BY <1>0, <2>1, <3>1, <4>2, FlushSound
      <4> QED
        BY <2>1, <4>3
    <3> QED
      BY <3>2, <3>3
  <2>3. Loaded(s1) = {} /\ \A t \in Tasks : s1[t].status = "none"
    BY <2>1 DEF EmptySession, Loaded, NoRow
  <2>4. Fits(db', aria2', c1, s1, u1, d1)
    BY <2>1, <2>3 DEF Fits
  <2> QED
    BY <1>0, <2>1, <2>2, <2>4 DEF Rows, Onward
<1>4. CASE MovesCount(c, s, u, d, c1, s1, u1, d1)
  <2>1. /\ UNCHANGED <<db, aria2>> /\ c = "count" /\ c1 \in {"idle", "pick"}
        /\ s1 = s /\ u1 = u /\ d1 = d
    BY <1>4 DEF MovesCount, nodeVars
  <2>2. Loaded(s) = {} /\ \A t \in Tasks : s[t].status = "none"
    BY <2>1 DEF Fits, Loaded
  <2>3. Fits(db, aria2, c1, s1, u1, d1)
    BY <2>1, <2>2 DEF Fits
  <2> QED
    BY <1>a, <2>1, <2>3
<1>5. CASE MovesPick(c, s, u, d, c1, s1, u1, d1)
  <2>1. /\ UNCHANGED <<db, aria2>> /\ c1 = "fill" /\ u1 = s1
        /\ s1 = [t \in Tasks |-> IF t \in d1 THEN db[t] ELSE NoRow]
        /\ d1 \in SUBSET Tasks /\ \A t \in d1 : db[t].status = "queued"
    BY <1>5 DEF MovesPick, nodeVars, Load, InStatus
  <2>2. Fits(db, aria2, c1, s1, s1, d1)
    BY <1>0, <2>1, FitsLoad DEF Rows
  <2> QED
    BY <1>a, <2>1, <2>2
<1>6. CASE MovesAdd(c, s, u, d, c1, s1, u1, d1)
  <2>1. PICK t \in d, row \in Row :
          /\ \/ /\ row = [MarkStarted(u[t]) EXCEPT !.gid = Len(aria2[t]) + 1]
                /\ AddUri(t)
             \/ /\ row = MarkFailed(u[t], "aria2")
                /\ UNCHANGED aria2 \/ AddUri(t)
          /\ u1 = [u EXCEPT ![t] = row]
          /\ d1 = d \ {t}
    BY <1>6 DEF MovesAdd
  <2>2. db' = db /\ c = "fill" /\ c1 = c /\ s1 = s /\ t \in Tasks
    BY <1>6 DEF MovesAdd
  <2>3. /\ aria2' \in [Tasks -> Seq(AriaStatus)]
        /\ \A x \in Tasks : Len(aria2[x]) <= Len(aria2'[x]) /\ Len(aria2'[x]) \in Nat
        /\ AddUri(t) => Len(aria2'[t]) = Len(aria2[t]) + 1
    <3>1. CASE aria2' = aria2
      <4>1. ~AddUri(t) \/ Len(aria2'[t]) = Len(aria2[t]) + 1
        BY <1>0, <2>2, AriaAppend DEF AddUri
      <4> QED
        BY <1>0, <3>1, <4>1
    <3>2. CASE AddUri(t)
      <4>1. /\ aria2' \in [Tasks -> Seq(AriaStatus)]
            /\ \A x \in Tasks : Len(aria2'[x]) = Len(aria2[x]) + (IF x = t THEN 1 ELSE 0)
        BY <1>0, <2>2, <3>2, AriaAppend DEF AddUri
      <4>2. \A x \in Tasks : Len(aria2[x]) <= Len(aria2'[x]) /\ Len(aria2'[x]) \in Nat
        BY <1>0, <4>1
      <4> QED
        BY <2>2, <4>1, <4>2
    <3> QED
      BY <2>1, <3>1, <3>2
  <2>4. Onward(db, db', aria2, aria2')
    BY <2>2, <2>3, GainsSelf DEF Onward
  <2>5. Rows'
    <3>1. ASSUME NEW x \in Tasks
          PROVE  RowSound(db[x], Len(aria2'[x]))
      BY <1>0, <2>3, SoundGrows DEF Rows, Session
    <3> QED
      BY <2>2, <3>1 DEF Rows
  <2>6. Fits(db', aria2', c, s, u, d)
    BY <1>0, <2>2, <2>3, <2>4, FitsOnward
  <2>7. ASSUME Held(c, db'[t], Len(aria2'[t]), s[t], u[t], TRUE)
        PROVE  Held(c, db'[t], Len(aria2'[t]), s[t], row, FALSE)
    <3>1. u[t] = QueuedRow /\ s[t] = QueuedRow
      BY <2>2, <2>7 DEF Held
    <3>2. QueuedRow.gid = NoGid /\ QueuedRow.path = FALSE /\ QueuedRow.completedAt = NoTime
      BY DEF QueuedRow, NoRow
    <3>3. QueuedRow \in Row
      BY QueuedRowType
    <3>4. CASE row = [MarkStarted(u[t]) EXCEPT !.gid = Len(aria2[t]) + 1] /\ AddUri(t)
      <4>1. row.status = "downloading" /\ row.gid = Len(aria2'[t])
        BY <2>3, <3>1, <3>3, <3>4 DEF MarkStarted, Row
      <4> QED
        BY <1>0, <2>2, <2>3, <2>7, <3>1, <3>2, <3>4, <4>1 DEF Held, NoGid
    <3>5. CASE row = MarkFailed(u[t], "aria2")
      <4>1. row.status = "failed" /\ row.gid = NoGid
        BY <3>1, <3>2, <3>3, <3>5 DEF MarkFailed, Row
      <4> QED
        BY <1>0, <2>2, <2>3, <2>7, <3>1, <3>2, <4>1 DEF Held, NoGid
    <3> QED
      BY <2>1, <3>4, <3>5
  <2>8. db' \in Session
    BY <1>0, <2>2
  <2>9. Fits(db', aria2', c, s, u1, d1)
    BY <2>1, <2>2, <2>3, <2>6, <2>7, <2>8, FitsAssign
  <2> QED
    BY <2>2, <2>4, <2>5, <2>9
<1> QED
  BY <1>1, <1>2, <1>3, <1>4, <1>5, <1>6 DEF Moves

-----------------------------------------------------------------------------
(* How many downloads there are. *)

LEMMA CountsAre ==
  \A t, c, x : Filling(t, c, x) \in 0..1 /\ Due(t, c, x) \in 0..1
  BY DEF Filling, Due

\* Only the pick of a queued row promises a further addUri, and only a fill session that
\* is open keeps a row waiting that has one.
LEMMA MovesOwe ==
  ASSUME NodeTypeOK, Rows, NEW c \in TickPc, NEW s \in Session, NEW u \in Session,
         NEW d \in SUBSET Tasks, NEW c1, NEW s1, NEW u1, NEW d1,
         Fits(db, aria2, c, s, u, d),
         Moves(c, s, u, d, c1, s1, u1, d1),
         NEW t \in Tasks
  PROVE  /\ \/ Len(aria2'[t]) + Due(t, c1, d1) <= Len(aria2[t]) + Due(t, c, d)
            \/ /\ db[t].status = "queued" /\ c = "pick" /\ Filling(t, c, s) = 0
               /\ Len(aria2'[t]) + Due(t, c1, d1) <= Len(aria2[t]) + Due(t, c, d) + 1
         /\ db'[t].status \in {"none", "queued"} =>
              /\ db[t].status \in {"none", "queued"}
              /\ Len(aria2'[t]) + Due(t, c1, d1) + Filling(t, c, s)
                   <= Len(aria2[t]) + Due(t, c, d) + Filling(t, c1, s1)
<1>0. /\ db \in Session /\ aria2 \in [Tasks -> Seq(AriaStatus)]
      /\ \A x \in Tasks : Len(aria2[x]) \in Nat
  BY DEF NodeTypeOK, Session
<1>1. CASE MovesToSync(c, s, u, d, c1, s1, u1, d1)
  BY <1>0, <1>1 DEF MovesToSync, nodeVars, Filling, Due
<1>2. CASE MovesSync(c, s, u, d, c1, s1, u1, d1)
  BY <1>0, <1>2 DEF MovesSync, Filling, Due
<1>3. CASE MovesCommit(c, s, u, d, c1, s1, u1, d1)
  <2>1. /\ c \in {"sync", "fill"} /\ c1 \in {"idle", "count"} /\ d = {}
        /\ aria2' = aria2 /\ db'[t] = FlushRow(db[t], s[t], u[t])
    BY <1>3 DEF MovesCommit, Flush
  <2>2. db[t] \in Row /\ s[t] \in Row /\ u[t] \in Row /\ RowSound(db[t], Len(aria2[t]))
    BY <1>0 DEF Session, Rows
  <2>3. CASE s[t].status = "none"
    <3>1. u[t] = s[t]
      BY <2>3 DEF Fits
    <3>2. db'[t] = db[t]
      BY <2>1, <2>2, <3>1 DEF FlushRow, Column, Row
    <3>3. Filling(t, c, s) = 0 /\ Filling(t, c1, s1) = 0 /\ Due(t, c, d) = 0 /\ Due(t, c1, d1) = 0
      BY <2>1, <2>3 DEF Filling, Due, Loaded
    <3> QED
      BY <1>0, <2>1, <3>2, <3>3
  <2>4. CASE s[t].status # "none"
    <3>1. Held(c, db[t], Len(aria2[t]), s[t], u[t], t \in d)
      BY <2>4 DEF Fits
    <3>2. Held(c, db[t], Len(aria2[t]), s[t], u[t], FALSE)
      BY <2>1, <3>1 DEF Held
    <3>3. db'[t].status \notin {"none", "queued"}
      BY <1>0, <2>1, <2>2, <3>2, FlushSound
    <3>4. Due(t, c, d) = 0 /\ Due(t, c1, d1) = 0
      BY <2>1 DEF Due
    <3> QED
      BY <1>0, <2>1, <3>3, <3>4
  <2> QED
    BY <2>3, <2>4
<1>4. CASE MovesCount(c, s, u, d, c1, s1, u1, d1)
  BY <1>0, <1>4 DEF MovesCount, nodeVars, Filling, Due
<1>5. CASE MovesPick(c, s, u, d, c1, s1, u1, d1)
  <2>1. /\ aria2' = aria2 /\ db' = db /\ c = "pick" /\ c1 = "fill"
        /\ s1 = Load(d1) /\ \A x \in d1 : db[x].status = "queued"
    BY <1>5 DEF MovesPick, nodeVars, InStatus
  <2>2. Filling(t, c, s) = 0 /\ Due(t, c, d) = 0
    BY <2>1 DEF Filling, Due
  <2>3. CASE t \in d1
    <3>1. db[t].status = "queued" /\ s1[t] = db[t]
      BY <2>1, <2>3 DEF Load
    <3>2. Filling(t, c1, s1) = 1 /\ Due(t, c1, d1) = 1
      BY <2>1, <2>3, <3>1 DEF Filling, Due, Loaded
    <3> QED
      BY <1>0, <2>1, <2>2, <3>1, <3>2
  <2>4. CASE t \notin d1
    <3>1. s1[t] = NoRow
      BY <2>1, <2>4 DEF Load
    <3>2. Filling(t, c1, s1) = 0 /\ Due(t, c1, d1) = 0
      BY <2>1, <2>4, <3>1 DEF Filling, Due, Loaded, NoRow
    <3> QED
      BY <1>0, <2>1, <2>2, <3>2
  <2> QED
    BY <2>3, <2>4
<1>6. CASE MovesAdd(c, s, u, d, c1, s1, u1, d1)
  <2>1. PICK x \in d : (UNCHANGED aria2 \/ AddUri(x)) /\ d1 = d \ {x}
    BY <1>6 DEF MovesAdd
  <2>2. db' = db /\ c = "fill" /\ c1 = c /\ s1 = s /\ x \in Tasks
    BY <1>6 DEF MovesAdd
  <2>3. Len(aria2'[t]) = Len(aria2[t]) \/ (t = x /\ Len(aria2'[t]) = Len(aria2[t]) + 1)
    <3>1. CASE aria2' = aria2
      BY <3>1
    <3>2. CASE AddUri(x)
      <4>1. Len(aria2'[t]) = Len(aria2[t]) + (IF t = x THEN 1 ELSE 0)
        BY <1>0, <2>2, <3>2, AriaAppend DEF AddUri
      <4> QED
        BY <1>0, <4>1
    <3> QED
      BY <2>1, <3>1, <3>2
  <2>4. Filling(t, c1, s1) = Filling(t, c, s) /\ Filling(t, c, s) \in {0, 1}
    BY <2>2, CountsAre
  <2>5. CASE t = x
    <3>1. Due(t, c, d) = 1 /\ Due(t, c1, d1) = 0
      BY <2>1, <2>2, <2>5 DEF Due
    <3> QED
      BY <1>0, <2>2, <2>3, <2>4, <3>1
  <2>6. CASE t # x
    <3>1. Due(t, c1, d1) = Due(t, c, d) /\ Due(t, c, d) \in {0, 1}
      BY <2>1, <2>2, <2>6 DEF Due
    <3> QED
      BY <1>0, <2>2, <2>3, <2>4, <2>6, <3>1
  <2> QED
    BY <2>5, <2>6
<1> QED
  BY <1>1, <1>2, <1>3, <1>4, <1>5, <1>6 DEF Moves

-----------------------------------------------------------------------------
(* How many processes can end without a further fault, by their phases. *)

Endable(a, b) ==
  (IF a = "down" THEN 0 ELSE 1) + (IF b = "down" THEN 0 ELSE 1)
    - IF a \in {"down", "stopping"} /\ b \in {"down", "stopping"} THEN 0 ELSE 1

LEMMA EndingsAre ==
  /\ Endings = Endable(phase[1], phase[2])
  /\ Endings' = Endable(phase'[1], phase'[2])
<1>1. (\E p \in Up : phase[p] # "stopping")
        <=> ~(phase[1] \in {"down", "stopping"} /\ phase[2] \in {"down", "stopping"})
  BY DEF Up, Processes
<1>2. (\E p \in Up' : phase'[p] # "stopping")
        <=> ~(phase'[1] \in {"down", "stopping"} /\ phase'[2] \in {"down", "stopping"})
  BY DEF Up, Processes
<1> QED
  BY <1>1, <1>2 DEF Endings, Endable, Running

LEMMA EndableBounds ==
  ASSUME NEW a, NEW b
  PROVE  /\ Endable(a, b) \in 0..2
         /\ a # "down" /\ b # "down" => Endable(a, b) >= 1
  BY DEF Endable

-----------------------------------------------------------------------------
(* The steps of the processes. *)

\* The parts of ProcessInv, as the lemmas above need them.
LEMMA InvParts ==
  ASSUME ProcessInv
  PROVE  /\ NodeTypeOK /\ TickTypeOK /\ ApiTypeOK /\ Second!TickTypeOK
         /\ phase \in [Processes -> Phase] /\ Rows
         /\ Fits(db, aria2, pc, snap, cur, todo) /\ Fits(db, aria2, pc2, snap2, cur2, todo2)
         /\ pc \in TickPc /\ snap \in Session /\ cur \in Session /\ todo \in SUBSET Tasks
         /\ pc2 \in TickPc /\ snap2 \in Session /\ cur2 \in Session /\ todo2 \in SUBSET Tasks
         /\ slots \in 0..ConcurrentLimit /\ slots2 \in 0..ConcurrentLimit
         /\ db \in Session /\ aria2 \in [Tasks -> Seq(AriaStatus)] /\ faults \in Nat
         /\ \A t \in Tasks : Len(aria2[t]) \in Nat
<1>1. NodeTypeOK /\ TickTypeOK /\ ApiTypeOK /\ Second!TickTypeOK /\ phase \in [Processes -> Phase]
  BY DEF ProcessInv, ProcessTypeOK, TypeOK
<1>2. Rows /\ SessionSound(pc, snap, cur, todo) /\ SessionSound(pc2, snap2, cur2, todo2)
  BY DEF ProcessInv, Rows
<1>3. Fits(db, aria2, pc, snap, cur, todo) /\ Fits(db, aria2, pc2, snap2, cur2, todo2)
  BY <1>2 DEF SessionSound, Fits
<1>4. /\ pc \in TickPc /\ snap \in Session /\ cur \in Session /\ todo \in SUBSET Tasks
      /\ slots \in 0..ConcurrentLimit
  BY <1>1 DEF TickTypeOK, Session
<1>5. /\ pc2 \in TickPc /\ snap2 \in Session /\ cur2 \in Session /\ todo2 \in SUBSET Tasks
      /\ slots2 \in 0..ConcurrentLimit
  BY <1>1, SecondIs DEF Second!TickTypeOK, Second!TickPc, TickPc, Session
<1>6. /\ db \in Session /\ aria2 \in [Tasks -> Seq(AriaStatus)] /\ faults \in Nat
      /\ \A t \in Tasks : Len(aria2[t]) \in Nat
  BY <1>1, FaultAssumption DEF NodeTypeOK, Session
<1> QED
  BY <1>1, <1>2, <1>3, <1>4, <1>5, <1>6

\* ... and back.
LEMMA InvFrom ==
  ASSUME NodeTypeOK', ApiTypeOK', phase' \in [Processes -> Phase],
         pc' \in TickPc, snap' \in Session, cur' \in Session, todo' \in SUBSET Tasks,
         pc2' \in TickPc, snap2' \in Session, cur2' \in Session, todo2' \in SUBSET Tasks,
         slots' \in 0..ConcurrentLimit, slots2' \in 0..ConcurrentLimit,
         Rows', Fits(db', aria2', pc', snap', cur', todo'),
         Fits(db', aria2', pc2', snap2', cur2', todo2'),
         (pc # "idle" => Looping(1))', (pc2 # "idle" => Looping(2))',
         (\A t \in Tasks : AddsOwed(t))'
  PROVE  ProcessInv'
<1>1. TickTypeOK'
  BY DEF TickTypeOK, Session
<1>2. Second!TickTypeOK'
  BY SecondIs DEF Second!TickTypeOK, Second!TickPc, TickPc, Session
<1>3. SessionSound(pc, snap, cur, todo)'
  BY DEF SessionSound, Fits
<1>4. SessionSound(pc2, snap2, cur2, todo2)'
  BY DEF SessionSound, Fits
<1>5. (\A t \in Tasks : RowSound(db[t], Len(aria2[t])))'
  BY DEF Rows
<1>6. ProcessTypeOK'
  BY <1>1, <1>2 DEF ProcessTypeOK, TypeOK
<1> QED
  BY <1>3, <1>4, <1>5, <1>6 DEF ProcessInv

\* What AddsOwed counts, with the numbers named, in this state and in the next.
LEMMA AddsAre ==
  ASSUME NEW t, NEW n \in Nat, NEW due \in 0..1, NEW due2 \in 0..1,
         NEW own \in 0..1, NEW own2 \in 0..1, NEW e \in 0..2, NEW f \in Nat
  PROVE  /\ (/\ n = Len(aria2[t]) /\ f = faults /\ e = Endings
             /\ due = Due(t, pc, todo) /\ due2 = Due(t, pc2, todo2)
             /\ own = Filling(t, pc, snap) /\ own2 = Filling(t, pc2, snap2))
            => (AddsOwed(t) <=>
                  /\ n + due + due2 <= 1 + f
                  /\ db[t].status \in {"none", "queued"} => n + due + due2 + e <= f + own + own2)
         /\ (/\ n = Len(aria2'[t]) /\ f = faults' /\ e = Endings'
             /\ due = Due(t, pc', todo') /\ due2 = Due(t, pc2', todo2')
             /\ own = Filling(t, pc', snap') /\ own2 = Filling(t, pc2', snap2'))
            => (AddsOwed(t)' <=>
                  /\ n + due + due2 <= 1 + f
                  /\ db'[t].status \in {"none", "queued"} => n + due + due2 + e <= f + own + own2)
  BY DEF AddsOwed

LEMMA FirstTickInv ==
  ASSUME ProcessInv, Looping(1), TickStep, UNCHANGED <<secondVars, phase, req>>
  PROVE  ProcessInv'
<1>1. Looping(1) /\ TickStep /\ UNCHANGED <<secondVars, phase, req>>
  OBVIOUS
<1>2. /\ Moves(pc, snap, cur, todo, pc', snap', cur', todo')
      /\ slots' \in 0..ConcurrentLimit
  BY <1>1, InvParts, FirstMoves
<1>3. /\ NodeTypeOK'
      /\ pc' \in TickPc /\ snap' \in Session /\ cur' \in Session /\ todo' \in SUBSET Tasks
      /\ faults' \in Nat /\ faults <= faults'
  BY <1>2, InvParts, MovesTypes
<1>4. /\ Rows' /\ Onward(db, db', aria2, aria2')
      /\ Fits(db', aria2', pc', snap', cur', todo')
  BY <1>2, InvParts, MovesKeep
<1>5. /\ pc2' = pc2 /\ snap2' = snap2 /\ cur2' = cur2 /\ todo2' = todo2
      /\ slots2' = slots2 /\ phase' = phase /\ req' = req
  BY <1>1 DEF secondVars
<1>6. db' \in Session /\ aria2' \in [Tasks -> Seq(AriaStatus)]
  BY <1>3 DEF NodeTypeOK, Session
<1>7. Fits(db', aria2', pc2', snap2', cur2', todo2')
  BY <1>4, <1>5, <1>6, InvParts, FitsOnward
<1>8. (pc # "idle" => Looping(1))' /\ (pc2 # "idle" => Looping(2))'
  BY <1>1, <1>5 DEF ProcessInv, Looping
<1>9. ASSUME NEW t \in Tasks
      PROVE  AddsOwed(t)'
  <2>1. PICK n \in Nat, n1 \in Nat : n = Len(aria2[t]) /\ n1 = Len(aria2'[t])
    BY <1>6, InvParts
  <2>2. PICK due \in 0..1, due1 \in 0..1 :
          due = Due(t, pc, todo) /\ due1 = Due(t, pc', todo')
    BY CountsAre
  <2>3. PICK own \in 0..1, own1 \in 0..1 :
          own = Filling(t, pc, snap) /\ own1 = Filling(t, pc', snap')
    BY CountsAre
  <2>4. PICK other \in 0..1, filling \in 0..1 :
          /\ other = Due(t, pc2, todo2) /\ other = Due(t, pc2', todo2')
          /\ filling = Filling(t, pc2, snap2) /\ filling = Filling(t, pc2', snap2')
    BY <1>5, CountsAre
  <2>5. PICK e \in 0..2 : e = Endings /\ e = Endings'
    BY <1>5, EndingsAre, EndableBounds
  <2>6. PICK f \in Nat, f1 \in Nat : f = faults /\ f1 = faults' /\ f <= f1
    BY <1>3, InvParts
  <2>7. PICK waits \in BOOLEAN, waits1 \in BOOLEAN :
          /\ waits <=> db[t].status \in {"none", "queued"}
          /\ waits1 <=> db'[t].status \in {"none", "queued"}
    OBVIOUS
  <2>8. /\ n + due + other <= 1 + f
        /\ waits => n + due + other + e <= f + own + filling
    <3>1. AddsOwed(t)
      BY DEF ProcessInv
    <3> QED
      BY <2>1, <2>2, <2>3, <2>4, <2>5, <2>6, <2>7, <3>1, AddsAre
  <2>9. /\ \/ n1 + due1 <= n + due
           \/ waits /\ own = 0 /\ n1 + due1 <= n + due + 1
        /\ waits1 => waits /\ n1 + due1 + own <= n + due + own1
    <3>1. /\ \/ Len(aria2'[t]) + Due(t, pc', todo') <= Len(aria2[t]) + Due(t, pc, todo)
             \/ /\ db[t].status = "queued" /\ pc = "pick" /\ Filling(t, pc, snap) = 0
                /\ Len(aria2'[t]) + Due(t, pc', todo')
                     <= Len(aria2[t]) + Due(t, pc, todo) + 1
          /\ db'[t].status \in {"none", "queued"} =>
               /\ db[t].status \in {"none", "queued"}
               /\ Len(aria2'[t]) + Due(t, pc', todo') + Filling(t, pc, snap)
                    <= Len(aria2[t]) + Due(t, pc, todo) + Filling(t, pc', snap')
      BY <1>2, InvParts, MovesOwe
    <3> QED
      BY <2>1, <2>2, <2>3, <2>7, <3>1
  <2>a. filling = 1 => e >= 1
    <3>1. filling = 1 => pc2 # "idle"
      BY <2>4 DEF Filling
    <3>2. pc2 # "idle" => phase[1] # "down" /\ phase[2] # "down"
      BY <1>1 DEF ProcessInv, Looping
    <3> QED
      BY <2>5, <3>1, <3>2, EndingsAre, EndableBounds
  <2>b. /\ n1 + due1 + other <= 1 + f1
        /\ waits1 => n1 + due1 + other + e <= f1 + own1 + filling
    <3>1. f <= f1
      BY <2>6
    <3> QED
      BY <2>8, <2>9, <2>a, <3>1
  <2> QED
    BY <2>1, <2>2, <2>3, <2>4, <2>5, <2>6, <2>7, <2>b, AddsAre
<1> QED
  BY <1>2, <1>3, <1>4, <1>5, <1>7, <1>8, <1>9, InvParts, InvFrom DEF ApiTypeOK

LEMMA SecondTickInv ==
  ASSUME ProcessInv, Looping(2), Second!TickStep, UNCHANGED <<tickVars, phase, req>>
  PROVE  ProcessInv'
<1>1. Looping(2) /\ Second!TickStep /\ UNCHANGED <<tickVars, phase, req>>
  OBVIOUS
<1>2. /\ Moves(pc2, snap2, cur2, todo2, pc2', snap2', cur2', todo2')
      /\ slots2' \in 0..ConcurrentLimit
  BY <1>1, InvParts, SecondMoves
<1>3. /\ NodeTypeOK'
      /\ pc2' \in TickPc /\ snap2' \in Session /\ cur2' \in Session /\ todo2' \in SUBSET Tasks
      /\ faults' \in Nat /\ faults <= faults'
  BY <1>2, InvParts, MovesTypes
<1>4. /\ Rows' /\ Onward(db, db', aria2, aria2')
      /\ Fits(db', aria2', pc2', snap2', cur2', todo2')
  BY <1>2, InvParts, MovesKeep
<1>5. /\ pc' = pc /\ snap' = snap /\ cur' = cur /\ todo' = todo
      /\ slots' = slots /\ phase' = phase /\ req' = req
  BY <1>1 DEF tickVars
<1>6. db' \in Session /\ aria2' \in [Tasks -> Seq(AriaStatus)]
  BY <1>3 DEF NodeTypeOK, Session
<1>7. Fits(db', aria2', pc', snap', cur', todo')
  BY <1>4, <1>5, <1>6, InvParts, FitsOnward
<1>8. (pc # "idle" => Looping(1))' /\ (pc2 # "idle" => Looping(2))'
  BY <1>1, <1>5 DEF ProcessInv, Looping
<1>9. ASSUME NEW t \in Tasks
      PROVE  AddsOwed(t)'
  <2>1. PICK n \in Nat, n1 \in Nat : n = Len(aria2[t]) /\ n1 = Len(aria2'[t])
    BY <1>6, InvParts
  <2>2. PICK due \in 0..1, due1 \in 0..1 :
          due = Due(t, pc2, todo2) /\ due1 = Due(t, pc2', todo2')
    BY CountsAre
  <2>3. PICK own \in 0..1, own1 \in 0..1 :
          own = Filling(t, pc2, snap2) /\ own1 = Filling(t, pc2', snap2')
    BY CountsAre
  <2>4. PICK other \in 0..1, filling \in 0..1 :
          /\ other = Due(t, pc, todo) /\ other = Due(t, pc', todo')
          /\ filling = Filling(t, pc, snap) /\ filling = Filling(t, pc', snap')
    BY <1>5, CountsAre
  <2>5. PICK e \in 0..2 : e = Endings /\ e = Endings'
    BY <1>5, EndingsAre, EndableBounds
  <2>6. PICK f \in Nat, f1 \in Nat : f = faults /\ f1 = faults' /\ f <= f1
    BY <1>3, InvParts
  <2>7. PICK waits \in BOOLEAN, waits1 \in BOOLEAN :
          /\ waits <=> db[t].status \in {"none", "queued"}
          /\ waits1 <=> db'[t].status \in {"none", "queued"}
    OBVIOUS
  <2>8. /\ n + due + other <= 1 + f
        /\ waits => n + due + other + e <= f + own + filling
    <3>1. AddsOwed(t)
      BY DEF ProcessInv
    <3>2. /\ n + other + due <= 1 + f
          /\ db[t].status \in {"none", "queued"} => n + other + due + e <= f + filling + own
      BY <2>1, <2>2, <2>3, <2>4, <2>5, <2>6, <3>1, AddsAre
    <3> QED
      BY <2>7, <3>2
  <2>9. /\ \/ n1 + due1 <= n + due
           \/ waits /\ own = 0 /\ n1 + due1 <= n + due + 1
        /\ waits1 => waits /\ n1 + due1 + own <= n + due + own1
    <3>1. /\ \/ Len(aria2'[t]) + Due(t, pc2', todo2') <= Len(aria2[t]) + Due(t, pc2, todo2)
             \/ /\ db[t].status = "queued" /\ pc2 = "pick" /\ Filling(t, pc2, snap2) = 0
                /\ Len(aria2'[t]) + Due(t, pc2', todo2')
                     <= Len(aria2[t]) + Due(t, pc2, todo2) + 1
          /\ db'[t].status \in {"none", "queued"} =>
               /\ db[t].status \in {"none", "queued"}
               /\ Len(aria2'[t]) + Due(t, pc2', todo2') + Filling(t, pc2, snap2)
                    <= Len(aria2[t]) + Due(t, pc2, todo2) + Filling(t, pc2', snap2')
      BY <1>2, InvParts, MovesOwe
    <3> QED
      BY <2>1, <2>2, <2>3, <2>7, <3>1
  <2>a. filling = 1 => e >= 1
    <3>1. filling = 1 => pc # "idle"
      BY <2>4 DEF Filling
    <3>2. pc # "idle" => phase[1] # "down" /\ phase[2] # "down"
      BY <1>1 DEF ProcessInv, Looping
    <3> QED
      BY <2>5, <3>1, <3>2, EndingsAre, EndableBounds
  <2>b. /\ n1 + due1 + other <= 1 + f1
        /\ waits1 => n1 + due1 + other + e <= f1 + own1 + filling
    <3>1. f <= f1
      BY <2>6
    <3> QED
      BY <2>8, <2>9, <2>a, <3>1
  <2>c. /\ n1 + other + due1 <= 1 + f1
        /\ db'[t].status \in {"none", "queued"} => n1 + other + due1 + e <= f1 + filling + own1
    BY <2>7, <2>b
  <2> QED
    BY <2>1, <2>2, <2>3, <2>4, <2>5, <2>6, <2>c, AddsAre
<1> QED
  BY <1>2, <1>3, <1>4, <1>5, <1>7, <1>8, <1>9, InvParts, InvFrom DEF ApiTypeOK

-----------------------------------------------------------------------------
(* The other steps: no addUri, and at most one session that is lost. *)

LEMMA FitsEmpty ==
  ASSUME NEW rows, NEW lists, NEW c
  PROVE  Fits(rows, lists, c, EmptySession, EmptySession, {})
<1>1. Loaded(EmptySession) = {} /\ \A t \in Tasks : EmptySession[t].status = "none"
  BY DEF EmptySession, Loaded, NoRow
<1> QED
  BY <1>1 DEF Fits

LEMMA EmptyCounts ==
  \A t, c : t \in Tasks => Filling(t, c, EmptySession) = 0 /\ Due(t, c, {}) = 0
  BY DEF Filling, Due, Loaded, EmptySession, NoRow

FirstLost == pc' = "idle" /\ Closed /\ UNCHANGED slots

SecondLost == pc2' = "idle" /\ Second!Closed /\ UNCHANGED slots2

\* What a session that is kept or lost still counts.
LEMMA FirstCounts ==
  ASSUME UNCHANGED tickVars \/ FirstLost, NEW t \in Tasks
  PROVE  /\ Due(t, pc', todo') = Due(t, pc, todo) \/ Due(t, pc', todo') = 0
         /\ \/ Filling(t, pc', snap') = Filling(t, pc, snap)
            \/ FirstLost /\ Filling(t, pc', snap') = 0
  BY EmptyCounts DEF tickVars, FirstLost, Closed

LEMMA SecondCounts ==
  ASSUME UNCHANGED secondVars \/ SecondLost, NEW t \in Tasks
  PROVE  /\ Due(t, pc2', todo2') = Due(t, pc2, todo2) \/ Due(t, pc2', todo2') = 0
         /\ \/ Filling(t, pc2', snap2') = Filling(t, pc2, snap2)
            \/ SecondLost /\ Filling(t, pc2', snap2') = 0
  BY EmptyCounts, SecondIs DEF secondVars, SecondLost, Second!Closed

LEMMA QuietStep ==
  ASSUME ProcessInv, NodeTypeOK', phase' \in [Processes -> Phase], UNCHANGED req,
         Rows', Onward(db, db', aria2, aria2'), faults <= faults',
         \A t \in Tasks : /\ Len(aria2'[t]) = Len(aria2[t])
                          /\ db'[t].status \in {"none", "queued"} =>
                               db[t].status \in {"none", "queued"},
         NEW lost \in 0..1,
         \/ UNCHANGED tickVars /\ UNCHANGED secondVars
         \/ lost = 1 /\ FirstLost /\ UNCHANGED secondVars
         \/ lost = 1 /\ SecondLost /\ UNCHANGED tickVars,
         Endings' + faults + lost <= Endings + faults',
         (pc # "idle" => Looping(1))', (pc2 # "idle" => Looping(2))'
  PROVE  ProcessInv'
<1>1. /\ db' \in Session /\ aria2' \in [Tasks -> Seq(AriaStatus)] /\ faults' \in Nat
  BY FaultAssumption DEF NodeTypeOK, Session
<1>2. /\ pc' \in TickPc /\ snap' \in Session /\ cur' \in Session /\ todo' \in SUBSET Tasks
      /\ slots' \in 0..ConcurrentLimit
      /\ Fits(db', aria2', pc', snap', cur', todo')
  <2>1. CASE UNCHANGED tickVars
    <3>1. Fits(db', aria2', pc, snap, cur, todo)
      BY <1>1, InvParts, FitsOnward
    <3> QED
      BY <2>1, <3>1, InvParts DEF tickVars
  <2>2. CASE FirstLost
    BY <2>2, InvParts, EmptySessionType, FitsEmpty DEF FirstLost, Closed, TickPc, Session
  <2> QED
    BY <2>1, <2>2
<1>3. /\ pc2' \in TickPc /\ snap2' \in Session /\ cur2' \in Session /\ todo2' \in SUBSET Tasks
      /\ slots2' \in 0..ConcurrentLimit
      /\ Fits(db', aria2', pc2', snap2', cur2', todo2')
  <2>1. CASE UNCHANGED secondVars
    <3>1. Fits(db', aria2', pc2, snap2, cur2, todo2)
      BY <1>1, InvParts, FitsOnward
    <3> QED
      BY <2>1, <3>1, InvParts DEF secondVars
  <2>2. CASE SecondLost
    <3>1. snap2' = EmptySession /\ cur2' = EmptySession /\ todo2' = {}
      BY <2>2, SecondIs DEF SecondLost, Second!Closed
    <3> QED
      BY <2>2, <3>1, InvParts, EmptySessionType, FitsEmpty DEF SecondLost, TickPc, Session
  <2> QED
    BY <2>1, <2>2
<1>4. ASSUME NEW t \in Tasks
      PROVE  AddsOwed(t)'
  <2>1. PICK n \in Nat : n = Len(aria2[t]) /\ n = Len(aria2'[t])
    BY InvParts
  <2>2. PICK due \in 0..1, due1 \in 0..1, own \in 0..1, own1 \in 0..1 :
          /\ due = Due(t, pc, todo) /\ due1 = Due(t, pc', todo')
          /\ own = Filling(t, pc, snap) /\ own1 = Filling(t, pc', snap')
    BY CountsAre
  <2>3. PICK due2 \in 0..1, due3 \in 0..1, own2 \in 0..1, own3 \in 0..1 :
          /\ due2 = Due(t, pc2, todo2) /\ due3 = Due(t, pc2', todo2')
          /\ own2 = Filling(t, pc2, snap2) /\ own3 = Filling(t, pc2', snap2')
    BY CountsAre
  <2>4. PICK e \in 0..2, e1 \in 0..2 : e = Endings /\ e1 = Endings'
    BY EndingsAre, EndableBounds
  <2>5. PICK f \in Nat, f1 \in Nat : f = faults /\ f1 = faults'
    BY <1>1, InvParts
  <2>6. e1 + f + lost <= e + f1 /\ f <= f1
    BY <2>4, <2>5
  <2>7. PICK waits \in BOOLEAN, waits1 \in BOOLEAN :
          /\ waits <=> db[t].status \in {"none", "queued"}
          /\ waits1 <=> db'[t].status \in {"none", "queued"}
          /\ waits1 => waits
    OBVIOUS
  <2>8. /\ n + due + due2 <= 1 + f
        /\ waits => n + due + due2 + e <= f + own + own2
    <3>1. AddsOwed(t)
      BY DEF ProcessInv
    <3> QED
      BY <2>1, <2>2, <2>3, <2>4, <2>5, <2>7, <3>1, AddsAre
  <2>9. due1 <= due /\ due3 <= due2 /\ own + own2 <= own1 + own3 + lost
    <3>1. /\ due1 = due \/ due1 = 0
          /\ own1 = own \/ (FirstLost /\ own1 = 0)
      BY <2>2, FirstCounts
    <3>2. /\ due3 = due2 \/ due3 = 0
          /\ own3 = own2 \/ (SecondLost /\ own3 = 0)
      BY <2>3, SecondCounts
    <3>3. CASE UNCHANGED tickVars /\ UNCHANGED secondVars
      <4>1. own1 = own /\ own3 = own2
        BY <2>2, <2>3, <3>3 DEF tickVars, secondVars
      <4> QED
        BY <3>1, <3>2, <4>1
    <3>4. CASE lost = 1 /\ UNCHANGED secondVars
      <4>1. own3 = own2
        BY <2>3, <3>4 DEF secondVars
      <4> QED
        BY <3>1, <3>2, <3>4, <4>1
    <3>5. CASE lost = 1 /\ UNCHANGED tickVars
      <4>1. own1 = own
        BY <2>2, <3>5 DEF tickVars
      <4> QED
        BY <3>1, <3>2, <3>5, <4>1
    <3> QED
      BY <3>3, <3>4, <3>5
  <2>a. /\ n + due1 + due3 <= 1 + f1
        /\ waits1 => n + due1 + due3 + e1 <= f1 + own1 + own3
    <3>1. n + due1 + due3 <= 1 + f1
      BY <2>6, <2>8, <2>9
    <3>2. ASSUME waits1
          PROVE  n + due1 + due3 + e1 <= f1 + own1 + own3
      <4>1. n + due + due2 + e <= f + own + own2
        BY <2>7, <2>8, <3>2
      <4>2. n + due1 + due3 + e <= f + own1 + own3 + lost
        BY <2>9, <4>1
      <4> QED
        BY <2>6, <4>2
    <3> QED
      BY <3>1, <3>2
  <2>b. db'[t].status \in {"none", "queued"} => n + due1 + due3 + e1 <= f1 + own1 + own3
    BY <2>7, <2>a
  <2> QED
    BY <2>1, <2>2, <2>3, <2>4, <2>5, <2>a, <2>b, AddsAre
<1> QED
  BY <1>2, <1>3, <1>4, InvParts, InvFrom DEF ApiTypeOK

\* A step that changes neither phases nor sessions.
LEMMA UnhurriedStep ==
  ASSUME ProcessInv, NodeTypeOK', UNCHANGED <<phase, req>>,
         UNCHANGED tickVars, UNCHANGED secondVars,
         Rows', Onward(db, db', aria2, aria2'), faults <= faults',
         \A t \in Tasks : /\ Len(aria2'[t]) = Len(aria2[t])
                          /\ db'[t].status \in {"none", "queued"} =>
                               db[t].status \in {"none", "queued"}
  PROVE  ProcessInv'
<1>1. Endings' + faults + 0 <= Endings + faults'
  <2>1. PICK e \in 0..2 : e = Endings /\ e = Endings'
    <3>1. phase' = phase
      OBVIOUS
    <3>2. Endings' = Endings
      BY <3>1, EndingsAre
    <3> QED
      BY <3>2, EndingsAre, EndableBounds
  <2>2. PICK f \in Nat, f1 \in Nat : f = faults /\ f1 = faults' /\ f <= f1
    <3>1. faults' \in Nat
      BY FaultAssumption DEF NodeTypeOK
    <3> QED
      BY <3>1, InvParts
  <2>3. e + f + 0 <= e + f1
    <3>1. f <= f1
      BY <2>2
    <3> QED
      BY <3>1
  <2> QED
    BY <2>1, <2>2, <2>3
<1>2. (pc # "idle" => Looping(1))' /\ (pc2 # "idle" => Looping(2))'
  BY DEF ProcessInv, Looping, tickVars, secondVars
<1> QED
  BY <1>1, <1>2, InvParts, QuietStep

\* A tick that fails loses its session, with the fault that made it fail.
LEMMA AbortedTickInv ==
  ASSUME ProcessInv,
         \/ Looping(1) /\ TickAborts /\ UNCHANGED <<secondVars, phase, req>>
         \/ Looping(2) /\ Second!TickAborts /\ UNCHANGED <<tickVars, phase, req>>
  PROVE  ProcessInv'
<1>1. \/ FirstLost /\ UNCHANGED secondVars
      \/ SecondLost /\ UNCHANGED tickVars
  BY DEF TickAborts, FirstLost, Second!TickAborts, SecondLost
<1>2. UNCHANGED <<db, aria2, disk, now, phase, req>>
  BY DEF TickAborts, Second!TickAborts
<1>3. Fault("db") \/ Fault("fs")
  BY DEF TickAborts, TableFails, MkdirFails, Second!TickAborts, Second!TableFails,
         Second!MkdirFails, Second!Fault, Fault
<1>4. faults \in 0..MaxFaults
  BY InvParts DEF NodeTypeOK
<1>5. faults' \in 0..MaxFaults /\ faults' = faults + 1
  BY <1>3, <1>4, FaultType
<1>6. NodeTypeOK' /\ Rows' /\ Onward(db, db', aria2, aria2')
  BY <1>2, <1>5, InvParts, GainsSelf DEF NodeTypeOK, Rows, Onward
<1>7. Endings' + faults + 1 <= Endings + faults'
  <2>1. PICK e \in 0..2 : e = Endings /\ e = Endings'
    BY <1>2, EndingsAre, EndableBounds
  <2>2. PICK f \in Nat, f1 \in Nat : f = faults /\ f1 = faults' /\ f1 = f + 1
    BY <1>5, InvParts, FaultAssumption
  <2>3. e + f + 1 <= e + f1
    BY <2>2
  <2> QED
    BY <2>1, <2>2, <2>3
<1>8. (pc # "idle" => Looping(1))' /\ (pc2 # "idle" => Looping(2))'
  BY <1>1, <1>2 DEF ProcessInv, Looping, FirstLost, SecondLost, tickVars, secondVars
<1>9. faults <= faults'
  BY <1>4, <1>5, FaultAssumption
<1>10. \A t \in Tasks : /\ Len(aria2'[t]) = Len(aria2[t])
                        /\ db'[t].status \in {"none", "queued"} =>
                             db[t].status \in {"none", "queued"}
  BY <1>2
<1> QED
  BY <1>1, <1>2, <1>6, <1>7, <1>8, <1>9, <1>10, InvParts, QuietStep

\* A process that enters another phase.
LEMMA PhaseStep ==
  ASSUME ProcessInv, NEW p \in Processes, NEW ph \in Phase, Enter(p, ph),
         UNCHANGED <<db, aria2, disk, now, req>>, faults' \in 0..MaxFaults, faults <= faults',
         NEW lost \in 0..1,
         \/ UNCHANGED tickVars /\ UNCHANGED secondVars /\ (Looping(p) => Looping(p)')
         \/ lost = 1 /\ Cancelled(p),
         \A q \in Processes \ {p} :
           Endable(ph, phase[q]) + faults + lost <= Endable(phase[p], phase[q]) + faults'
  PROVE  ProcessInv'
<1>1. /\ phase' \in [Processes -> Phase] /\ phase'[p] = ph
      /\ \A q \in Processes \ {p} : phase'[q] = phase[q]
  BY InvParts DEF Enter
<1>2. NodeTypeOK' /\ Rows' /\ Onward(db, db', aria2, aria2')
  BY InvParts, GainsSelf DEF NodeTypeOK, Rows, Onward
<1>3. \A t \in Tasks : /\ Len(aria2'[t]) = Len(aria2[t])
                       /\ db'[t].status \in {"none", "queued"} =>
                            db[t].status \in {"none", "queued"}
  OBVIOUS
<1>4. Endings' + faults + lost <= Endings + faults'
  <2>1. CASE p = 1
    <3>1. 2 \in Processes \ {p}
      BY <2>1 DEF Processes
    <3>2. Endings = Endable(phase[p], phase[2]) /\ Endings' = Endable(ph, phase[2])
      BY <1>1, <2>1, <3>1, EndingsAre
    <3> QED
      BY <3>1, <3>2
  <2>2. CASE p = 2
    <3>1. 1 \in Processes \ {p}
      BY <2>2 DEF Processes
    <3>2. Endings = Endable(phase[p], phase[1]) /\ Endings' = Endable(ph, phase[1])
      BY <1>1, <2>2, <3>1, EndingsAre DEF Endable
    <3> QED
      BY <3>1, <3>2
  <2> QED
    BY <2>1, <2>2 DEF Processes
<1>5. \A q \in Processes \ {p} : Looping(q)' <=> Looping(q)
  BY <1>1 DEF Looping
<1>6. /\ pc # "idle" => Looping(1)
      /\ pc2 # "idle" => Looping(2)
  BY DEF ProcessInv
<1>7. CASE UNCHANGED tickVars /\ UNCHANGED secondVars /\ (Looping(p) => Looping(p)')
  <2>1. (pc # "idle" => Looping(1))' /\ (pc2 # "idle" => Looping(2))'
    BY <1>5, <1>6, <1>7 DEF tickVars, secondVars, Processes
  <2> QED
    BY <1>1, <1>2, <1>3, <1>4, <1>7, <2>1, QuietStep
<1>8. CASE lost = 1 /\ Cancelled(p)
  <2>1. CASE p = 1
    <3>1. FirstLost /\ UNCHANGED secondVars
      BY <1>8, <2>1 DEF Cancelled, FirstLost
    <3>2. (pc # "idle" => Looping(1))' /\ (pc2 # "idle" => Looping(2))'
      BY <1>5, <1>6, <2>1, <3>1 DEF FirstLost, secondVars, Processes
    <3> QED
      BY <1>1, <1>2, <1>3, <1>4, <1>8, <3>1, <3>2, QuietStep
  <2>2. CASE p = 2
    <3>1. SecondLost /\ UNCHANGED tickVars
      BY <1>8, <2>2 DEF Cancelled, SecondLost
    <3>2. (pc # "idle" => Looping(1))' /\ (pc2 # "idle" => Looping(2))'
      BY <1>5, <1>6, <2>2, <3>1 DEF SecondLost, tickVars, Processes
    <3> QED
      BY <1>1, <1>2, <1>3, <1>4, <1>8, <3>1, <3>2, QuietStep
  <2> QED
    BY <2>1, <2>2 DEF Processes
<1> QED
  BY <1>7, <1>8

-----------------------------------------------------------------------------
(* The lifespan *)

LEMMA LaunchInv ==
  ASSUME ProcessInv, NEW p \in Processes, Launch(p)
  PROVE  ProcessInv'
<1>0. faults \in 0..MaxFaults
  BY InvParts DEF NodeTypeOK
<1>1. /\ phase[p] = "down" /\ Enter(p, "tables") /\ ~Looping(p)
      /\ UNCHANGED <<db, aria2, disk, now, req>> /\ UNCHANGED tickVars /\ UNCHANGED secondVars
  BY DEF Launch, Looping
<1>2. faults' \in 0..MaxFaults /\ faults <= faults'
  BY <1>0, FaultType, InvParts DEF Launch
<1>3. ASSUME NEW q \in Processes \ {p}
      PROVE  Endable("tables", phase[q]) + faults + 0 <= Endable(phase[p], phase[q]) + faults'
  <2>1. CASE phase[q] = "down"
    <3>1. /\ Endable("tables", "down") = 1 + 0 - 1
          /\ Endable("down", "down") = 0 + 0 - 0
      BY DEF Endable
    <3>2. faults \in Nat /\ faults' \in Nat
      BY <1>0, <1>2, FaultAssumption
    <3> QED
      BY <1>1, <1>2, <2>1, <3>1, <3>2
  <2>2. CASE phase[q] # "down"
    <3>1. Up # {}
      BY <2>2 DEF Up
    <3>2. faults' = faults + 1
      BY <3>1 DEF Launch, Fault
    <3> QED
      BY <1>0, <1>1, <2>2, <3>2 DEF Endable
  <2> QED
    BY <2>1, <2>2
<1> QED
  BY <1>1, <1>2, <1>3, PhaseStep DEF Phase

\* A step of the start, that goes on or ends the process with a fault.
LEMMA StartInv ==
  ASSUME ProcessInv, NEW p \in Processes, InitDb(p) \/ MakeFolder(p)
  PROVE  ProcessInv'
<1>0. faults \in 0..MaxFaults
  BY InvParts DEF NodeTypeOK
<1>1. /\ phase[p] \in {"tables", "folder"} /\ ~Looping(p)
      /\ UNCHANGED <<db, aria2, disk, now, req>> /\ UNCHANGED tickVars /\ UNCHANGED secondVars
  BY DEF InitDb, MakeFolder, Looping
<1>2. faults' \in 0..MaxFaults /\ faults <= faults'
  BY <1>0, FaultType, InvParts DEF InitDb, MakeFolder
<1>3. PICK ph \in {"folder", "binding", "down"} :
        Enter(p, ph) /\ (ph = "down" => faults' = faults + 1)
  BY DEF InitDb, MakeFolder, Fault
<1>4. ASSUME NEW q \in Processes \ {p}
      PROVE  Endable(ph, phase[q]) + faults + 0 <= Endable(phase[p], phase[q]) + faults'
  <2>1. PICK f \in Nat, f1 \in Nat : f = faults /\ f1 = faults' /\ f <= f1
    BY <1>0, <1>2, FaultAssumption
  <2>2. PICK e \in 0..2, e1 \in 0..2 :
          /\ e = Endable(phase[p], phase[q]) /\ e1 = Endable(ph, phase[q])
    BY EndableBounds
  <2>3. CASE ph = "down"
    <3>1. e1 <= e + 1
      BY <1>1, <2>2, <2>3 DEF Endable
    <3>2. f1 = f + 1
      BY <1>3, <2>1, <2>3
    <3>3. e1 + f + 0 <= e + f1
      BY <3>1, <3>2
    <3> QED
      BY <2>1, <2>2, <3>3
  <2>4. CASE ph # "down"
    <3>1. e1 <= e
      BY <1>1, <1>3, <2>2, <2>4 DEF Endable
    <3>2. f <= f1
      BY <2>1
    <3>3. e1 + f + 0 <= e + f1
      BY <3>1, <3>2
    <3> QED
      BY <2>1, <2>2, <3>3
  <2> QED
    BY <2>3, <2>4
<1> QED
  BY <1>1, <1>2, <1>3, <1>4, PhaseStep DEF Phase

LEMMA BindInv ==
  ASSUME ProcessInv, NEW p \in Processes, Bind(p)
  PROVE  ProcessInv'
<1>0. faults \in 0..MaxFaults
  BY InvParts DEF NodeTypeOK
<1>1. /\ phase[p] = "binding"
      /\ UNCHANGED <<db, aria2, disk, now, req>> /\ UNCHANGED tickVars /\ UNCHANGED secondVars
      /\ faults' = faults
  BY DEF Bind, nodeVars
<1>2. PICK ph \in {"serving", "stopping"} : Enter(p, ph) /\ (ph = "stopping" => Serving # {})
  BY DEF Bind
<1>3. Looping(p)'
  BY <1>2, InvParts DEF Enter, Looping
<1>4. ASSUME NEW q \in Processes \ {p}
      PROVE  Endable(ph, phase[q]) + faults + 0 <= Endable(phase[p], phase[q]) + faults'
  <2>1. ph = "stopping" => phase[q] = "serving"
    BY <1>1, <1>2 DEF Serving, Processes
  <2> QED
    BY <1>0, <1>1, <1>2, <2>1 DEF Endable
<1> QED
  BY <1>0, <1>1, <1>2, <1>3, <1>4, PhaseStep DEF Phase

LEMMA StopInv ==
  ASSUME ProcessInv, NEW p \in Processes, Stop(p)
  PROVE  ProcessInv'
<1>0. faults \in 0..MaxFaults
  BY InvParts DEF NodeTypeOK
<1>1. /\ phase[p] = "serving" /\ Enter(p, "stopping") /\ faults' = faults + 1
      /\ UNCHANGED <<db, aria2, disk, now, req>> /\ UNCHANGED tickVars /\ UNCHANGED secondVars
  BY DEF Stop, Fault
<1>2. faults' \in 0..MaxFaults /\ faults <= faults'
  BY <1>0, FaultType, InvParts DEF Stop
<1>3. Looping(p)'
  BY <1>1, InvParts DEF Enter, Looping
<1>4. ASSUME NEW q \in Processes \ {p}
      PROVE  Endable("stopping", phase[q]) + faults + 0 <= Endable(phase[p], phase[q]) + faults'
  BY <1>0, <1>1 DEF Endable
<1> QED
  BY <1>1, <1>2, <1>3, <1>4, PhaseStep DEF Phase

\* A process that ends loses its session: with the fault that ends it, or as one of Endings.
LEMMA EndInv ==
  ASSUME ProcessInv, NEW p \in Processes, End(p) \/ Kill(p)
  PROVE  ProcessInv'
<1>0. faults \in 0..MaxFaults
  BY InvParts DEF NodeTypeOK
<1>1. /\ Enter(p, "down") /\ Cancelled(p) /\ phase[p] # "down"
      /\ UNCHANGED <<db, aria2, disk, now, req>>
      /\ (phase[p] = "stopping" /\ faults' = faults) \/ faults' = faults + 1
  BY DEF End, Kill, Fault, nodeVars
<1>2. faults' \in 0..MaxFaults /\ faults <= faults'
  BY <1>0, FaultType, InvParts DEF End, Kill, nodeVars
<1>3. ASSUME NEW q \in Processes \ {p}
      PROVE  Endable("down", phase[q]) + faults + 1 <= Endable(phase[p], phase[q]) + faults'
  BY <1>0, <1>1 DEF Endable
<1> QED
  BY <1>1, <1>2, <1>3, PhaseStep DEF Phase

-----------------------------------------------------------------------------
(* What others do *)

LEMMA AriaStepInv ==
  ASSUME ProcessInv, (\E t \in Tasks : Aria(t)) \/ DaemonRestart
  PROVE  ProcessInv'
<1>1. AriaNext /\ UNCHANGED <<phase, req>> /\ UNCHANGED tickVars /\ UNCHANGED secondVars
  BY DEF Aria, DaemonRestart, AriaNext
<1>2. /\ NodeTypeOK' /\ db' = db /\ faults \in Nat /\ faults' \in Nat /\ faults <= faults'
      /\ \A u \in Tasks : Len(aria2'[u]) = Len(aria2[u])
  BY <1>1, InvParts, AriaNextPreserves
<1>3. Rows' /\ Onward(db, db', aria2, aria2')
  BY <1>2, InvParts, GainsSelf DEF Rows, Onward
<1> QED
  BY <1>1, <1>2, <1>3, InvParts, UnhurriedStep

LEMMA AcceptInv ==
  ASSUME ProcessInv, NEW t \in Tasks, Accept(t)
  PROVE  ProcessInv'
<1>1. /\ db[t].status = "none" /\ db' = [db EXCEPT ![t] = QueuedRow] /\ UNCHANGED <<aria2, now>>
      /\ disk' \in {disk, [disk EXCEPT ![t] = "empty"]}
      /\ UNCHANGED faults \/ Fault("fs")
      /\ UNCHANGED <<phase, req>> /\ UNCHANGED tickVars /\ UNCHANGED secondVars
  BY DEF Accept, Enqueue
<1>2. faults \in Nat /\ faults' \in 0..MaxFaults /\ faults' \in Nat /\ faults <= faults'
  BY <1>1, InvParts, FaultType, FaultAssumption DEF NodeTypeOK
<1>3. NodeTypeOK'
  BY <1>1, <1>2, InvParts, QueuedRowType DEF NodeTypeOK, Dir
<1>4. db'[t] = QueuedRow /\ \A u \in Tasks \ {t} : db'[u] = db[u]
  BY <1>1, InvParts DEF Session
<1>5. RowSound(QueuedRow, Len(aria2[t])) /\ Gains(db[t], QueuedRow)
  <2>1. db[t] = [NoRow EXCEPT !.status = "none"]
    BY <1>1, InvParts DEF Rows, RowSound
  <2>2. /\ db[t].path = FALSE /\ db[t].completedAt = NoTime /\ db[t].gid = NoGid
        /\ QueuedRow.status = "queued" /\ QueuedRow.gid = NoGid
        /\ QueuedRow = [NoRow EXCEPT !.status = "queued"]
    BY <2>1 DEF QueuedRow, NoRow
  <2>3. NoGid \in 0..Len(aria2[t])
    BY InvParts DEF NoGid
  <2> QED
    BY <1>1, <2>2, <2>3 DEF RowSound, Gains
<1>6. Rows' /\ Onward(db, db', aria2, aria2')
  BY <1>1, <1>4, <1>5, InvParts, GainsSelf DEF Rows, Onward
<1>7. \A u \in Tasks : db'[u].status \in {"none", "queued"} => db[u].status \in {"none", "queued"}
  BY <1>1, <1>4
<1> QED
  BY <1>1, <1>2, <1>3, <1>6, <1>7, InvParts, UnhurriedStep

LEMMA ProcessStep == ProcessInv /\ [ProcessNext]_processVars => ProcessInv'
<1> SUFFICES ASSUME ProcessInv, [ProcessNext]_processVars
             PROVE  ProcessInv'
  OBVIOUS
<1>1. ASSUME NEW p \in Processes, Launch(p) \/ Starting(p) \/ Stop(p) \/ Kill(p) \/ Tick(p)
      PROVE  ProcessInv'
  <2>1. CASE Launch(p)
    BY <2>1, LaunchInv
  <2>2. CASE Starting(p)
    BY <2>2, StartInv, BindInv, EndInv DEF Starting
  <2>3. CASE Stop(p)
    BY <2>3, StopInv
  <2>4. CASE Kill(p)
    BY <2>4, EndInv
  <2>5. CASE Tick(p)
    <3>1. CASE Looping(1) /\ TickStep /\ UNCHANGED <<secondVars, phase, req>>
      BY <3>1, FirstTickInv
    <3>2. CASE Looping(2) /\ Second!TickStep /\ UNCHANGED <<tickVars, phase, req>>
      BY <3>2, SecondTickInv
    <3>3. CASE \/ Looping(1) /\ TickAborts /\ UNCHANGED <<secondVars, phase, req>>
               \/ Looping(2) /\ Second!TickAborts /\ UNCHANGED <<tickVars, phase, req>>
      BY <3>3, AbortedTickInv
    <3> QED
      BY <2>5, <3>1, <3>2, <3>3 DEF Tick, TickNext, Second!TickNext
  <2> QED
    BY <1>1, <2>1, <2>2, <2>3, <2>4, <2>5
<1>2. CASE DaemonRestart \/ \E t \in Tasks : Accept(t) \/ Aria(t)
  BY <1>2, AcceptInv, AriaStepInv
<1>3. CASE UNCHANGED processVars
  <2>1. /\ UNCHANGED nodeVars /\ UNCHANGED <<phase, req>>
        /\ UNCHANGED tickVars /\ UNCHANGED secondVars
    BY <1>3 DEF processVars, vars
  <2>2. NodeTypeOK' /\ Rows' /\ Onward(db, db', aria2, aria2')
    BY <2>1, InvParts, GainsSelf DEF nodeVars, NodeTypeOK, Rows, Onward
  <2> QED
    BY <2>1, <2>2, InvParts, UnhurriedStep DEF nodeVars
<1> QED
  BY <1>1, <1>2, <1>3 DEF ProcessNext

-----------------------------------------------------------------------------
(* The theorems *)

LEMMA ProcessBegins == ProcessInit => ProcessInv
<1> SUFFICES ASSUME ProcessInit
             PROVE  ProcessInv
  OBVIOUS
<1>1. /\ Init /\ phase = [p \in Processes |-> "down"]
      /\ pc2 = "idle" /\ snap2 = EmptySession /\ cur2 = EmptySession /\ todo2 = {} /\ slots2 = 0
  BY SecondIs DEF ProcessInit, Second!TickInit
<1>2. /\ pc = "idle" /\ snap = EmptySession /\ cur = EmptySession /\ todo = {}
      /\ db = [t \in Tasks |-> NoRow] /\ aria2 = [t \in Tasks |-> <<>>] /\ faults = 0
  BY <1>1 DEF Init, NodeInit, TickInit
<1>3. ProcessTypeOK
  <2>1. Second!TickTypeOK
    BY <1>1, SecondIs, EmptySessionType, LimitAssumption
    DEF Second!TickTypeOK, Second!TickPc
  <2> QED
    BY <1>1, <2>1, TypeInit DEF ProcessTypeOK, Phase
<1>4. ASSUME NEW t \in Tasks
      PROVE  RowSound(db[t], Len(aria2[t]))
  <2>1. db[t] = NoRow /\ Len(aria2[t]) = 0
    BY <1>2
  <2>2. NoRow.status = "none" /\ NoRow.gid = 0
    BY DEF NoRow, NoGid
  <2>3. NoRow = [NoRow EXCEPT !.status = NoRow.status]
    BY <2>2 DEF NoRow
  <2> QED
    BY <2>1, <2>2, <2>3 DEF RowSound
<1>5. Fits(db, aria2, pc, snap, cur, todo) /\ Fits(db, aria2, pc2, snap2, cur2, todo2)
  BY <1>1, <1>2, FitsEmpty
<1>6. SessionSound(pc, snap, cur, todo) /\ SessionSound(pc2, snap2, cur2, todo2)
  BY <1>5 DEF SessionSound, Fits
<1>7. Endings = 0
  BY <1>1, EndingsAre DEF Endable, Processes
<1>8. ASSUME NEW t \in Tasks
      PROVE  AddsOwed(t)
  <2>1. /\ Due(t, pc, todo) = 0 /\ Due(t, pc2, todo2) = 0
        /\ Filling(t, pc, snap) = 0 /\ Filling(t, pc2, snap2) = 0
    BY <1>1, <1>2, EmptyCounts
  <2> QED
    BY <1>2, <1>7, <2>1 DEF AddsOwed
<1> QED
  BY <1>1, <1>2, <1>3, <1>4, <1>6, <1>8 DEF ProcessInv

\* What each of two ticks has read bounds what the row has become since, whoever wrote it,
\* and every download is one that the row, a fault or a process about to end accounts for:
\* the inductive invariant of two overlapping processes.
THEOREM ProcessInvariant == ProcessSpec => []ProcessInv
BY ProcessBegins, ProcessStep, PTL DEF ProcessSpec

\* Every variable keeps its type, whatever two processes do at once.
THEOREM ProcessTypesCorrect == ProcessSpec => []ProcessTypeOK
<1>1. ProcessInv => ProcessTypeOK
  BY DEF ProcessInv
<1> QED
  BY <1>1, ProcessInvariant, PTL

\* Two processes that commit over each other's rows leave none whose columns disagree.
THEOREM RowsConsistentForTwo == ProcessSpec => []RowsConsistent
<1>1. ASSUME ProcessInv
      PROVE  RowsConsistent
  <2>1. ASSUME NEW t \in Tasks
        PROVE  RowSound(db[t], Len(aria2[t])) /\ Len(aria2[t]) \in Nat
    BY <1>1, InvParts DEF Rows
  <2> QED
    BY <2>1 DEF RowsConsistent, RowSound, Gids, NoGid
<1> QED
  BY <1>1, ProcessInvariant, PTL

\* Two processes do not download a task twice, unless a fault (the start of the second one
\* included) made one of them forget or overtake the other.
THEOREM AddsBoundedForTwo == ProcessSpec => []AddsBounded
<1>1. ASSUME ProcessInv
      PROVE  AddsBounded
  <2>1. ASSUME NEW t \in Tasks
        PROVE  Len(aria2[t]) <= 1 + faults
    <3>1. PICK n \in Nat, f \in Nat : n = Len(aria2[t]) /\ f = faults
      BY <1>1, InvParts
    <3>2. PICK due \in 0..1, due2 \in 0..1 : due = Due(t, pc, todo) /\ due2 = Due(t, pc2, todo2)
      BY CountsAre
    <3>3. n + due + due2 <= 1 + f
      BY <1>1, <3>1, <3>2 DEF ProcessInv, AddsOwed
    <3> QED
      BY <3>1, <3>3
  <2> QED
    BY <2>1 DEF AddsBounded
<1> QED
  BY <1>1, ProcessInvariant, PTL
=============================================================================

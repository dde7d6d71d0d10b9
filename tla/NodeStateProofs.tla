--------------------------- MODULE NodeStateProofs ---------------------------
(***************************************************************************)
(* What rows, sessions and aria2's lists of downloads preserve: the lemmas *)
(* the proofs about the node's coroutines rest on.                         *)
(***************************************************************************)
EXTENDS Aria2, FiniteSetTheorems, SequenceTheorems, TLAPS

LEMMA NoRowType == NoRow \in Row
BY DEF NoRow, Row, Status, Error, NoGid, NoTime

LEMMA QueuedRowType == QueuedRow \in Row
BY DEF QueuedRow, NoRow, Row, Status, Error, NoGid, NoTime

\* The mark_* methods of models/task.py yield rows.
LEMMA MarkTypes ==
  ASSUME NEW row \in Row, now \in Nat, NEW error \in Error
  PROVE  /\ MarkStarted(row) \in Row
         /\ MarkCompleted(row) \in Row
         /\ MarkFailed(row, error) \in Row
BY DEF MarkStarted, MarkCompleted, MarkFailed, Stamp, Row, Status, Error, NoTime

\* A commit that mixes columns of three rows yields a row.
LEMMA FlushRowType ==
  ASSUME NEW stored \in Row, NEW old \in Row, NEW new \in Row
  PROVE  FlushRow(stored, old, new) \in Row
BY DEF FlushRow, Column, Row

LEMMA FlushType ==
  ASSUME NEW snap \in [Tasks -> Row], NEW cur \in [Tasks -> Row], db \in [Tasks -> Row]
  PROVE  Flush(snap, cur) \in [Tasks -> Row]
BY FlushRowType DEF Flush

LEMMA LoadType ==
  ASSUME NEW S, db \in [Tasks -> Row]
  PROVE  Load(S) \in [Tasks -> Row]
BY NoRowType DEF Load

LEMMA EmptySessionType == EmptySession \in [Tasks -> Row]
BY NoRowType DEF EmptySession

LEMMA FaultType ==
  ASSUME NEW k, faults \in 0..MaxFaults, Fault(k)
  PROVE  faults' \in 0..MaxFaults /\ faults' = faults + 1
BY FaultAssumption DEF Fault

\* Removing a directory keeps the types, and forgets no fault.
LEMMA RemoveDirType ==
  ASSUME disk \in [Tasks -> Dir], faults \in 0..MaxFaults, NEW t, RemoveDir(t)
  PROVE  /\ disk' \in [Tasks -> Dir]
         /\ faults' \in 0..MaxFaults
         /\ faults' >= faults
<1>1. disk' \in [Tasks -> Dir]
  BY DEF RemoveDir, Dir
<1>2. faults' \in 0..MaxFaults /\ faults' >= faults
  BY FaultType DEF RemoveDir
<1> QED
  BY <1>1, <1>2

-----------------------------------------------------------------------------
(* aria2's lists *)

LEMMA AriaLen ==
  ASSUME aria2 \in [Tasks -> Seq(AriaStatus)], NEW t \in Tasks
  PROVE  Len(aria2[t]) \in Nat
OBVIOUS

\* A record that changes state keeps the list's type and length.
LEMMA AriaExcept ==
  ASSUME aria2 \in [Tasks -> Seq(AriaStatus)],
         NEW t \in Tasks, NEW g \in Gids(t), NEW s \in AriaStatus,
         aria2' = [aria2 EXCEPT ![t][g] = s]
  PROVE  /\ aria2' \in [Tasks -> Seq(AriaStatus)]
         /\ \A u \in Tasks : Len(aria2'[u]) = Len(aria2[u])
<1> DEFINE seq == [aria2[t] EXCEPT ![g] = s]
<1>1. aria2[t] \in Seq(AriaStatus) /\ g \in 1..Len(aria2[t])
  BY DEF Gids
<1>2. seq \in Seq(AriaStatus) /\ Len(seq) = Len(aria2[t])
  BY <1>1, ExceptSeq
<1>3. aria2' = [aria2 EXCEPT ![t] = seq]
  OBVIOUS
<1> QED
  BY <1>2, <1>3

\* addUri adds one record at the end.
LEMMA AriaAppend ==
  ASSUME aria2 \in [Tasks -> Seq(AriaStatus)], NEW t \in Tasks,
         aria2' = [aria2 EXCEPT ![t] = Append(@, "waiting")]
  PROVE  /\ aria2' \in [Tasks -> Seq(AriaStatus)]
         /\ \A u \in Tasks : Len(aria2'[u]) = Len(aria2[u]) + (IF u = t THEN 1 ELSE 0)
<1>1. "waiting" \in AriaStatus
  BY DEF AriaStatus
<1>2. /\ Append(aria2[t], "waiting") \in Seq(AriaStatus)
      /\ Len(Append(aria2[t], "waiting")) = Len(aria2[t]) + 1
  BY <1>1
<1>3. \A u \in Tasks : Len(aria2[u]) \in Nat
  OBVIOUS
<1> QED
  BY <1>2, <1>3

\* A restart of aria2 forgets states, not how many gids were given out.
LEMMA AriaRestartLists ==
  ASSUME aria2 \in [Tasks -> Seq(AriaStatus)], AriaRestart
  PROVE  /\ aria2' \in [Tasks -> Seq(AriaStatus)]
         /\ \A u \in Tasks : Len(aria2'[u]) = Len(aria2[u])
<1>1. PICK saved :
        aria2' = [t \in Tasks |-> [g \in Gids(t) |->
                    IF <<t, g>> \in saved THEN "waiting" ELSE "lost"]]
  BY DEF AriaRestart
<1>2. ASSUME NEW u \in Tasks
      PROVE  aria2'[u] \in Seq(AriaStatus) /\ Len(aria2'[u]) = Len(aria2[u])
  <2>1. Len(aria2[u]) \in Nat
    OBVIOUS
  <2>2. aria2'[u] \in [1..Len(aria2[u]) -> AriaStatus]
    BY <1>1 DEF Gids, AriaStatus
  <2>3. aria2'[u] \in Seq(AriaStatus)
    BY <2>1, <2>2, SeqDef
  <2>4. DOMAIN aria2'[u] = 1..Len(aria2'[u]) /\ Len(aria2'[u]) \in Nat
    BY <2>3, LenProperties
  <2> QED
    BY <2>1, <2>2, <2>3, <2>4
<1>3. DOMAIN aria2' = Tasks /\ aria2' = [t \in Tasks |-> aria2'[t]]
  BY <1>1
<1> QED
  BY <1>2, <1>3

\* Whatever aria2 does, it changes neither the table nor the number of gids.
LEMMA AriaNextPreserves ==
  ASSUME NodeTypeOK, AriaNext
  PROVE  /\ NodeTypeOK'
         /\ db' = db
         /\ faults' \in Nat /\ faults' >= faults
         /\ \A u \in Tasks : Len(aria2'[u]) = Len(aria2[u])
<1> USE DEF NodeTypeOK
<1>1. CASE \E t \in Tasks : \E g \in Gids(t) : AriaStep(t, g)
  <2>0. PICK t \in Tasks : \E g \in Gids(t) : AriaStep(t, g)
    BY <1>1
  <2>1. PICK g \in Gids(t) : AriaStep(t, g)
    BY <2>0
  <2>2. PICK s \in AriaStatus : aria2' = [aria2 EXCEPT ![t][g] = s]
    BY <2>1 DEF AriaStep, AriaStart, AriaComplete, AriaError, AriaStatus
  <2>3. /\ aria2' \in [Tasks -> Seq(AriaStatus)]
        /\ \A u \in Tasks : Len(aria2'[u]) = Len(aria2[u])
    BY <2>2, AriaExcept
  <2>4. disk' \in [Tasks -> Dir]
    BY <2>1 DEF AriaStep, AriaStart, AriaComplete, AriaError, Dir
  <2>5. UNCHANGED <<db, now, faults>>
    BY <2>1 DEF AriaStep, AriaStart, AriaComplete, AriaError
  <2> QED
    BY <2>3, <2>4, <2>5
<1>2. CASE AriaRestart
  <2>1. UNCHANGED <<db, disk, now>> /\ Fault("aria2")
    BY <1>2 DEF AriaRestart
  <2>2. faults' \in 0..MaxFaults /\ faults' = faults + 1
    BY <2>1, FaultType
  <2> QED
    BY <1>2, <2>1, <2>2, AriaRestartLists
<1> QED
  BY <1>1, <1>2 DEF AriaNext
=============================================================================

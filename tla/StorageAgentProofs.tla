-------------------------- MODULE StorageAgentProofs --------------------------
(***************************************************************************)
(* What the sizes that enforce_quota adds up come to, and what the steps   *)
(* of the storage loop do to the table and to its own variables.           *)
(***************************************************************************)
EXTENDS StorageAgent, NodeStateProofs, WellFoundedInduction

-----------------------------------------------------------------------------
(* Total is a fold over a set, taken apart one arbitrary element at a      *)
(* time.  Induction over finite sets goes by the least counterexample.     *)

\* The element that the fold takes first, and what it makes of a set with it.
Pick(s) == CHOOSE x \in s : TRUE
Unfolded(f, s) == IF s = {} THEN 0 ELSE Size[Pick(s)] + f[s \ {Pick(s)}]
\* f holds the total of every subset of U.
Folds(f, U) == f = [s \in SUBSET U |-> Unfolded(f, s)]

\* The library's sum, without its parameters.
LEMMA TotalDef == ASSUME NEW S PROVE Total(S) = (CHOOSE f : Folds(f, S))[S]
BY DEF Total, SumFunctionOnSet, FoldFunctionOnSet, MapThenFoldSet, Folds, Unfolded, Pick

\* A set that has every subset of U all of whose proper subsets it has, has them all.
LEMMA SubsetInduction ==
  ASSUME NEW U, IsFiniteSet(U), NEW Z,
         \A S \in SUBSET U : (\A R \in SUBSET S : R # S => R \in Z) => S \in Z
  PROVE  SUBSET U \subseteq Z
<1> DEFINE T == (SUBSET U) \ Z
           Rel == StrictSubsetOrdering(U)
<1>1. SUFFICES ASSUME T # {}
               PROVE  FALSE
  OBVIOUS
<1>2. T \subseteq FiniteSubsetsOf(U)
  BY FS_FiniteSubsetsOfFinite
<1>3. IsWellFoundedOn(Rel, FiniteSubsetsOf(U))
  BY FS_StrictSubsetOrderingWellFounded
<1> HIDE DEF T, Rel
<1>4. \E S \in T : \A R \in T : ~ (<<R, S>> \in Rel)
  BY <1>1, <1>2, <1>3, WFMin
<1>5. PICK S \in T : \A R \in T : ~ (<<R, S>> \in Rel)
  BY <1>4
<1>6. ASSUME NEW R \in SUBSET S, R # S
      PROVE  R \in Z
  <2>1. R \in SUBSET U /\ S \in SUBSET U
    BY DEF T
  <2>2. <<R, S>> \in Rel
    BY <1>6, <2>1 DEF Rel, StrictSubsetOrdering
  <2> QED
    BY <1>5, <2>1, <2>2 DEF T
<1> QED
  BY <1>6 DEF T

\* An element is picked from the set.
LEMMA PickIn == ASSUME NEW s, s # {} PROVE Pick(s) \in s
BY DEF Pick

\* Folds over two sets agree on the smaller one.
LEMMA FoldsAgree ==
  ASSUME NEW U, NEW R \in SUBSET U, IsFiniteSet(R), NEW f, Folds(f, U), NEW g, Folds(g, R)
  PROVE  f[R] = g[R]
<1> DEFINE Z == {s \in SUBSET R : f[s] = g[s]}
<1>1. ASSUME NEW s \in SUBSET R, \A r \in SUBSET s : r # s => r \in Z
      PROVE  s \in Z
  <2>1. f[s] = Unfolded(f, s) /\ g[s] = Unfolded(g, s)
    BY DEF Folds
  <2>2. CASE s = {}
    BY <2>1, <2>2 DEF Unfolded
  <2>3. CASE s # {}
    <3>1. s \ {Pick(s)} \in SUBSET s /\ s \ {Pick(s)} # s
      BY <2>3, PickIn
    <3>2. f[s \ {Pick(s)}] = g[s \ {Pick(s)}]
      BY <1>1, <3>1
    <3> QED
      BY <2>1, <2>3, <3>2 DEF Unfolded
  <2> QED
    BY <2>2, <2>3
<1> HIDE DEF Z
<1>2. SUBSET R \subseteq Z
  BY <1>1, SubsetInduction
<1> QED
  BY <1>2 DEF Z

\* A finite set has a fold: put together from those of its proper subsets.
LEMMA FoldExists ==
  ASSUME NEW U, IsFiniteSet(U)
  PROVE  \E f : Folds(f, U)
<1> DEFINE Z == {S \in SUBSET U : \E f : Folds(f, S)}
<1>1. ASSUME NEW S \in SUBSET U, \A R \in SUBSET S : R # S => R \in Z
      PROVE  S \in Z
  <2> DEFINE of(R) == CHOOSE f : Folds(f, R)
             rest(s) == s \ {Pick(s)}
             f == [s \in SUBSET S |-> IF s # S THEN of(s)[s] ELSE Unfolded([r \in SUBSET S |-> of(r)[r]], S)]
  <2>1. \A R \in SUBSET S : R # S => Folds(of(R), R)
    BY <1>1
  <2>2. \A s \in SUBSET S : s # {} => rest(s) \in SUBSET s /\ rest(s) # s
    BY PickIn
  <2> HIDE DEF of
  <2>3. f[S] = Unfolded(f, S)
    BY <2>2 DEF Unfolded
  <2>4. ASSUME NEW s \in SUBSET S, s # S
        PROVE  f[s] = Unfolded(f, s)
    <3>1. f[s] = Unfolded(of(s), s)
      BY <2>1, <2>4 DEF Folds
    <3>2. CASE s = {}
      BY <3>1, <3>2 DEF Unfolded
    <3>3. CASE s # {}
      <4>1. rest(s) \in SUBSET s /\ rest(s) \in SUBSET S /\ rest(s) # S
        BY <2>2, <2>4, <3>3
      <4>2. IsFiniteSet(rest(s))
        BY <4>1, FS_Subset
      <4>3. of(s)[rest(s)] = of(rest(s))[rest(s)]
        BY <2>1, <2>4, <4>1, <4>2, FoldsAgree
      <4>4. f[rest(s)] = of(rest(s))[rest(s)]
        BY <4>1
      <4> QED
        BY <3>1, <3>3, <4>3, <4>4 DEF Unfolded
    <3> QED
      BY <3>2, <3>3
  <2>5. f = [s \in SUBSET S |-> f[s]]
    OBVIOUS
  <2> HIDE DEF f
  <2>6. Folds(f, S)
    BY <2>3, <2>4, <2>5 DEF Folds
  <2> QED
    BY <2>6
<1> HIDE DEF Z
<1>2. SUBSET U \subseteq Z
  BY <1>1, SubsetInduction
<1> QED
  BY <1>2 DEF Z

\* Nothing takes no space.
LEMMA TotalEmpty == Total({}) = 0
<1>1. IsFiniteSet({})
  BY FS_EmptySet
<1>2. Folds(CHOOSE f : Folds(f, {}), {})
  BY <1>1, FoldExists
<1> QED
  BY <1>2, TotalDef DEF Folds, Unfolded

\* The total with the element that the fold picks first.
LEMMA TotalStep ==
  ASSUME NEW S \in SUBSET Tasks, S # {}
  PROVE  Total(S) = Size[Pick(S)] + Total(S \ {Pick(S)})
<1> DEFINE R == S \ {Pick(S)}
           f == CHOOSE h : Folds(h, S)
           g == CHOOSE h : Folds(h, R)
<1>1. IsFiniteSet(S) /\ IsFiniteSet(R) /\ R \in SUBSET S
  BY TasksAssumption, FS_Subset
<1>2. Folds(f, S) /\ Folds(g, R)
  BY <1>1, FoldExists
<1>3. Total(S) = f[S] /\ Total(R) = g[R]
  BY TotalDef
<1> HIDE DEF f, g
<1>4. f[S] = Size[Pick(S)] + f[R]
  BY <1>2 DEF Folds, Unfolded
<1>5. f[R] = g[R]
  BY <1>1, <1>2, FoldsAgree
<1> QED
  BY <1>3, <1>4, <1>5

\* The total of some tasks is a number of bytes.
LEMMA TotalType ==
  ASSUME NEW S \in SUBSET Tasks
  PROVE  Total(S) \in Nat
<1> DEFINE Z == {R \in SUBSET Tasks : Total(R) \in Nat}
<1>1. ASSUME NEW R \in SUBSET Tasks, \A Q \in SUBSET R : Q # R => Q \in Z
      PROVE  R \in Z
  <2>1. CASE R = {}
    BY <2>1, TotalEmpty
  <2>2. CASE R # {}
    <3>1. Pick(R) \in Tasks /\ R \ {Pick(R)} \in SUBSET R /\ R \ {Pick(R)} # R
      BY <2>2, PickIn
    <3>2. Total(R \ {Pick(R)}) \in Nat /\ Size[Pick(R)] \in Nat
      BY <1>1, <3>1, StorageAssumption
    <3> QED
      BY <2>2, <3>2, TotalStep
  <2> QED
    BY <2>1, <2>2
<1> HIDE DEF Z
<1>2. SUBSET Tasks \subseteq Z
  BY <1>1, SubsetInduction, TasksAssumption
<1> QED
  BY <1>2 DEF Z

\* It does not matter in which order sizes are added up.
LEMMA TotalRemove ==
  ASSUME NEW S \in SUBSET Tasks, NEW t \in S
  PROVE  Total(S) = Total(S \ {t}) + Size[t]
<1> DEFINE Z == {R \in SUBSET Tasks : \A u \in R : Total(R) = Total(R \ {u}) + Size[u]}
<1>1. ASSUME NEW R \in SUBSET Tasks, \A Q \in SUBSET R : Q # R => Q \in Z, NEW u \in R
      PROVE  Total(R) = Total(R \ {u}) + Size[u]
  <2> DEFINE x == Pick(R)
             both == R \ {u, x}
  <2>1. x \in R /\ x \in Tasks /\ u \in Tasks
    BY PickIn
  <2>2. /\ Total(R \ {x}) \in Nat /\ Total(R \ {u}) \in Nat /\ Total(both) \in Nat
        /\ Size[x] \in Nat /\ Size[u] \in Nat
    BY <2>1, TotalType, StorageAssumption
  <2>3. Total(R) = Size[x] + Total(R \ {x})
    BY TotalStep
  <2>4. CASE u = x
    BY <2>2, <2>3, <2>4
  <2>5. CASE u # x
    <3>1. (R \ {x}) \ {u} = both /\ (R \ {u}) \ {x} = both
      OBVIOUS
    <3>2. R \ {x} \in Z /\ u \in R \ {x} /\ R \ {u} \in Z /\ x \in R \ {u}
      BY <1>1, <2>1, <2>5
    <3>3. Total(R \ {x}) = Total((R \ {x}) \ {u}) + Size[u]
      BY <3>2
    <3>4. Total(R \ {u}) = Total((R \ {u}) \ {x}) + Size[x]
      BY <3>2
    <3> HIDE DEF x, both
    <3>5. Total(R \ {x}) = Total(both) + Size[u] /\ Total(R \ {u}) = Total(both) + Size[x]
      BY <3>1, <3>3, <3>4
    <3> QED
      BY <2>2, <2>3, <3>5
  <2> QED
    BY <2>4, <2>5
<1> HIDE DEF Z
<1>2. SUBSET Tasks \subseteq Z
  <2>1. ASSUME NEW R \in SUBSET Tasks, \A Q \in SUBSET R : Q # R => Q \in Z
        PROVE  R \in Z
    BY <1>1, <2>1 DEF Z
  <2> QED
    BY <2>1, SubsetInduction, TasksAssumption
<1> QED
  BY <1>2 DEF Z

\* The totals of disjoint sets add up.
LEMMA TotalUnion ==
  ASSUME NEW A \in SUBSET Tasks, NEW B \in SUBSET Tasks, A \cap B = {}
  PROVE  Total(A \cup B) = Total(A) + Total(B)
<1> DEFINE Z == {R \in SUBSET Tasks : A \cap R = {} => Total(A \cup R) = Total(A) + Total(R)}
<1>1. ASSUME NEW R \in SUBSET Tasks, \A Q \in SUBSET R : Q # R => Q \in Z, A \cap R = {}
      PROVE  Total(A \cup R) = Total(A) + Total(R)
  <2>1. CASE R = {}
    <3>1. A \cup R = A /\ Total(A) \in Nat
      BY <2>1, TotalType
    <3> QED
      BY <2>1, <3>1, TotalEmpty
  <2>2. CASE R # {}
    <3>1. PICK t \in R : TRUE
      BY <2>2
    <3>2. (A \cup R) \ {t} = A \cup (R \ {t}) /\ t \in Tasks /\ A \cup R \in SUBSET Tasks
      BY <1>1, <3>1
    <3>3. Total(A \cup R) = Total(A \cup (R \ {t})) + Size[t]
      BY <3>1, <3>2, TotalRemove
    <3>4. Total(R) = Total(R \ {t}) + Size[t]
      BY <3>1, TotalRemove
    <3>5. Total(A \cup (R \ {t})) = Total(A) + Total(R \ {t})
      BY <1>1, <3>1
    <3>6. Total(A) \in Nat /\ Total(R \ {t}) \in Nat /\ Size[t] \in Nat
      BY <3>2, TotalType, StorageAssumption
    <3> QED
      BY <3>3, <3>4, <3>5, <3>6
  <2> QED
    BY <2>1, <2>2
<1> HIDE DEF Z
<1>2. SUBSET Tasks \subseteq Z
  <2>1. ASSUME NEW R \in SUBSET Tasks, \A Q \in SUBSET R : Q # R => Q \in Z
        PROVE  R \in Z
    BY <1>1, <2>1 DEF Z
  <2> QED
    BY <2>1, SubsetInduction, TasksAssumption
<1> QED
  BY <1>2 DEF Z

\* A part takes no more than the whole, and leaves the rest.
LEMMA TotalMonotone ==
  ASSUME NEW B \in SUBSET Tasks, NEW A \in SUBSET B
  PROVE  Total(A) <= Total(B) /\ Total(B) = Total(A) + Total(B \ A)
<1>0. A \in SUBSET Tasks /\ B \ A \in SUBSET Tasks /\ A \cap (B \ A) = {} /\ A \cup (B \ A) = B
  OBVIOUS
<1>1. Total(A \cup (B \ A)) = Total(A) + Total(B \ A)
  BY <1>0, TotalUnion
<1>2. Total(A) \in Nat /\ Total(B \ A) \in Nat
  BY <1>0, TotalType
<1>3. Total(B) = Total(A) + Total(B \ A)
  BY <1>0, <1>1, Zenon
<1> QED
  BY <1>2, <1>3

-----------------------------------------------------------------------------
(* Types *)

LEMMA PurgedType ==
  ASSUME NEW row \in Row
  PROVE  Purged(row) \in Row
BY DEF Purged, Row, Status

LEMMA SleepsType ==
  ASSUME StorageSleeps
  PROVE  /\ spc' \in StoragePc
         /\ ssnap' \in [Tasks -> Row] /\ scur' \in [Tasks -> Row]
         /\ stodo' \in SUBSET Tasks /\ listed' \in [Tasks -> Row]
         /\ freed' = 0
BY EmptySessionType DEF StorageSleeps, StoragePc

\* What one rmtree and the assignments that follow it leave.
LEMMA PurgeType ==
  ASSUME NodeTypeOK, StorageTypeOK, NEW t \in Tasks, Purge(t)
  PROVE  /\ NodeTypeOK'
         /\ ssnap' \in [Tasks -> Row] /\ scur' \in [Tasks -> Row]
         /\ stodo' \in SUBSET Tasks /\ listed' \in [Tasks -> Row]
<1>1. Purged(ssnap[t]) \in Row
  BY PurgedType DEF StorageTypeOK
<1> QED
  BY <1>1, RemoveDirType DEF Purge, NodeTypeOK, StorageTypeOK

\* Every step of the loop keeps the types, but for the bound on what is freed.
LEMMA StorageType ==
  ASSUME NodeTypeOK, StorageTypeOK, StorageNext
  PROVE  /\ NodeTypeOK'
         /\ spc' \in StoragePc
         /\ ssnap' \in [Tasks -> Row] /\ scur' \in [Tasks -> Row]
         /\ stodo' \in SUBSET Tasks /\ listed' \in [Tasks -> Row]
         /\ freed' \in Nat
<1> DEFINE Types == /\ NodeTypeOK'
                    /\ spc' \in StoragePc
                    /\ ssnap' \in [Tasks -> Row] /\ scur' \in [Tasks -> Row]
                    /\ stodo' \in SUBSET Tasks /\ listed' \in [Tasks -> Row]
                    /\ freed' \in Nat
<1>0. freed \in Nat
  BY TotalType DEF StorageTypeOK
<1>1. CASE CleanLoad
  <2>1. Load({t \in Tasks : Due(db[t])}) \in [Tasks -> Row]
    BY LoadType DEF NodeTypeOK
  <2> QED
    BY <1>0, <1>1, <2>1 DEF CleanLoad, nodeVars, NodeTypeOK, StorageTypeOK, StoragePc
<1>2. ASSUME NEW t \in Tasks, CleanPurge(t)
      PROVE  Types
  BY <1>0, <1>2, PurgeType DEF CleanPurge, StorageTypeOK
<1>3. CASE CleanCommit
  <2>1. db' \in [Tasks -> Row]
    BY <1>3, FlushType DEF CleanCommit, NodeTypeOK, StorageTypeOK
  <2> QED
    BY <1>0, <1>3, <2>1, EmptySessionType DEF CleanCommit, NodeTypeOK, StorageTypeOK, StoragePc
<1>4. CASE QuotaList
  <2> DEFINE S == {t \in Tasks : db[t].status = "completed" /\ db[t].path}
  <2>1. Load(S) \in [Tasks -> Row] /\ S \in SUBSET Tasks
    BY LoadType DEF NodeTypeOK
  <2>2. NodeTypeOK'
    BY <1>4 DEF QuotaList, nodeVars, NodeTypeOK
  <2>3. CASE StorageSleeps
    BY <2>2, <2>3, SleepsType
  <2>4. CASE /\ listed' = Load(S) /\ stodo' = S /\ spc' = "evict"
             /\ UNCHANGED <<ssnap, scur, freed>>
    BY <1>0, <2>1, <2>2, <2>4 DEF StorageTypeOK, StoragePc
  <2> QED
    BY <1>4, <2>3, <2>4 DEF QuotaList
<1>5. ASSUME NEW t \in Tasks, QuotaGet(t)
      PROVE  Types
  <2>1. db[t] \in Row
    BY DEF NodeTypeOK
  <2> QED
    BY <1>0, <1>5, <2>1 DEF QuotaGet, nodeVars, NodeTypeOK, StorageTypeOK, StoragePc
<1>6. ASSUME NEW t \in Tasks, QuotaPurge(t)
      PROVE  Types
  <2>1. freed' \in Nat
    BY <1>0, <1>6, StorageAssumption DEF QuotaPurge
  <2> QED
    BY <1>6, <2>1, PurgeType DEF QuotaPurge, StoragePc
<1>7. CASE QuotaCommit
  <2>1. db' \in [Tasks -> Row]
    BY <1>7, FlushType DEF QuotaCommit, NodeTypeOK, StorageTypeOK
  <2> QED
    BY <1>7, <2>1, SleepsType DEF QuotaCommit, NodeTypeOK
<1>8. CASE StorageAborts
  BY <1>8, SleepsType, FaultType DEF StorageAborts, NodeTypeOK
<1> QED
  BY <1>1, <1>2, <1>3, <1>4, <1>5, <1>6, <1>7, <1>8 DEF StorageNext, StorageStep

\* The loop leaves aria2 and the clock alone, and the table but for its commits.
LEMMA StorageKeeps ==
  ASSUME NodeTypeOK, StorageNext
  PROVE  /\ UNCHANGED <<aria2, now>>
         /\ faults' \in Nat /\ faults' >= faults
         /\ \/ UNCHANGED db
            \/ (CleanCommit \/ QuotaCommit) /\ db' = Flush(ssnap, scur)
<1>1. ASSUME NEW t, Purge(t)
      PROVE  UNCHANGED <<db, aria2, now>> /\ faults' \in 0..MaxFaults /\ faults' >= faults
  BY <1>1, RemoveDirType DEF Purge, NodeTypeOK
<1>2. ASSUME Fault("db")
      PROVE  faults' \in Nat /\ faults' >= faults
  BY <1>2, FaultType DEF NodeTypeOK
<1>3. faults \in Nat
  BY DEF NodeTypeOK
<1> QED
  BY <1>1, <1>2, <1>3 DEF StorageNext, StorageStep, CleanLoad, CleanPurge, CleanCommit, QuotaList,
     QuotaGet, QuotaPurge, QuotaCommit, StorageAborts, nodeVars
=============================================================================

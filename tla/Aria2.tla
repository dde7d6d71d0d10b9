-------------------------------- MODULE Aria2 --------------------------------
(***************************************************************************)
(* The aria2 daemon, which is not part of the repository: what the node    *)
(* relies on when it calls addUri, tellStatus, forceRemove and             *)
(* removeDownloadResult, with the options manage.sh starts the daemon with *)
(* (its own limit on active downloads, a session file with the unfinished  *)
(* and failed downloads, saved once a minute).                             *)
(***************************************************************************)
EXTENDS NodeState

Gids(t) == 1..Len(aria2[t])

\* The downloads, as <<task, gid>>, whose record is in one of the states S.
Downloads(S) ==
  UNION {{<<t, g>> : g \in {i \in Gids(t) : aria2[t][i] \in S}} : t \in Tasks}

\* --max-concurrent-downloads; the directory is created, a full file is kept
AriaStart(t, g) ==
  /\ aria2[t][g] = "waiting"
  /\ Cardinality(Downloads({"active"})) < ConcurrentLimit
  /\ aria2' = [aria2 EXCEPT ![t][g] = "active"]
  /\ disk' = [disk EXCEPT ![t] = IF @ = "full" THEN @ ELSE "partial"]
  /\ UNCHANGED <<db, now, faults>>

\* A directory removed under a running download stays removed.
AriaComplete(t, g) ==
  /\ aria2[t][g] = "active"
  /\ aria2' = [aria2 EXCEPT ![t][g] = "complete"]
  /\ disk' = [disk EXCEPT ![t] = IF @ = "absent" THEN @ ELSE "full"]
  /\ UNCHANGED <<db, now, faults>>

AriaError(t, g) ==
  /\ aria2[t][g] = "active"
  /\ aria2' = [aria2 EXCEPT ![t][g] = "error"]
  /\ UNCHANGED <<db, disk, now, faults>>

(***************************************************************************)
(* The daemon restarts: a download in the session file is resumed under    *)
(* its old gid, also one that has completed, or was removed, since the     *)
(* last save, and one added since then is lost.  When the file was saved   *)
(* is left open: any download that is not lost may be in it.               *)
(***************************************************************************)
AriaRestart ==
  /\ Fault("aria2")
  /\ \E saved \in SUBSET Downloads(AriaStatus \ {"lost"}) :
       aria2' = [t \in Tasks |-> [g \in Gids(t) |->
                   IF <<t, g>> \in saved THEN "waiting" ELSE "lost"]]
  /\ UNCHANGED <<db, disk, now>>

AriaStep(t, g) == AriaStart(t, g) \/ AriaComplete(t, g) \/ AriaError(t, g)

AriaNext ==
  \/ \E t \in Tasks : \E g \in Gids(t) : AriaStep(t, g)
  \/ AriaRestart

-----------------------------------------------------------------------------
(* The calls of the node, as aria2 sees them.  An answer may be lost after *)
(* the call had its effect, too.                                           *)

\* tellStatus: what aria2 knows of a gid the node holds
TellStatus(t, gid) ==
  IF gid \in Gids(t) /\ aria2[t][gid] # "lost" THEN aria2[t][gid] ELSE "gone"

\* addUri: a new gid, in the directory of the task
AddUri(t) == aria2' = [aria2 EXCEPT ![t] = Append(@, "waiting")]

\* forceRemove: an error for what is no longer downloaded, which is swallowed like any
\* other
ForceRemove(t, gid) ==
  \/ /\ TellStatus(t, gid) \in Live
     /\ aria2' = [aria2 EXCEPT ![t][gid] = "removed"]
     /\ UNCHANGED faults
  \/ TellStatus(t, gid) \notin Live /\ UNCHANGED <<aria2, faults>>
  \/ Fault("rpc") /\ UNCHANGED aria2

\* removeDownloadResult: an error for what is still downloaded, or unknown
RemoveResult(t, gid) ==
  \/ /\ TellStatus(t, gid) \notin Live \cup {"gone"}
     /\ aria2' = [aria2 EXCEPT ![t][gid] = "gone"]
     /\ UNCHANGED faults
  \/ TellStatus(t, gid) \in Live \cup {"gone"} /\ UNCHANGED <<aria2, faults>>
  \/ Fault("rpc") /\ UNCHANGED aria2
=============================================================================

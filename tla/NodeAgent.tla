------------------------------- MODULE NodeAgent -------------------------------
(***************************************************************************)
(* The whole node agent: the life of tasks (TaskLifecycle), the storage    *)
(* loop that ends it, the links tasks are served under, and the clock by   *)
(* which they complete and expire.                                         *)
(***************************************************************************)
EXTENDS TaskLifecycle, StorageAgent, DownloadLink

CONSTANT MaxTime   \* bound: when the clock stops

agentVars == <<vars, storageVars, link>>

AgentInit == Init /\ StorageInit /\ LinkInit

Clock ==
  /\ now < MaxTime
  /\ now' = now + 1
  /\ UNCHANGED <<db, aria2, disk, faults, tickVars, req, storageVars, link>>

\* The storage loop starts anew with the process, and connections are lost.
AgentRestart == NodeRestart /\ StorageSleeps /\ link' = [l \in Links |-> NoLink]

AgentNext ==
  \/ LifecycleStep /\ UNCHANGED <<storageVars, link>>
  \/ StorageNext /\ UNCHANGED <<tickVars, req, link>>
  \/ LinkNext /\ UNCHANGED <<tickVars, req, storageVars>>
  \/ AgentRestart
  \/ Clock

AgentSpec == AgentInit /\ [][AgentNext]_agentVars

\* _storage_loop never ends either, and time passes.
AgentFairness ==
  /\ Fairness
  /\ WF_agentVars(StorageStep /\ UNCHANGED <<tickVars, req, link>>)
  /\ WF_agentVars(Clock)

AgentFairSpec == AgentSpec /\ AgentFairness

-----------------------------------------------------------------------------

\* Every variable of the node keeps its type; in particular enforce_quota never
\* counts more as freed than there is.
AgentTypeOK == TypeOK /\ StorageTypeOK /\ LinkTypeOK

Evicting(t) == scur[t].status = "expired"

\* The faults that cost no commit and no rmtree, or none yet.
Intact == FaultKinds \subseteq {"rpc", "aria2"} \/ faults = 0

\* ... and of those the ones after which aria2 still knows what it did.
Remembered == FaultKinds \subseteq {"rpc"} \/ faults = 0

\* models/task.py: a completed task has its file.  Only a request or a storage
\* session between its rmtree and its commit may leave the row without one.
ServedUntilPurged ==
  \A t \in Tasks :
    db[t].status = "completed" => disk[t] = "full" \/ Purging(t) \/ Evicting(t)

\* models/task.py: "expired: the files are removed".  Nothing writes them again,
\* although aria2, the tick and DELETE work on while a task expires, unless aria2 is
\* restarted with a session file from before the task completed.
ExpiredIsFreed ==
  Remembered => \A t \in Tasks : db[t].status = "expired" => disk[t] = "absent"

\* What enforce_quota listed fits the quota when it commits, whatever requests
\* have deleted since it added the sizes up.
QuotaEffective ==
  [][QuotaCommit => Total({t \in Listed : db'[t].status = "completed"}) <= StorageLimit]_agentVars

\* enforce_quota keeps no task that completed before one it removed.
EvictsOldest ==
  [][QuotaCommit =>
       \A t, u \in Listed : Evicting(t) /\ db'[u].status = "completed"
                              => listed[t].completedAt <= listed[u].completedAt]_agentVars

\* storage_agent.py: enforce_quota removes tasks "until the total <= storage_limit_gb",
\* so it removes none when the completed ones fit.
QuotaStops ==
  [][\A t \in Tasks : QuotaPurge(t) =>
       Total({u \in Listed : db[u].status = "completed" /\ ~Evicting(u)}) > StorageLimit]_agentVars

\* As long as nothing failed, a file that a link is granted is there whole, although its row
\* was read before an await and DELETE may have removed it since.  When the response opens
\* it, later, it may be gone (LinkSend).
ServesWholeFile ==
  [][faults = 0 =>
       \A l \in Links, name \in Names :
         LinkAnswer(l, TRUE, name) /\ link'[l].pc = "sending" => disk[link[l].task] = "full"]_agentVars

\* README_NODE.md: the link is valid within TTL_MINUTES.  As long as nothing failed,
\* only DELETE and the quota take a file from a link that is still in time, however
\* close cleanup_expired is.
LinkOutlives ==
  faults = 0 => \A l \in Links :
    LET t == link[l].task
    IN  link[l].pc = "loaded" /\ link[l].row.status = "completed" /\ ~TokenExpired(link[l].row)
          => \/ IsFile(t, "own")
             \/ Purging(t)
             \/ spc \in {"evict", "purge"} /\ Evicting(t)
             \/ db[t].status \in {"expired", "failed"}

\* README_NODE.md: "download_url is a link valid within TTL_MINUTES": a GET of it with
\* its token, while it is in time and the file there, is served.
LinkServes ==
  [][\A l \in Links : LET t == link[l].task IN
       /\ link[l].pc = "loaded" /\ DownloadUrl(link[l].row)
       /\ ~TokenExpired(link[l].row) /\ disk[t] = "full"
       /\ LinkAnswer(l, TRUE, "own")
       => link'[l].pc = "sending"]_agentVars

\* A completed task whose time to live ends before the clock does does not stay
\* completed, through restarts and racing requests.  It expires, or a DELETE that read it
\* while it was downloading makes it failed, and its file stays.
EventuallyExpired ==
  \A t \in Tasks :
    db[t].status = "completed" /\ db[t].completedAt + TTL < MaxTime
      ~> db[t].status \in {"expired", "failed"}

\* README.md: "only a temporary cache, no permanent storage", so the files of a failed
\* task go away too.
FailedIsFreed ==
  \A t \in Tasks : db[t].status = "failed" ~> disk[t] \in {"absent", "empty"}
-----------------------------------------------------------------------------
(***************************************************************************)
(* Why these hold: what the storage loop, the requests and the links may   *)
(* rely on about a row they once read as completed.  The conjunction,      *)
(* AgentInv, is inductive.                                                 *)
(***************************************************************************)

\* Nothing but DELETE and the storage loop will write the row again.
Settled(t) ==
  /\ db[t].status \in {"completed", "failed", "expired"}
  /\ pc \in {"sync", "fill"} => t \notin InSession

InStorage == {t \in Tasks : ssnap[t].status # "none"}

\* Rows in a storage session have been completed, and are settled since.
StorageSession ==
  /\ spc \in {"idle", "list"} => InStorage = {} /\ stodo = {}
  /\ spc = "clean" => /\ stodo \subseteq InStorage
                      /\ \A t \in InStorage : ssnap[t].completedAt + TTL < now
  /\ \A t \in Tasks :
       /\ t \notin InStorage => scur[t] = ssnap[t]
       /\ t \in InStorage =>
            /\ ssnap[t].status = "completed"
            /\ scur[t] = IF t \in stodo THEN ssnap[t] ELSE Purged(ssnap[t])
            /\ Settled(t)
            /\ db[t].status = "completed" => db[t].completedAt = ssnap[t].completedAt

\* enforce_quota works through what it listed in order, and skips what is gone.
QuotaSession ==
  IF spc \in {"evict", "purge"}
  THEN /\ stodo \cup InStorage \subseteq Listed
       /\ \A t \in Listed : Settled(t) /\ listed[t].completedAt # NoTime
       /\ \A t \in Listed \ stodo : t \in InStorage \/ db[t].status # "completed"
       /\ \A t \in InStorage, u \in stodo : Earlier(listed[t], listed[u])
       /\ freed <= Total(InStorage \ stodo)
       /\ spc = "evict" => InStorage \cap stodo = {}
       /\ spc = "purge" => \E t \in Tasks : InStorage \cap stodo = {t}
  ELSE Listed = {} /\ freed = 0

\* A link works on a row that completed once, at the time it read.
LinkSession ==
  \A l \in Links : link[l].pc # "idle" /\ link[l].row.status = "completed" =>
    LET t == link[l].task
    IN  /\ t \in Tasks
        /\ Settled(t)
        /\ db[t].status = "completed" => db[t].completedAt = link[l].row.completedAt
        /\ t \in InStorage => ssnap[t].completedAt = link[l].row.completedAt

\* The task has completed: its row says so, or somebody has read that it did.
Finished(t) ==
  \/ db[t].status \in {"completed", "expired"}
  \/ t \in InStorage
  \/ \E h \in Handlers : /\ req[h].pc # "idle" /\ req[h].task = t
                         /\ req[h].row.status = "completed"
  \/ \E l \in Links : /\ link[l].pc # "idle" /\ link[l].task = t
                      /\ link[l].row.status = "completed"

\* aria2 will write no more for the task.
Ceased(t) == \A g \in Gids(t) : aria2[t][g] \in {"complete", "removed", "gone", "lost"}

\* The directory while the task is on its way, and once it has completed, when only one
\* download can have written to it.
FilesKept(t) ==
  /\ Len(aria2[t]) <= 1
  /\ db[t].status \in {"none", "queued"} /\ ~(pc = "fill" /\ t \in InSession)
       => Len(aria2[t]) = 0
  /\ pc = "fill" /\ t \in todo => Len(aria2[t]) = 0
  /\ db[t].status \in {"queued", "downloading"} \/ (pc \in {"sync", "fill"} /\ t \in InSession)
       => /\ disk[t] # "absent"
          /\ \A g \in Gids(t) : aria2[t][g] = "complete" => disk[t] = "full"
  /\ pc = "sync" /\ t \in InSession /\ cur[t].status = "completed" => disk[t] = "full"
  /\ db[t].status = "completed" => disk[t] = "full" \/ Purging(t) \/ Evicting(t)

\* ... and while aria2 does not take up again what had completed or was removed.
FilesFreed(t) ==
  /\ pc = "sync" /\ t \in InSession /\ cur[t].status = "completed" => Ceased(t)
  /\ Finished(t) => Ceased(t) /\ disk[t] \in {"full", "absent"}
  /\ db[t].status = "expired" \/ Purging(t) \/ Evicting(t) => disk[t] = "absent"

\* What the table says of a file is true of the disk, and everybody who may change
\* either relies on rows that stay as they are: the invariant the proofs about files,
\* links and the quota rest on.
AgentInv ==
  /\ SessionsInv /\ StorageSession /\ QuotaSession /\ LinkSession
  /\ Intact => \A t \in Tasks : FilesKept(t)
  /\ Remembered => \A t \in Tasks : FilesFreed(t)
=============================================================================

----------------------------- MODULE NodeProcess -----------------------------
(***************************************************************************)
(* The lifespan of a node process (main.py), and two of them on one host.  *)
(* A process builds its tables and its directory, starts its loops and     *)
(* only then asks for the port: one that finds it taken has already run    *)
(* its tick.  A process that was told to stop gives the port up first and  *)
(* waits for its connections with the loops still running.  Both share the *)
(* table, aria2 and the directory.                                         *)
(***************************************************************************)
EXTENDS TaskLifecycle

VARIABLES
  phase,                              \* phase[p]: how far the process p is
  pc2, snap2, cur2, todo2, slots2     \* the tick of the second process

secondVars == <<pc2, snap2, cur2, todo2, slots2>>

processVars == <<vars, phase, secondVars>>

Second == INSTANCE TaskManager
  WITH pc <- pc2, snap <- snap2, cur <- cur2, todo <- todo2, slots <- slots2

Processes == {1, 2}

Phase == {"down", "tables", "folder", "binding", "serving", "stopping"}

ProcessInit ==
  /\ Init
  /\ Second!TickInit
  /\ phase = [p \in Processes |-> "down"]

Enter(p, ph) == phase' = [phase EXCEPT ![p] = ph]

Up == {p \in Processes : phase[p] # "down"}

Serving == {p \in Processes : phase[p] = "serving"}

\* The background tasks exist.
Looping(p) == phase[p] \in {"binding", "serving", "stopping"}

-----------------------------------------------------------------------------
(* lifespan, up to its yield *)

\* A second process is an event of its own: two calls of a start script, another
\* worker, or a restart that does not wait.
Launch(p) ==
  /\ phase[p] = "down"
  /\ IF Up = {} THEN UNCHANGED faults ELSE Fault("start")
  /\ Enter(p, "tables")
  /\ UNCHANGED <<db, aria2, disk, now, tickVars, req, secondVars>>

\* init_db raises: the process ends.
InitDb(p) ==
  /\ phase[p] = "tables"
  /\ \/ Enter(p, "folder") /\ UNCHANGED faults
     \/ Fault("db") /\ Enter(p, "down")
  /\ UNCHANGED <<db, aria2, disk, now, tickVars, req, secondVars>>

\* The agents and the two loops follow the mkdir without a failure of their own; the
\* Center is not asked (see README).
MakeFolder(p) ==
  /\ phase[p] = "folder"
  /\ \/ Enter(p, "binding") /\ UNCHANGED faults
     \/ Fault("fs") /\ Enter(p, "down")
  /\ UNCHANGED <<db, aria2, disk, now, tickVars, req, secondVars>>

\* uvicorn asks for the port when the lifespan has started.
Bind(p) ==
  /\ phase[p] = "binding"
  /\ Enter(p, IF Serving = {} THEN "serving" ELSE "stopping")
  /\ UNCHANGED <<nodeVars, tickVars, req, secondVars>>

-----------------------------------------------------------------------------
(* ... and after it *)

\* SIGTERM: no new connections, the open ones go on.
Stop(p) ==
  /\ phase[p] = "serving"
  /\ Fault("restart")
  /\ Enter(p, "stopping")
  /\ UNCHANGED <<db, aria2, disk, now, tickVars, req, secondVars>>

\* The loops are cancelled at whatever await they are; open sessions are lost.
CancelledLeavesLoops(p) == UNCHANGED <<tickVars, secondVars>>

Cancelled(p) ==
  IF p = 1 THEN pc' = "idle" /\ Closed /\ UNCHANGED <<slots, secondVars>>
           ELSE pc2' = "idle" /\ Second!Closed /\ UNCHANGED <<slots2, tickVars>>

End(p) ==
  /\ phase[p] = "stopping"
  /\ Enter(p, "down")
  /\ Cancelled(p)
  /\ UNCHANGED <<nodeVars, req>>

Kill(p) ==
  /\ phase[p] # "down"
  /\ Fault("restart")
  /\ Enter(p, "down")
  /\ Cancelled(p)
  /\ UNCHANGED <<db, aria2, disk, now, req>>

-----------------------------------------------------------------------------
(* Both at work. *)

\* A tick that fails ends early, and the loop goes on.
Tick(p) ==
  /\ Looping(p)
  /\ \/ p = 1 /\ TickNext /\ UNCHANGED secondVars
     \/ p = 2 /\ Second!TickNext /\ UNCHANGED tickVars
  /\ UNCHANGED <<phase, req>>

Accept(t) ==
  /\ \E p \in Processes : phase[p] \in {"serving", "stopping"}
  /\ Enqueue(t)
  /\ UNCHANGED <<phase, tickVars, req, secondVars>>

Aria(t) == \E g \in Gids(t) : AriaStep(t, g) /\ UNCHANGED <<phase, tickVars, req, secondVars>>

DaemonRestart == AriaRestart /\ UNCHANGED <<phase, tickVars, req, secondVars>>

Starting(p) == InitDb(p) \/ MakeFolder(p) \/ Bind(p) \/ End(p)

ProcessNext ==
  \/ \E p \in Processes : Launch(p) \/ Starting(p) \/ Stop(p) \/ Kill(p) \/ Tick(p)
  \/ \E t \in Tasks : Accept(t) \/ Aria(t)
  \/ DaemonRestart

(***************************************************************************)
(* A process goes through its lifespan, its connections end or are cut     *)
(* (manage.sh kills what does not stop), and somebody starts the node      *)
(* again when none is up (docker-compose.yml: restart: unless-stopped).    *)
(***************************************************************************)
ProcessFairness ==
  /\ \A p \in Processes : WF_processVars(Starting(p)) /\ WF_processVars(Tick(p))
  /\ WF_processVars(Up = {} /\ \E p \in Processes : Launch(p))
  /\ \A t \in Tasks : WF_processVars(Aria(t))

ProcessSpec == ProcessInit /\ [][ProcessNext]_processVars /\ ProcessFairness

-----------------------------------------------------------------------------

\* Every variable keeps its type, for two overlapping ticks too.
ProcessTypeOK ==
  /\ TypeOK
  /\ Second!TickTypeOK
  /\ phase \in [Processes -> Phase]

-----------------------------------------------------------------------------
(***************************************************************************)
(* Why rows stay consistent and downloads bounded, with two ticks that may *)
(* both be anywhere: a row only gains (a path, a time, a gid, a status     *)
(* that is no longer queued), so that what a session read of it still      *)
(* bounds what it is.  ProcessInv is inductive.                            *)
(***************************************************************************)

Loaded(s) == {t \in Tasks : s[t].status # "none"}

\* A row of a table that has given out n gids for its task.
RowSound(row, n) ==
  /\ row.gid \in 0..n
  /\ row.status \in {"none", "queued"} => row = [NoRow EXCEPT !.status = row.status]
  /\ row.status \in {"downloading", "completed"} => row.gid # NoGid
  /\ row.status = "completed" => row.path /\ row.completedAt # NoTime

\* A row that a tick at c has loaded as old and will write as new, once it is not due.
Held(c, row, n, old, new, due) ==
  /\ row.status # "none"
  /\ old.path => row.path /\ new.path
  /\ old.completedAt # NoTime => row.completedAt # NoTime /\ new.completedAt # NoTime
  /\ due => new = old
  /\ c = "sync" => /\ old.status = "downloading" /\ row.status # "queued"
                   /\ row.gid # NoGid /\ new.gid = old.gid
                   /\ new.status \in {"downloading", "completed", "failed"}
                   /\ new.status = "completed" => new.path /\ new.completedAt # NoTime
  /\ c = "fill" => /\ old = QueuedRow
                   /\ new.gid \in 0..n
                   /\ ~due => new.status \in {"downloading", "failed"}
                   /\ ~due /\ new.status = "downloading" => new.gid # NoGid

\* The session of a tick at c that loaded s, has assigned u and still has d to do.
SessionSound(c, s, u, d) ==
  /\ d \subseteq Loaded(s)
  /\ c \notin {"sync", "fill"} => Loaded(s) = {}
  /\ \A t \in Tasks :
       IF s[t].status = "none"
       THEN u[t] = s[t]
       ELSE Held(c, db[t], Len(aria2[t]), s[t], u[t], t \in d)

\* An addUri that a fill session has made or will make, and one that it will make.
Filling(t, c, s) == IF c = "fill" /\ t \in Loaded(s) THEN 1 ELSE 0
Due(t, c, d) == IF c = "fill" /\ t \in d THEN 1 ELSE 0

Running(p) == IF phase[p] = "down" THEN 0 ELSE 1

\* How many processes can still end without a further fault: all but one that serves, or
\* is on its way to.
Endings ==
  Running(1) + Running(2) - IF \E p \in Up : phase[p] # "stopping" THEN 1 ELSE 0

\* A session that is lost without a fault of its own is that of a process whose start or
\* stop was one.
AddsOwed(t) ==
  LET adds == Len(aria2[t]) + Due(t, pc, todo) + Due(t, pc2, todo2)
  IN  /\ adds <= 1 + faults
      /\ db[t].status \in {"none", "queued"} =>
           adds + Endings <= faults + Filling(t, pc, snap) + Filling(t, pc2, snap2)

\* The inductive invariant of two overlapping processes: rows are sound, what each tick
\* has read still bounds what the row is, only a process with loops has a tick under way,
\* and every download is owed to the row, to a fault or to a process about to end.
ProcessInv ==
  /\ ProcessTypeOK
  /\ \A t \in Tasks : RowSound(db[t], Len(aria2[t]))
  /\ SessionSound(pc, snap, cur, todo)
  /\ SessionSound(pc2, snap2, cur2, todo2)
  /\ pc # "idle" => Looping(1)
  /\ pc2 # "idle" => Looping(2)
  /\ \A t \in Tasks : AddsOwed(t)
=============================================================================

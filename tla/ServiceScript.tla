---------------------------- MODULE ServiceScript ----------------------------
(***************************************************************************)
(* scripts/manage.sh: start, stop, restart and status of the two services  *)
(* or of both in their order, through pid files, which may be missing,     *)
(* stale, or name a process that has nothing to do with the service.       *)
(* Several people may call the script at once; each step of an invocation  *)
(* below reads or changes a pid file or the process table once.            *)
(***************************************************************************)
EXTENDS Integers, FiniteSets, Sequences

CONSTANTS
  Pids,    \* bound: process ids
  Users,   \* bound: invocations of the script at the same time
  Calls,   \* bound: what they may be called with, as <<command, target>>
  ByHand   \* bound: the services whose program someone may start by hand

ASSUME PidsAssumption == Pids \subseteq Nat \ {0} /\ IsFiniteSet(Pids)

VARIABLES
  proc,      \* proc[p]: the process with id p, and the service it is of
  pidfile,   \* pidfile[s]: the id in the pid file of the service s
  inv        \* inv[u]: where the invocation of u is

scriptVars == <<proc, pidfile, inv>>

NoPid == 0

Service == {"aria2", "node"}

\* "forked": a subshell that has not exec'ed the service yet; "starting": the service
\* before it listens.  The command line of the others lacks the keyword: "foreign" listens
\* on the port of the service (an aria2c started by hand does), "other" on neither.
Process == [is : {"none", "other"}, of : {"nobody"}]
             \cup [is : {"forked", "starting", "serving", "foreign"}, of : Service]
NoProcess == [is |-> "none", of |-> "nobody"]

Of(s, states) == {p \in Pids : proc[p].of = s /\ proc[p].is \in states}

Live(s) == Of(s, {"starting", "serving"})

Listening(s) == Of(s, {"serving", "foreign"})

WithoutKeyword == {"other", "foreign"}

Command == {"start", "stop", "restart", "status"}
Target == Service \cup {"all"}

ASSUME CallsAssumption == Calls \subseteq Command \X Target
ASSUME ByHandAssumption == ByHand \subseteq Service

\* queue: the services still to do, the present one first; alone: no other invocation
\* nor a clean-up overlapped this one, and at most one process of each service ran before;
\* misled: alone, and its search for a service that ran ended at its own awk
Idle == [pc |-> "idle", cmd |-> "status", target |-> "all", queue |-> <<>>, pid |-> NoPid,
         alone |-> FALSE, misled |-> FALSE]

ScriptPc == {"idle", "read", "probe", "unlink", "find", "record", "launch", "write", "health",
             "alive", "kill", "remove"}

ScriptTypeOK ==
  /\ proc \in [Pids -> Process]
  /\ pidfile \in [Service -> Pids \cup {NoPid}]
  /\ inv \in [Users -> [pc : ScriptPc, cmd : Command, target : Target, queue : Seq(Service),
                        pid : Pids \cup {NoPid}, alone : BOOLEAN, misled : BOOLEAN]]

ScriptInit ==
  /\ proc = [p \in Pids |-> NoProcess]
  /\ pidfile = [s \in Service |-> NoPid]
  /\ inv = [u \in Users |-> Idle]

\* An id is not given to a new process while an invocation holds it: the kernel hands
\* out all the others first.
Free == {p \in Pids : proc[p] = NoProcess /\ \A u \in Users : inv[u].pid # p}

At(u, pc) == inv[u].pc = pc
Goto(u, pc) == inv' = [inv EXCEPT ![u].pc = pc]
GotoWith(u, pc, p) == inv' = [inv EXCEPT ![u].pc = pc, ![u].pid = p]

-----------------------------------------------------------------------------

Current(u) == Head(inv[u].queue)

StartOrder == <<"aria2", "node">>

\* Mutant: both orders are the same.
StopOrderAsStart == <<"aria2", "node">>

StopOrder == <<"node", "aria2">>

Order(cmd, target) ==
  IF target # "all" THEN <<target>>
  ELSE IF cmd \in {"stop", "restart"} THEN StopOrder ELSE StartOrder

Overlapped(i) == [i EXCEPT !.alone = FALSE, !.misled = FALSE]

Begin(u, cmd, target) ==
  LET others == Users \ {u}
      alone == /\ \A v \in others : At(v, "idle")
               /\ \A s \in Service : Cardinality(Live(s)) <= 1
  IN  /\ At(u, "idle")
      /\ inv' = [v \in Users |->
                  IF v = u THEN [pc |-> "read", cmd |-> cmd, target |-> target,
                                 queue |-> Order(cmd, target), pid |-> NoPid, alone |-> alone,
                                 misled |-> FALSE]
                  ELSE Overlapped(inv[v])]
      /\ UNCHANGED <<proc, pidfile>>

\* start_service fails: the script exits, whatever it still had to do.
Failed(u) == inv' = [inv EXCEPT ![u] = Idle]

\* Done with a service: the next one, or start after the stop of a restart.
Finished(u) ==
  LET next(i) ==
        CASE Len(i.queue) > 1 -> [i EXCEPT !.pc = "read", !.queue = Tail(@), !.pid = NoPid]
          [] Len(i.queue) = 1 /\ i.cmd = "restart" ->
               [i EXCEPT !.pc = "read", !.cmd = "start", !.pid = NoPid,
                         !.queue = Order("start", i.target)]
          [] OTHER -> Idle
  IN  inv' = [inv EXCEPT ![u] = next(@)]

\* is_running found p: start has nothing to do, stop kills it.
Found(u, p) ==
  IF inv[u].cmd \in {"stop", "restart"} THEN GotoWith(u, "kill", p) ELSE Finished(u)

\* is_running found nothing.
NotFound(u) ==
  CASE inv[u].cmd = "start" -> Goto(u, "launch")
    [] inv[u].cmd \in {"stop", "restart"} -> Goto(u, "remove")
    [] OTHER -> Finished(u)

-----------------------------------------------------------------------------
(* is_running *)

\* read_valid_pid: the pid file
Read(u) ==
  /\ At(u, "read")
  /\ LET pid == pidfile[Current(u)]
     IN  IF pid = NoPid THEN Goto(u, "find") ELSE GotoWith(u, "probe", pid)
  /\ UNCHANGED <<proc, pidfile>>

\* Mutant: any process with that id will do.
ProbeAnyProcess(u) ==
  /\ At(u, "probe")
  /\ IF proc[inv[u].pid] # NoProcess THEN Found(u, inv[u].pid) ELSE Goto(u, "unlink")
  /\ UNCHANGED <<proc, pidfile>>

\* ... kill -0 and the keyword in its command line
Probe(u) ==
  /\ At(u, "probe")
  /\ IF inv[u].pid \in Live(Current(u)) THEN Found(u, inv[u].pid) ELSE Goto(u, "unlink")
  /\ UNCHANGED <<proc, pidfile>>

\* Mutant: no search by keyword.
UnlinkGivesUp(u) ==
  /\ At(u, "unlink")
  /\ pidfile' = [pidfile EXCEPT ![Current(u)] = NoPid]
  /\ NotFound(u)
  /\ UNCHANGED proc

Unlink(u) ==
  /\ At(u, "unlink")
  /\ pidfile' = [pidfile EXCEPT ![Current(u)] = NoPid]
  /\ Goto(u, "find")
  /\ UNCHANGED proc

\* Mutant: the search never finds anything.
FindNothing(u) == At(u, "find") /\ NotFound(u) /\ UNCHANGED <<proc, pidfile>>

\* find_running_pid_by_keyword: the first line with the keyword of a ps list sorted by id.
\* The keyword is an argument of the awk that reads the list, too.  That process may be in
\* the list (unless ps was faster), before the service when its id is lower, as it can be
\* once ids are used again, and is gone at once.
Find(u) ==
  /\ At(u, "find")
  /\ LET live == Live(Current(u))
     IN  \/ \E p \in live : (\A q \in live : p <= q) /\ GotoWith(u, "record", p)
         \/ \E awk \in Free :
              /\ \A q \in live : awk < q
              /\ inv' = [inv EXCEPT ![u].pc = "record", ![u].pid = awk,
                                    ![u].misled = @ \/ (inv[u].alone /\ live # {})]
         \/ live = {} /\ NotFound(u)
  /\ UNCHANGED <<proc, pidfile>>

Record(u) ==
  /\ At(u, "record")
  /\ pidfile' = [pidfile EXCEPT ![Current(u)] = inv[u].pid]
  /\ Found(u, inv[u].pid)
  /\ UNCHANGED proc

-----------------------------------------------------------------------------
(* start_service *)

\* python or aria2c may be missing.
Dies(u) == At(u, "launch") /\ Failed(u) /\ UNCHANGED <<proc, pidfile>>

Launch(u) ==
  /\ At(u, "launch")
  /\ \E p \in Free :
       /\ proc' = [proc EXCEPT ![p] = [is |-> "forked", of |-> Current(u)]]
       /\ GotoWith(u, "write", p)
  /\ UNCHANGED pidfile

\* Mutant: the pid file is not written.
WriteNothing(u) == At(u, "write") /\ Goto(u, "health") /\ UNCHANGED <<proc, pidfile>>

Write(u) ==
  /\ At(u, "write")
  /\ pidfile' = [pidfile EXCEPT ![Current(u)] = inv[u].pid]
  /\ Goto(u, "health")
  /\ UNCHANGED proc

\* health_check asks the port, whoever listens; the subshell has exec'ed by the time
\* curl has been run.
Healthy(u) ==
  /\ At(u, "health")
  /\ proc[inv[u].pid].is # "forked"
  /\ Listening(Current(u)) # {}
  /\ Finished(u)
  /\ UNCHANGED <<proc, pidfile>>

\* No answer, or not in time.
Unhealthy(u) ==
  /\ At(u, "health")
  /\ proc[inv[u].pid].is # "forked"
  /\ Goto(u, "alive")
  /\ UNCHANGED <<proc, pidfile>>

\* kill -0: a dead child, or WAIT_MAX seconds, end the wait.
Alive(u) ==
  /\ At(u, "alive")
  /\ \/ proc[inv[u].pid] # NoProcess /\ Goto(u, "health")
     \/ Goto(u, "kill")
  /\ UNCHANGED <<proc, pidfile>>

-----------------------------------------------------------------------------
(* kill_pid_gently, and the pid file that goes with it (stop, failed start) *)

\* The process is gone, before SIGTERM or after it.
Gone(u) ==
  /\ At(u, "kill")
  /\ proc[inv[u].pid] = NoProcess
  /\ Goto(u, "remove")
  /\ UNCHANGED <<proc, pidfile>>

\* SIGTERM did not help in time.
ForceKill(u) ==
  /\ At(u, "kill")
  /\ proc[inv[u].pid] # NoProcess
  /\ proc' = [proc EXCEPT ![inv[u].pid] = NoProcess]
  /\ Goto(u, "remove")
  /\ UNCHANGED pidfile

Remove(u) ==
  /\ At(u, "remove")
  /\ pidfile' = [pidfile EXCEPT ![Current(u)] = NoPid]
  /\ IF inv[u].cmd = "start" THEN Failed(u) ELSE Finished(u)
  /\ UNCHANGED proc

-----------------------------------------------------------------------------
(* The processes. *)

Become(p, process) ==
  /\ proc' = [proc EXCEPT ![p] = process]
  /\ UNCHANGED <<pidfile, inv>>

Exec(p) == proc[p].is = "forked" /\ Become(p, [proc[p] EXCEPT !.is = "starting"])

\* The service listens on its port, or ends when another one does.
Bind(p) ==
  /\ proc[p].is = "starting"
  /\ Become(p, IF Listening(proc[p].of) = {} THEN [proc[p] EXCEPT !.is = "serving"]
                                            ELSE NoProcess)

Exit(p) == proc[p].is \in {"starting", "serving"} \cup WithoutKeyword /\ Become(p, NoProcess)

\* install.sh, "clean runtime": the pid files go, whatever runs.
CleanRuntime ==
  /\ pidfile' = [s \in Service |-> NoPid]
  /\ inv' = [u \in Users |-> Overlapped(inv[u])]
  /\ UNCHANGED proc

OtherStarts(p) == p \in Free /\ Become(p, [is |-> "other", of |-> "nobody"])

\* README_NODE.md, 2.3: aria2c and uvicorn started by hand, on the port of the service
ForeignStarts(p, s) == p \in Free /\ Listening(s) = {} /\ Become(p, [is |-> "foreign", of |-> s])

Step(u) ==
  \/ Read(u) \/ Probe(u) \/ Unlink(u) \/ Find(u) \/ Record(u)
  \/ Dies(u) \/ Launch(u) \/ Write(u) \/ Healthy(u) \/ Unhealthy(u) \/ Alive(u)
  \/ Gone(u) \/ ForceKill(u) \/ Remove(u)

ScriptNext ==
  \/ \E u \in Users : Step(u) \/ \E call \in Calls : Begin(u, call[1], call[2])
  \/ \E p \in Pids : \/ Exec(p) \/ Bind(p) \/ Exit(p) \/ OtherStarts(p)
                    \/ \E s \in ByHand : ForeignStarts(p, s)
  \/ CleanRuntime

ScriptSpec == ScriptInit /\ [][ScriptNext]_scriptVars

-----------------------------------------------------------------------------

\* manage.sh: "match the command line, so as not to kill another aria2 or uvicorn":
\* a signal never reaches a process that is not the service, whatever a stale pid file
\* says and whatever other invocations do.
OnlyServiceSignalled ==
  \A u \in Users : At(u, "kill") => proc[inv[u].pid].of \in {Current(u), "nobody"}
                                      /\ proc[inv[u].pid].is \notin WithoutKeyword

\* The node never sees aria2 stopped under it: an invocation that stops both, and runs
\* alone, kills aria2 when no node process is left, unless its search found its own awk.
NodeStopsFirst ==
  \A u \in Users :
    At(u, "kill") /\ inv[u].alone /\ ~inv[u].misled /\ inv[u].target = "all"
      /\ inv[u].cmd # "start" /\ Current(u) = "aria2" => Live("node") = {}

\* A start that runs alone never makes a second process of a service, with whatever
\* pid file it finds and whatever its searches end at.
LaunchIsSingle == [][\A u \in Users : Launch(u) /\ inv[u].alone => Live(Current(u)) = {}]_scriptVars

\* A stop (and a failed start) that runs alone leaves no process of the service behind,
\* unless its search found its own awk in the place of the service.
StopStops ==
  [][\A u \in Users : Remove(u) /\ inv[u].alone /\ ~inv[u].misled =>
       Live(Current(u)) = {}]_scriptVars

\* When a start that runs alone reports success and no program started by hand has the
\* port, the service that answers is the one it started and the pid file names.
StartOwnsPort ==
  [][\A u \in Users : Healthy(u) /\ inv[u].alone /\ Of(Current(u), {"foreign"}) = {} =>
       proc[inv[u].pid].is = "serving" /\ pidfile[Current(u)] = inv[u].pid]_scriptVars

\* manage.sh: "ps + awk does not match this script either": what the search takes for the
\* service is one of its processes.
FindsOnlyService ==
  [][\A u \in Users : Find(u) => inv'[u].pid \in Live(Current(u)) \cup {inv[u].pid, NoPid}]_scriptVars

-----------------------------------------------------------------------------
(***************************************************************************)
(* Why these hold: what an invocation knows of the process it holds, and   *)
(* one that runs alone of every process of the service it is busy with.    *)
(* Their conjunction is inductive.                                         *)
(***************************************************************************)

Holding == {"record", "write", "health", "alive", "kill"}

\* An invocation that is busy is busy with a service, each command has steps of its own,
\* and the process held is of that service, or gone, and then its id is not used again.
Busy(i) ==
  i.pc # "idle" =>
    /\ i.queue # <<>>
    /\ i.pc \in {"launch", "write", "health", "alive"} => i.cmd = "start"
    /\ i.pc \in {"kill", "remove"} => i.cmd # "status"
    /\ i.pc \in {"probe"} \cup Holding => i.pid \in Pids
    /\ i.pc \in Holding => /\ proc[i.pid].of \in {Head(i.queue), "nobody"}
                           /\ proc[i.pid].is \notin WithoutKeyword

\* A subshell is waited for by the invocation that forked it.
ForksHeld ==
  \A p \in Pids : proc[p].is = "forked" =>
    \E u \in Users : inv[u].pid = p /\ inv[u].pc \in {"write", "health"}

Running(s) == Of(s, {"forked", "starting", "serving"})

\* What an awk hides from an invocation: the process to stop, or not to start again.
\* What it launches it knows of whatever it missed before.
Sees(i) == i.misled => i.cmd = "start" /\ i.pc # "record"

\* Who runs alone has every process of its service in hand, and has stopped the services
\* before it.
Knows(i) ==
  i.alone =>
    /\ \A s \in Service : \A p, q \in Running(s) : p = q
    /\ i.pc \in Holding /\ Sees(i) => Running(Head(i.queue)) \subseteq {i.pid}
    /\ i.pc \in {"launch", "remove"} /\ Sees(i) => Running(Head(i.queue)) = {}
    /\ i.pc \in {"health", "alive"} => pidfile[Head(i.queue)] = i.pid
    /\ i.target = "all" /\ i.cmd \in {"stop", "restart"} =>
         \/ i.queue = StopOrder
         \/ i.queue = Tail(StopOrder) /\ (Running(StopOrder[1]) = {} \/ i.misled)

Alone(u) == inv[u].alone => ~At(u, "idle") /\ \A v \in Users \ {u} : At(v, "idle")

ScriptInv ==
  /\ ScriptTypeOK
  /\ ForksHeld
  /\ \A u \in Users : Busy(inv[u]) /\ Alone(u) /\ Knows(inv[u])
=============================================================================

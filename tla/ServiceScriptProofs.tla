------------------------- MODULE ServiceScriptProofs -------------------------
(***************************************************************************)
(* ScriptInv is inductive, for any number of invocations and any finite    *)
(* set of process ids, and the properties of ServiceScript follow from it. *)
(***************************************************************************)
EXTENDS ServiceScript, FiniteSetTheorems, TLAPS

Invocation == [pc : ScriptPc, cmd : Command, target : Target, queue : Seq(Service),
               pid : Pids \cup {NoPid}, alone : BOOLEAN, misled : BOOLEAN]

\* Processes only end.
OnlyEnd == \A p \in Pids : proc'[p] = proc[p] \/ proc'[p] = NoProcess

-----------------------------------------------------------------------------
(* The invocation of one user moves on. *)

LEMMA RunningShrinks ==
  ASSUME OnlyEnd, NEW s \in Service
  PROVE  Running(s)' \subseteq Running(s)
  BY DEF OnlyEnd, Running, Of, NoProcess

LEMMA NoPidIsNone == NoPid \notin Pids
  BY PidsAssumption DEF NoPid

LEMMA QueueHead ==
  ASSUME NEW q \in Seq(Service), q # <<>>
  PROVE  Head(q) \in Service /\ Tail(q) \in Seq(Service)
  OBVIOUS

\* What has to be shown of a step of u that puts i in the place of its invocation.
LEMMA Moves ==
  ASSUME ScriptInv, NEW u \in Users, ~At(u, "idle"), NEW i \in Invocation,
         inv' = [inv EXCEPT ![u] = i],
         proc' \in [Pids -> Process], OnlyEnd,
         pidfile' \in [Service -> Pids \cup {NoPid}],
         Busy(i)', Knows(i)',
         i.alone => i.pc # "idle" /\ inv[u].alone,
         \A p \in Pids : proc'[p].is = "forked" /\ inv[u].pid = p /\ inv[u].pc \in {"write", "health"}
                           => i.pid = p /\ i.pc \in {"write", "health"}
  PROVE  ScriptInv'
<1>1. ScriptTypeOK'
  <2>1. inv' \in [Users -> Invocation]
    BY DEF ScriptInv, ScriptTypeOK, Invocation
  <2> QED
    BY <2>1 DEF ScriptTypeOK, Invocation
<1>2. inv'[u] = i /\ \A v \in Users \ {u} : inv'[v] = inv[v]
  BY DEF ScriptInv, ScriptTypeOK
<1>3. ForksHeld'
  <2> SUFFICES ASSUME NEW p \in Pids, proc'[p].is = "forked"
               PROVE  \E v \in Users : inv'[v].pid = p /\ inv'[v].pc \in {"write", "health"}
    BY DEF ForksHeld
  <2>1. proc[p].is = "forked"
    BY DEF OnlyEnd, NoProcess
  <2>2. PICK v \in Users : inv[v].pid = p /\ inv[v].pc \in {"write", "health"}
    BY <2>1 DEF ScriptInv, ForksHeld
  <2> QED
    BY <2>2, <1>2
<1>4. ASSUME NEW v \in Users
      PROVE  Busy(inv[v])' /\ Alone(v)' /\ Knows(inv[v])'
  <2>1. CASE v = u
    <3>1. Busy(inv[v])' /\ Knows(inv[v])'
      BY <2>1, <1>2 DEF Busy, Knows, Running, Of
    <3>2. Alone(v)'
      BY <2>1, <1>2 DEF ScriptInv, Alone, At
    <3> QED
      BY <3>1, <3>2
  <2>2. CASE v # u
    <3>1. ~inv[v].alone
      BY <2>2, u \in Users \ {v} DEF ScriptInv, Alone
    <3>2. inv'[v] = inv[v]
      BY <2>2, <1>2
    <3>3. Busy(inv[v])
      BY DEF ScriptInv
    <3>4. Busy(inv[v])'
      BY <3>2, <3>3 DEF Busy, OnlyEnd, NoProcess, Holding, WithoutKeyword
    <3> QED
      BY <3>1, <3>2, <3>4 DEF Alone, Knows
  <2> QED
    BY <2>1, <2>2
<1> QED
  BY <1>1, <1>3, <1>4 DEF ScriptInv

\* What u is alone to know, and sees, when it has moved to c.
SeesAt(u, c) == inv[u].alone /\ (inv[u].misled => inv[u].cmd = "start" /\ c # "record")

\* The same when no process changes, and only the pid file of its service.
LEMMA Goes ==
  ASSUME ScriptInv, NEW u \in Users, ~At(u, "idle"),
         NEW c \in ScriptPc \ {"idle"}, NEW p \in Pids \cup {NoPid},
         inv' = [inv EXCEPT ![u] = [inv[u] EXCEPT !.pc = c, !.pid = p]],
         proc' = proc,
         pidfile' \in [Service -> Pids \cup {NoPid}],
         c \in {"launch", "write", "health", "alive"} => inv[u].cmd = "start",
         c \in {"kill", "remove"} => inv[u].cmd # "status",
         c \in {"probe"} \cup Holding => p \in Pids,
         c \in Holding => proc[p].of \in {Current(u), "nobody"} /\ proc[p].is \notin WithoutKeyword,
         SeesAt(u, c) /\ c \in Holding => Running(Current(u)) \subseteq {p},
         SeesAt(u, c) /\ c \in {"launch", "remove"} => Running(Current(u)) = {},
         inv[u].alone /\ c \in {"health", "alive"} => pidfile'[Current(u)] = p,
         inv[u].pc \in {"write", "health"} /\ proc[inv[u].pid].is = "forked"
           => p = inv[u].pid /\ c \in {"write", "health"}
  PROVE  ScriptInv'
<1>1. inv[u] \in Invocation
  BY DEF ScriptInv, ScriptTypeOK, Invocation
<1>2. PICK i \in Invocation : i = [inv[u] EXCEPT !.pc = c, !.pid = p]
  BY <1>1 DEF Invocation
<1>3. /\ i.pc = c /\ i.pid = p /\ i.queue = inv[u].queue /\ i.cmd = inv[u].cmd
      /\ i.target = inv[u].target /\ i.alone = inv[u].alone /\ i.misled = inv[u].misled
  BY <1>1, <1>2 DEF Invocation
<1>4. proc' \in [Pids -> Process] /\ OnlyEnd
  BY DEF ScriptInv, ScriptTypeOK, OnlyEnd
<1>5. Busy(inv[u]) /\ Knows(inv[u])
  BY DEF ScriptInv
<1>6. Running(Head(i.queue))' = Running(Current(u)) /\ \A s : Running(s)' = Running(s)
  BY <1>3 DEF Running, Of, Current
<1>7. Busy(i)'
  BY <1>3, <1>5 DEF Busy, Current, At
<1>8. Knows(i)'
  BY <1>3, <1>5, <1>6 DEF Knows, Current, Sees, SeesAt
<1>9. i.alone => i.pc # "idle" /\ inv[u].alone
  BY <1>3
<1>10. \A q \in Pids : proc'[q].is = "forked" /\ inv[u].pid = q /\ inv[u].pc \in {"write", "health"}
                          => i.pid = q /\ i.pc \in {"write", "health"}
  BY <1>3
<1> QED
  BY <1>2, <1>4, <1>7, <1>8, <1>9, <1>10, Moves

LEMMA GotoIs ==
  ASSUME ScriptInv, NEW u \in Users, NEW c
  PROVE  /\ Goto(u, c) => inv' = [inv EXCEPT ![u] = [inv[u] EXCEPT !.pc = c, !.pid = inv[u].pid]]
         /\ \A p : GotoWith(u, c, p) => inv' = [inv EXCEPT ![u] = [inv[u] EXCEPT !.pc = c, !.pid = p]]
<1>1. inv[u] \in Invocation
  BY DEF ScriptInv, ScriptTypeOK, Invocation
<1>2. [inv[u] EXCEPT !.pc = c, !.pid = inv[u].pid] = [inv[u] EXCEPT !.pc = c]
  BY <1>1 DEF Invocation
<1>3. [inv EXCEPT ![u].pc = c] = [inv EXCEPT ![u] = [inv[u] EXCEPT !.pc = c]]
  OBVIOUS
<1>4. \A p : [inv EXCEPT ![u].pc = c, ![u].pid = p]
               = [inv EXCEPT ![u] = [inv[u] EXCEPT !.pc = c, !.pid = p]]
  BY DEF ScriptInv, ScriptTypeOK
<1> QED
  BY <1>2, <1>3, <1>4 DEF Goto, GotoWith

\* A step of u that ends its call.
LEMMA Ends ==
  ASSUME ScriptInv, NEW u \in Users, ~At(u, "idle"), inv' = [inv EXCEPT ![u] = Idle],
         proc' \in [Pids -> Process], OnlyEnd, pidfile' \in [Service -> Pids \cup {NoPid}],
         inv[u].pc \in {"write", "health"} => proc'[inv[u].pid].is # "forked"
  PROVE  ScriptInv'
<1>1. PICK i \in Invocation : i = Idle
  <2>1. <<>> \in Seq(Service)
    OBVIOUS
  <2> QED
    BY <2>1 DEF Invocation, Idle, ScriptPc, Command, Target, Service
<1>2. i.pc = "idle" /\ i.alone = FALSE
  BY <1>1 DEF Idle
<1>3. Busy(i)' /\ Knows(i)' /\ ~i.alone
  BY <1>2 DEF Busy, Knows
<1> QED
  BY <1>1, <1>3, Moves

LEMMA OrderIs ==
  ASSUME NEW cmd \in Command, NEW target \in Target
  PROVE  /\ Order(cmd, target) \in Seq(Service) /\ Order(cmd, target) # <<>>
         /\ cmd \in {"stop", "restart"} /\ target = "all" => Order(cmd, target) = StopOrder
<1>1. CASE target = "all"
  <2>1. StopOrder \in Seq(Service) /\ StopOrder # <<>> /\ StartOrder \in Seq(Service) /\ StartOrder # <<>>
    BY DEF StopOrder, StartOrder, Service
  <2> QED
    BY <1>1, <2>1 DEF Order
<1>2. CASE target # "all"
  <2>1. target \in Service
    BY <1>2 DEF Target
  <2>2. <<target>> \in Seq(Service) /\ <<target>> # <<>>
    BY <2>1
  <2> QED
    BY <1>2, <2>2 DEF Order
<1> QED
  BY <1>1, <1>2

LEMMA FinishedIs ==
  ASSUME NEW u \in Users, Finished(u), inv[u] \in Invocation
  PROVE  LET more == Len(inv[u].queue) > 1
             again == Len(inv[u].queue) = 1 /\ inv[u].cmd = "restart"
         IN  /\ more => inv' = [inv EXCEPT ![u] = [inv[u] EXCEPT !.pc = "read",
                                   !.queue = Tail(inv[u].queue), !.pid = NoPid]]
             /\ again => inv' = [inv EXCEPT ![u] = [inv[u] EXCEPT !.pc = "read", !.cmd = "start",
                                    !.pid = NoPid, !.queue = Order("start", inv[u].target)]]
             /\ ~more /\ ~again => inv' = [inv EXCEPT ![u] = Idle]
<1> DEFINE more == Len(inv[u].queue) > 1
           again == Len(inv[u].queue) = 1 /\ inv[u].cmd = "restart"
<1>1. more => ~again
  <2>1. PICK n \in Nat : n = Len(inv[u].queue)
    BY DEF Invocation
  <2>2. n > 1 => n # 1
    OBVIOUS
  <2> QED
    BY <2>1, <2>2, Zenon
<1> HIDE DEF more, again
<1>2. inv' = [inv EXCEPT ![u] =
         CASE more -> [inv[u] EXCEPT !.pc = "read", !.queue = Tail(inv[u].queue), !.pid = NoPid]
           [] again -> [inv[u] EXCEPT !.pc = "read", !.cmd = "start", !.pid = NoPid,
                                      !.queue = Order("start", inv[u].target)]
           [] OTHER -> Idle]
  BY Zenon DEF Finished, more, again
<1>3. CASE more
  BY <1>1, <1>2, <1>3, Zenon DEF more, again
<1>4. CASE again
  BY <1>1, <1>2, <1>4, Zenon DEF more, again
<1>5. CASE ~more /\ ~again
  BY <1>2, <1>5, Zenon DEF more, again
<1> QED
  BY <1>3, <1>4, <1>5 DEF more, again

\* A step of u that is done with a service.
LEMMA FinishesInv ==
  ASSUME ScriptInv, NEW u \in Users, ~At(u, "idle"), Finished(u), proc' = proc,
         pidfile' \in [Service -> Pids \cup {NoPid}],
         inv[u].alone /\ ~inv[u].misled /\ inv[u].cmd \in {"stop", "restart"} =>
           Running(Current(u)) = {},
         inv[u].pc \in {"write", "health"} => proc[inv[u].pid].is # "forked"
  PROVE  ScriptInv'
<1>1. inv[u] \in Invocation /\ inv[u].queue # <<>> /\ Knows(inv[u])
  BY DEF ScriptInv, ScriptTypeOK, Invocation, Busy, At
<1>2. proc' \in [Pids -> Process] /\ OnlyEnd /\ \A s : Running(s)' = Running(s)
  BY DEF ScriptInv, ScriptTypeOK, OnlyEnd, Running, Of
<1>3. CASE Len(inv[u].queue) > 1
  <2>1. PICK i \in Invocation : i = [inv[u] EXCEPT !.pc = "read", !.queue = Tail(inv[u].queue), !.pid = NoPid]
    <3>1. Tail(inv[u].queue) \in Seq(Service)
      BY <1>1, QueueHead DEF Invocation
    <3>2. PICK i \in Invocation :
            i = [pc |-> "read", cmd |-> inv[u].cmd, target |-> inv[u].target,
                 queue |-> Tail(inv[u].queue), pid |-> NoPid, alone |-> inv[u].alone,
                 misled |-> inv[u].misled]
      BY <1>1, <3>1 DEF Invocation, ScriptPc
    <3> QED
      BY <1>1, <3>2 DEF Invocation
  <2>2. inv' = [inv EXCEPT ![u] = i]
    BY <1>1, <1>3, <2>1, FinishedIs
  <2>3. /\ i.pc = "read" /\ i.queue = Tail(inv[u].queue) /\ i.cmd = inv[u].cmd
        /\ i.target = inv[u].target /\ i.alone = inv[u].alone /\ i.misled = inv[u].misled
    BY <1>1, <2>1 DEF Invocation
  <2>4. i.queue # <<>>
    BY <1>1, <1>3, <2>3 DEF Invocation
  <2>5. Busy(i)'
    BY <2>3, <2>4 DEF Busy, Holding
  <2>6. Knows(i)'
    <3>1. i.alone /\ i.target = "all" /\ i.cmd \in {"stop", "restart"} =>
            i.queue = Tail(StopOrder) /\ (Running(StopOrder[1]) = {} \/ i.misled)
      <4> SUFFICES ASSUME i.alone, i.target = "all", i.cmd \in {"stop", "restart"}
                   PROVE  i.queue = Tail(StopOrder) /\ (Running(StopOrder[1]) = {} \/ i.misled)
        OBVIOUS
      <4>1. inv[u].queue = StopOrder \/ inv[u].queue = Tail(StopOrder)
        BY <1>1, <2>3 DEF Knows
      <4>2. Len(StopOrder) = 2 /\ Len(Tail(StopOrder)) = 1 /\ Head(StopOrder) = StopOrder[1]
        BY DEF StopOrder
      <4>3. inv[u].queue = StopOrder
        <5>1. inv[u].queue = Tail(StopOrder) => Len(inv[u].queue) = 1
          BY <4>2, Zenon
        <5> QED
          BY <1>3, <4>1, <5>1, ~(1 > 1)
      <4>4. Current(u) = StopOrder[1] /\ inv[u].alone /\ inv[u].cmd \in {"stop", "restart"}
        BY <2>3, <4>2, <4>3 DEF Current
      <4> QED
        BY <2>3, <4>3, <4>4
    <3> QED
      BY <1>1, <1>2, <2>3, <3>1 DEF Knows, Holding
  <2> QED
    BY <1>2, <2>2, <2>3, <2>5, <2>6, Moves
<1>4. CASE Len(inv[u].queue) = 1 /\ inv[u].cmd = "restart"
  <2>1. PICK i \in Invocation :
          i = [inv[u] EXCEPT !.pc = "read", !.cmd = "start", !.pid = NoPid,
                             !.queue = Order("start", inv[u].target)]
    <3>1. Order("start", inv[u].target) \in Seq(Service)
      BY <1>1, OrderIs DEF Invocation, Command
    <3>2. PICK i \in Invocation :
            i = [pc |-> "read", cmd |-> "start", target |-> inv[u].target,
                 queue |-> Order("start", inv[u].target), pid |-> NoPid, alone |-> inv[u].alone,
                 misled |-> inv[u].misled]
      BY <1>1, <3>1 DEF Invocation, ScriptPc, Command
    <3> QED
      BY <1>1, <3>2 DEF Invocation
  <2>2. inv' = [inv EXCEPT ![u] = i]
    BY <1>1, <1>4, <2>1, FinishedIs
  <2>3. /\ i.pc = "read" /\ i.queue = Order("start", inv[u].target) /\ i.cmd = "start"
        /\ i.alone = inv[u].alone /\ i.misled = inv[u].misled
    BY <1>1, <2>1 DEF Invocation
  <2>4. i.queue # <<>>
    BY <1>1, <2>3, OrderIs DEF Invocation, Command
  <2>5. Busy(i)'
    BY <2>3, <2>4 DEF Busy, Holding
  <2>6. Knows(i)'
    BY <1>1, <1>2, <2>3 DEF Knows, Holding
  <2> QED
    BY <1>2, <2>2, <2>3, <2>5, <2>6, Moves
<1>5. CASE ~(Len(inv[u].queue) > 1) /\ ~(Len(inv[u].queue) = 1 /\ inv[u].cmd = "restart")
  <2>1. inv' = [inv EXCEPT ![u] = Idle]
    BY <1>1, <1>5, FinishedIs
  <2> QED
    BY <1>2, <2>1, Ends
<1> QED
  BY <1>3, <1>4, <1>5
LEMMA CurrentIs ==
  ASSUME ScriptInv, NEW u \in Users, ~At(u, "idle")
  PROVE  Current(u) \in Service /\ inv[u] \in Invocation /\ inv[u].cmd \in Command
<1>1. inv[u] \in Invocation /\ inv[u].queue # <<>>
  BY DEF ScriptInv, ScriptTypeOK, Invocation, Busy, At
<1> QED
  BY <1>1, QueueHead DEF Invocation, Current

\* Who is alone and forks nothing sees every process of a service.
LEMMA AloneSees ==
  ASSUME ScriptInv, NEW u \in Users, inv[u].alone, inv[u].pc \notin {"write", "health"},
         NEW s \in Service
  PROVE  Running(s) = Live(s)
<1>1. \A v \in Users : inv[v].pc \notin {"write", "health"}
  BY DEF ScriptInv, Alone, At
<1>2. \A p \in Pids : proc[p].is # "forked"
  BY <1>1 DEF ScriptInv, ForksHeld
<1> QED
  BY <1>2 DEF Running, Live, Of

LEMMA FoundInv ==
  ASSUME ScriptInv, NEW u \in Users, NEW p \in Pids, inv[u].pc \in {"probe", "record"},
         Found(u, p), proc' = proc, pidfile' \in [Service -> Pids \cup {NoPid}],
         proc[p].of \in {Current(u), "nobody"}, proc[p].is \notin WithoutKeyword,
         inv[u].alone /\ ~inv[u].misled => Running(Current(u)) \subseteq {p}
  PROVE  ScriptInv'
<1>1. ~At(u, "idle") /\ inv[u].pc \notin {"write", "health"}
  BY DEF At
<1>2. CASE inv[u].cmd \in {"stop", "restart"}
  <2>1. inv' = [inv EXCEPT ![u] = [inv[u] EXCEPT !.pc = "kill", !.pid = p]]
    BY <1>2, GotoIs DEF Found
  <2>2. "kill" \in ScriptPc \ {"idle"} /\ p \in Pids \cup {NoPid}
    BY DEF ScriptPc
  <2> QED
    BY <1>1, <1>2, <2>1, <2>2, Goes DEF SeesAt
<1>3. CASE inv[u].cmd \notin {"stop", "restart"}
  <2>1. Finished(u)
    BY <1>3 DEF Found
  <2> QED
    BY <1>1, <1>3, <2>1, FinishesInv
<1> QED
  BY <1>2, <1>3

LEMMA NotFoundInv ==
  ASSUME ScriptInv, NEW u \in Users, At(u, "find"), NotFound(u), UNCHANGED <<proc, pidfile>>,
         Live(Current(u)) = {}
  PROVE  ScriptInv'
<1>1. ~At(u, "idle") /\ inv[u].pc = "find" /\ Current(u) \in Service
  BY CurrentIs DEF At
<1>2. \A c : SeesAt(u, c) => Running(Current(u)) = {}
  BY <1>1, AloneSees DEF SeesAt
<1>3. pidfile' \in [Service -> Pids \cup {NoPid}] /\ inv[u].pid \in Pids \cup {NoPid}
  BY DEF ScriptInv, ScriptTypeOK
<1>4. CASE inv[u].cmd = "start"
  <2>1. inv' = [inv EXCEPT ![u] = [inv[u] EXCEPT !.pc = "launch", !.pid = inv[u].pid]]
    BY <1>4, GotoIs DEF NotFound
  <2>2. "launch" \in ScriptPc \ {"idle"}
    BY DEF ScriptPc
  <2> QED
    BY <1>1, <1>2, <1>3, <1>4, <2>1, <2>2, Goes DEF Holding
<1>5. CASE inv[u].cmd \in {"stop", "restart"}
  <2>1. inv' = [inv EXCEPT ![u] = [inv[u] EXCEPT !.pc = "remove", !.pid = inv[u].pid]]
    BY <1>5, GotoIs DEF NotFound
  <2>2. "remove" \in ScriptPc \ {"idle"}
    BY DEF ScriptPc
  <2> QED
    BY <1>1, <1>2, <1>3, <1>5, <2>1, <2>2, Goes DEF Holding
<1>6. CASE inv[u].cmd \notin {"start", "stop", "restart"}
  <2>1. Finished(u)
    BY <1>6 DEF NotFound
  <2> QED
    BY <1>1, <1>3, <1>6, <2>1, FinishesInv
<1> QED
  BY <1>4, <1>5, <1>6

-----------------------------------------------------------------------------
(* is_running *)

LEMMA ReadInv ==
  ASSUME ScriptInv, NEW u \in Users, Read(u)
  PROVE  ScriptInv'
<1>1. ~At(u, "idle") /\ inv[u].pc = "read" /\ Current(u) \in Service
  BY CurrentIs DEF Read, At
<1>2. /\ pidfile' \in [Service -> Pids \cup {NoPid}] /\ proc' = proc
      /\ pidfile[Current(u)] \in Pids \cup {NoPid} /\ inv[u].pid \in Pids \cup {NoPid}
  BY <1>1 DEF Read, ScriptInv, ScriptTypeOK
<1>3. CASE pidfile[Current(u)] = NoPid
  <2>1. inv' = [inv EXCEPT ![u] = [inv[u] EXCEPT !.pc = "find", !.pid = inv[u].pid]]
    BY <1>3, GotoIs DEF Read
  <2>2. "find" \in ScriptPc \ {"idle"}
    BY DEF ScriptPc
  <2> QED
    BY <1>1, <1>2, <2>1, <2>2, Goes DEF Holding
<1>4. CASE pidfile[Current(u)] # NoPid
  <2>1. inv' = [inv EXCEPT ![u] = [inv[u] EXCEPT !.pc = "probe", !.pid = pidfile[Current(u)]]]
    BY <1>4, GotoIs DEF Read
  <2>2. "probe" \in ScriptPc \ {"idle"} /\ pidfile[Current(u)] \in Pids
    BY <1>2, <1>4 DEF ScriptPc
  <2> QED
    BY <1>1, <1>2, <2>1, <2>2, Goes DEF Holding
<1> QED
  BY <1>3, <1>4

LEMMA ProbeInv ==
  ASSUME ScriptInv, NEW u \in Users, Probe(u)
  PROVE  ScriptInv'
<1>1. ~At(u, "idle") /\ inv[u].pc = "probe" /\ Current(u) \in Service
  BY CurrentIs DEF Probe, At
<1>2. /\ pidfile' \in [Service -> Pids \cup {NoPid}] /\ proc' = proc
      /\ inv[u].pid \in Pids \cup {NoPid}
  BY <1>1 DEF Probe, ScriptInv, ScriptTypeOK
<1>3. CASE inv[u].pid \in Live(Current(u))
  <2>1. /\ inv[u].pid \in Pids /\ proc[inv[u].pid].of = Current(u)
        /\ proc[inv[u].pid].is \notin WithoutKeyword /\ inv[u].pid \in Running(Current(u))
    BY <1>3 DEF Live, Of, Running, WithoutKeyword
  <2>2. inv[u].alone => Running(Current(u)) \subseteq {inv[u].pid}
    BY <1>1, <2>1 DEF ScriptInv, Knows
  <2>3. Found(u, inv[u].pid)
    BY <1>3 DEF Probe
  <2> QED
    BY <1>1, <1>2, <2>1, <2>2, <2>3, FoundInv
<1>4. CASE inv[u].pid \notin Live(Current(u))
  <2>1. inv' = [inv EXCEPT ![u] = [inv[u] EXCEPT !.pc = "unlink", !.pid = inv[u].pid]]
    BY <1>4, GotoIs DEF Probe
  <2>2. "unlink" \in ScriptPc \ {"idle"}
    BY DEF ScriptPc
  <2> QED
    BY <1>1, <1>2, <2>1, <2>2, Goes DEF Holding
<1> QED
  BY <1>3, <1>4

LEMMA UnlinkInv ==
  ASSUME ScriptInv, NEW u \in Users, Unlink(u)
  PROVE  ScriptInv'
<1>1. ~At(u, "idle") /\ inv[u].pc = "unlink" /\ Current(u) \in Service
  BY CurrentIs DEF Unlink, At
<1>2. /\ pidfile' \in [Service -> Pids \cup {NoPid}] /\ proc' = proc
      /\ inv[u].pid \in Pids \cup {NoPid}
  BY <1>1 DEF Unlink, ScriptInv, ScriptTypeOK
<1>3. inv' = [inv EXCEPT ![u] = [inv[u] EXCEPT !.pc = "find", !.pid = inv[u].pid]]
  BY GotoIs DEF Unlink
<1>4. "find" \in ScriptPc \ {"idle"}
  BY DEF ScriptPc
<1> QED
  BY <1>1, <1>2, <1>3, <1>4, Goes DEF Holding, SeesAt

LEMMA FindInv ==
  ASSUME ScriptInv, NEW u \in Users, Find(u)
  PROVE  ScriptInv'
<1>1. ~At(u, "idle") /\ inv[u].pc = "find" /\ Current(u) \in Service
  BY CurrentIs DEF Find, At
<1>2. pidfile' \in [Service -> Pids \cup {NoPid}] /\ proc' = proc
  BY <1>1 DEF Find, ScriptInv, ScriptTypeOK
<1>3. "record" \in ScriptPc \ {"idle"}
  BY DEF ScriptPc
<1>4. ASSUME NEW p \in Live(Current(u)), GotoWith(u, "record", p)
      PROVE  ScriptInv'
  <2>1. /\ p \in Pids /\ proc[p].of = Current(u) /\ proc[p].is \notin WithoutKeyword
        /\ p \in Running(Current(u))
    BY <1>4 DEF Live, Of, Running, WithoutKeyword
  <2>2. inv[u].alone => Running(Current(u)) \subseteq {p}
    BY <1>1, <2>1 DEF ScriptInv, Knows
  <2>3. inv' = [inv EXCEPT ![u] = [inv[u] EXCEPT !.pc = "record", !.pid = p]]
    BY <1>4, GotoIs
  <2> QED
    BY <1>1, <1>2, <1>3, <2>1, <2>2, <2>3, Goes DEF Holding, SeesAt
<1>5. ASSUME NEW awk \in Free,
             inv' = [inv EXCEPT ![u].pc = "record", ![u].pid = awk,
                      ![u].misled = @ \/ (inv[u].alone /\ Live(Current(u)) # {})]
      PROVE  ScriptInv'
  <2>1. /\ awk \in Pids /\ proc[awk].of = "nobody" /\ proc[awk].is \notin WithoutKeyword
    BY <1>5 DEF Free, NoProcess, WithoutKeyword
  <2>2. inv[u] \in Invocation /\ inv[u].queue # <<>> /\ Knows(inv[u])
    BY <1>1, CurrentIs DEF ScriptInv, Busy, At
  <2>3. PICK misled \in BOOLEAN :
          misled = (inv[u].misled \/ (inv[u].alone /\ Live(Current(u)) # {}))
    OBVIOUS
  <2>4. PICK i \in Invocation :
          i = [inv[u] EXCEPT !.pc = "record", !.pid = awk, !.misled = misled]
    BY <2>1, <2>2 DEF Invocation, ScriptPc
  <2>5. /\ i.pc = "record" /\ i.pid = awk /\ i.misled = misled
        /\ i.queue = inv[u].queue /\ i.cmd = inv[u].cmd
        /\ i.target = inv[u].target /\ i.alone = inv[u].alone
    BY <2>2, <2>4 DEF Invocation
  <2>6. inv' = [inv EXCEPT ![u] = i]
    <3>1. inv' = [inv EXCEPT ![u] = [inv[u] EXCEPT !.pc = "record", !.pid = awk,
                    !.misled = inv[u].misled \/ (inv[u].alone /\ Live(Current(u)) # {})]]
      BY <1>5, <2>2 DEF ScriptInv, ScriptTypeOK
    <3> QED
      BY <2>3, <2>4, <3>1, Zenon
  <2>7. proc' \in [Pids -> Process] /\ OnlyEnd /\ \A s : Running(s)' = Running(s)
    BY <1>2 DEF ScriptInv, ScriptTypeOK, OnlyEnd, Running, Of
  <2>8. Busy(i)'
    BY <1>2, <2>1, <2>2, <2>5 DEF Busy, Holding
  <2>9. i.alone /\ ~i.misled => Running(Current(u)) = {}
    BY <1>1, <2>3, <2>5, AloneSees
  <2>10. Knows(i)'
    BY <2>2, <2>3, <2>5, <2>7, <2>9 DEF Knows, Sees, Holding, Current
  <2> QED
    BY <1>1, <1>2, <2>5, <2>6, <2>7, <2>8, <2>10, Moves
<1>6. CASE Live(Current(u)) = {} /\ NotFound(u)
  BY <1>6, NotFoundInv DEF Find
<1> QED
  BY <1>4, <1>5, <1>6 DEF Find

LEMMA RecordInv ==
  ASSUME ScriptInv, NEW u \in Users, Record(u)
  PROVE  ScriptInv'
<1>1. ~At(u, "idle") /\ inv[u].pc = "record" /\ Current(u) \in Service
  BY CurrentIs DEF Record, At
<1>2. Busy(inv[u]) /\ Knows(inv[u])
  BY DEF ScriptInv
<1>3. /\ inv[u].pid \in Pids
      /\ proc[inv[u].pid].of \in {Current(u), "nobody"} /\ proc[inv[u].pid].is \notin WithoutKeyword
      /\ inv[u].alone /\ ~inv[u].misled => Running(Current(u)) \subseteq {inv[u].pid}
  BY <1>1, <1>2 DEF Busy, Knows, Sees, Holding, Current
<1>4. pidfile' \in [Service -> Pids \cup {NoPid}] /\ proc' = proc /\ Found(u, inv[u].pid)
  BY <1>1, <1>3 DEF Record, ScriptInv, ScriptTypeOK
<1> QED
  BY <1>1, <1>3, <1>4, FoundInv
-----------------------------------------------------------------------------
(* start_service *)

LEMMA DiesInv ==
  ASSUME ScriptInv, NEW u \in Users, Dies(u)
  PROVE  ScriptInv'
<1>1. ~At(u, "idle") /\ inv[u].pc = "launch" /\ inv' = [inv EXCEPT ![u] = Idle]
  BY DEF Dies, At, Failed
<1>2. /\ proc' \in [Pids -> Process] /\ OnlyEnd
      /\ pidfile' \in [Service -> Pids \cup {NoPid}]
  BY DEF Dies, ScriptInv, ScriptTypeOK, OnlyEnd
<1> QED
  BY <1>1, <1>2, Ends

LEMMA LaunchInv ==
  ASSUME ScriptInv, NEW u \in Users, Launch(u)
  PROVE  ScriptInv'
<1>1. /\ ~At(u, "idle") /\ inv[u].pc = "launch" /\ Current(u) \in Service
      /\ Busy(inv[u]) /\ Knows(inv[u]) /\ Alone(u)
  BY CurrentIs DEF Launch, At, ScriptInv
<1>2. PICK p \in Free : /\ proc' = [proc EXCEPT ![p] = [is |-> "forked", of |-> Current(u)]]
                        /\ GotoWith(u, "write", p)
  BY DEF Launch
<1>3. p \in Pids /\ proc[p] = NoProcess /\ \A v \in Users : inv[v].pid # p
  BY DEF Free
<1>4. inv[u] \in Invocation
  BY CurrentIs, <1>1
<1>5. PICK i \in Invocation : i = [inv[u] EXCEPT !.pc = "write", !.pid = p]
  BY <1>3, <1>4 DEF Invocation, ScriptPc
<1>6. /\ i.pc = "write" /\ i.pid = p /\ i.queue = inv[u].queue /\ i.cmd = inv[u].cmd
      /\ i.target = inv[u].target /\ i.alone = inv[u].alone /\ i.misled = inv[u].misled
  BY <1>4, <1>5 DEF Invocation
<1>7. inv' = [inv EXCEPT ![u] = i]
  <2>1. inv' = [inv EXCEPT ![u] = [inv[u] EXCEPT !.pc = "write", !.pid = p]]
    BY <1>2, GotoIs
  <2> QED
    BY <1>5, <2>1
<1>8. inv'[u] = i /\ \A v \in Users \ {u} : inv'[v] = inv[v]
  BY <1>7 DEF ScriptInv, ScriptTypeOK
<1>9. /\ proc'[p].is = "forked" /\ proc'[p].of = Current(u)
      /\ \A q \in Pids \ {p} : proc'[q] = proc[q]
  BY <1>2, <1>3 DEF ScriptInv, ScriptTypeOK
<1>10. ScriptTypeOK'
  <2>1. inv' \in [Users -> Invocation]
    BY <1>7 DEF ScriptInv, ScriptTypeOK, Invocation
  <2>2. [is |-> "forked", of |-> Current(u)] \in Process
    BY <1>1 DEF Process
  <2>3. proc' \in [Pids -> Process]
    BY <1>2, <2>2 DEF ScriptInv, ScriptTypeOK
  <2>4. pidfile' \in [Service -> Pids \cup {NoPid}]
    BY DEF Launch, ScriptInv, ScriptTypeOK
  <2> QED
    BY <2>1, <2>3, <2>4 DEF ScriptTypeOK, Invocation
<1>11. ForksHeld'
  <2> SUFFICES ASSUME NEW q \in Pids, proc'[q].is = "forked"
               PROVE  \E v \in Users : inv'[v].pid = q /\ inv'[v].pc \in {"write", "health"}
    BY DEF ForksHeld
  <2>1. CASE q = p
    BY <2>1, <1>6, <1>8
  <2>2. CASE q # p
    <3>1. PICK v \in Users : inv[v].pid = q /\ inv[v].pc \in {"write", "health"}
      BY <2>2, <1>9 DEF ScriptInv, ForksHeld
    <3>2. v # u
      BY <3>1, <1>1
    <3> QED
      BY <3>1, <3>2, <1>8
  <2> QED
    BY <2>1, <2>2
<1>12. ASSUME NEW v \in Users, v # u
       PROVE  Busy(inv[v])' /\ Alone(v)' /\ Knows(inv[v])'
  <2>1. ~inv[v].alone
    BY <1>1, <1>12, u \in Users \ {v} DEF ScriptInv, Alone
  <2>2. inv'[v] = inv[v] /\ inv[v].pid # p /\ Busy(inv[v])
    BY <1>3, <1>8, <1>12 DEF ScriptInv
  <2>3. Busy(inv[v])'
    BY <1>9, <2>2 DEF Busy, Holding
  <2> QED
    BY <2>1, <2>2, <2>3 DEF Alone, Knows
<1>13. Busy(inv[u])'
  BY <1>1, <1>3, <1>6, <1>8, <1>9 DEF Busy, Holding, Current, WithoutKeyword
<1>14. Alone(u)'
  BY <1>1, <1>6, <1>8 DEF Alone, At
<1>15. Knows(inv[u])'
  <2> SUFFICES ASSUME i.alone
               PROVE  Knows(inv[u])'
    BY <1>8 DEF Knows
  <2>1. Running(Current(u)) = {} /\ i.cmd = "start" /\ inv[u].alone
    BY <1>1, <1>6 DEF Knows, Sees, Current, Busy
  <2>2. Running(Current(u)') = Running(Head(i.queue))
    BY <1>8 DEF Current
  <2>3. \A s \in Service : s # Current(u) => Running(s)' = Running(s)
    BY <1>3, <1>9 DEF Running, Of, NoProcess
  <2>4. \A s \in Service : s = Current(u) => Running(s)' = {p}
    BY <2>1, <1>3, <1>9 DEF Running, Of
  <2>5. \A s \in Service : \A q, r \in Running(s)' : q = r
    BY <1>1, <2>1, <2>3, <2>4 DEF Knows
  <2>6. Running(Head(i.queue))' \subseteq {p}
    BY <1>1, <1>6, <2>4 DEF Current
  <2> QED
    BY <1>6, <1>8, <2>1, <2>5, <2>6 DEF Knows, Holding
<1> QED
  BY <1>10, <1>11, <1>12, <1>13, <1>14, <1>15 DEF ScriptInv

\* What an invocation that waits for its process knows.
LEMMA Waits ==
  ASSUME ScriptInv, NEW u \in Users, inv[u].pc \in {"write", "health", "alive", "kill"}
  PROVE  /\ ~At(u, "idle") /\ Current(u) \in Service
         /\ inv[u].pid \in Pids
         /\ proc[inv[u].pid].of \in {Current(u), "nobody"} /\ proc[inv[u].pid].is \notin WithoutKeyword
         /\ inv[u].alone /\ (inv[u].misled => inv[u].cmd = "start") =>
              Running(Current(u)) \subseteq {inv[u].pid}
         /\ inv[u].alone /\ inv[u].pc \in {"health", "alive"} => pidfile[Current(u)] = inv[u].pid
         /\ inv[u].pc # "kill" => inv[u].cmd = "start"
         /\ inv[u].cmd # "status"
<1>1. ~At(u, "idle") /\ Current(u) \in Service /\ Busy(inv[u]) /\ Knows(inv[u])
  BY CurrentIs DEF At, ScriptInv
<1> QED
  BY <1>1 DEF Busy, Knows, Sees, Holding, Current

LEMMA WriteInv ==
  ASSUME ScriptInv, NEW u \in Users, Write(u)
  PROVE  ScriptInv'
<1>1. inv[u].pc = "write"
  BY DEF Write, At
<1>2. /\ pidfile' \in [Service -> Pids \cup {NoPid}] /\ proc' = proc
      /\ pidfile'[Current(u)] = inv[u].pid
  BY <1>1, Waits DEF Write, ScriptInv, ScriptTypeOK
<1>3. inv' = [inv EXCEPT ![u] = [inv[u] EXCEPT !.pc = "health", !.pid = inv[u].pid]]
  BY GotoIs DEF Write
<1>4. "health" \in ScriptPc \ {"idle"}
  BY DEF ScriptPc
<1>5. inv[u].pid \in Pids \cup {NoPid} /\ inv[u].cmd = "start" /\ ~At(u, "idle")
  BY <1>1, Waits
<1>6. /\ proc[inv[u].pid].of \in {Current(u), "nobody"} /\ proc[inv[u].pid].is \notin WithoutKeyword
      /\ \A d : SeesAt(u, d) => Running(Current(u)) \subseteq {inv[u].pid}
      /\ inv[u].pid \in Pids
  BY <1>1, Waits DEF SeesAt
<1> QED
  BY <1>1, <1>2, <1>3, <1>4, <1>5, <1>6, Goes

LEMMA HealthyInv ==
  ASSUME ScriptInv, NEW u \in Users, Healthy(u)
  PROVE  ScriptInv'
<1>1. inv[u].pc = "health" /\ proc[inv[u].pid].is # "forked" /\ Finished(u)
  BY DEF Healthy, At
<1>2. inv[u].cmd = "start" /\ ~At(u, "idle")
  BY <1>1, Waits
<1>3. pidfile' \in [Service -> Pids \cup {NoPid}] /\ proc' = proc
  BY DEF Healthy, ScriptInv, ScriptTypeOK
<1> QED
  BY <1>1, <1>2, <1>3, FinishesInv

LEMMA UnhealthyInv ==
  ASSUME ScriptInv, NEW u \in Users, Unhealthy(u)
  PROVE  ScriptInv'
<1>1. inv[u].pc = "health" /\ proc[inv[u].pid].is # "forked"
  BY DEF Unhealthy, At
<1>2. pidfile' \in [Service -> Pids \cup {NoPid}] /\ proc' = proc /\ pidfile' = pidfile
  BY DEF Unhealthy, ScriptInv, ScriptTypeOK
<1>3. inv' = [inv EXCEPT ![u] = [inv[u] EXCEPT !.pc = "alive", !.pid = inv[u].pid]]
  BY GotoIs DEF Unhealthy
<1>4. "alive" \in ScriptPc \ {"idle"}
  BY DEF ScriptPc
<1>5. inv[u].pid \in Pids \cup {NoPid} /\ inv[u].cmd = "start" /\ ~At(u, "idle")
  BY <1>1, Waits
<1>6. /\ proc[inv[u].pid].of \in {Current(u), "nobody"} /\ proc[inv[u].pid].is \notin WithoutKeyword
      /\ \A d : SeesAt(u, d) => Running(Current(u)) \subseteq {inv[u].pid}
      /\ inv[u].alone => pidfile[Current(u)] = inv[u].pid
      /\ inv[u].pid \in Pids
  BY <1>1, Waits DEF SeesAt
<1> QED
  BY <1>1, <1>2, <1>3, <1>4, <1>5, <1>6, Goes

LEMMA AliveInv ==
  ASSUME ScriptInv, NEW u \in Users, Alive(u)
  PROVE  ScriptInv'
<1>1. inv[u].pc = "alive"
  BY DEF Alive, At
<1>2. pidfile' \in [Service -> Pids \cup {NoPid}] /\ proc' = proc /\ pidfile' = pidfile
  BY DEF Alive, ScriptInv, ScriptTypeOK
<1>3. PICK c \in {"health", "kill"} :
        inv' = [inv EXCEPT ![u] = [inv[u] EXCEPT !.pc = c, !.pid = inv[u].pid]]
  BY GotoIs DEF Alive
<1>4. c \in ScriptPc \ {"idle"}
  BY DEF ScriptPc
<1>5. inv[u].pid \in Pids \cup {NoPid} /\ inv[u].cmd = "start" /\ ~At(u, "idle")
  BY <1>1, Waits
<1>6. /\ proc[inv[u].pid].of \in {Current(u), "nobody"} /\ proc[inv[u].pid].is \notin WithoutKeyword
      /\ \A d : SeesAt(u, d) => Running(Current(u)) \subseteq {inv[u].pid}
      /\ inv[u].alone => pidfile[Current(u)] = inv[u].pid
      /\ inv[u].pid \in Pids
  BY <1>1, Waits DEF SeesAt
<1> QED
  BY <1>1, <1>2, <1>3, <1>4, <1>5, <1>6, Goes
-----------------------------------------------------------------------------
(* stop_service *)

LEMMA GoneInv ==
  ASSUME ScriptInv, NEW u \in Users, Gone(u)
  PROVE  ScriptInv'
<1>1. inv[u].pc = "kill" /\ proc[inv[u].pid] = NoProcess
  BY DEF Gone, At
<1>2. pidfile' \in [Service -> Pids \cup {NoPid}] /\ proc' = proc
  BY DEF Gone, ScriptInv, ScriptTypeOK
<1>3. inv' = [inv EXCEPT ![u] = [inv[u] EXCEPT !.pc = "remove", !.pid = inv[u].pid]]
  BY GotoIs DEF Gone
<1>4. "remove" \in ScriptPc \ {"idle"}
  BY DEF ScriptPc
<1>5. inv[u].pid \in Pids \cup {NoPid} /\ inv[u].cmd # "status" /\ ~At(u, "idle")
  BY <1>1, Waits
<1>6. inv[u].alone /\ (inv[u].misled => inv[u].cmd = "start") => Running(Current(u)) = {}
  BY <1>1, Waits DEF Running, Of, NoProcess
<1> QED
  BY <1>1, <1>2, <1>3, <1>4, <1>5, <1>6, Goes DEF Holding, SeesAt

LEMMA ForceKillInv ==
  ASSUME ScriptInv, NEW u \in Users, ForceKill(u)
  PROVE  ScriptInv'
<1>1. inv[u].pc = "kill" /\ ~At(u, "idle")
  BY DEF ForceKill, At
<1>2. /\ inv[u].pid \in Pids /\ inv[u].cmd # "status"
      /\ inv[u].alone /\ (inv[u].misled => inv[u].cmd = "start") =>
           Running(Current(u)) \subseteq {inv[u].pid}
  BY <1>1, Waits
<1>3. inv[u] \in Invocation /\ Current(u) \in Service /\ inv[u].queue # <<>> /\ Knows(inv[u])
  BY <1>1, CurrentIs DEF ScriptInv, Busy, At
<1>4. PICK i \in Invocation : i = [inv[u] EXCEPT !.pc = "remove"]
  BY <1>3 DEF Invocation, ScriptPc
<1>5. /\ i.pc = "remove" /\ i.pid = inv[u].pid /\ i.queue = inv[u].queue /\ i.cmd = inv[u].cmd
      /\ i.target = inv[u].target /\ i.alone = inv[u].alone /\ i.misled = inv[u].misled
  BY <1>3, <1>4 DEF Invocation
<1>6. inv' = [inv EXCEPT ![u] = i]
  BY <1>4 DEF ForceKill, Goto
<1>7. /\ proc' \in [Pids -> Process] /\ OnlyEnd /\ proc'[inv[u].pid] = NoProcess
      /\ pidfile' \in [Service -> Pids \cup {NoPid}]
  BY <1>2 DEF ForceKill, ScriptInv, ScriptTypeOK, OnlyEnd, Process, NoProcess
<1>8. Busy(i)'
  BY <1>2, <1>3, <1>5 DEF Busy, Holding
<1>9. Knows(i)'
  <2>1. \A s \in Service : Running(s)' \subseteq Running(s)
    BY <1>7, RunningShrinks
  <2>2. i.alone /\ (i.misled => i.cmd = "start") => Running(Head(i.queue))' = {}
    <3>1. inv[u].pid \notin Running(Head(i.queue))'
      BY <1>7 DEF Running, Of, NoProcess
    <3> QED
      BY <1>2, <1>3, <1>5, <2>1, <3>1 DEF Current
  <2>3. Running(StopOrder[1])' \subseteq Running(StopOrder[1])
    BY <2>1 DEF StopOrder, Service
  <2> QED
    BY <1>3, <1>5, <2>1, <2>2, <2>3 DEF Knows, Sees, Holding
<1>10. i.alone => i.pc # "idle" /\ inv[u].alone
  BY <1>5
<1> QED
  BY <1>1, <1>6, <1>7, <1>8, <1>9, <1>10, Moves

LEMMA RemoveInv ==
  ASSUME ScriptInv, NEW u \in Users, Remove(u)
  PROVE  ScriptInv'
<1>1. inv[u].pc = "remove" /\ ~At(u, "idle") /\ Knows(inv[u])
  BY DEF Remove, At, ScriptInv
<1>2. /\ proc' = proc /\ proc' \in [Pids -> Process] /\ OnlyEnd
      /\ pidfile' \in [Service -> Pids \cup {NoPid}]
  BY DEF Remove, ScriptInv, ScriptTypeOK, OnlyEnd
<1>3. inv[u].alone /\ ~inv[u].misled => Running(Current(u)) = {}
  BY <1>1 DEF Knows, Sees, Current
<1>4. CASE Failed(u)
  BY <1>1, <1>2, <1>4, Ends DEF Failed
<1>5. CASE Finished(u)
  BY <1>1, <1>2, <1>3, <1>5, FinishesInv
<1> QED
  BY <1>4, <1>5 DEF Remove

-----------------------------------------------------------------------------
(* The processes, clean-ups, and new calls. *)

\* A process that is not new, and not an unrelated one, goes on or ends.
LEMMA BecomeInv ==
  ASSUME ScriptInv, NEW p \in Pids, NEW x \in Process, Become(p, x),
         x.is \notin {"forked"} \cup WithoutKeyword, proc[p].is # "none",
         x.is # "none" => proc[p].is \notin WithoutKeyword, x.of \in {proc[p].of, "nobody"}
  PROVE  ScriptInv'
<1>1. proc'[p] = x /\ \A q \in Pids \ {p} : proc'[q] = proc[q]
  BY DEF Become, ScriptInv, ScriptTypeOK
<1>2. inv' = inv /\ pidfile' = pidfile
  BY DEF Become
<1>3. ScriptTypeOK'
  BY <1>2 DEF Become, ScriptInv, ScriptTypeOK
<1>4. ForksHeld'
  BY <1>1, <1>2 DEF ScriptInv, ForksHeld
<1>5. \A s \in Service : Running(s)' \subseteq Running(s)
  <2>1. p \in Pids /\ proc[p] \in Process
    BY DEF ScriptInv, ScriptTypeOK
  <2> QED
    BY <1>1, <2>1 DEF Running, Of, Process, Service, WithoutKeyword
<1>6. ASSUME NEW u \in Users
      PROVE  Busy(inv[u])' /\ Alone(u)' /\ Knows(inv[u])'
  <2>1. Busy(inv[u]) /\ Alone(u) /\ Knows(inv[u])
    BY DEF ScriptInv
  <2>2. Busy(inv[u])'
    BY <1>1, <1>2, <2>1 DEF Busy
  <2>3. Alone(u)'
    BY <1>2, <2>1 DEF Alone, At
  <2>4. ~At(u, "idle") => Head(inv[u].queue) \in Service
    BY CurrentIs DEF Current
  <2>5. Running(StopOrder[1])' \subseteq Running(StopOrder[1])
    BY <1>5 DEF StopOrder, Service
  <2>6. Knows(inv[u])'
    BY <1>2, <1>5, <2>1, <2>4, <2>5 DEF Knows, Alone, At
  <2> QED
    BY <2>2, <2>3, <2>6
<1> QED
  BY <1>3, <1>4, <1>6 DEF ScriptInv

LEMMA ProcessesInv ==
  ASSUME ScriptInv, NEW p \in Pids, Exec(p) \/ Bind(p) \/ Exit(p)
  PROVE  ScriptInv'
<1>1. proc[p] \in Process
  BY DEF ScriptInv, ScriptTypeOK
<1>2. NoProcess \in Process /\ NoProcess.is = "none" /\ NoProcess.of = "nobody"
  BY DEF NoProcess, Process
<1>3. CASE Exec(p)
  <2>1. PICK x \in Process : x = [proc[p] EXCEPT !.is = "starting"]
    BY <1>1, <1>3 DEF Exec, Process
  <2>2. x.is = "starting" /\ x.of = proc[p].of /\ Become(p, x) /\ proc[p].is = "forked"
    BY <1>1, <1>3, <2>1 DEF Exec, Process, Become
  <2> QED
    BY <2>2, BecomeInv DEF WithoutKeyword
<1>4. CASE Bind(p) /\ Listening(proc[p].of) = {}
  <2>1. PICK x \in Process : x = [proc[p] EXCEPT !.is = "serving"]
    BY <1>1, <1>4 DEF Bind, Process
  <2>2. x.is = "serving" /\ x.of = proc[p].of /\ Become(p, x) /\ proc[p].is = "starting"
    BY <1>1, <1>4, <2>1 DEF Bind, Process, Become
  <2> QED
    BY <2>2, BecomeInv DEF WithoutKeyword
<1>5. CASE Exit(p) \/ (Bind(p) /\ Listening(proc[p].of) # {})
  <2>1. Become(p, NoProcess) /\ proc[p].is # "none"
    BY <1>5 DEF Exit, Bind, WithoutKeyword
  <2> QED
    BY <1>2, <2>1, BecomeInv DEF WithoutKeyword
<1> QED
  BY <1>3, <1>4, <1>5

\* A process appears that is none of the script's.
LEMMA StrangerStartsInv ==
  ASSUME ScriptInv, NEW p \in Free, NEW x \in Process, x.is \in WithoutKeyword, Become(p, x)
  PROVE  ScriptInv'
<1>1. /\ p \in Pids /\ proc'[p] = x /\ proc[p] = NoProcess
      /\ \A q \in Pids \ {p} : proc'[q] = proc[q]
      /\ \A u \in Users : inv[u].pid # p
      /\ inv' = inv /\ pidfile' = pidfile
  BY DEF Become, Free, ScriptInv, ScriptTypeOK
<1>2. ScriptTypeOK'
  BY <1>1 DEF Become, ScriptInv, ScriptTypeOK
<1>3. ForksHeld'
  BY <1>1 DEF ScriptInv, ForksHeld, WithoutKeyword
<1>4. \A s \in Service : Running(s)' = Running(s)
  BY <1>1 DEF Running, Of, NoProcess, WithoutKeyword
<1>5. ASSUME NEW u \in Users
      PROVE  Busy(inv[u])' /\ Alone(u)' /\ Knows(inv[u])'
  <2>1. Busy(inv[u]) /\ Alone(u) /\ Knows(inv[u])
    BY DEF ScriptInv
  <2>2. Busy(inv[u])'
    BY <1>1, <2>1 DEF Busy, Holding
  <2>3. Alone(u)'
    BY <1>1, <2>1 DEF Alone, At
  <2>4. ~At(u, "idle") => Head(inv[u].queue) \in Service
    BY CurrentIs DEF Current
  <2>5. Running(StopOrder[1])' = Running(StopOrder[1])
    BY <1>4 DEF StopOrder, Service
  <2>6. Knows(inv[u])'
    BY <1>1, <1>4, <2>1, <2>4, <2>5 DEF Knows, Alone, At
  <2> QED
    BY <2>2, <2>3, <2>6
<1> QED
  BY <1>2, <1>3, <1>5 DEF ScriptInv

LEMMA StrangersInv ==
  ASSUME ScriptInv, NEW p \in Pids,
         OtherStarts(p) \/ \E s \in ByHand : ForeignStarts(p, s)
  PROVE  ScriptInv'
<1>1. CASE OtherStarts(p)
  <2>1. PICK x \in Process : x = [is |-> "other", of |-> "nobody"]
    BY DEF Process
  <2> QED
    BY <1>1, <2>1, StrangerStartsInv DEF OtherStarts, WithoutKeyword
<1>2. ASSUME NEW s \in ByHand, ForeignStarts(p, s)
      PROVE  ScriptInv'
  <2>1. PICK x \in Process : x = [is |-> "foreign", of |-> s]
    BY ByHandAssumption DEF Process
  <2> QED
    BY <1>2, <2>1, StrangerStartsInv DEF ForeignStarts, WithoutKeyword
<1> QED
  BY <1>1, <1>2

LEMMA CleanRuntimeInv ==
  ASSUME ScriptInv, CleanRuntime
  PROVE  ScriptInv'
<1>1. proc' = proc /\ pidfile' \in [Service -> Pids \cup {NoPid}]
  BY DEF CleanRuntime
<1>2. ASSUME NEW u \in Users
      PROVE  /\ inv'[u] \in Invocation /\ inv'[u].alone = FALSE
             /\ inv'[u].pc = inv[u].pc /\ inv'[u].cmd = inv[u].cmd
             /\ inv'[u].queue = inv[u].queue /\ inv'[u].pid = inv[u].pid
  <2>1. inv[u] \in Invocation /\ inv'[u] = [inv[u] EXCEPT !.alone = FALSE, !.misled = FALSE]
    BY DEF CleanRuntime, Overlapped, ScriptInv, ScriptTypeOK, Invocation
  <2> QED
    BY <2>1 DEF Invocation
<1>3. inv' \in [Users -> Invocation]
  BY <1>2 DEF CleanRuntime
<1>4. ScriptTypeOK'
  BY <1>1, <1>3 DEF ScriptInv, ScriptTypeOK, Invocation
<1>5. ForksHeld'
  BY <1>1, <1>2 DEF ScriptInv, ForksHeld
<1>6. ASSUME NEW u \in Users
      PROVE  Busy(inv[u])' /\ Alone(u)' /\ Knows(inv[u])'
  <2>1. Busy(inv[u])
    BY DEF ScriptInv
  <2>2. Busy(inv[u])'
    BY <1>1, <1>2, <2>1 DEF Busy
  <2> QED
    BY <1>2, <2>2 DEF Alone, Knows
<1> QED
  BY <1>4, <1>5, <1>6 DEF ScriptInv
LEMMA AtMostOne ==
  ASSUME NEW S, IsFiniteSet(S), Cardinality(S) <= 1, NEW p \in S, NEW q \in S
  PROVE  p = q
<1>1. IsFiniteSet(S \ {p}) /\ Cardinality(S \ {p}) = Cardinality(S) - 1
  BY FS_RemoveElement
<1>2. Cardinality(S \ {p}) \in Nat /\ Cardinality(S) \in Nat
  BY <1>1, FS_CardinalityType
<1>3. Cardinality(S \ {p}) = 0
  BY <1>1, <1>2
<1> QED
  BY <1>1, <1>3, FS_EmptySet

LEMMA BeginInv ==
  ASSUME ScriptInv, NEW u \in Users, NEW cmd \in Command, NEW target \in Target,
         Begin(u, cmd, target)
  PROVE  ScriptInv'
<1>1. PICK alone \in BOOLEAN :
        alone = /\ \A v \in Users \ {u} : At(v, "idle")
                /\ \A s \in Service : Cardinality(Live(s)) <= 1
  OBVIOUS
<1>2. /\ At(u, "idle") /\ proc' = proc /\ pidfile' = pidfile
      /\ inv' = [v \in Users |->
                  IF v = u THEN [pc |-> "read", cmd |-> cmd, target |-> target,
                                 queue |-> Order(cmd, target), pid |-> NoPid, alone |-> alone,
                                 misled |-> FALSE]
                  ELSE Overlapped(inv[v])]
  BY <1>1 DEF Begin
<1>3. Order(cmd, target) \in Seq(Service) /\ Order(cmd, target) # <<>>
  BY OrderIs
<1>4. /\ inv'[u] \in Invocation
      /\ inv'[u].pc = "read" /\ inv'[u].cmd = cmd /\ inv'[u].target = target
      /\ inv'[u].queue = Order(cmd, target) /\ inv'[u].alone = alone
  BY <1>2, <1>3 DEF Invocation, ScriptPc
<1>5. ASSUME NEW v \in Users, v # u
      PROVE  /\ inv'[v] \in Invocation /\ inv'[v].alone = FALSE
             /\ inv'[v].pc = inv[v].pc /\ inv'[v].cmd = inv[v].cmd
             /\ inv'[v].queue = inv[v].queue /\ inv'[v].pid = inv[v].pid
  <2>1. inv[v] \in Invocation /\ inv'[v] = [inv[v] EXCEPT !.alone = FALSE, !.misled = FALSE]
    BY <1>2, <1>5 DEF ScriptInv, ScriptTypeOK, Invocation, Overlapped
  <2> QED
    BY <2>1 DEF Invocation
<1>6. inv' \in [Users -> Invocation]
  BY <1>2, <1>4, <1>5
<1>7. ScriptTypeOK'
  BY <1>2, <1>6 DEF ScriptInv, ScriptTypeOK, Invocation
<1>8. ForksHeld'
  <2> SUFFICES ASSUME NEW p \in Pids, proc'[p].is = "forked"
               PROVE  \E v \in Users : inv'[v].pid = p /\ inv'[v].pc \in {"write", "health"}
    BY DEF ForksHeld
  <2>1. PICK v \in Users : inv[v].pid = p /\ inv[v].pc \in {"write", "health"}
    BY <1>2 DEF ScriptInv, ForksHeld
  <2>2. v # u
    BY <1>2, <2>1 DEF At
  <2> QED
    BY <1>5, <2>1, <2>2
<1>9. ASSUME NEW v \in Users, v # u
      PROVE  Busy(inv[v])' /\ Alone(v)' /\ Knows(inv[v])'
  <2>1. Busy(inv[v])
    BY DEF ScriptInv
  <2>2. Busy(inv[v])'
    BY <1>2, <1>5, <1>9, <2>1 DEF Busy
  <2> QED
    BY <1>5, <1>9, <2>2 DEF Alone, Knows
<1>10. Busy(inv[u])'
  BY <1>3, <1>4 DEF Busy, Holding
<1>11. Alone(u)'
  BY <1>1, <1>4, <1>5 DEF Alone, At
<1>12. Knows(inv[u])'
  <2> SUFFICES ASSUME alone
               PROVE  Knows(inv[u])'
    BY <1>4 DEF Knows
  <2>1. \A v \in Users : At(v, "idle")
    BY <1>1, <1>2
  <2>2. \A p \in Pids : proc[p].is # "forked"
    BY <2>1 DEF ScriptInv, ForksHeld, At
  <2>3. \A s \in Service : \A p, q \in Running(s)' : p = q
    <3> SUFFICES ASSUME NEW s \in Service, NEW p \in Running(s)', NEW q \in Running(s)'
                 PROVE  p = q
      OBVIOUS
    <3>1. p \in Live(s) /\ q \in Live(s)
      BY <1>2, <2>2 DEF Running, Live, Of
    <3>2. IsFiniteSet(Live(s))
      BY PidsAssumption, FS_Subset DEF Live, Of
    <3>3. Cardinality(Live(s)) <= 1
      BY <1>1
    <3> QED
      BY <3>1, <3>2, <3>3, AtMostOne
  <2>4. target = "all" /\ cmd \in {"stop", "restart"} => Order(cmd, target) = StopOrder
    BY OrderIs
  <2> QED
    BY <1>4, <2>3, <2>4 DEF Knows, Holding
<1> QED
  BY <1>7, <1>8, <1>9, <1>10, <1>11, <1>12 DEF ScriptInv

-----------------------------------------------------------------------------

LEMMA ScriptInvInit == ScriptInit => ScriptInv
<1> SUFFICES ASSUME ScriptInit
             PROVE  ScriptInv
  OBVIOUS
<1>1. Idle.pc = "idle" /\ Idle.alone = FALSE
  BY DEF Idle
<1>2. Idle \in Invocation
  <2>1. <<>> \in Seq(Service)
    OBVIOUS
  <2> QED
    BY <2>1 DEF Invocation, Idle, ScriptPc, Command, Target, Service
<1>3. NoProcess \in Process /\ NoProcess.is = "none"
  BY DEF NoProcess, Process
<1>4. ScriptTypeOK
  BY <1>2, <1>3 DEF ScriptInit, ScriptTypeOK, Invocation
<1>5. ForksHeld
  BY <1>3 DEF ScriptInit, ForksHeld
<1>6. \A u \in Users : Busy(inv[u]) /\ Alone(u) /\ Knows(inv[u])
  BY <1>1 DEF ScriptInit, Busy, Alone, Knows
<1> QED
  BY <1>4, <1>5, <1>6 DEF ScriptInv

LEMMA ScriptInvStep == ScriptInv /\ [ScriptNext]_scriptVars => ScriptInv'
<1> SUFFICES ASSUME ScriptInv, [ScriptNext]_scriptVars
             PROVE  ScriptInv'
  OBVIOUS
<1>1. ASSUME NEW u \in Users, Step(u)
      PROVE  ScriptInv'
  BY <1>1, ReadInv, ProbeInv, UnlinkInv, FindInv, RecordInv, DiesInv, LaunchInv, WriteInv,
     HealthyInv, UnhealthyInv, AliveInv, GoneInv, ForceKillInv, RemoveInv DEF Step
<1>2. ASSUME NEW u \in Users, NEW call \in Calls, Begin(u, call[1], call[2])
      PROVE  ScriptInv'
  <2>1. call[1] \in Command /\ call[2] \in Target
    BY CallsAssumption
  <2> QED
    BY <1>2, <2>1, BeginInv
<1>3. ASSUME NEW p \in Pids, \/ Exec(p) \/ Bind(p) \/ Exit(p) \/ OtherStarts(p)
                               \/ \E s \in ByHand : ForeignStarts(p, s)
      PROVE  ScriptInv'
  BY <1>3, ProcessesInv, StrangersInv
<1>4. CASE CleanRuntime
  BY <1>4, CleanRuntimeInv
<1>5. CASE UNCHANGED scriptVars
  BY <1>5 DEF scriptVars, ScriptInv, ScriptTypeOK, ForksHeld, Busy, Alone, Knows, At, Running, Of
<1> QED
  BY <1>1, <1>2, <1>3, <1>4, <1>5 DEF ScriptNext

\* What every invocation knows of the processes it deals with holds at every step, for
\* any number of invocations that overlap, clean-ups, and processes that come and go.
THEOREM ScriptInvariant == ScriptSpec => []ScriptInv
<1>1. ScriptInit => ScriptInv
  BY ScriptInvInit
<1>2. ScriptInv /\ [ScriptNext]_scriptVars => ScriptInv'
  BY ScriptInvStep
<1> QED
  BY <1>1, <1>2, PTL DEF ScriptSpec

\* manage.sh never signals a process that is not the service, whatever a stale pid file
\* names and however many people call it at once: the id an invocation holds is not used
\* again before it lets go of it.
THEOREM SignalsOnlyService == ScriptSpec => []OnlyServiceSignalled
<1>1. ScriptInv => OnlyServiceSignalled
  BY DEF ScriptInv, Busy, Holding, OnlyServiceSignalled, At, Current
<1> QED
  BY <1>1, ScriptInvariant, PTL

\* manage.sh stop all, alone, has no node process left when it signals aria2, unless its
\* search for the node found its own awk.
THEOREM NodeStopsBeforeAria2 == ScriptSpec => []NodeStopsFirst
<1>1. ScriptInv => NodeStopsFirst
  <2> SUFFICES ASSUME ScriptInv, NEW u \in Users, At(u, "kill"), inv[u].alone, ~inv[u].misled,
                      inv[u].target = "all", inv[u].cmd # "start", Current(u) = "aria2"
               PROVE  Live("node") = {}
    BY DEF NodeStopsFirst
  <2>1. inv[u].cmd \in {"stop", "restart"}
    BY CurrentIs DEF ScriptInv, Busy, At, Command
  <2>2. inv[u].queue = StopOrder \/ Running(StopOrder[1]) = {}
    BY <2>1 DEF ScriptInv, Knows
  <2>3. Head(StopOrder) = "node" /\ StopOrder[1] = "node"
    BY DEF StopOrder
  <2>4. inv[u].queue # StopOrder
    BY <2>3 DEF Current
  <2> QED
    BY <2>2, <2>3, <2>4 DEF Running, Live, Of
<1> QED
  BY <1>1, ScriptInvariant, PTL

\* start, alone, never makes a second process of a service, whatever its searches found.
THEOREM StartsOne == ScriptSpec => LaunchIsSingle
<1>1. ScriptInv => (\A u \in Users : Launch(u) /\ inv[u].alone => Live(Current(u)) = {})
  BY DEF ScriptInv, Busy, Knows, Sees, Launch, At, Current, Running, Live, Of
<1> QED
  BY <1>1, ScriptInvariant, PTL DEF LaunchIsSingle

\* stop, alone, leaves no process of the service behind, unless its search found its own
\* awk in the place of the service.
THEOREM StopsAll == ScriptSpec => StopStops
<1>1. ScriptInv => (\A u \in Users : Remove(u) /\ inv[u].alone /\ ~inv[u].misled =>
                      Live(Current(u)) = {})
  BY DEF ScriptInv, Knows, Sees, Remove, At, Current, Running, Live, Of
<1> QED
  BY <1>1, ScriptInvariant, PTL DEF StopStops

\* start, alone, with no program started by hand on the port, reports success only when the
\* port is its own process's and the pid file names that.
THEOREM StartsTheAnswering == ScriptSpec => StartOwnsPort
<1>1. ScriptInv => (\A u \in Users : Healthy(u) /\ inv[u].alone
                                        /\ Of(Current(u), {"foreign"}) = {} =>
                      proc[inv[u].pid].is = "serving" /\ pidfile[Current(u)] = inv[u].pid)
  <2> SUFFICES ASSUME ScriptInv, NEW u \in Users, Healthy(u), inv[u].alone,
                      Of(Current(u), {"foreign"}) = {}
               PROVE  proc[inv[u].pid].is = "serving" /\ pidfile[Current(u)] = inv[u].pid
    OBVIOUS
  <2>1. /\ Running(Current(u)) \subseteq {inv[u].pid}
        /\ pidfile[Current(u)] = inv[u].pid
    BY Waits DEF Healthy, At
  <2>2. PICK p \in Pids : proc[p].of = Current(u) /\ proc[p].is = "serving"
    BY DEF Healthy, Listening, Of
  <2> QED
    BY <2>1, <2>2 DEF Running, Of
<1> QED
  BY <1>1, ScriptInvariant, PTL DEF StartOwnsPort
=============================================================================

------------------------------ MODULE TaskQueue ------------------------------
(***************************************************************************)
(* What the documentation promises of a task (README_NODE.md, the module   *)
(* docs of task_manager_agent.py and models/task.py): it waits, downloads  *)
(* in one of a limited number of slots, ends as completed or failed, may   *)
(* be cancelled while it waits or downloads, and expires once completed.   *)
(* A step may move several tasks, as one commit does.                      *)
(***************************************************************************)
EXTENDS Integers, FiniteSets

CONSTANTS Tasks, ConcurrentLimit

VARIABLE status

Is(s) == {t \in Tasks : status[t] = s}

Init == status = [t \in Tasks |-> "none"]

Move(S, s) == status' = [t \in Tasks |-> IF t \in S THEN s ELSE status[t]]

Submit(t) == status[t] = "none" /\ Move({t}, "queued")

\* Some of the queued tasks take free slots; those aria2 refuses fail at once.
Dispatch(S, refused) ==
  /\ S \cup refused \subseteq Is("queued")
  /\ S \cap refused = {}
  /\ Cardinality(Is("downloading") \cup S) <= ConcurrentLimit
  /\ status' = [t \in Tasks |-> CASE t \in S -> "downloading"
                                  [] t \in refused -> "failed"
                                  [] OTHER -> status[t]]

Finish(S, broken) ==
  /\ S \cup broken \subseteq Is("downloading")
  /\ S \cap broken = {}
  /\ status' = [t \in Tasks |-> CASE t \in S -> "completed"
                                  [] t \in broken -> "failed"
                                  [] OTHER -> status[t]]

Cancel(t) == status[t] \in {"queued", "downloading"} /\ Move({t}, "failed")

Expire(S) == S \subseteq Is("completed") /\ Move(S, "expired")

Next ==
  \/ \E t \in Tasks : Submit(t) \/ Cancel(t)
  \/ \E S, broken \in SUBSET Tasks : Dispatch(S, broken) \/ Finish(S, broken)
  \/ \E S \in SUBSET Tasks : Expire(S)

Spec == Init /\ [][Next]_status
=============================================================================

----------------------------- MODULE DownloadLink -----------------------------
(***************************************************************************)
(* GET /downloads/{task_id}/{filename}?token=... (api/tasks.py): the link  *)
(* a completed task is served under.  The handler reads the row, decides   *)
(* on it without another await, and leaves the file for the response to    *)
(* open later; DELETE and the storage loop work on meanwhile.              *)
(***************************************************************************)
EXTENDS NodeState

CONSTANTS
  Links,       \* bound: link requests in progress at the same time
  NaiveTimes   \* the database returns timestamps without a zone, as SQLite does

ASSUME LinkAssumption == NaiveTimes \in BOOLEAN

VARIABLE link   \* link[l]: the request of handler l and the row it read

Names == {"own", "other", "outside"}
  \* of the file asked for: that of the task, another, one outside download_dir

NoLink == [pc |-> "idle", task |-> -1, row |-> NoRow]

LinkTypeOK ==
  link \in [Links -> [pc : {"idle", "loaded", "sending"}, task : Tasks \cup {-1}, row : Row]]

LinkInit == link = [l \in Links |-> NoLink]

\* Whether _task_to_response shows a URL: every row has a token.
DownloadUrl(row) == row.status = "completed" /\ row.path

\* mark_completed, which alone makes a row completed, lets its token expire with it.
TokenExpired(row) == ExpiresAt(row) < now

IsFile(t, name) == name = "own" /\ disk[t] \in {"partial", "full"}

\* Mutant: any row with a token is served.
AnswerAnyStatus(t, row, token, name) ==
  IF ~token THEN "BAD_TOKEN" ELSE IF IsFile(t, name) THEN "OK" ELSE "FILE_NOT_FOUND"

\* What the handler answers once it has read the row, check by check.
Answer(t, row, token, name) ==
  IF row.status # "completed"   THEN "DOWNLOAD_NOT_AVAILABLE"
  ELSE IF ~token                THEN "BAD_TOKEN"
  ELSE IF NaiveTimes            THEN "TypeError"       \* naive < aware
  ELSE IF TokenExpired(row)          THEN "TOKEN_EXPIRED"
  ELSE IF name = "outside"      THEN "PATH_TRAVERSAL"
  ELSE IF ~IsFile(t, name)      THEN "FILE_NOT_FOUND"
  ELSE "OK"

\* An unknown task is answered TASK_NOT_FOUND at once.
LinkLoad(l, t) ==
  /\ link[l].pc = "idle"
  /\ db[t].status # "none"
  /\ link' = [link EXCEPT ![l] = [pc |-> "loaded", task |-> t, row |-> db[t]]]
  /\ UNCHANGED nodeVars

\* The request carries the token of the task or another one, and a file name.
LinkAnswer(l, token, name) ==
  /\ link[l].pc = "loaded"
  /\ link' = [link EXCEPT ![l] =
                IF Answer(@.task, @.row, token, name) = "OK" THEN [@ EXCEPT !.pc = "sending"]
                ELSE NoLink]
  /\ UNCHANGED nodeVars

\* FileResponse opens the file; one that is gone by now makes it raise.
LinkSend(l) ==
  /\ link[l].pc = "sending"
  /\ link' = [link EXCEPT ![l] = NoLink]
  /\ UNCHANGED nodeVars

LinkNext ==
  \E l \in Links :
    \/ \E t \in Tasks : LinkLoad(l, t)
    \/ \E token \in BOOLEAN, name \in Names : LinkAnswer(l, token, name)
    \/ LinkSend(l)
=============================================================================

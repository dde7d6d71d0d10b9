------------------------------ MODULE NodeHealth ------------------------------
(***************************************************************************)
(* GET /api/node/health (api/node.py): the rows by status, whether aria2   *)
(* answers, how full the disk is, and a verdict.  Three reads, one after   *)
(* the other: the table, aria2, the download directory.                    *)
(***************************************************************************)
EXTENDS Integers

CONSTANTS
  Used,     \* bound: sums of the file sizes below download_dir
  Limits    \* bound: values of Settings.storage_limit_bytes

ASSUME HealthAssumption == Used \subseteq Nat /\ Limits \subseteq Nat

VARIABLE health   \* the request: where it is, what it read, and its verdict

Unit == 10000   \* the ratio is kept in units of 1/Unit

\* round(used / limit, 4).  A quotient half way may be rounded either way: the double
\* it is computed from lies on one of the two sides.
Rounded(used, limit) ==
  IF limit = 0 THEN {0}
  ELSE LET low == (used * Unit) \div limit
       IN  {r \in {low, low + 1} : 2 * (used * Unit - r * limit) \in -limit..limit}

\* Mutant: 0.95 itself is degraded.
VerdictAtLimit(online, ratio) ==
  IF ~online THEN IF ratio < Unit THEN "degraded" ELSE "down"
  ELSE IF ratio >= 9500 THEN "degraded" ELSE "ok"

Verdict(online, ratio) ==
  IF ~online THEN IF ratio < Unit THEN "degraded" ELSE "down"
  ELSE IF ratio > 9500 THEN "degraded" ELSE "ok"

NoHealth == [pc |-> "idle", online |-> FALSE, used |-> 0, limit |-> 0,
             scanned |-> FALSE, verdict |-> "ok"]

HealthInit == health = NoHealth

\* The query that groups the rows by status.
HealthCount ==
  /\ health.pc = "idle"
  /\ health' = [health EXCEPT !.pc = "counted"]

\* How a JSON-RPC call to aria2 may end.
RpcOutcome == {"result", "error", "http error", "refused", "timeout", "garbage"}

\* get_global_stat: None for whatever raises in the call
GlobalStat(outcome) == IF outcome = "result" THEN "stats" ELSE "None"

\* aria2 answers within 1.5 s, or not; no error leaves the handler.
HealthProbe ==
  /\ health.pc = "counted"
  /\ \E outcome \in RpcOutcome :
       health' = [health EXCEPT !.pc = "probed", !.online = (GlobalStat(outcome) = "stats")]

\* The scan adds the files up; an OSError, for a file aria2 removes meanwhile, leaves 0.
HealthScan ==
  /\ health.pc = "probed"
  /\ \E used \in Used, limit \in Limits, scanned \in BOOLEAN :
       \E ratio \in Rounded(IF scanned THEN used ELSE 0, limit) :
         health' = [health EXCEPT !.pc = "answered", !.used = used, !.limit = limit,
                                  !.scanned = scanned,
                                  !.verdict = Verdict(health.online, ratio)]

HealthDone == health.pc = "answered" /\ health' = NoHealth

HealthNext == HealthCount \/ HealthProbe \/ HealthScan \/ HealthDone

HealthSpec == HealthInit /\ [][HealthNext]_health

-----------------------------------------------------------------------------

\* README_NODE.md: degraded means that aria2 does not answer or more than 95 % of the
\* storage is used, down that aria2 does not answer and the disk is full.  No rounding
\* makes a node degraded or spares it from down that is not, and it hides no more than
\* half a unit of what is used, for any size of the quota.
VerdictWithinRounding ==
  health.pc = "answered" /\ health.scanned /\ health.limit > 0 =>
    LET used == 2 * Unit * health.used  limit == health.limit
    IN  CASE health.verdict = "ok" -> health.online /\ used <= 2 * 9500 * limit + limit
          [] health.verdict = "down" -> ~health.online /\ used >= 2 * Unit * limit - limit
          [] health.verdict = "degraded" -> IF health.online THEN used > 2 * 9500 * limit
                                            ELSE used < 2 * Unit * limit
=============================================================================

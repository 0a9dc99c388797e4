----------------------------- MODULE OdbcEnvOnce -----------------------------
(***************************************************************************)
(* What the lazy_static ENV promises the ODBC pools (spec: the environment *)
(* is a process-wide singleton, initialised exactly once), abstractly: the *)
(* initialisation is one atomic event that succeeds or fails once for the  *)
(* whole process, made by the first pool that needs it, and every other    *)
(* pool sees its outcome.                                                  *)
(***************************************************************************)
CONSTANTS Pools, HasString

VARIABLES
    init,     \* the initialisation: "none", "ok" or "failed"
    status    \* per pool: "start", "ready", "connected", "failed", "panic"

ovars == <<init, status>>

Init ==
    /\ init = "none"
    /\ status = [p \in Pools |-> "start"]

Set(p, v) == status' = [status EXCEPT ![p] = v]

(* A pool without a connection string fails before it needs ENV.          *)
NoString(p) ==
    /\ status[p] = "start" /\ p \notin HasString
    /\ Set(p, "failed") /\ UNCHANGED init

(* The first pool to need ENV initialises it, successfully or not.        *)
Initialise(p) ==
    /\ status[p] = "start" /\ p \in HasString /\ init = "none"
    /\ \/ init' = "ok" /\ Set(p, "ready")
       \/ init' = "failed" /\ Set(p, "panic")

(* A later pool gets the outcome of that initialisation.                  *)
Obtain(p) ==
    /\ status[p] = "start" /\ p \in HasString /\ init # "none"
    /\ Set(p, IF init = "ok" THEN "ready" ELSE "panic")
    /\ UNCHANGED init

(* A ready pool connects or fails to.                                      *)
Use(p) ==
    /\ status[p] = "ready"
    /\ \E v \in {"connected", "failed"} : Set(p, v)
    /\ UNCHANGED init

Next == \E p \in Pools : NoString(p) \/ Initialise(p) \/ Obtain(p) \/ Use(p)

Spec == Init /\ [][Next]_ovars
=============================================================================

----------------------------- MODULE MCDatabase -----------------------------
(* The two programs that open the database, each on its own: the writer    *)
(* with three position reports, with two on top of what an older version   *)
(* has left, or with three messages of static data; and the server.  The   *)
(* old rows are not in the order of their timestamps, and one of a report  *)
(* without a position is the newest.                                       *)
EXTENDS SqliteWriter, ApiServer, TLC

CONSTANTS s1, s2, area1, area2

MCShips == {s1, s2}

Old(ship, i, kind, at) == [n |-> i, ship |-> ship, kind |-> kind, at |-> at]

OldHistory(a, b) ==
    {Old(a, -4, "position", -1), Old(a, -3, "position", -2), Old(a, -2, "no position", 0),
     Old(b, -1, "position", -2), Old(b, 0, "position", -2)}

MCOldHistories == {{}, OldHistory(s1, s2)}

MCStatementOf == (area1 :> "in_area") @@ (area2 :> "in_area")

VARIABLE workload     \* which of them runs

KindsIn == [positions |-> Reports, upgrade |-> Reports, statics |-> Statics]

DatabaseInit ==
    /\ Init /\ ApiInit
    /\ workload \in {"positions", "upgrade", "statics", "server"}
    /\ (workload = "upgrade") = (db.rows # {})

Writes ==
    /\ workload # "server"
    /\ Next
    /\ \A m \in tx'.log \ tx.log : m.kind \in KindsIn[workload]
    /\ workload = "upgrade" => count' <= 2
    /\ workload = "statics" => uptime' <= 1
    /\ UNCHANGED <<apiVars, workload>>

Serves ==
    /\ workload = "server"
    /\ ApiNext
    /\ UNCHANGED <<vars, workload>>

DatabaseNext == Writes \/ Serves

DatabaseSpec ==
    DatabaseInit /\ [][DatabaseNext]_<<vars, apiVars, workload>> /\ (workload = "server" => ApiFairness)
=============================================================================

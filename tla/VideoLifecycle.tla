--------------------------- MODULE VideoLifecycle ---------------------------
(***************************************************************************)
(* The promise behind a row of the `videos` table, as a client that polls  *)
(* GET /api/videos/:id/status may rely on it.  A row is created pending    *)
(* and settles once, as processed or as failed.  Only a row whose          *)
(* processing was delivered a second time (history variable redelivered)   *)
(* may settle again.  VideoPipeline implements this module.                *)
(***************************************************************************)
CONSTANT Videos          \* row ids, each drawn fresh by uuid_generate_v4()

VARIABLES
    status,              \* videos.status, "absent" before the INSERT
    redelivered          \* videos whose processing was delivered twice

vars == <<status, redelivered>>

Terminal == {"processed", "failed"}
Statuses == {"absent", "pending"} \cup Terminal

TypeOK ==
    /\ status \in [Videos -> Statuses]
    /\ redelivered \subseteq Videos

Init ==
    /\ status = [v \in Videos |-> "absent"]
    /\ redelivered = {}

Create(v) ==
    /\ status[v] = "absent"
    /\ status' = [status EXCEPT ![v] = "pending"]
    /\ UNCHANGED redelivered

\* The outcome is written; its acknowledgement may be lost on the way.
Settle(v, outcome) ==
    /\ status[v] = "pending"
    /\ status' = [status EXCEPT ![v] = outcome]
    /\ redelivered' \in {redelivered, redelivered \cup {v}}

Redeliver(v) ==
    /\ status[v] # "absent"
    /\ redelivered' = redelivered \cup {v}
    /\ UNCHANGED status

\* The second delivery of the same work overwrites the first one's outcome.
Resettle(v, outcome) ==
    /\ v \in redelivered
    /\ status[v] \in Terminal
    /\ status' = [status EXCEPT ![v] = outcome]
    /\ UNCHANGED redelivered

Next ==
    \E v \in Videos :
        \/ Create(v)
        \/ Redeliver(v)
        \/ \E outcome \in Terminal : Settle(v, outcome) \/ Resettle(v, outcome)

Spec == Init /\ [][Next]_vars

-----------------------------------------------------------------------------
(* What a polling client needs: the status it saw last is the final one,   *)
(* unless the work was redelivered.                                        *)
SettledIsFinal ==
    [][\A v \in Videos :
          status[v] \in Terminal /\ v \notin redelivered
              => status'[v] = status[v]]_vars
=============================================================================

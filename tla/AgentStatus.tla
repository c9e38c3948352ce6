----------------------------- MODULE AgentStatus -----------------------------
(***************************************************************************)
(* The status machines of the PostgreSQL rows, shared by every module that *)
(* updates a run or a message.  A row is created "running"; each of the    *)
(* three terminal statuses is final.  The store checks the transition in   *)
(* JavaScript before it writes; whether the check and the write are one    *)
(* step is a matter for the modules that use these operators.              *)
(***************************************************************************)

Terminal == {"completed", "failed", "cancelled"}

Status == {"running"} \cup Terminal

\* The row of an entity nobody has inserted yet.
Absent == "absent"

RunPhase == {"compressing", "answering"} \cup Terminal

\* assertValidMessageTransition and assertValidRunTransition: a terminal
\* status accepts only itself (an idempotent update is not an error).
ValidTransition(from, to) == from = to \/ from = "running"

\* assertRunPhaseMatchesStatus: a running run is compressing or answering, a
\* finished one repeats its status as its phase.
PhaseMatchesStatus(status, phase) ==
    IF status = "running" THEN phase \in {"compressing", "answering"}
                          ELSE phase = status

\* The checks PostgresAgentStore.updateRun makes under the row lock.
CanUpdateRun(row, status, phase) ==
    /\ ValidTransition(row.status, status)
    /\ PhaseMatchesStatus(status, phase)
==============================================================================

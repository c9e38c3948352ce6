------------------------------ MODULE RunRecord ------------------------------
(***************************************************************************)
(* What the agent_runs row promises to everybody who reads it, whoever     *)
(* writes it: a run is created running, moves between its working phases,  *)
(* and reaches one terminal status, which it keeps.  RunExecution is shown *)
(* to implement this specification.                                        *)
(***************************************************************************)
EXTENDS AgentStatus

VARIABLES status, phase

vars == <<status, phase>>

TypeOK ==
    /\ status \in Status \cup {Absent}
    /\ phase \in RunPhase \cup {Absent}

Init == status = Absent /\ phase = Absent

\* A run starts compressing (startRun) or answering (regenerateMessage).
Create ==
    /\ status = Absent
    /\ status' = "running"
    /\ phase' \in {"compressing", "answering"}

\* The executor reports the phase it has reached.
Work ==
    /\ status = "running"
    /\ phase' \in {"compressing", "answering"}
    /\ UNCHANGED status

\* The outcome of the run is decided, once.
Finish ==
    /\ status = "running"
    /\ status' \in Terminal
    /\ phase' = status'

Next == Create \/ Work \/ Finish

Spec == Init /\ [][Next]_vars

\* Every run that was created is decided.
Decided == status = "running" ~> status \in Terminal
==============================================================================

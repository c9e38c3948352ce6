----------------------------- MODULE MCBackground -----------------------------
(***************************************************************************)
(* What goes on behind the requests, for TLC: the lock of a run, the jobs  *)
(* of the knowledge base, the loop of the agent, and the start and the end *)
(* of the processes.  No two of them share a variable, so a behaviour is   *)
(* one of a single part, chosen at the start, while the others stay as     *)
(* they began; the properties are those of the parts.                      *)
(***************************************************************************)
EXTENDS RunLock, KnowledgeIndexing, AgentLoop, Processes

VARIABLE part   \* the part that runs

Parts == {"lock", "knowledge", "agent", "processes"}

Still(p) ==
    CASE p = "lock" -> UNCHANGED lockVars
      [] p = "knowledge" -> UNCHANGED vars
      [] p = "agent" -> UNCHANGED alVars
      [] p = "processes" -> UNCHANGED prVars

Only(p) == UNCHANGED part /\ \A q \in Parts \ {p} : Still(q)

MCInit == part \in Parts /\ LockInit /\ Init /\ AlInit /\ PrInit

MCNext ==
    \/ part = "lock" /\ LockNext /\ Only("lock")
    \/ part = "knowledge" /\ Next /\ Only("knowledge")
    \/ part = "agent" /\ AlNext /\ Only("agent")
    \/ part = "processes" /\ PrNext /\ Only("processes")

allVars == <<part, lockVars, vars, alVars, prVars>>

\* The fairness of the parts; each part's is that of its own module, and
\* is asked for only where the part runs.  As the part never changes, one
\* condition of each part can share a WF.
MCFairness ==
    /\ WF_allVars(\/ part = "agent" /\ AlLoop /\ Only("agent")
                  \/ part = "processes" /\ PrWork /\ Only("processes")
                  \/ /\ part = "knowledge" /\ Only("knowledge")
                     /\ UploadEnqueue \/ ReindexWrite \/ ReindexEnqueue)
    /\ WF_allVars(part = "knowledge" /\ (\E w \in Workers : Take(w)) /\ Only("knowledge"))
    /\ \A w \in Workers : WF_allVars(part = "knowledge" /\ IndexDocument(w) /\ Only("knowledge"))
    /\ WF_allVars(part = "knowledge" /\ Stall /\ Only("knowledge"))

MCSpec == MCInit /\ [][MCNext]_allVars /\ MCFairness

\* The variables of every part keep their types.
BackgroundTypesOK == LockTypeOK /\ TypeOK /\ AlTypeOK /\ PrTypeOK
===============================================================================

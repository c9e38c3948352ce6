---------------------------- MODULE MCRunExecution ----------------------------
(* Model-checking instances of RunExecution: see the .cfg files that name it  *)
(* in PROJECT.json.                                                           *)
EXTENDS RunExecution
==============================================================================

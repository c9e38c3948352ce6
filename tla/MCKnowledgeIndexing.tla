------------------------- MODULE MCKnowledgeIndexing -------------------------
(* KnowledgeIndexing for TLC: the configurations give the constants.       *)
EXTENDS KnowledgeIndexing
=============================================================================

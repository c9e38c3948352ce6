------------------------------ MODULE MCServices ------------------------------
(***************************************************************************)
(* What a request meets beside the run itself, for TLC: the text of a      *)
(* document and the search in it, the resources of a message, the tools,   *)
(* the session of a user, the page, the memory of a session and the lists  *)
(* of the store.  No two of them share a variable, so a behaviour is one   *)
(* of a single part, chosen at the start, while the others stay as they    *)
(* began; the properties are those of the parts.                           *)
(***************************************************************************)
EXTENDS KnowledgeText, ResourceOutput, ToolJobs, AuthSession, WebPage, SessionMemory, Paging

VARIABLE part   \* the part that runs

Parts == {"text", "resources", "tools", "auth", "page", "memory", "paging"}

MCRequests ==
    {[type |-> "image", batch |-> FALSE, prompts |-> <<"cat">>],
     [type |-> "image", batch |-> TRUE, prompts |-> <<"cat", "dog">>],
     [type |-> "document", batch |-> FALSE, prompts |-> <<RoNoPrompt>>],
     [type |-> "video", batch |-> FALSE, prompts |-> <<RoNoPrompt>>]}

MCFiles == {[mime |-> "text", ext |-> "md"], [mime |-> "other", ext |-> "pdf"],
            [mime |-> "doc", ext |-> "docx"], [mime |-> "image", ext |-> "png"]}

Still(p) ==
    CASE p = "text" -> UNCHANGED ktVars
      [] p = "resources" -> UNCHANGED roVars
      [] p = "tools" -> UNCHANGED tjVars
      [] p = "auth" -> UNCHANGED auVars
      [] p = "page" -> UNCHANGED wpVars
      [] p = "memory" -> UNCHANGED smVars
      [] p = "paging" -> UNCHANGED pgVars

Only(p) == UNCHANGED part /\ \A q \in Parts \ {p} : Still(q)

MCInit ==
    /\ part \in Parts
    /\ KtInit /\ RoInit /\ TjInit /\ AuInit /\ WpInit /\ SmInit /\ PgInit
    /\ part # "paging" => pgKind = "sessions"

MCNext ==
    \/ part = "text" /\ KtNext /\ Only("text")
    \/ part = "resources" /\ RoNext /\ Only("resources")
    \/ part = "tools" /\ TjNext /\ Only("tools")
    \/ part = "auth" /\ AuNext /\ Only("auth")
    \/ part = "page" /\ WpNext /\ Only("page")
    \/ part = "memory" /\ SmNext /\ Only("memory")
    \/ part = "paging" /\ PgNext /\ Only("paging")

allVars == <<part, ktVars, roVars, tjVars, auVars, wpVars, smVars, pgVars>>

MCSpec == MCInit /\ [][MCNext]_allVars

\* The variables of every part keep their types.
ServicesTypesOK == KtTypeOK /\ RoTypeOK /\ TjTypeOK /\ AuTypeOK /\ WpTypeOK /\ SmTypeOK /\ PgTypeOK
===============================================================================

------------------------------ MODULE ChmClients ------------------------------
(***************************************************************************)
(* The programs that use the library on one thread, one at a time: the     *)
(* command line tools and the cover finder.                                *)
(***************************************************************************)
EXTENDS ChmTools, CoverFinder

VARIABLE client    \* which program runs: "tool" or "cover"

vars == <<client, toolVars, coverVars>>

NoJob == CHOOSE j \in Jobs : TRUE
NoBook == CHOOSE b \in Books : TRUE

Init ==
    \/ client = "tool" /\ CoverInit(NoBook) /\ \E j \in Jobs : ToolInit(j)
    \/ client = "cover" /\ ToolInit(NoJob) /\ \E b \in Books : CoverInit(b)

RunTool == client = "tool" /\ ToolNext /\ UNCHANGED <<client, coverVars>>
FindCover == client = "cover" /\ CoverNext /\ UNCHANGED <<client, toolVars>>

Next == RunTool \/ FindCover

Spec == Init /\ [][Next]_vars

\* A program on a thread of its own, which waits for nothing.
FairSpec == Spec /\ WF_vars(Next)

-----------------------------------------------------------------------------
(* Properties *)

TypeOK == ToolTypeOK /\ CoverTypeOK

\* A program comes to its end: the loops over entries, over what is left of an
\* entry, and over images, pages and objects all do.
ClientEnds == <>(IF client = "tool" THEN step = "returned" ELSE at = "done")
=============================================================================

------------------------ MODULE MCGenerationController ------------------------
(***************************************************************************)
(* A parent, the translation of its output and the child that rests on it, *)
(* in one phase; two processes run the package.                             *)
(***************************************************************************)
EXTENDS GenerationController
MCLaunch == {1, 3}
MCPlan == <<[kind |-> "TESSENT", parent |-> 0, first |-> TRUE],
            [kind |-> "TRANSLATION", parent |-> 1, first |-> FALSE],
            [kind |-> "TESSENT", parent |-> 1, first |-> FALSE]>>
MCCap == [k \in Kinds |-> IF k = "TESSENT" THEN 2 ELSE 1]
=============================================================================

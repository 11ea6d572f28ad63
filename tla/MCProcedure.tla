------------------------------ MODULE MCProcedure ------------------------------
(* A procedure that includes a tree of one file and executes in another, for TLC. *)
EXTENDS Procedure, TLC

MCUses == << <<"Include", "tree">>, <<"IncludeProcedure", "proc">>, <<"CopyToProcedure", "proc">> >>
MCVariablesOf == [w \in Files |->
  CASE w = "main" -> <<"x", "y">> [] w = "tree" -> <<"u", "t">> [] w = "proc" -> <<"v">>]
MCIdentifier == [v \in Variables |->
  CASE v \in {"x", "u", "t"} -> "server" [] v \in {"y", "v"} -> "archive"]

WorkerSymmetry == Permutations(Workers)
=============================================================================

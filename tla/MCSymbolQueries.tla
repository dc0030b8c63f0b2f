-------------------------- MODULE MCSymbolQueries --------------------------
(***************************************************************************)
(* One base, at which the trace saw a module with an identity or without.  *)
(* Its PDB is stale in the local directory, exact on the server, and there *)
(* are compressed ones, of another build in the flat directory and of the  *)
(* right one in its folder.                    *)
(***************************************************************************)
EXTENDS SymbolQueries, TLC

File(guid, age, format, folder) ==
  [pdb |-> "n", guid |-> guid, age |-> age, format |-> format, folder |-> folder]

MCSize == [b \in {10} |-> 10]
MCImages == {[base |-> 10, pdb |-> "n", guid |-> "g1", age |-> 1],
             [base |-> 10, pdb |-> None, guid |-> None, age |-> None]}
MCStore == [e \in {"local", "srv", "zip"} |->
             CASE e = "local" -> <<File("g1", 2, "msf7", None), File("g1", 1, "unreadable", None)>>
               [] e = "srv" -> <<File("g1", 1, "msf7", None)>>
               [] e = "zip" -> <<File("g9", 1, "msfz", None),
                                 File("g1", 1, "msfz", [guid |-> "g1", age |-> 1])>>]
MCPaths == {<<"local">>, <<"zip", "srv">>}
MCDefaultPath == <<"local">>
MCBuilds == {[guid |-> "g8", age |-> 1]}
SameQueries == Permutations(Queries)
=============================================================================

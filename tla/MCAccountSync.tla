---------------------------- MODULE MCAccountSync ----------------------------
(***************************************************************************)
(* TLC instances of AccountSync.  Port 1 belongs to an account, 2 to an    *)
(* account or to the API, 3 to the API.                                    *)
(***************************************************************************)
EXTENDS AccountSync, TLC

MCAcctSets == {{1}, {2}}
MCPorts == {2, 3}

Sym == Permutations(Handlers)
==============================================================================

------------------------------ MODULE MCLoader ------------------------------
(* Loader on small instances: the documented default order, orders that move *)
(* the stages that interact (dotenv, file and env), and one that leaves      *)
(* stages out and names a source that does not exist.                        *)
EXTENDS Loader, TLC

Default == <<"dotenv", "file", "custom", "env", "args">>
Orders  == {Default,
            <<"env", "file", "dotenv">>,
            <<"unknown", "custom", "env", "file">>}
Symmetry == Permutations(Loads)
OnlyDefault == {Default}

\* What differs in items of a stage that the priority leaves out is not looked
\* at, and bad arguments are tried with one way to take dotenv errors.
MCInit ==
  /\ Init
  /\ \A it \in Items :
       it[1] \notin {"defaults"} \cup Range(priority) =>
         defines[it] = {} /\ it \notin bad
  /\ <<"args", 1>> \in bad => ignoreErr
  /\ "dotenv" \notin Range(priority) => ignoreErr
MCSpec == MCInit /\ [][Next]_vars
=============================================================================

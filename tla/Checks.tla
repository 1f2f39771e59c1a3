------------------------------- MODULE Checks -------------------------------
(***************************************************************************)
(* A validator of the code is a list of checks that raises at the first    *)
(* one that fails.  Its model is a sequence of pairs <<failed, code>> in   *)
(* the order of the code, and its verdict the code of the first failure.   *)
(***************************************************************************)
EXTENDS Sequences, FiniteSetsExt

FirstFailure(checks) ==
    LET failing == {i \in DOMAIN checks : checks[i][1]}
    IN IF failing = {} THEN "OK" ELSE checks[Min(failing)][2]
=============================================================================

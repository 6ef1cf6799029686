---------------------------- MODULE MCWorkspaces ----------------------------
(* Small instances of Workspaces for TLC. *)
EXTENDS Workspaces

CONSTANTS c1, c2, code, cache

Fixture == [f \in Files |-> IF f = code THEN "seed" ELSE "absent"]
FixtureOrNone == {Fixture, NoTree}

\* The fixture is no repository, so that the initial commit is of what prepare sees,
\* or one with its code uncommitted, and a path committed that .gitignore names.
Uncommitted == [f \in Files |-> IF f = cache THEN "seed" ELSE "absent"]
SomeHeads == {NoTree, Uncommitted}
=============================================================================

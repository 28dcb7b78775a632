--------------------------- MODULE MCSessionState ---------------------------
(* Instances of SessionState for TLC. *)
EXTENDS SessionState, TLC

CONSTANTS d1, d2

\* The second name contains the first, and has a character that only
\* file names replace.
Plain == <<"d">>
Slash == <<"d", "/", "b">>
TwoSessions == {Plain, Slash}

\* The directories are alike.
DirSymmetry == Permutations(Dirs)
=============================================================================

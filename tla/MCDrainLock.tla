----------------------------- MODULE MCDrainLock -----------------------------
(***************************************************************************)
(* Instances of the drain lock. The daemon and CLI commands are pids.      *)
(***************************************************************************)
EXTENDS DrainLock, TLC

CONSTANTS p1, p2, p3

TwoPids == {p1, p2}
ThreePids == {p1, p2, p3}
Symmetry == Permutations(ThreePids)

\* A kill -9 anywhere, anywhere but between open("wx") and write(pid), only
\* there, or nowhere.
Anywhere == Points \ {"down", "foreign"}
PidWritten == Anywhere \ {"write"}
BeforePid == {"write"}
Nowhere == {}
=============================================================================

----------------------------- MODULE MCCppEpoll -----------------------------
(* Instances of CppEpoll for TLC: a listening socket and two connections.  *)
EXTENDS CppEpoll, TLC

CONSTANTS l, a, b

TwoSlots   == {l, a}
ThreeSlots == {l, a, b}

\* Connections are interchangeable; the listening socket is not.
ConnSymmetry == Permutations({a, b})
=============================================================================

----------------------------- MODULE MCRequests -----------------------------
(* Instances of Requests for TLC.                                          *)
EXTENDS Requests

Stock(limit) == [hook |-> FALSE, kinds |-> {"plain", "ssi"}, limit |-> limit]
Cpp(limit) == [hook |-> TRUE, kinds |-> {"plain", "ndg"}, limit |-> limit]

AllBuilds == {Stock(2), Stock(4), Cpp(2), Cpp(4)}
CppBuild == {Cpp(4)}
=============================================================================

---------------------------- MODULE MCNodeProcess ----------------------------
(* An instance of NodeProcess for TLC: the cfg file gives the constants. *)
EXTENDS NodeProcess

Once == [t \in Task |-> 1]

Scripts == [t \in Task |-> <<"jobs", "sum">>]
Inputs  == [t \in Task |-> <<"s3:", "", "bully", "data">>]
Outputs == [t \in Task |-> <<"s3:", "", "bully", "out", "sum">>]
Bucket  == {<<"jobs", "sum">>, <<"data">>}
=============================================================================

-------------------------- MODULE MCBlockingQuery --------------------------
(* BlockingQuery on small instances.                                       *)
EXTENDS BlockingQuery

CONSTANTS c1, c2

AllModes   == {"eager", "lazy", "background"}
Background == {"background"}
Eager      == {"eager"}
Lazy       == {"lazy"}
TwoThreads == {c1, c2}
OneThread  == {c1}
NoThread   == {}
=============================================================================

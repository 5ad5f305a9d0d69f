---------------------------- MODULE MCConnection ----------------------------
(* Model-checking instance of Connection.                                  *)
EXTENDS Connection

MCCallers == {"t1", "t2"}
MCOneCaller == {"t1"}
=============================================================================

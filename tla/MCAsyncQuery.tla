---------------------------- MODULE MCAsyncQuery ----------------------------
(* AsyncQuery on small instances.                                          *)
EXTENDS AsyncQuery

CONSTANTS t1, t2

OneTask  == {t1}
TwoTasks == {t1, t2}
=============================================================================

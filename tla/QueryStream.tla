---------------------------- MODULE QueryStream ----------------------------
(***************************************************************************)
(* What one query promises the application that iterates its result: the   *)
(* rows of the answer are handed out one at a time while the query is      *)
(* Started, Completed means that every row has been handed out, nothing    *)
(* more is asked of a query once it is Cancelled or Completed, and the     *)
(* metadata exists only behind the last row.                               *)
(*                                                                         *)
(* The query may be cancelled at any time, also while a row is asked for:  *)
(* that row may still arrive, and if the end of the answer was what        *)
(* arrived the query then counts as Completed.                             *)
(***************************************************************************)
EXTENDS Naturals

CONSTANT MaxRows  (* the longest answer considered; bounds the model *)

VARIABLES
  status,   (* StreamingState of the query                               *)
  total,    (* number of rows in the answer                              *)
  handed,   (* rows handed to the application, or refused by its         *)
            (* deserializer                                              *)
  asked,    (* a request for the next row is outstanding                 *)
  metadata  (* the metadata has been given to the application            *)

vars == <<status, total, handed, asked, metadata>>

StreamingState == {"NotStarted", "Started", "Cancelled", "Completed"}

Init ==
  /\ status = "NotStarted"
  /\ total \in 0 .. MaxRows
  /\ handed = 0
  /\ asked = FALSE
  /\ metadata = FALSE

Start ==
  /\ status = "NotStarted"
  /\ status' = "Started"
  /\ UNCHANGED <<total, handed, asked, metadata>>

Ask ==
  /\ status = "Started"
  /\ ~asked
  /\ asked' = TRUE
  /\ UNCHANGED <<status, total, handed, metadata>>

HandRow ==
  /\ asked
  /\ handed < total
  /\ handed' = handed + 1
  /\ asked' = FALSE
  /\ UNCHANGED <<status, total, metadata>>

Finish ==
  /\ asked
  /\ handed = total
  /\ status' = "Completed"
  /\ asked' = FALSE
  /\ UNCHANGED <<total, handed, metadata>>

(* The request for a row ended in an error: the application has it. *)
Fail ==
  /\ asked
  /\ asked' = FALSE
  /\ UNCHANGED <<status, total, handed, metadata>>

Cancel ==
  /\ status # "NotStarted"
  /\ status' = "Cancelled"
  /\ UNCHANGED <<total, handed, asked, metadata>>

GiveMetadata ==
  /\ ~asked
  /\ handed = total
  /\ metadata' = TRUE
  /\ UNCHANGED <<status, total, handed, asked>>

Next == Start \/ Ask \/ HandRow \/ Finish \/ Fail \/ Cancel \/ GiveMetadata

Spec == Init /\ [][Next]_vars

=============================================================================

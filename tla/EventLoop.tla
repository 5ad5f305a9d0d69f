------------------------------ MODULE EventLoop ------------------------------
(***************************************************************************)
(* Which event loop an asyncio cluster runs on.  A loop is its class and   *)
(* whether it runs; what asyncio.get_event_loop() finds is a loop or       *)
(* NoLoop, for which it raises.  Loops of class "selector" implement all   *)
(* of REQUIRED_METHODS, a Windows "proactor" does not.                     *)
(***************************************************************************)
EXTENDS OptionsBuilder

NoLoop == [class |-> "none", running |-> FALSE]
NewLoop == [class |-> "selector", running |-> FALSE]
Loops == [class : {"selector", "proactor"}, running : BOOLEAN]

IsValidLoop(loop) == loop.class = "selector"

\* An unfit loop is closed and a new one set; a loop that runs cannot be closed.
GetWorkingLoop(current) ==
    IF current = NoLoop THEN Raise("RuntimeError")
    ELSE IF IsValidLoop(current) THEN Ok(current)
    ELSE Check(~current.running, NewLoop, "RuntimeError")

GetEventLoop(loop, current) ==
    IF loop # NoLoop /\ IsValidLoop(loop) THEN Ok(loop) ELSE GetWorkingLoop(current)

\* The adapter takes the loop it is given as it is.
AdapterLoop(loop, current) == IF loop = NoLoop THEN GetEventLoop(NoLoop, current) ELSE Ok(loop)
=============================================================================

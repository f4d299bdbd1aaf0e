--------------------------- MODULE MCToolGateway ---------------------------
(* Constants for TLC. *)
EXTENDS ToolGateway, TLC

CONSTANTS i1, i2

(* One tool with one or more inputs, or two tools.                          *)
OneTool  == [i \in Intents |-> "t1"]
TwoTools == i1 :> "t1" @@ i2 :> "t2"

NeverReplay == "t1" :> "never"
SafeAndNone == "t1" :> "safe" @@ "t2" :> "none"

CallSymmetry == Permutations(Calls)
=============================================================================

----------------------------- MODULE EffectOnce -----------------------------
(***************************************************************************)
(* What the ToolGateway's effect ledger promises its callers, whatever      *)
(* gateways, retries and crashes there are: the effect behind a key is      *)
(* performed at most once, its result is settled once, and every caller who *)
(* is told a result is told that one.                                       *)
(***************************************************************************)
EXTENDS Naturals

CONSTANTS Keys, Calls

VARIABLES
  state,   \* state[k]: "none", "open", or the settled result of key k
  runs,    \* runs[k]: how often the effect was performed
  told     \* told[c]: the result call c was given, or "none"

Results == {"succeeded", "failed", "unknown"}

Init == /\ state = [k \in Keys |-> "none"]
        /\ runs  = [k \in Keys |-> 0]
        /\ told  = [c \in Calls |-> "none"]

Open(k) ==
  /\ state[k] = "none"
  /\ state' = [state EXCEPT ![k] = "open"]
  /\ UNCHANGED <<runs, told>>

(* An effect may still begin when someone settled it as unknown.            *)
Perform(k) ==
  /\ state[k] \in {"open", "unknown"} /\ runs[k] = 0
  /\ runs' = [runs EXCEPT ![k] = 1]
  /\ UNCHANGED <<state, told>>

Settle(k) ==
  /\ state[k] = "open"
  /\ \E r \in Results : /\ r = "succeeded" => runs[k] = 1
                        /\ state' = [state EXCEPT ![k] = r]
  /\ UNCHANGED <<runs, told>>

Tell(c) ==
  /\ told[c] = "none"
  /\ \E k \in Keys : state[k] \in Results /\ told' = [told EXCEPT ![c] = state[k]]
  /\ UNCHANGED <<state, runs>>

Next == \/ \E k \in Keys : Open(k) \/ Perform(k) \/ Settle(k)
        \/ \E c \in Calls : Tell(c)

Spec == Init /\ [][Next]_<<state, runs, told>>
=============================================================================

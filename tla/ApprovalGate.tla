--------------------------- MODULE ApprovalGate ---------------------------
(***************************************************************************)
(* What the gateway promises about a tool call that needs the operator's   *)
(* approval (docs/AGENT_REFERENCE.md, "Conversational assistant approval   *)
(* boundary"): its answer to the model is deferred, it is executed only    *)
(* after the operator approved it and once, a refused call is not          *)
(* executed, and the model gets one answer.                                *)
(***************************************************************************)
EXTENDS Naturals

CONSTANT Gated

VARIABLES stage, executions, finals

vars == <<stage, executions, finals>>

Init ==
  /\ stage = [c \in Gated |-> "idle"]
  /\ executions = [c \in Gated |-> 0]
  /\ finals = [c \in Gated |-> 0]

Ask(c) ==
  /\ stage[c] = "idle"
  /\ stage' = [stage EXCEPT ![c] = "asked"]
  /\ UNCHANGED <<executions, finals>>

Execute(c) ==
  /\ stage[c] = "asked"
  /\ stage' = [stage EXCEPT ![c] = "executing"]
  /\ executions' = [executions EXCEPT ![c] = @ + 1]
  /\ UNCHANGED finals

(* The answer of a refused call and of an executed one.                    *)
Answer(c) ==
  /\ stage[c] \in {"asked", "executing"}
  /\ stage' = [stage EXCEPT ![c] = "answered"]
  /\ finals' = [finals EXCEPT ![c] = @ + 1]
  /\ UNCHANGED executions

Next == \E c \in Gated : Ask(c) \/ Execute(c) \/ Answer(c)

Spec == Init /\ [][Next]_vars

=============================================================================

----------------------------- MODULE MCModelCalls -----------------------------
(***************************************************************************)
(* An instance of ModelCalls for TLC: two coders and a tester, one gated   *)
(* endpoint of two slots.                                                  *)
(***************************************************************************)
EXTENDS ModelCalls

TwoCoders == [a \in Agents |-> IF a = "a3" THEN "tester" ELSE "coder"]
OneEndpoint == [r \in Roles |-> "vaayu"]
TwoSlots == [e \in Endpoints |-> 2]
=============================================================================

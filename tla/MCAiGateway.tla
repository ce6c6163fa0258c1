----------------------------- MODULE MCAiGateway -----------------------------
(* AiGateway with two callers and days of three ticks. *)
EXTENDS AiGateway

CONSTANTS c1, c2

DaysOfThree == [t \in 0 .. MaxNow |-> t \div 3]
=============================================================================

------------------------------ MODULE MCKernel ------------------------------
(* Small instances of Kernel for TLC. *)
EXTENDS Kernel, TLC

CONSTANTS c1, c2, c3, c4, k1, k2

MCCalls3 == {c1, c2, c3}
MCCalls4 == {c1, c2, c3, c4}
CallSymmetry == Permutations(Calls) \cup Permutations(Keys)

(* Intents a and a2 differ in their payload only, b names another          *)
(* capability; the rest each trip one gate.                                *)
TwoIntents == {"a", "b"}
OneIntent == {"a"}
ReadIntents == {"a", "read"}
GateIntents == {"a", "a2", "big", "unknown", "scope"}
MCCapOf == [i \in Intents |-> IF i = "a2" THEN "a" ELSE i]
MCGateOf ==
  [i \in Intents |->
     CASE i = "big" -> "INPUT_LIMIT_EXCEEDED"
       [] i = "unknown" -> "UNKNOWN_CAPABILITY"
       [] i = "read" -> "READ_CAPABILITY_IS_NOT_ACTUATION"
       [] i = "scope" -> "CAPABILITY_NOT_IN_SCOPE"
       [] OTHER -> "OPEN"]
MCProviderOf == [i \in Intents |-> "memory"]
=============================================================================

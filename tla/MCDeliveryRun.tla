--------------------------- MODULE MCDeliveryRun ---------------------------
(***************************************************************************)
(* Small runs of DeliveryRun: plans of two templates, the first          *)
(* unconditional and due at once, the second after a timeout or a          *)
(* retryable status but not after a failed connection.                     *)
(***************************************************************************)
EXTENDS DeliveryRun

MCPlanLength == [d \in Deliveries |-> 2]
MCPlanLengthMixed == [d \in Deliveries |-> IF d = CHOOSE x \in Deliveries : TRUE THEN 2 ELSE 1]
MCConditionalOn ==
  [a \in Attempts |-> IF a[2] = 1 THEN {} ELSE {"timed_out", "retryable_status"}]
MCNotBefore == [a \in Attempts |-> a[2] - 1]
=============================================================================

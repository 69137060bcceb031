---------------------- MODULE MC_NotificationDelivery ----------------------
(* TLC instances of NotificationDelivery.                                  *)
EXTENDS NotificationDelivery

\* Three deliveries of one attempt for the cap of a range, two with two resend calls,
\* two with a retry and a failure, two with two failures, and one with a retry and
\* three failures.
MCLimits == {[deliveries |-> 3, retries |-> 0, resends |-> 1, faults |-> 0],
             [deliveries |-> 2, retries |-> 0, resends |-> 2, faults |-> 0],
             [deliveries |-> 2, retries |-> 1, resends |-> 1, faults |-> 1],
             [deliveries |-> 2, retries |-> 0, resends |-> 0, faults |-> 2],
             [deliveries |-> 1, retries |-> 1, resends |-> 1, faults |-> 3]}
=============================================================================

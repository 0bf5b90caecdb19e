--------------------------- MODULE ActionLifecycle ---------------------------
(***************************************************************************)
(* What an executor and a mission together promise about actions: one      *)
(* action at a time is accepted and worked on, it may be paused and        *)
(* resumed, it ends once, and what has ended stays ended.                  *)
(***************************************************************************)
CONSTANTS ActionId
VARIABLE status

Working == {"accepted", "running", "paused"}
Over == {"succeeded", "failed", "cancelled"}

TypeOK == status \in [ActionId -> {"idle"} \cup Working \cup Over]

Init == status = [a \in ActionId |-> "idle"]

\* An action is accepted when no other is being worked on.
Accept(a) ==
    /\ status[a] = "idle"
    /\ \A b \in ActionId : status[b] \notin Working
    /\ status' = [status EXCEPT ![a] = "accepted"]

\* The action in work runs, pauses, resumes or ends.
Proceed(a) ==
    /\ status[a] \in Working
    /\ \E s \in (Working \ {"accepted"}) \cup Over :
         status' = [status EXCEPT ![a] = s]

Next == \E a \in ActionId : Accept(a) \/ Proceed(a)

Spec == Init /\ [][Next]_status
=============================================================================

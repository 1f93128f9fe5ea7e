----------------------------- MODULE RemoteCall -----------------------------
(***************************************************************************)
(* What a program that calls a client may count on, however many calls it  *)
(* has in progress: a call either fails before its request is out and then *)
(* never completes, or it asks the client, and only then may complete,     *)
(* once.  It need not do either: a client need not answer.                 *)
(***************************************************************************)
CONSTANT Call
VARIABLE status

Init == status = [k \in Call |-> "idle"]

Goes(k, from, to) == status[k] = from /\ status' = [status EXCEPT ![k] = to]

Begin(k)    == Goes(k, "idle", "pending")
Fail(k)     == Goes(k, "pending", "failed")
Ask(k)      == Goes(k, "pending", "asked")
Complete(k) == Goes(k, "asked", "completed")

Next == \E k \in Call : Begin(k) \/ Fail(k) \/ Ask(k) \/ Complete(k)

Spec == Init /\ [][Next]_status
=============================================================================

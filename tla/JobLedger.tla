------------------------------ MODULE JobLedger ------------------------------
(***************************************************************************)
(* What the relayer promises to a client that polls GET /job/:id, without   *)
(* queues, nonces, prices or workers: a job is accepted, refused or sent,   *)
(* its call is executed at most once, and the status the job settles in is  *)
(* the call's fate.  A call may be executed before the job shows as sent,   *)
(* but never once the job was refused.                                      *)
(***************************************************************************)
CONSTANT Jobs

VARIABLES
  status,   \* JobState of each job (queue/poolTxQueue.ts)
  fate      \* what became of the job's call on chain

ledgerVars == <<status, fate>>

Init ==
  /\ status = [j \in Jobs |-> "none"]
  /\ fate = [j \in Jobs |-> "nothing"]

Move(j, from, to) ==
  /\ status[j] = from
  /\ status' = [status EXCEPT ![j] = to]
  /\ UNCHANGED fate

Accept(j) == Move(j, "none", "waiting")
Refuse(j) == fate[j] = "nothing" /\ Move(j, "waiting", "failed")
Launch(j) == Move(j, "waiting", "sent")
Settle(j) == \/ fate[j] = "ok" /\ Move(j, "sent", "completed")
             \/ fate[j] = "reverted" /\ Move(j, "sent", "reverted")

Execute(j) ==
  /\ status[j] \in {"waiting", "sent"} /\ fate[j] = "nothing"
  /\ \E f \in {"ok", "reverted"} : fate' = [fate EXCEPT ![j] = f]
  /\ UNCHANGED status

Next == \E j \in Jobs : Accept(j) \/ Refuse(j) \/ Launch(j) \/ Settle(j) \/ Execute(j)

Spec == Init /\ [][Next]_ledgerVars
=============================================================================

----------------------------- MODULE JobLedger -----------------------------
(***************************************************************************)
(* What the master promises about one job, whatever the invokers do: it is *)
(* handed out once, runs on at most one invoker at a time, is handed out   *)
(* again only after the invoker it was on failed, and has at most one      *)
(* result accepted and counted.  (That a running job is eventually         *)
(* accepted or handed out again is not promised here.)                     *)
(***************************************************************************)
CONSTANT Job

VARIABLE ledger

State == {"new", "waiting", "running", "accepted", "done"}

Init == ledger = [j \in Job |-> "new"]

Move(j, from, to) ==
  /\ ledger[j] = from
  /\ ledger' = [ledger EXCEPT ![j] = to]

HandOut(j) == Move(j, "new", "waiting")
Send(j) == Move(j, "waiting", "running")
Reschedule(j) == Move(j, "running", "waiting")
Accept(j) == Move(j, "running", "accepted")

\* The result is counted; jobs that are not needed any more are cancelled.
Finish(j) ==
  /\ ledger[j] = "accepted"
  /\ \E cancelled \in SUBSET {c \in Job : ledger[c] = "new"} :
       ledger' = [c \in Job |-> IF c \in cancelled \cup {j} THEN "done" ELSE ledger[c]]

Next == \E j \in Job : HandOut(j) \/ Send(j) \/ Reschedule(j) \/ Accept(j) \/ Finish(j)

Spec == Init /\ [][Next]_ledger
=============================================================================

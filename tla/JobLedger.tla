------------------------------ MODULE JobLedger ------------------------------
(***************************************************************************)
(* What a reader of the `jobs` table may rely on, whatever happens to the   *)
(* process that writes it: a job is opened once, is pending and then        *)
(* running, is closed with one outcome and never reopened.  A success that  *)
(* a late cancellation overtakes may still be amended to "cancelled"; no    *)
(* other closed row changes.                                                *)
(***************************************************************************)
CONSTANT JobIds

VARIABLE row

Live     == {"pending", "running"}
Terminal == {"success", "error", "cancelled"}
Statuses == {"none"} \union Live \union Terminal

LedgerInit == row = [j \in JobIds |-> "none"]

Open(j)  == row[j] = "none"    /\ row' = [row EXCEPT ![j] = "pending"]
Run(j)   == row[j] = "pending" /\ row' = [row EXCEPT ![j] = "running"]
Amend(j) == row[j] = "success" /\ row' = [row EXCEPT ![j] = "cancelled"]

(* Rows are closed one at a time by their own job, or several together.     *)
Close(js) ==
  /\ \A j \in js : row[j] \in Live
  /\ \E outcome \in [js -> Terminal] :
       row' = [j \in JobIds |-> IF j \in js THEN outcome[j] ELSE row[j]]

LedgerNext ==
  \/ \E j \in JobIds : Open(j) \/ Run(j) \/ Amend(j)
  \/ \E js \in SUBSET JobIds : Close(js)

LedgerSpec == LedgerInit /\ [][LedgerNext]_row
=============================================================================

---------------------------- MODULE Adjustments ----------------------------
(***************************************************************************)
(* What the server does with one model-account adjustment event: pure      *)
(* operators over the adjustment's row and the event's body.               *)
(*                                                                         *)
(* A body is a record [event, device, adjustment, operation, base,         *)
(* quantity, trashed].  Its fingerprint covers all of it, the device       *)
(* included, so two bodies are the same event exactly when they are equal. *)
(* Quantities stand for the data an edit changes, `trashed' for            *)
(* deleted_at; the immutable fields (worker, operation, date, price) are   *)
(* part of the adjustment's identity.                                      *)
(***************************************************************************)
EXTENDS Naturals

Operations == {"CREATE", "UPDATE"}
Methods    == {"create", "trash", "restore", "update"}

\* No row in model_account_adjustments.
Absent == [version |-> 0, quantity |-> 0, trashed |-> FALSE]

\* Which method of the service the handler calls, judged on an unlocked read.
Method(row, b) ==
  CASE b.operation = "CREATE"                                 -> "create"
    [] b.operation = "UPDATE" /\ ~row.trashed /\ b.trashed    -> "trash"
    [] b.operation = "UPDATE" /\ row.trashed /\ ~b.trashed    -> "restore"
    [] OTHER                                                  -> "update"

\* Mutant: an edit trusts the unlocked read.
AcceptsUnlocked(method, row, b) ==
  /\ method = "create" => b.base = 0 /\ ~b.trashed
  /\ method \in {"trash", "restore"} => b.base = row.version
  /\ method = "trash" => ~row.trashed
  /\ method = "restore" => row.trashed
  /\ method = "update" => ~b.trashed

\* The checks each method makes on the locked row.
Accepts(method, row, b) ==
  /\ method = "create" => b.base = 0 /\ ~b.trashed
  /\ method # "create" => b.base = row.version
  /\ method \in {"trash", "update"} => ~row.trashed
  /\ method = "restore" => row.trashed
  /\ method = "update" => ~b.trashed

\* The result of a refusal: a bad request is FAILED, the rest are conflicts.
Refusal(method, b) ==
  IF method = "create" /\ b.base = 0 THEN "FAILED" ELSE "CONFLICT"

\* The row after the method: a lifecycle change leaves the quantity alone.
After(method, row, b) ==
  [version  |-> row.version + 1,
   quantity |-> IF method \in {"create", "update"} THEN b.quantity ELSE row.quantity,
   trashed  |-> method = "trash" \/ (method = "update" /\ row.trashed)]
=============================================================================

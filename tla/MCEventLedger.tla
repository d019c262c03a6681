---------------------------- MODULE MCEventLedger ----------------------------
(* Two requests at a time over one adjustment.                             *)
EXTENDS EventLedger, TLC

CONSTANTS w1, w2

Of(event, device, operation, base, quantity, trashed) ==
  [event |-> event, device |-> device, adjustment |-> "a", operation |-> operation,
   base |-> base, quantity |-> quantity, trashed |-> trashed]

Created  == Of("e1", "d1", "CREATE", 0, 1, FALSE)
Trashed  == Of("e2", "d1", "UPDATE", 1, 1, TRUE)
Edited   == Of("e3", "d2", "UPDATE", 1, 2, FALSE)
Restored == Of("e4", "d2", "UPDATE", 2, 1, FALSE)
\* A trash another device sends under an id that is already taken.
Reused   == Of("e2", "d2", "UPDATE", 1, 1, TRUE)
\* A quantity edit and a trash the outbox folded into one event.
Folded   == Of("e5", "d1", "UPDATE", 1, 3, TRUE)

\* A creation, then a trash and an edit that compete for version 1, a restore
\* based on version 2, a folded edit after the trash, and the trash's event id
\* used by another device; two batches overlap in the creation.
Batches == {<<Created>>, <<Created, Trashed>>, <<Edited, Restored>>, <<Trashed, Folded>>, <<Reused>>}
Bodies  == {Created, Trashed, Edited, Restored, Reused, Folded}

WorkerSymmetry == Permutations({w1, w2})
=============================================================================

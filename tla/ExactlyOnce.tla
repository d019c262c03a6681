---------------------------- MODULE ExactlyOnce ----------------------------
(***************************************************************************)
(* What the event ledger promises the devices, however often they send an  *)
(* event and whatever happens to the requests: an event is decided once,   *)
(* an accepted one changes its adjustment once and atomically with the     *)
(* decision, on exactly the version it was based on, and every answer to   *)
(* it, now or later, is that decision.                                     *)
(***************************************************************************)
EXTENDS Naturals

CONSTANTS
  Body  \* the events devices send: records, described in Adjustments

VARIABLES
  decided,  \* decided[e]: the body decided under event id e, and how
  rows,     \* rows[a]: the adjustment a
  heard     \* the answers devices have received

vars == <<decided, rows, heard>>

Undecided  == [status |-> "none"]
Mismatch   == [status |-> "CONFLICT", version |-> 0]
EventIds      == {b.event : b \in Body}
AdjustmentIds == {b.adjustment : b \in Body}

Init ==
  /\ decided = [e \in EventIds |-> Undecided]
  /\ rows = [a \in AdjustmentIds |-> [version |-> 0, quantity |-> 0, trashed |-> FALSE]]
  /\ heard = {}

\* An accepted event moves its row from the version it names to the next one
\* and leaves it trashed or live as the event asks.
Accept(b) ==
  /\ decided[b.event] = Undecided
  /\ rows[b.adjustment].version = b.base
  /\ \E quantity \in {b.quantity, rows[b.adjustment].quantity} :
       rows' = [rows EXCEPT ![b.adjustment] =
         [version |-> b.base + 1, quantity |-> quantity, trashed |-> b.trashed]]
  /\ decided' = [decided EXCEPT ![b.event] =
       [status |-> "SYNCED", version |-> b.base + 1, body |-> b]]
  /\ UNCHANGED heard

Refuse(b) ==
  /\ decided[b.event] = Undecided
  /\ \E status \in {"CONFLICT", "FAILED"} :
       decided' = [decided EXCEPT ![b.event] = [status |-> status, version |-> 0, body |-> b]]
  /\ UNCHANGED <<rows, heard>>

\* The answer to body b: the decision, if it was b that was decided.
AnswerTo(b) ==
  IF decided[b.event].body = b
  THEN [status |-> decided[b.event].status, version |-> decided[b.event].version]
  ELSE Mismatch

\* The answers of one request arrive together.
Tell(bodies) ==
  /\ \A b \in bodies : decided[b.event] # Undecided
  /\ heard' = heard \cup {[body |-> b, answer |-> AnswerTo(b)] : b \in bodies}
  /\ UNCHANGED <<decided, rows>>

Next ==
  \/ \E b \in Body : Accept(b) \/ Refuse(b)
  \/ \E bodies \in SUBSET Body : Tell(bodies)

Spec == Init /\ [][Next]_vars
=============================================================================

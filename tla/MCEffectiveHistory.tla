------------------------ MODULE MCEffectiveHistory ------------------------
(***************************************************************************)
(* The instance of EffectiveHistory for TLC.                               *)
(***************************************************************************)
EXTENDS EffectiveHistory, TLC

BadgeKind == {"assign", "reassign", "release", "update_worker"}

\* Badges and prices share no row: a behaviour with both shows nothing that
\* two behaviours with one each do not.
OnlyBadges ==
  /\ \A o \in Operation : status[o] = "ABSENT"
  /\ version[Model] = 1
  /\ \A r \in Request : request[r].kind \in BadgeKind \cup {"none"}

\* Prices are planned no further than the clock goes, and one row of the model
\* and its operations is changed.
OnlyPrices ==
  /\ \A w \in Worker : status[w] = "ABSENT"
  /\ \A r \in Request : request[r] # Idle => request[r].kind \notin BadgeKind /\ request[r].at <= MaxNow
  /\ \A x, y \in Operation \cup {Model} : version[x] > 1 /\ version[y] > 1 => x = y

OneHistory == OnlyBadges \/ OnlyPrices

Identities == Permutations(Request) \cup Permutations(Worker) \cup
              Permutations(Operation) \cup Permutations(Price)
=============================================================================

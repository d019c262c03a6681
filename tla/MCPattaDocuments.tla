-------------------------- MODULE MCPattaDocuments --------------------------
(***************************************************************************)
(* Instances of PattaDocuments for TLC.                                    *)
(***************************************************************************)
EXTENDS PattaDocuments, TLC

\* A batch grows, shrinks and changes sizes between these distributions.
OneOrTwo == {<<2, 0>>, <<0, 1>>}
OnlyOne == {<<1>>}

\* A history corrects a batch or changes what was entered before the batches.
LegacyApart ==
  (\E b \in Batch : batches[b] # Absent) =>
    /\ \A n \in LegacyNumber : pattas[n].version = 1
    /\ \A s \in Sheet : sheets[s] = Absent \/ sheets[s].patta \notin LegacyNumber

\* With a second batch, only creations and corrections in the browser go on: what
\* they share is the sequence.
OneOfTwoBatches ==
  (\A b \in Batch : batches[b] # Absent \/ \E r \in Request : req[r].kind = "create" /\ req[r].batch = b) =>
    /\ \A r \in Request : req[r].kind \in {"none", "create", "correct"}
    /\ \A s \in Sheet : sheets[s] = Absent
    /\ \A p \in PrintEvent : prints[p] = Absent
    /\ \A n \in BlockNumber : pattas[n] = Absent

RequestsAndSheets == Permutations(Request) \cup Permutations(Sheet) \cup Permutations(Batch)
=============================================================================

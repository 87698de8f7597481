--------------------------- MODULE ReferenceIndex ---------------------------
(***************************************************************************)
(* What the reference index of the ClusterSummary reconciler promises to   *)
(* the WorkloadRole and ConfigMap event handlers: a relation between       *)
(* consumers (ClusterSummaries) and referenced objects in which each       *)
(* reconciliation replaces the whole row of its consumer by the set of     *)
(* objects its current spec references.  The index is held in memory, so  *)
(* a controller restart empties it.                                        *)
(***************************************************************************)
CONSTANTS Consumers,  \* the ClusterSummaries
          Entries,    \* the objects they may reference
          Rows        \* the sets of objects one spec can reference

ASSUME Rows \subseteq SUBSET Entries

VARIABLE index        \* set of <<consumer, entry>> pairs

TypeOK == index \subseteq Consumers \X Entries

Init == index = {}

\* updateReferences(consumer, entries): the consumer's row becomes entries,
\* the references of one spec, whatever the row held before.
UpdateReferences(c, S) ==
    index' = {p \in index : p[1] # c} \cup ({c} \X S)

\* The process restarts and the in-memory index is empty again.
Reset == index' = {}

Next ==
    \/ \E c \in Consumers, S \in Rows : UpdateReferences(c, S)
    \/ Reset

Spec == Init /\ [][Next]_index
=============================================================================

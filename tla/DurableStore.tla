---------------------------- MODULE DurableStore ----------------------------
(***************************************************************************)
(* What the generation store promises to the rest of the backend: there is *)
(* one set of stored facts, it starts as the legacy database (or empty),   *)
(* and nothing but storing a fact ever changes it -- no start, stop,       *)
(* crash, adoption, migration, rollback or pruning does, until a stored    *)
(* generation is damaged from outside.                                     *)
(***************************************************************************)
CONSTANTS Writes, LegacyWrites

VARIABLES stored, damaged

Init == stored \in {{}, LegacyWrites} /\ damaged = FALSE

Store(w) == ~damaged /\ w \notin stored /\ stored' = stored \cup {w} /\ UNCHANGED damaged

Damaged == damaged' = TRUE /\ stored' \in SUBSET Writes

Next == Damaged \/ \E w \in Writes : Store(w)

Spec == Init /\ [][Next]_<<stored, damaged>>
=============================================================================

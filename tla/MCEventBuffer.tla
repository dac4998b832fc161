---------------------------- MODULE MCEventBuffer ----------------------------
(* Instance of EventBuffer for TLC: model values for items, object         *)
(* identities and callers are interchangeable.                             *)
EXTENDS EventBuffer, TLC

Sym == Permutations(Items) \cup Permutations(Ids) \cup Permutations(Callers)
=============================================================================

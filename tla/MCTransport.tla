------------------------------ MODULE MCTransport -----------------------------
(* Instances of Transport for TLC.                                         *)
EXTENDS Transport, TLC

(* On lists that are oldest first, dropping a prefix is the filter that    *)
(* acquire applies to its list.                                            *)
ASSUME NewerIsTheFilter ==
  \A n \in 0 .. 4 : \A s \in [1 .. n -> 0 .. 3] :
    (\A i, j \in 1 .. n : i <= j => s[i] >= s[j]) =>
      \A w \in 0 .. 3 : Limiter!Newer(s, w) = SelectSeq(s, LAMBDA age : age < w)

CONSTANTS b1, r1

(* A task that sends a batch or a report, and one that fetches the rules.  *)
Shared == b1 :> {"batch", "status"} @@ r1 :> {"rules"}
=============================================================================

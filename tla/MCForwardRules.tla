--------------------------- MODULE MCForwardRules ---------------------------
(***************************************************************************)
(* Instances of ForwardRules for TLC.                                      *)
(***************************************************************************)
EXTENDS ForwardRules

CONSTANTS g1, g2, g3, l1, l2, l3

(* Two groups at first, or three; the operator adds the third.             *)
SmallConfs == {<<g1, g2>>, <<g1, g2, g3>>}

FewHashes == l1 :> 5 @@ l2 :> 3
Hashes    == l1 :> 5 @@ l2 :> 3 @@ l3 :> 10
=============================================================================

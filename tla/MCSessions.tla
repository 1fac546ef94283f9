----------------------------- MODULE MCSessions -----------------------------
(* Values of the constants of Sessions for TLC.                            *)
EXTENDS Sessions, TLC
CONSTANTS i1, i2, v1, v2

OneServer == {i1 :> <<v1>>}
OneGroup  == {i1 :> <<v1, v2>>}
OneEach   == {(i1 :> <<v1>>) @@ (i2 :> <<v2>>)}

(* A server is added to the file, or taken out of it.                      *)
Changing  == {i1 :> <<v1>>, i1 :> <<v1, v2>>}

(* Addresses of one kind can be exchanged.                                 *)
Alike == Permutations(Clients) \cup Permutations(Sessions)

(* So can the groups, together with their servers, when there is one each. *)
AlikeGroups == Alike \cup {(i1 :> i2) @@ (i2 :> i1) @@ (v1 :> v2) @@ (v2 :> v1)}

(* The run does not go on from a state in which a session has strayed.     *)
Kept == strayed \subseteq {"end"}
=============================================================================

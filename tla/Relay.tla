------------------------------- MODULE Relay -------------------------------
(***************************************************************************)
(* What one direction of a bridge promises: the receiver gets what the     *)
(* sender has sent, from the first byte on, without a gap, a repetition or *)
(* a byte of something else.                                               *)
(***************************************************************************)
EXTENDS Naturals, Sequences

VARIABLES
  said,          \* what the sender has sent
  got            \* what the receiver has got

Extends(longer, shorter) ==
  /\ Len(shorter) <= Len(longer)
  /\ \A k \in 1..Len(shorter) : longer[k] = shorter[k]

Init == said = <<>> /\ got = <<>>

Say  == Extends(said', said) /\ said' # said /\ UNCHANGED got
Pass == Extends(got', got) /\ Extends(said, got') /\ got' # got /\ UNCHANGED said

Next == Say \/ Pass

Spec == Init /\ [][Next]_<<said, got>>
=============================================================================

-------------------------------- MODULE Ids ---------------------------------
(***************************************************************************)
(* What calls, texts and images are told apart by.  An id made with a      *)
(* prefix and a number is who made it and the number: no two of them are   *)
(* the same string.                                                        *)
(***************************************************************************)
EXTENDS Naturals

Id(maker, n) == [maker |-> maker, n |-> n]

\* The empty string, or no field at all.
NoId == Id("nobody", 0)

=============================================================================

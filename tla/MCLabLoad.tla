------------------------------ MODULE MCLabLoad ------------------------------
(* Instances of LabLoad for TLC.                                             *)
EXTENDS LabLoad, TLC

CONSTANTS r1, r2, r3, A, B

\* Two requests from address A, one with two workers, and one from B.
Three == {r1, r2, r3}
AddrThree == r1 :> A @@ r2 :> A @@ r3 :> B
WorkersThree == r1 :> 2 @@ r2 :> 1 @@ r3 :> 1

Two == {r1, r2}
AddrTwo == r1 :> A @@ r2 :> A
WorkersTwo == r1 :> 2 @@ r2 :> 1

==============================================================================

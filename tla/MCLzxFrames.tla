------------------------------ MODULE MCLzxFrames ------------------------------
(* A small stream for LzxFrames: two characters, one match element. *)
EXTENDS LzxFrames, TLC

\* Two complete codes, one of them without the character calls start with.
MCCodes == {0 :> a @@ 1 :> b @@ 2 :> c : <<a, b, c>> \in {<<2, 2, 1>>, <<1, 0, 1>>}}
=============================================================================

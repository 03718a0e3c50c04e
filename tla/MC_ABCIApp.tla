----------------------------- MODULE MC_ABCIApp -----------------------------
(***************************************************************************)
(* A small instance of ABCIApp: two genesis validators of stake 4 with     *)
(* room for two, a third address that may register, one sender whose      *)
(* transactions with nonces 0 and 1 can be proposed again and again, and   *)
(* a rotation every second block.                                          *)
(***************************************************************************)
EXTENDS ABCIApp, TLC

CONSTANTS a1, a2, a3, s1

MCAddr == {a1, a2, a3}
MCGenesis == (a1 :> 4) @@ (a2 :> 4)
MCSenders == {s1}
=============================================================================

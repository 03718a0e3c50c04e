--------------------------- MODULE MC_ValidatorSet ---------------------------
(***************************************************************************)
(* A small instance of ValidatorSet for TLC: three addresses, room for two *)
(* validators so that registration must evict, one genesis validator.     *)
(* One coin is 2 units so that calculatePower rounds; the power clamp is 3 *)
(* so that it is reached below the stake bound.                            *)
(***************************************************************************)
EXTENDS ValidatorSet, TLC

CONSTANTS a1, a2, a3

MCAddr == {a1, a2, a3}
MCGenesis == a1 :> 4
=============================================================================

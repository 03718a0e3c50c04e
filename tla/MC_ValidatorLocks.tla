-------------------------- MODULE MC_ValidatorLocks --------------------------
(***************************************************************************)
(* Goroutines calling the ValidatorSet.                                    *)
(*   abci : the ABCI connection: InitChain (abci_app.go:102-171) then the  *)
(*          rotation of a FinalizeBlock at a multiple of 100 (375, 387);   *)
(*   boot : main's LoadValidators (part_001:118) then a REST /validators   *)
(*          handler (rest_server.go:691);                                  *)
(*   rest : another REST handler.                                          *)
(* ProductionProgram has the calls the program makes; StakingProgram adds  *)
(* a RegisterValidator and a Stake call, as validators_test.go makes.      *)
(***************************************************************************)
EXTENDS ValidatorLocks

CONSTANTS abci, boot, rest, none

MCThreads == {abci, boot, rest}

ProductionProgram ==
  [t \in MCThreads |->
     CASE t = abci -> <<"LoadValidators", "GetActiveValidators",
                        "InitializeGenesisValidators", "GetValidators",
                        "ToCometBFTValidators", "ToCometBFTValidators",
                        "RotateValidators">>
       [] t = boot -> <<"LoadValidators", "GetValidators">>
       [] OTHER    -> <<"GetValidators">>]

StakingProgram ==
  [ProductionProgram EXCEPT ![boot] = <<"RegisterValidator", "Stake">>]
=============================================================================

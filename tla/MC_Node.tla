------------------------------ MODULE MC_Node ------------------------------
EXTENDS Node, TLC
CONSTANTS b1, b2, none
MCBlocks == {b1, b2}
=============================================================================

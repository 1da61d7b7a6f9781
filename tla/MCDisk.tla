------------------------------- MODULE MCDisk -------------------------------
(* An instance of Disk for TLC.                                            *)
EXTENDS Disk

MCINT == [op |-> "interrupt"]
MCOK  == [op |-> "ok"]
MCArg == Calls \cup {MCINT, MCOK}
=============================================================================

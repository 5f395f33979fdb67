---------------------------- MODULE Checkpoints -----------------------------
(***************************************************************************)
(* Checkpoint arithmetic (src/src/history/HistoryManagerImpl.cpp).  A      *)
(* checkpoint is named by its last ledger, one below a multiple of         *)
(* getCheckpointFrequency(): freq is 64, or 8 in accelerated tests.        *)
(***************************************************************************)
EXTENDS Integers

nextCheckpointLedger(ledger, freq) ==
    IF ledger = 0 THEN freq ELSE ((ledger + freq - 1) \div freq) * freq

checkpointContainingLedger(ledger, freq) == nextCheckpointLedger(ledger + 1, freq) - 1
=============================================================================

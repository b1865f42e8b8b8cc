------------------------------ MODULE MCWallet ------------------------------
(* Instances of Wallet: the operations and callbacks each run includes.      *)
EXTENDS Wallet

AllRequests == AllOps
Deductions  == {"open", "topup", "deduct"}
TopupOnly   == {"open", "topup"}
Declines    == {"failed"}
Callbacks   == {"processing", "completed", "failed"}
=============================================================================

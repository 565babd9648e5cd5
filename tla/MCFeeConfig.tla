---------------------------- MODULE MCFeeConfig -----------------------------
\* Fees around the cap: with a protocol fee of 2 the NCN may ask for 8 of 10.
EXTENDS FeeConfig

CONSTANTS w1, w2, none

MCWallets == {w1, w2, none}
MCNcnFees == {0, 1, 8, 9, 11}

============================================================================

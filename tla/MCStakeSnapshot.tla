-------------------------- MODULE MCStakeSnapshot --------------------------
(***************************************************************************)
(* Three operators, room for two; three vaults, of which two share a mint, *)
(* and a registry for two.  Operators, vaults and mints may join at any    *)
(* time, before and after the table and the snapshot were begun.           *)
(***************************************************************************)
EXTENDS StakeSnapshot, TLC

CONSTANTS m1, m2, v1, v2, v3

VaultMint == v1 :> m1 @@ v2 :> m2 @@ v3 :> m2

============================================================================

---------------------------- MODULE FeeSchedule -----------------------------
(***************************************************************************)
(* What FeeConfig promises (core/src/fees.rs, the documentation of         *)
(* FeeConfig and of update_fee_config): there is one fee in force and at   *)
(* most one announced; a change is announced for the next epoch, replaces  *)
(* an earlier announcement, and nothing but a new epoch changes the fee in *)
(* force.                                                                  *)
(***************************************************************************)
EXTENDS Integers

CONSTANT NcnFees   \* fees that may be asked for

VARIABLES
    epoch,        \* the epoch
    in_force,     \* NCN fee of the current epoch
    announced     \* NCN fee of the next epoch

fvars == <<epoch, in_force, announced>>

ScheduleInit ==
    /\ epoch \in Nat
    /\ in_force \in NcnFees
    /\ announced = in_force

Announce(fee) ==
    /\ announced' = fee
    /\ UNCHANGED <<epoch, in_force>>

NewEpoch ==
    /\ epoch' = epoch + 1
    /\ in_force' = announced
    /\ UNCHANGED announced

ScheduleNext == NewEpoch \/ \E fee \in NcnFees : Announce(fee)

ScheduleSpec == ScheduleInit /\ [][ScheduleNext]_fvars

============================================================================

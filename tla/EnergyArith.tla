----------------------------- MODULE EnergyArith -----------------------------
(* The arithmetic on struct proc's energy_budget and energy_consumed, both    *)
(* uint64: what one timer interrupt does to them in clockintr() and once more *)
(* in usertrap().                                                             *)
EXTENDS Integers

CONSTANTS DEFAULT_ENERGY_BUDGET, ENERGY_PER_TICK,
          Modulus    \* 2^64 in the kernel: one more than the largest uint64

ASSUME EnergyAssumption ==
  /\ ENERGY_PER_TICK \in Nat \ {0}
  /\ DEFAULT_ENERGY_BUDGET \in Nat
  /\ Modulus \in Nat
  /\ DEFAULT_ENERGY_BUDGET < Modulus /\ ENERGY_PER_TICK < Modulus

UInt64 == 0..(Modulus - 1)

(* One addition or subtraction of uint64 values. *)
Wrap(x) == IF x < 0 THEN x + Modulus ELSE IF x >= Modulus THEN x - Modulus ELSE x

ConsumeOne(consumed) == Wrap(consumed + ENERGY_PER_TICK)

(* Mutant: clockintr subtracts without the comparison. *)
ClockChargeWraps(budget) == Wrap(budget - ENERGY_PER_TICK)

(* clockintr: saturating. *)
ClockCharge(budget) ==
  IF budget >= ENERGY_PER_TICK THEN Wrap(budget - ENERGY_PER_TICK) ELSE 0

(* usertrap: guarded by budget > 0 only. *)
UserCharge(budget) ==
  IF budget > 0 THEN Wrap(budget - ENERGY_PER_TICK) ELSE budget
=============================================================================

---------------------------- MODULE EnergyProofs ----------------------------
(* The energy accounting for every budget and width and any number of ticks   *)
(* before energy_consumed is full, with the kernel's ENERGY_PER_TICK of 1.    *)
EXTENDS Energy, TLAPS

(* A tick's charges never exceed what the ticks so far account for, with room *)
(* for the second charge of the tick being handled.                           *)
Charged ==
  /\ ticks <= consumed
  /\ consumed <= 2 * ticks
  /\ pc = "usertrap" => consumed <= 2 * ticks - 1 /\ consumed + 1 < Modulus

IInv == TypeOK /\ Charged /\ BudgetIsRemainder /\ ShownConsistent

(* What the assumptions say of the sizes when a tick costs one unit. *)
LEMMA Sizes ==
  ASSUME ENERGY_PER_TICK = 1
  PROVE  /\ DEFAULT_ENERGY_BUDGET \in Nat /\ Modulus \in Nat
         /\ DEFAULT_ENERGY_BUDGET < Modulus /\ 1 < Modulus
  BY EnergyAssumption

(* The invariant holds when allocproc() has set the two fields. *)
LEMMA InitIInv == ENERGY_PER_TICK = 1 /\ Init => IInv
<1> SUFFICES ASSUME ENERGY_PER_TICK = 1, Init PROVE IInv
  OBVIOUS
<1>1. /\ budget = DEFAULT_ENERGY_BUDGET /\ consumed = 0
      /\ seenBudget = budget /\ seenConsumed = 0 /\ ticks = 0
      /\ killed = FALSE /\ pc = "user"
  BY DEF Init
<1>2. TypeOK
  <2>1. /\ budget \in UInt64 /\ consumed \in UInt64
        /\ seenBudget \in UInt64 /\ seenConsumed \in UInt64 /\ ticks \in Nat
    BY <1>1, Sizes DEF UInt64
  <2>2. killed \in BOOLEAN
    BY <1>1, Zenon
  <2> QED BY <1>1, <2>1, <2>2 DEF TypeOK
<1>3. Remainder(0) = DEFAULT_ENERGY_BUDGET
  BY Sizes DEF Remainder
<1> QED
  BY <1>1, <1>2, <1>3 DEF IInv, Charged, BudgetIsRemainder, ShownConsistent

(* Both charges subtract exactly what is left, down to zero, and neither      *)
(* wraps.                                                                     *)
LEMMA ChargesAgree ==
  ASSUME NEW c \in Nat, ENERGY_PER_TICK = 1, c + 1 < Modulus
  PROVE  /\ ConsumeOne(c) = c + 1
         /\ ClockCharge(Remainder(c)) = Remainder(c + 1)
         /\ UserCharge(Remainder(c)) = Remainder(c + 1)
         /\ Remainder(c) \in UInt64
         /\ Remainder(c + 1) <= Remainder(c)
  BY Sizes DEF ConsumeOne, ClockCharge, UserCharge, Remainder, Wrap, UInt64

(* Every step of the process keeps the invariant, lowers the budget or leaves *)
(* it, and raises the consumption or leaves it.                               *)
LEMMA NextIInv ==
  ENERGY_PER_TICK = 1 /\ IInv /\ [Next]_vars
    => IInv' /\ (budget' <= budget /\ consumed' >= consumed)
<1> SUFFICES ASSUME ENERGY_PER_TICK = 1, IInv, [Next]_vars
             PROVE  IInv' /\ budget' <= budget /\ consumed' >= consumed
  OBVIOUS
<1> USE DEF IInv, TypeOK, Charged, BudgetIsRemainder, ShownConsistent
<1>0. /\ Modulus \in Nat
      /\ consumed \in Nat /\ budget \in Nat /\ ticks \in Nat
      /\ seenConsumed \in Nat
  BY Sizes DEF UInt64
<1>1. ASSUME ClockIntr
      PROVE  /\ consumed' = consumed + 1 /\ budget' = Remainder(consumed + 1)
             /\ budget' \in UInt64 /\ consumed' \in UInt64 /\ budget' <= budget
             /\ ticks' = ticks + 1 /\ ticks' \in Nat /\ consumed' + 1 < Modulus
             /\ UNCHANGED <<killed, seen>>
  <2>1. consumed + 2 < Modulus
    BY <1>0, <1>1 DEF ClockIntr, Lives
  <2>2. Remainder(consumed + 1) \in UInt64
    BY <1>0, <2>1, ChargesAgree
  <2> QED
    BY <1>0, <1>1, <2>1, <2>2, ChargesAgree DEF ClockIntr, UInt64
<1>2. CASE TimerInUser
  BY <1>0, <1>1, <1>2 DEF TimerInUser, seen
<1>3. CASE TimerInKernel
  BY <1>0, <1>1, <1>3 DEF TimerInKernel, seen
<1>4. CASE UserTrapCharge
  <2>1. CASE killed
    BY <1>0, <1>4, <2>1 DEF UserTrapCharge, seen
  <2>2. CASE ~killed
    <3>1. consumed + 1 < Modulus /\ consumed + 1 <= 2 * ticks
      BY <1>0, <1>4 DEF UserTrapCharge, seen
    <3>2. /\ consumed' = consumed + 1 /\ budget' = Remainder(consumed + 1)
          /\ budget' \in UInt64 /\ budget' <= budget
      <4>1. Remainder(consumed + 1) \in UInt64
        BY <1>0, <3>1, Sizes DEF Remainder, UInt64
      <4> QED BY <1>0, <1>4, <2>2, <3>1, <4>1, ChargesAgree DEF UserTrapCharge, seen
    <3> QED
      BY <1>0, <1>4, <2>2, <3>1, <3>2 DEF UserTrapCharge, UInt64, seen
  <2> QED BY <2>1, <2>2
<1>5. CASE TrapEnter
  BY <1>0, <1>5 DEF TrapEnter, seen
<1>6. CASE TrapReturn
  BY <1>0, <1>6 DEF TrapReturn, seen
<1>7. CASE GetEnergy
  BY <1>0, <1>7 DEF GetEnergy, seen
<1>8. CASE Kill
  BY <1>0, <1>8 DEF Kill, seen
<1>9. CASE Exit
  BY <1>0, <1>9 DEF Exit, seen
<1>10. CASE UNCHANGED vars
  BY <1>0, <1>10 DEF vars, seen, Remainder
<1> QED
  BY <1>2, <1>3, <1>4, <1>5, <1>6, <1>7, <1>8, <1>9, <1>10 DEF Next

LEMMA IInvInvariant == ENERGY_PER_TICK = 1 => (Spec => []IInv)
<1> SUFFICES ASSUME ENERGY_PER_TICK = 1 PROVE Spec => []IInv
  OBVIOUS
<1>1. Init => IInv
  BY InitIInv
<1>2. IInv /\ [Next]_vars => IInv'
  BY NextIInv
<1> QED BY <1>1, <1>2, PTL DEF Spec

(* The budget of getenergy() and of scheduler()'s tiers is the default budget *)
(* less what was consumed, whatever the interleaving of user ticks, kernel    *)
(* ticks and system calls.                                                    *)
THEOREM BudgetExact == ENERGY_PER_TICK = 1 => (Spec => []BudgetIsRemainder)
<1> SUFFICES ASSUME ENERGY_PER_TICK = 1 PROVE Spec => []BudgetIsRemainder
  OBVIOUS
<1>1. IInv => BudgetIsRemainder
  BY DEF IInv
<1> QED BY IInvInvariant, <1>1, PTL

(* Both fields stay within uint64, with no charge wrapping. *)
THEOREM EnergyTypes == ENERGY_PER_TICK = 1 => (Spec => []TypeOK)
<1> SUFFICES ASSUME ENERGY_PER_TICK = 1 PROVE Spec => []TypeOK
  OBVIOUS
<1>1. IInv => TypeOK
  BY DEF IInv
<1> QED BY IInvInvariant, <1>1, PTL

(* getenergy() reports the two numbers of one moment. *)
THEOREM GetEnergyConsistent == ENERGY_PER_TICK = 1 => (Spec => []ShownConsistent)
<1> SUFFICES ASSUME ENERGY_PER_TICK = 1 PROVE Spec => []ShownConsistent
  OBVIOUS
<1>1. IInv => ShownConsistent
  BY DEF IInv
<1> QED BY IInvInvariant, <1>1, PTL

(* Each tick costs one unit or two, what clockintr() and usertrap() together  *)
(* charge; Energy.cfg shows that one unit, as the documents have it, is too   *)
(* little.                                                                    *)
THEOREM TickCost == ENERGY_PER_TICK = 1 => (Spec => []ChargesPerTick)
<1> SUFFICES ASSUME ENERGY_PER_TICK = 1 PROVE Spec => []ChargesPerTick
  OBVIOUS
<1>1. IInv => ChargesPerTick
  BY Sizes DEF IInv, Charged, ChargesPerTick, TypeOK, UInt64
<1> QED BY IInvInvariant, <1>1, PTL

(* No step of any process refills a budget. *)
THEOREM BudgetMonotone == ENERGY_PER_TICK = 1 => (Spec => BudgetNeverGrows)
<1> SUFFICES ASSUME ENERGY_PER_TICK = 1 PROVE Spec => BudgetNeverGrows
  OBVIOUS
<1>1. IInv /\ [Next]_vars => [budget' <= budget /\ consumed' >= consumed]_vars
  BY NextIInv
<1> QED BY IInvInvariant, <1>1, PTL DEF Spec, BudgetNeverGrows
=============================================================================

------------------------------ MODULE Division ------------------------------
(***************************************************************************)
(* __udivmoddi4: the division of 64-bit numbers the compiler calls for     *)
(* (print_uint's among others), by shifting and subtracting.  One step is  *)
(* one turn of the outer or of the inner loop.                             *)
(***************************************************************************)
EXTENDS Integers

CONSTANT UINT64_MAX

ASSUME DivisionAssumption == UINT64_MAX \in Nat

Word == 0 .. UINT64_MAX

VARIABLES dividend, den,          \* the arguments
          num, quotient,
          tmp, mult,
          dpc                     \* "outer" and "inner" loop, "done" or "idle"

division_args == <<dividend, den>>
division_vars == <<division_args, num, quotient, tmp, mult, dpc>>

DivisionInit ==
  /\ dividend = 0 /\ den = 0 /\ num = 0 /\ quotient = 0 /\ tmp = 0 /\ mult = 0
  /\ dpc = "idle"

\* Mutant: a divisor of zero is not looked at.
first_step_unguarded(divisor) == "outer"
first_step(divisor) == IF divisor = 0 THEN "done" ELSE "outer"

udivmoddi4(n, d) ==
  /\ dpc = "idle"
  /\ dividend' = n /\ den' = d
  /\ num' = IF d = 0 THEN 0 ELSE n
  /\ quotient' = 0
  /\ dpc' = first_step(d)
  /\ UNCHANGED <<tmp, mult>>

Outer ==
  /\ dpc = "outer"
  /\ IF num >= den
       THEN tmp' = den /\ mult' = 1 /\ dpc' = "inner"
       ELSE dpc' = "done" /\ UNCHANGED <<tmp, mult>>
  /\ UNCHANGED <<division_args, num, quotient>>

\* Mutant: the multiple is doubled once too often.
doubles_late == tmp <= num /\ tmp <= UINT64_MAX \div 2
doubles == tmp <= num \div 2 /\ tmp <= UINT64_MAX \div 2

Double ==
  /\ dpc = "inner" /\ doubles
  /\ tmp' = (2 * tmp) % (UINT64_MAX + 1)
  /\ mult' = (2 * mult) % (UINT64_MAX + 1)
  /\ UNCHANGED <<division_args, num, quotient, dpc>>

Subtract ==
  /\ dpc = "inner" /\ ~ doubles
  /\ num' = (num - tmp) % (UINT64_MAX + 1)
  /\ quotient' = (quotient + mult) % (UINT64_MAX + 1)
  /\ dpc' = "outer"
  /\ UNCHANGED <<division_args, tmp, mult>>

Loops == Outer \/ Double \/ Subtract

\* The caller takes quotient and remainder.
Take ==
  /\ dpc = "done"
  /\ dividend' = 0 /\ den' = 0 /\ num' = 0 /\ quotient' = 0 /\ tmp' = 0 /\ mult' = 0
  /\ dpc' = "idle"

DivisionNext == (\E n, d \in Word : udivmoddi4(n, d)) \/ Loops \/ Take

\* The loops run to their end.
DivisionSpec == DivisionInit /\ [][DivisionNext]_division_vars /\ WF_division_vars(Loops)

-----------------------------------------------------------------------------
\* What the loops keep: the multiple is the divisor mult times, it never
\* exceeds the number it is taken from, and quotient and number make up the
\* dividend, so nothing wraps.
LoopInvariant ==
  /\ num \in Word /\ quotient \in Word /\ tmp \in Word /\ mult \in Word
  /\ dpc \in {"idle", "outer", "inner", "done"}
  /\ dividend \in Word /\ den \in Word
  /\ den = 0 => dpc \in {"idle", "done"} /\ quotient = 0 /\ num = 0
  /\ den # 0 => dividend = quotient * den + num
  /\ dpc = "inner" => tmp = mult * den /\ tmp <= num /\ mult > 0
  /\ dpc = "done" /\ den # 0 => num < den

\* The answer is quotient and remainder; zero and zero of a division by zero.
DivisionExact ==
  dpc = "done" =>
    IF den = 0 THEN quotient = 0 /\ num = 0
    ELSE dividend = quotient * den + num /\ num < den

\* Every division ends, the one by zero included.
DivisionEnds == (dpc = "outer") ~> (dpc = "done")
=============================================================================

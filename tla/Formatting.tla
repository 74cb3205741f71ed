----------------------------- MODULE Formatting -----------------------------
(***************************************************************************)
(* How amounts of data and rates are printed (src/Server.cpp,              *)
(* formatTransfer and formatBandwidth): divided by the largest unit below  *)
(* them, to three decimals.                                                *)
(***************************************************************************)
EXTENDS Integers, FiniteSetsExt

CONSTANTS
  UnitStep,   \* 1024
  Decimals,   \* the 10^3 a printed number is a multiple of one over
  Amounts     \* the amounts printed

ASSUME FormattingAssumption ==
  UnitStep \in Nat \ {0, 1} /\ Decimals \in Nat \ {0} /\ Amounts \subseteq Nat

VARIABLES
  fPc,     \* "idle" or the function called, then "printed"
  amount,  \* dataSize or bitsPerSecond
  printed  \* the number, times Decimals, and its unit

formatVars == <<fPc, amount, printed>>

FormatInit == fPc = "idle" /\ amount = 0 /\ printed = [number |-> 0, unit |-> ""]

Value(unit) ==
  CASE unit = "G" -> UnitStep * UnitStep * UnitStep
    [] unit = "M" -> UnitStep * UnitStep
    [] unit = "K" -> UnitStep
    [] unit = "" -> 1

CallFormat ==
  /\ fPc = "idle"
  /\ fPc' \in {"formatTransfer", "formatBandwidth"}
  /\ amount' \in Amounts
  /\ UNCHANGED printed

\* {:.3f}: the nearest number of thousandths, one of two when it lies between.
Rounded(n, unit) ==
  {d \in (n * Decimals) \div Value(unit) .. (n * Decimals) \div Value(unit) + 1 :
     LET twice == 2 * (d * Value(unit) - n * Decimals) IN
     twice >= -Value(unit) /\ twice <= Value(unit)}

\* Mutant: the thresholds are tried from the smallest.
UnitFromBelow(n) ==
  IF n > Value("K") THEN "K" ELSE IF n > Value("M") THEN "M"
  ELSE IF n > Value("G") THEN "G" ELSE ""

UnitOf(n) ==
  IF n > Value("G") THEN "G" ELSE IF n > Value("M") THEN "M"
  ELSE IF n > Value("K") THEN "K" ELSE ""

\* What formatTransfer leaves whole it calls gigabytes.
PrintAmount ==
  /\ fPc \in {"formatTransfer", "formatBandwidth"}
  /\ LET unit == UnitOf(amount) IN
     IF unit = ""
       THEN printed' = [number |-> amount * Decimals,
                        unit |-> IF fPc = "formatTransfer" THEN "G" ELSE ""]
       ELSE \E d \in Rounded(amount, unit) : printed' = [number |-> d, unit |-> unit]
  /\ fPc' = "printed"
  /\ UNCHANGED amount

FormatStep == CallFormat \/ PrintAmount

-----------------------------------------------------------------------------
(***************************************************************************)
(* What is printed of more than a kilobyte or kilobit is the amount to     *)
(* half a thousandth of its unit, and the number before the unit has at    *)
(* most four digits before the point unless it is in gigas.  (A transfer   *)
(* of at most a kilobyte is printed with the unit Gbytes.)                 *)
(* Server.cpp:32-65.                                                       *)
(***************************************************************************)
PrintedIsMeant ==
  (fPc = "printed" /\ amount > UnitStep) =>
    /\ LET twice == 2 * (printed.number * Value(printed.unit) - amount * Decimals) IN
       twice >= -Value(printed.unit) /\ twice <= Value(printed.unit)
    /\ printed.unit # "G" => printed.number <= UnitStep * Decimals

=============================================================================

------------------------------- MODULE Money -------------------------------
(***************************************************************************)
(* Money arithmetic of payments.service.ts.  Amounts are integers of minor *)
(* units (kobo); the code keeps them in BigInt, so there is no width.      *)
(*                                                                         *)
(* A decimal is what the string form of a Prisma Decimal holds: its sign,  *)
(* the digits before the point as a natural number, and the digits after   *)
(* the point as a sequence.                                                *)
(***************************************************************************)
EXTENDS Integers, Sequences

BPS_DENOMINATOR == 10000
DRIVER_EARNINGS_BPS == 8000
PLATFORM_COMMISSION_BPS == 2000

Digit == 0..9

Decimal == [neg : BOOLEAN, whole : Nat, frac : Seq(Digit)]

(* calculateShare: BigInt division truncates toward zero, which on the     *)
(* naturals is \div.                                                       *)
CalculateShare(amountMinor, basisPoints) ==
  (amountMinor * basisPoints) \div BPS_DENOMINATOR

(* The first two digits of the fraction padded with "00".                  *)
DigitAt(frac, i) == IF i <= Len(frac) THEN frac[i] ELSE 0
NormalizedFraction(frac) == DigitAt(frac, 1) * 10 + DigitAt(frac, 2)

(* decimalToMinorUnits: BigInt(wholePart) carries the sign ("-0" is 0),    *)
(* the normalised fraction is always ADDED to it, and digits past the      *)
(* second are cut off.                                                     *)
DecimalToMinorUnits(d) ==
  (IF d.neg THEN -d.whole ELSE d.whole) * 100 + NormalizedFraction(d.frac)

(* minorUnitsToDecimal: sign, whole and a two-digit fraction of the        *)
(* absolute value.                                                         *)
MinorUnitsToDecimal(units) ==
  LET absolute == IF units < 0 THEN -units ELSE units
  IN  [ neg   |-> units < 0,
        whole |-> absolute \div 100,
        frac  |-> << (absolute % 100) \div 10, absolute % 10 >> ]

(* How capturePaymentForTrip divides a captured amount.                    *)
DriverShare(grossMinor) == CalculateShare(grossMinor, DRIVER_EARNINGS_BPS)

(* Bug: the commission is rounded down on its own.                         *)
CommissionShareByBps(grossMinor) ==
  CalculateShare(grossMinor, PLATFORM_COMMISSION_BPS)

CommissionShare(grossMinor) == grossMinor - DriverShare(grossMinor)

(* The commission reverseFullRefundLedger takes back for a full refund.    *)
ReversedCommission(grossMinor) ==
  CalculateShare(grossMinor, PLATFORM_COMMISSION_BPS)
=============================================================================

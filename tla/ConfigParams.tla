---------------------------- MODULE ConfigParams ----------------------------
(***************************************************************************)
(* The parameters of a configuration and their bytes                       *)
(* (src/pyvesc/params/config_param.py).                                    *)
(*                                                                         *)
(* Values: a Boolean for Bool; an integer for the integers; half steps for *)
(* Double16 and Double32, which are rounded to whole steps; for            *)
(* Double32_Auto the float itself, [neg, exp, frac], which stands for      *)
(*     +-(1/2 + frac / (4 * FracCount)) * 2^(exp - bias)                   *)
(* where exp is the biased exponent, one for each value of the eight bits  *)
(* and beyond them, and frac is given in halves of what the 23 bits can    *)
(* hold.  Zero has exp = 0, as everything too small for exp = 1 has.       *)
(***************************************************************************)
EXTENDS ScaledIntegers

CONSTANTS
    ExpCount,  \* values of the exponent, 2^8 in the code
    FracCount, \* values of the fraction, 2^23 in the code
    TinyFrac   \* what 1.5e-38 has for frac, with exp = 1

ASSUME FloatAssumption ==
    /\ ExpCount \in Nat \ {0} /\ FracCount \in Nat \ {0}
    /\ 2 * (ExpCount * FracCount) = Numbers(4)
    /\ TinyFrac \in 0..2 * FracCount

Integer == {"UInt8", "Int8", "UInt16", "Int16", "UInt32", "Int32"}
Unsigneds == {"UInt8", "UInt16", "UInt32"}
Rounded == {"Double16", "Double32"}
Type == {"Bool", "Double32_Auto"} \cup Integer \cup Rounded

BytesOf(type) ==
    CASE type \in {"Bool", "UInt8", "Int8"} -> 1
      [] type \in {"UInt16", "Int16", "Double16"} -> 2
      [] OTHER -> 4

-----------------------------------------------------------------------------
(* Double32_Auto                                                            *)

\* The floats of which no bit is cut but what is below the fraction.
Floats == [neg : BOOLEAN, exp : 0..ExpCount - 1, frac : 0..2 * FracCount - 1]

FloatOf(u) ==
    [neg |-> u \div (ExpCount * FracCount) = 1,
     exp |-> (u \div FracCount) % ExpCount,
     frac |-> 2 * (u % FracCount)]

\* "Set subnormal numbers to 0"
Tiny(v) == v.exp < 1 \/ (v.exp = 1 /\ v.frac < TinyFrac)

\* The exponent is cut to its bits and the fraction to whole steps.
FloatBits(v) ==
    IF Tiny(v) THEN 0
    ELSE (IF v.neg THEN ExpCount * FracCount ELSE 0)
         + (v.exp % ExpCount) * FracCount
         + v.frac \div 2

-----------------------------------------------------------------------------
(* serialise and deserialise                                                *)

\* Mutant of Read: bytes of a signed number are taken for an unsigned one.
ReadUnsigned(type, bytes) ==
    CASE type = "Bool" -> Unsigned(bytes) # 0
      [] type \in Integer -> Unsigned(bytes)
      [] type \in Rounded -> 2 * Unsigned(bytes)
      [] type = "Double32_Auto" -> FloatOf(Unsigned(bytes))

\* deserialise.  The generated code hands over as many bytes as the type has.
Read(type, bytes) ==
    CASE type = "Bool" -> Unsigned(bytes) # 0
      [] type \in Unsigneds -> Unsigned(bytes)
      [] type \in Integer \ Unsigneds -> Signed(bytes)
      [] type \in Rounded -> 2 * Signed(bytes)
      [] type = "Double32_Auto" -> FloatOf(Unsigned(bytes))

\* serialise raises ValueError where this is false.
Serialisable(type, v) ==
    CASE type \in Unsigneds -> FitsUnsigned(v, BytesOf(type))
      [] type \in Integer \ Unsigneds -> Fits(v, BytesOf(type))
      [] type \in Rounded -> Fits(RoundedHalfSteps(v), BytesOf(type))
      [] OTHER -> TRUE

\* Mutant of Write: the sign of a float is put where the exponent is.
WriteSignless(type, v) ==
    CASE type = "Bool" -> <<IF v THEN 1 ELSE 0>>
      [] type \in Unsigneds -> Digits(v, BytesOf(type))
      [] type \in Integer \ Unsigneds -> SignedDigits(v, BytesOf(type))
      [] type \in Rounded -> SignedDigits(RoundedHalfSteps(v), BytesOf(type))
      [] type = "Double32_Auto" -> Digits(FloatBits([v EXCEPT !.neg = FALSE]), 4)

\* serialise.
Write(type, v) ==
    CASE type = "Bool" -> <<IF v THEN 1 ELSE 0>>
      [] type \in Unsigneds -> Digits(v, BytesOf(type))
      [] type \in Integer \ Unsigneds -> SignedDigits(v, BytesOf(type))
      [] type \in Rounded -> SignedDigits(RoundedHalfSteps(v), BytesOf(type))
      [] type = "Double32_Auto" -> Digits(FloatBits(v), 4)
=============================================================================

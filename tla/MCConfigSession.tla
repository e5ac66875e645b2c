--------------------------- MODULE MCConfigSession ---------------------------
(***************************************************************************)
(* ConfigSession for TLC.  A byte has four values; a float of four bytes   *)
(* has three bits of exponent and four of fraction.                        *)
(***************************************************************************)
EXTENDS ConfigSession, TLC

\* Bytes that look random, so that the fields have all signs, and Bools all
\* their bytes, and no field has the bytes of its neighbours.
Scattered(seed, i) == ((i * i * 7 + i * (seed + 3) + (i \div 5) * 11 + seed) \div 3) % Base

MCFactory ==
    [kind \in Kind |-> [i \in 1..Size(kind) |->
        IF i <= 4 THEN Signature[kind][i] ELSE Scattered(Len(Layout[kind]), i)]]

MCCanIds == {None, 3}

\* The n-th parameter of a type.
First(kind, type) == CHOOSE i \in DOMAIN Layout[kind] :
                        Layout[kind][i] = type /\ \A j \in 1..i - 1 : Layout[kind][j] # type

Change(kind, type, v) == [kind |-> kind, i |-> First(kind, type), value |-> v]
Float(neg, exp, frac) == [neg |-> neg, exp |-> exp, frac |-> frac]

MCEdits ==
    {Change("mcconf", "Bool", v) : v \in BOOLEAN}
    \cup {Change("mcconf", "Double16", v) : v \in {-17, -15, -3, -1, 13, 15}}
    \cup {Change("mcconf", "Int8", v) : v \in {-3, -2, 1, 2}}
    \cup {Change("appconf", "UInt16", v) : v \in {-1, 9, 16}}
    \cup {Change("mcconf", "Double32_Auto", v) :
             v \in {Float(TRUE, 3, 7), Float(FALSE, 1, 8), Float(TRUE, 1, 9), Float(TRUE, 0, 0)}}
    \cup {Change("appconf", "UInt32", v) : v \in {-1, 255, 256}}

Halves == {-258, -257, -256, -5, -3, -1, 0, 1, 3, 5, 255}
Amounts(c) == {[class |-> c, values |-> <<h>>] : h \in Halves}
MCOrders ==
    UNION {Amounts(c) : c \in {"SetDutyCycle", "SetCurrent", "SetCurrentBrake", "SetRPM",
                               "SetPosition", "SetHandbrake", "EraseNewApp"}}
    \cup {[class |-> "SetServoPosition", values |-> <<h>>] : h \in {-17, -15, 3, 14, 15, 16}}
    \cup {[class |-> "SetRotorPositionMode", values |-> <<2>>]}
    \cup {[class |-> c, values |-> << >>] : c \in {"Reboot", "Alive", "JumpToBootloader"}}
    \cup {[class |-> c, values |-> <<2 * at, chunk>>] :
             c \in {"WriteNewAppData", "WriteNewAppDataLZO"}, at \in {0, 3, 255, 256},
             chunk \in {<<3, 0, 1>>, <<3, 0>>, <<3>>}}
    \cup {[class |-> "TerminalCmd", values |-> <<<<1, 0, 2>>>>]}

\* A value for each field, of both signs, with the bytes of no other field.
Sample(i, f) ==
    CASE f.format = "i" -> ((i * 37) % 250) - 125
      [] f.format = "h" -> ((i * 5) % 16) - 8
      [] f.format = "b" -> (i % 4) - 2
      [] f.format = "I" -> 200 + i
      [] f.format = "?" -> i % 2 = 1
      [] f.format = "c" -> <<i % 4>>

MCReports ==
    {[class |-> c, tail |-> tail,
      values |-> [i \in DOMAIN Class[c].recv |-> Sample(i, Class[c].recv[i])]] :
        c \in {"GetValues", "GetRotorPosition", "EraseNewApp", "WriteNewAppData", "GetVersion"},
        tail \in {<< >>, <<3, 1>>}}

MCText == <<1, 0, 2>>
=============================================================================

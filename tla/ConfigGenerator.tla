--------------------------- MODULE ConfigGenerator ---------------------------
(***************************************************************************)
(* The generated code of the two configurations                            *)
(* (src/pyvesc/params/confgenerator.py): a signature, and then parameters  *)
(* that stand one behind the other, in the same order in the four          *)
(* functions.                                                              *)
(*                                                                         *)
(* A parameter is named by its place.  The code finds it by its name when  *)
(* it serialises, and no name occurs twice.                                *)
(***************************************************************************)
EXTENDS ConfigParams, SequencesExt

Times(n, type) == [i \in 1..n |-> type]
Bool(n) == Times(n, "Bool")
UInt8(n) == Times(n, "UInt8")
Int8(n) == Times(n, "Int8")
UInt16(n) == Times(n, "UInt16")
Int16(n) == Times(n, "Int16")
UInt32(n) == Times(n, "UInt32")
Int32(n) == Times(n, "Int32")
Half(n) == Times(n, "Double16")
Single(n) == Times(n, "Double32_Auto")

-----------------------------------------------------------------------------
(* mcconf                                                                   *)

McMode ==
    Bool(4)
McLimits ==
    Single(7) \o Half(1) \o Single(6) \o Bool(1) \o Half(7) \o Single(2) \o Half(3)
McSensorless ==
    Single(3) \o Half(2) \o Single(2)
McHall ==
    Int8(8) \o Single(1)
McFoc ==
    Single(4) \o Bool(1) \o Single(2) \o Bool(1) \o Single(8) \o Half(1) \o Single(2)
    \o Half(1) \o Single(2) \o Half(9) \o UInt8(8) \o Single(2) \o Bool(3) \o Half(1)
    \o Bool(1) \o Half(2) \o Bool(2) \o Half(5) \o Single(1) \o UInt16(1) \o Single(1)
    \o Bool(2) \o Single(3) \o Half(6) \o Bool(2) \o Single(1) \o Bool(1) \o Single(1)
    \o Half(3) \o Bool(1)
McGpd ==
    Int16(2) \o Half(1) \o Single(2)
McSpeedPid ==
    Bool(1) \o Single(3) \o Half(1) \o Single(1) \o Bool(1) \o Single(1)
McPositionPid ==
    Single(4) \o Half(1) \o Single(1) \o Half(1) \o Single(1)
McCurrent ==
    Half(1) \o Single(2) \o Half(1)
McGeneral ==
    Int32(1) \o Half(1) \o Single(1) \o UInt32(1) \o Half(6) \o Bool(3) \o UInt8(1)
    \o Single(4) \o Bool(2) \o Single(1) \o Half(2) \o UInt8(2)
McSetup ==
    UInt8(1) \o Single(2) \o Bool(1) \o UInt8(1) \o Single(2)
McBms ==
    Bool(2) \o Half(4) \o Bool(1)

-----------------------------------------------------------------------------
(* appconf                                                                  *)

AppGeneral ==
    UInt8(1) \o UInt32(1) \o Single(1) \o UInt16(2) \o Bool(7) \o UInt8(1) \o Bool(1)
    \o Single(1) \o Bool(4)
AppPpm ==
    Bool(1) \o Single(5) \o Bool(2) \o Single(2) \o Bool(1) \o Single(2) \o Bool(2)
    \o Single(1) \o Half(1) \o Single(2)
AppAdc ==
    Bool(1) \o Single(1) \o Half(7) \o Bool(5) \o Single(2) \o Bool(1) \o Single(2)
    \o Bool(2) \o Single(1) \o UInt16(1)
AppUart ==
    UInt32(1)
AppChuk ==
    Bool(1) \o Single(6) \o Bool(3) \o Single(1) \o Bool(1) \o Single(2)
AppNrf ==
    Bool(4) \o Int8(2) \o UInt8(3) \o Bool(1)
AppBalance ==
    Bool(1) \o Single(6) \o UInt16(2) \o Single(5) \o UInt16(6) \o Bool(1) \o Half(5)
    \o Single(1) \o Half(2) \o Single(1) \o Half(1) \o Single(1) \o UInt16(1) \o Single(2)
    \o Half(1) \o Single(4) \o Bool(1) \o Single(6) \o UInt16(1) \o Single(2) \o UInt16(2)
    \o Single(12) \o UInt16(1) \o Single(1) \o UInt16(2)
AppPas ==
    Bool(2) \o Half(3) \o Bool(1) \o UInt16(1) \o Bool(1) \o Half(2) \o UInt16(1)
AppImu ==
    Bool(3) \o Half(4) \o UInt16(1) \o Bool(1) \o Single(13)

-----------------------------------------------------------------------------
Kind == {"mcconf", "appconf"}

Layout ==
    [mcconf |-> McMode \o McLimits \o McSensorless \o McHall \o McFoc
                \o McGpd \o McSpeedPid \o McPositionPid \o McCurrent
                \o McGeneral \o McSetup \o McBms,
     appconf |-> AppGeneral \o AppPpm \o AppAdc \o AppUart \o AppChuk
                 \o AppNrf \o AppBalance \o AppPas \o AppImu]

\* MCCONF_SIGNATURE and APPCONF_SIGNATURE, byte by byte.
Signature ==
    [mcconf |-> <<46 % Base, 67 % Base, 161 % Base, 97 % Base>>,
     appconf |-> <<29 % Base, 0 % Base, 58 % Base, 44 % Base>>]

\* Where a parameter begins: behind the signature and the parameters before it.
Before ==
    [kind \in Kind |->
        LET before[i \in 1..Len(Layout[kind]) + 1] ==
                IF i = 1 THEN 4 ELSE before[i - 1] + BytesOf(Layout[kind][i - 1])
        IN  before]
Size(kind) == Before[kind][Len(Layout[kind]) + 1]
FieldBytes(kind, i, bytes) ==
    SubSeq(bytes, Before[kind][i] + 1, Before[kind][i] + BytesOf(Layout[kind][i]))

\* confgenerator_serialise_*; ValueError if a parameter is out of its range.
AllSerialisable(kind, params) ==
    \A i \in DOMAIN Layout[kind] : Serialisable(Layout[kind][i], params[i])

\* Mutant of Serialise: two neighbours of one type have changed places.
SerialiseSwapped(kind, params) ==
    LET first == IF kind = "mcconf" THEN 5 ELSE 4
        place(i) == CASE i = first -> first + 1
                      [] i = first + 1 -> first
                      [] OTHER -> i
    IN  Signature[kind]
        \o FlattenSeq([i \in DOMAIN Layout[kind] |-> Write(Layout[kind][i], params[place(i)])])

Serialise(kind, params) ==
    Signature[kind] \o FlattenSeq([i \in DOMAIN Layout[kind] |-> Write(Layout[kind][i], params[i])])

\* Mutant of Deserialises: the signature is popped and not looked at.
DeserialisesAny(kind, bytes) == Len(bytes) >= Size(kind)

\* confgenerator_deserialise_* returns False for a wrong signature; where the
\* buffer ends early a parameter raises.
Deserialises(kind, bytes) ==
    /\ SubSeq(bytes, 1, 4) = Signature[kind]
    /\ Len(bytes) >= Size(kind)

\* What is left of the buffer is ignored.
Deserialise(kind, bytes) ==
    [i \in DOMAIN Layout[kind] |-> Read(Layout[kind][i], FieldBytes(kind, i, bytes))]
=============================================================================

----------------------------- MODULE MCCanNode -----------------------------
(***************************************************************************)
(* CanNode for TLC.  A byte has four values, so four bytes hold -128..127  *)
(* steps and two bytes -8..7.                                              *)
(***************************************************************************)
EXTENDS CanNode, TLC

CONSTANTS s1, s2

MCNodes == {7, 100}
MCSlots == {"STATUS", "STATUS_5"}
MCSubscribers == {s1, s2}

\* Around zero, around both ends of the range, and ties in between.
Amounts == {-258, -257, -256, -255, -7, -5, -3, -2, -1, 0, 1, 2, 3, 5, 7, 253, 254, 255, 256}
Fractions == {-21, -20, -19, -3, -1, 0, 1, 3, 19, 20, 21}
Delays == {NoDelay, -1, 0, 1, 3, 13, 14, 15}

Order(op, to, values, delay) == [op |-> op, to |-> to, values |-> values, delay |-> delay, store |-> FALSE]

Absolute == {"SET_CURRENT", "SET_CURRENT_BRAKE", "SET_RPM", "SET_POS", "SET_CURRENT_HANDBRAKE"}
Conf(op, values, store) == [op |-> op, to |-> 7, values |-> values, delay |-> NoDelay, store |-> store]

MCCommands ==
    {Order("SET_RPM", 7, <<h>>, NoDelay) : h \in Amounts}
    \cup {Order(op, to, <<h>>, NoDelay) : op \in Absolute, to \in {7, Broadcast, 256}, h \in {-3, 0, 254}}
    \cup {Order(op, 7, <<h>>, NoDelay) : op \in Relative, h \in Fractions}
    \cup {Order(op, 7, <<h>>, d) : op \in {"SET_CURRENT", "SET_CURRENT_REL"}, h \in {-11, 0, 12}, d \in Delays}
    \cup {Order("SHUTDOWN", 7, << >>, NoDelay)}
    \cup {Conf("CONF_CURRENT_LIMITS", v, store) : v \in {<<-60, 121>>, <<-7, 255>>}, store \in BOOLEAN}
    \cup {Conf("CONF_BATTERY_CUT", <<17, -300>>, FALSE), Conf("CONF_FOC_ERPMS", <<-2, 17>>, TRUE)}
=============================================================================

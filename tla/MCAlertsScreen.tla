----------------------------- MODULE MCAlertsScreen ----------------------------
\* Two alerts, of a type each.
EXTENDS AlertsScreen

CONSTANTS a1, a2

MCAlerts == {a1, a2}
MCTypes  == {"undercut_threat", "pit_window_open"}
MCTypeOf == [a \in MCAlerts |-> IF a = a1 THEN "undercut_threat" ELSE "pit_window_open"]
===============================================================================

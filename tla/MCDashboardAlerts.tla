------------------------- MODULE MCDashboardAlerts -------------------------
EXTENDS DashboardAlerts, TLC
=============================================================================

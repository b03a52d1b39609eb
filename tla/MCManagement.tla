---------------------------- MODULE MCManagement ----------------------------
(* The resident agent and the dashboard of one endpoint, for TLC.          *)
EXTENDS Management

CONSTANTS agent, dashboard, hq1
=============================================================================

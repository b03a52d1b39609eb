----------------------------- MODULE MCDashboard -----------------------------
(* Two scans of two targets by two workers; two processes that change      *)
(* settings in two operations at a time, for TLC.                          *)
EXTENDS Dashboard

CONSTANTS r1, r2, f1, f2, f3, w1, w2, dashboard, agent, o1, o2
TwoTargets == << {f1, f2}, {f3} >>
=============================================================================

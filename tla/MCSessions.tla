----------------------------- MODULE MCSessions -----------------------------
(* TLC instance of Sessions. *)
EXTENDS Sessions

CONSTANTS t1, t2, tool, f1

MCTeams == {{t1, t2}, {t1, tool}}
=============================================================================

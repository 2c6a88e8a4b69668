------------------------------ MODULE MCRadio ------------------------------
(* Deadlines of two and three ticks, as long as a preamble and a payload   *)
(* may take: each may be met, missed by a late poll, or just reached.      *)
EXTENDS RadioDriver
=============================================================================

---------------------------- MODULE MCKissModem ----------------------------
(* The queue of two slots of the code, and three packets: one in hand while *)
(* the results of two others are queued.                                   *)
EXTENDS KissModem
=============================================================================

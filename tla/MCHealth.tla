------------------------------- MODULE MCHealth -------------------------------
(* Health for TLC; the constants are numbers given in the configurations.  *)
EXTENDS Health
===============================================================================

------------------------------- MODULE MCWake --------------------------------
(* Time in units of 10 seconds: 3 and 1 are the source's 30 and 10.  The cap *)
(* is lowered from 30 units to 6, so the backoff takes 1, 2, 4 and then, as   *)
(* in the source, a last factor that is no power of two.                      *)
EXTENDS Wake

MCIdleConfirm == 3
MCCooldown == 1
MCMaxBackoff == 6
=============================================================================

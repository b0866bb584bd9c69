-------------------------- MODULE MCConnectionAttempts -------------------------
(* Four events: enough for a sign-out and a sign-in during a fetch, for a   *)
(* refused token whose forced replacement fails, and for an interruption.   *)
EXTENDS ConnectionAttempts

MCMaxEvents == 4
=============================================================================

------------------------------ MODULE MCLimiter ------------------------------
(* The instance of Limiter that Limiter.cfg gives TLC. *)
EXTENDS Limiter
=============================================================================

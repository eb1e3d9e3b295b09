---------------------------- MODULE MCLoginLimiter ----------------------------
(* A small instance of LoginLimiter for TLC.  It checks liveness, for which *)
(* no symmetry is sound.                                                    *)
EXTENDS LoginLimiter
=============================================================================

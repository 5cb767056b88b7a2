---------------------------- MODULE MCNetstatAsp ----------------------------
(* The netstatraw6 ASP on a /proc/net/raw6 of up to MaxLines data lines.      *)
EXTENDS NetstatAsp
=============================================================================

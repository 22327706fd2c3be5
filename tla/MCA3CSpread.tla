---------------------------- MODULE MCA3CSpread ----------------------------
(* The instances of A3CSpread that TLC checks; see the A3CSpread_*.cfg.    *)
EXTENDS A3CSpread
=============================================================================

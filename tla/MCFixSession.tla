---------------------------- MODULE MCFixSession ----------------------------
(***************************************************************************)
(* The texts a client may send in the TLC instance of FixSession.           *)
(***************************************************************************)
EXTENDS FixSession

\* All texts of two tokens; read in parts and together they make all the texts
\* of up to four.
ShortTexts == [1 .. 2 -> {"35", "=", SOH, "x"}]
=============================================================================

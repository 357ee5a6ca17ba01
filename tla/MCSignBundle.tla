---------------------------- MODULE MCSignBundle ----------------------------
(* Instances of SignBundle for TLC.                                        *)
EXTENDS SignBundle

CONSTANTS c1, c2, a1, a2, log, log2, tsa

EachItsOwn     == [c \in Calls |-> IF c = c1 THEN a1 ELSE a2]
LogOnly        == <<log>>
LogsAroundTSA  == <<log2, tsa, log>>
=============================================================================

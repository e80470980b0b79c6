------------------------------ MODULE MCEnvManager ------------------------------
(* Two environments besides the default one, two components, and two threads    *)
(* that hold LockedStates.                                                      *)
EXTENDS EnvManager

CONSTANTS work, play, viewer, g1, g2

MCEnvs == {work, play}
MCComponents == {History, viewer}
MCGuards == {g1, g2}
=============================================================================

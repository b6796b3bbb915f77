------------------------------ MODULE MCPlugin ------------------------------
(***************************************************************************)
(* Values of the constants of Plugin for TLC.                              *)
(***************************************************************************)
EXTENDS PluginProperties

CONSTANTS d1, d2

TwoDirs == {d1, d2}

\* No file yet, or one that has been edited by hand: the dialog only sets TRUE.
NoneOrEdited == {Absent, Whole([d \in {d1} |-> FALSE])}

=============================================================================

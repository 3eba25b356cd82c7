---------------------------- MODULE MCJobControl ----------------------------
(* Small instances of JobControl: which lines the user types.              *)
EXTENDS JobControl, TLC

Foreground == [procs |-> 1, bg |-> FALSE]
Background == [procs |-> 1, bg |-> TRUE]
Pipeline   == [procs |-> 2, bg |-> FALSE]

SingleCommands == {Foreground, Background}
AllCommands == {Foreground, Background, Pipeline}
Pipelines == {Pipeline}
=============================================================================

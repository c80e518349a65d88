-------------------------- MODULE MCClientPrograms --------------------------
(***************************************************************************)
(* Instances of ClientPrograms for TLC.                                    *)
(***************************************************************************)
EXTENDS ClientProgramsProperties

OnlyMain == {"main"}
OptionsOfPrograms == {p.options : p \in Programs}
NothingPassed == [t \in Tasks |-> NoRunOptions]
NoRetry == [t \in Tasks |-> 0]
Quietly == {}
=============================================================================

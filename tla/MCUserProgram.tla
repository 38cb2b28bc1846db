----------------------------- MODULE MCUserProgram -----------------------------
(* The parts that write over files of a user's program: its configuration, the   *)
(* check of its app, and the stubs of its functions.  They share nothing, so     *)
(* that one of them runs while the others stay as they began.                    *)
EXTENDS MCProductConfig, AppCheck, StubSession

VARIABLE part

NoSources == [c \in Calls |-> [process |-> CHOOSE p \in Processes : TRUE, sources |-> <<>>]]
NoChecks == job = NoSources /\ left = {} /\ CheckInit
ProgramInit ==
    \/ part = "config" /\ ConfigInit /\ NoChecks /\ Init
    \/ part = "check" /\ CheckInit /\ ConfigInit /\ Init
    \/ part = "stubs" /\ Init /\ ConfigInit /\ NoChecks

ProgramNext ==
    /\ \/ part = "config" /\ ConfigNext /\ UNCHANGED <<checkVars, vars>>
       \/ part = "check" /\ CheckNext /\ UNCHANGED <<configVars, vars>>
       \/ part = "stubs" /\ Next /\ UNCHANGED <<configVars, checkVars>>
    /\ UNCHANGED part
ProgramSpec == ProgramInit /\ [][ProgramNext]_<<part, configVars, checkVars, vars>>
================================================================================

------------------------------- MODULE MCScript -------------------------------
EXTENDS ServiceScript, TLC

CONSTANTS u1, u2

MCCalls == {<<"start", "all">>, <<"restart", "all">>, <<"status", "aria2">>}

UserSymmetry == Permutations({u1, u2})
=============================================================================

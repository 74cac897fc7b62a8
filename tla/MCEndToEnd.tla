----------------------------- MODULE MCEndToEnd -----------------------------
\* EndToEnd on requests with small numbers.
EXTENDS EndToEnd

CONSTANTS MaxRepeats, MaxErrAfter

SmallRequests ==
    [method : {"Repeat"}, json : BOOLEAN, silent : BOOLEAN,
     NumRepeats : -1 .. MaxRepeats, ErrAfter : -1 .. MaxErrAfter]
    \cup [method : {"Echo"}, json : BOOLEAN, silent : BOOLEAN, NumRepeats : {0}, ErrAfter : {0}]
=============================================================================

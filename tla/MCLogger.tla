------------------------------ MODULE MCLogger ------------------------------
\* Instances of Logger for TLC: the levels that IsLogLevelLogged and
\* SetLogLevel tell apart.
EXTENDS Logger

SomeMessageLevels == {1, VERBOSE}
SomeRequests == {UNKNOWN, VERBOSE, SILENT + 1}
=============================================================================

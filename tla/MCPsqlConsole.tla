--------------------------- MODULE MCPsqlConsole ---------------------------
EXTENDS PsqlConsole
CONSTANTS r1, r2, t1, t2
=============================================================================

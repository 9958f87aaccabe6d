------------------------------ MODULE MCChannel ------------------------------
EXTENDS FastRpcChannel
CONSTANTS f1, f2
=============================================================================

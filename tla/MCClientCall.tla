---------------------------- MODULE MCClientCall ----------------------------
EXTENDS ClientCall

CONSTANTS k1, u1

I == INSTANCE ClientInterface

\* Evaluated once: the transactions of the command line, and the sizes of the
\* accounts it creates.
MCFunctions == I!Transactions
MCPieces == I!Pieces
MCKeepers == {k1}
MCUsers == {u1}

=============================================================================

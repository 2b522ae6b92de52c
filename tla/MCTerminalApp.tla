---------------------------- MODULE MCTerminalApp ----------------------------
EXTENDS TerminalApp

\* A root alone, and two that branch and nest in a different order.
MCTrees == {<<>>, <<0, 1, 0>>, <<0, 0, 2>>}
=============================================================================

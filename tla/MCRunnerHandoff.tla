-------------------------- MODULE MCRunnerHandoff --------------------------
EXTENDS RunnerHandoff, TLC
CONSTANTS g1, g2
=============================================================================

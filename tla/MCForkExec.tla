----------------------------- MODULE MCForkExec -----------------------------
EXTENDS ForkExec
=============================================================================

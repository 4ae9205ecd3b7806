---------------------------- MODULE MCAutoPilot ----------------------------
EXTENDS AutoPilot

MCBudgets == [setups |-> 2, perSignature |-> 1, total |-> 1]
=============================================================================

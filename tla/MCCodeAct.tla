----------------------------- MODULE MCCodeAct -----------------------------
EXTENDS CodeAct
=============================================================================

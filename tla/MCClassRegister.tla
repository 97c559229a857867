-------------------------- MODULE MCClassRegister --------------------------
EXTENDS ClassRegister
=============================================================================

------------------------------ MODULE MCConfig ------------------------------
EXTENDS Config
TwoSettings == <<"areas", "devices">>
=============================================================================

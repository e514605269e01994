---------------------------- MODULE MCDocChanges ----------------------------
EXTENDS DocChanges

=============================================================================

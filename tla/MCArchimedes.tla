---------------------------- MODULE MCArchimedes ----------------------------
EXTENDS Archimedes

CONSTANTS s1, s2
=============================================================================

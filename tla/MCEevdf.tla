------------------------------ MODULE MCEevdf ------------------------------
EXTENDS Eevdf
============================================================================

-------------------------- MODULE MCPlayerSupport --------------------------
EXTENDS PlayerSupport

CONSTANTS account, ledger, inventory
=============================================================================

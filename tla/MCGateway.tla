------------------------------ MODULE MCGateway ------------------------------
EXTENDS AuditedGateway, TLC

CONSTANTS r1, r2, u1, u2, ok200

MCSymmetry == Permutations(Requests)
=============================================================================

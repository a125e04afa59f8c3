------------------------------ MODULE MCTenancy ------------------------------
EXTENDS Tenancy

CONSTANTS founder, second, support, runner, o1, o2, p1, p2, g1, g2, a, b
=============================================================================

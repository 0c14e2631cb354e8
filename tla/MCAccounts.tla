----------------------------- MODULE MCAccounts -----------------------------
EXTENDS Accounts, TLC

CONSTANTS n1, n2, ann, bob, b1, b2, nobody, nobase

\* A conference with two bases and one without any.
MCConfs == <<<<b1, b2>>, <<>>>>

MCMailed == {<<b1, ann>>}

Alike == Permutations(Nodes)
=============================================================================

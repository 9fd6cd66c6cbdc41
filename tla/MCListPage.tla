----------------------------- MODULE MCListPage -----------------------------
EXTENDS ListPage, TLC

Permuted == Permutations(Row)
=============================================================================

---------------------------- MODULE MCNamespaces ----------------------------
EXTENDS Namespaces

MCTxns == {<<1, 2>>, <<1>>}
=============================================================================

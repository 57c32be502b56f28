----------------------------- MODULE MCAdapter ------------------------------
(* A vault v and two local signers, in the orders a caller may pass them.  *)
EXTENDS FireblocksAdapter

CONSTANTS v, s, t

MCSignerLists == {<< >>, <<s>>, <<s, t>>, <<s, v>>}
MCSignerListsPayerFirst == {<<v, s>>}
=============================================================================

------------------------------- MODULE MCWal -------------------------------
(* Wal for TLC *)
EXTENDS Wal

CONSTANTS c1, c2

Writes == {<<c1, {1}>>, <<c2, {1, 2}>>}
Caches == {<<c1, 1>>}

=============================================================================

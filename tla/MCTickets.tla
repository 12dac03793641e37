----------------------------- MODULE MCTickets -----------------------------
(* Three buys from two sellers with five works: two that share three of the*)
(* four smallest chunks, out of order and with a repetition; one of two    *)
(* chunks; and two that repeat a chunk, which the one has and the other has*)
(* not.                                                                    *)
EXTENDS Tickets

Symmetry == Permutations(Buys) \cup Permutations(Nodes)

FilesMC == {<<4, 1, 3, 2, 8>>, <<2, 5, 4, 2, 3>>, <<1, 7>>, <<1, 1>>, <<6, 6>>}
=============================================================================

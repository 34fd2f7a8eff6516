--------------------------- MODULE MCAbbieSingle ---------------------------
(* Small instances of AbbieSingle for TLC. *)
EXTENDS AbbieSingle, TLC

Plainly(k) == [kind |-> k, rd |-> 0, wr |-> 0]
Pipe(r, w) == [kind |-> "run", rd |-> r, wr |-> w]

Pipes == {Plainly("exit")} \cup {Pipe(r, w) : r, w \in 0..MaxId}
Mixed == {Plainly("talk"), Plainly("exit"), Plainly("eat"), Pipe(1, 0), Pipe(0, 2)}

Symmetry == Permutations(Sessions)
=============================================================================

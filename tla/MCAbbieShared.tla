--------------------------- MODULE MCAbbieShared ---------------------------
(* A small instance of AbbieShared for TLC. *)
EXTENDS AbbieShared, TLC

Exit       == [kind |-> "exit", rd |-> 0, wr |-> 0]
Tell(r)    == [kind |-> "tell", rd |-> 0, wr |-> r]
Pipe(r, w) == [kind |-> "run", rd |-> r, wr |-> w]

\* User 1 pipes to user 2, user 2 to himself; user 2 reads what user 1 wrote.
FourLines == {Exit, Tell(2), Pipe(0, 2), Pipe(1, 0)}

\* logout never removes a pipe of a user to himself.
OwnPipe == {<<2, 2>>}

Symmetry == Permutations(Sessions)
=============================================================================

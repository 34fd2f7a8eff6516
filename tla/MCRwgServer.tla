---------------------------- MODULE MCRwgServer ----------------------------
(* Small instances of RwgServer for TLC: what the clients do in each run. *)
EXTENDS RwgServer, TLC

NobodyTypes == {}
Login       == {"hangup"}
PipeTells   == {"pipe", "tell"}
Mixed       == {"tell", "pipe", "read"}
Nests       == {"orphan", "yell", "hangup", "name", "pipe", "read"}

\* The sessions are interchangeable; used by runs without liveness only.
Symmetry == Permutations(Sessions)

\* Bound: one client at most hangs up.
OneLeaves == Cardinality({p \in Sessions : client[p] = "closed"}) <= 1

\* Bound on the clients of a run with liveness, which is no bound on what is fair:
\* a second line is typed only while nobody has made a pipe and the others have
\* typed one line at most.
Few ==
  \A p \in Sessions : typed'[p] > 1 =>
    /\ files = {} /\ pc'[p] # "pcheck"
    /\ \A q \in Sessions \ {p} : typed'[q] <= 1

\* Bound: two clients type two lines between them.
TwoLines == \A p, q \in Sessions : p # q => typed[p] + typed[q] <= 2
=============================================================================

----------------------------- MODULE IdRegistry -----------------------------
(***************************************************************************)
(* What the user table of the chat server promises: a client id belongs to *)
(* at most one session at a time, a session has at most one id, and an id  *)
(* becomes free only when its own session gives it back.  RwgServer        *)
(* implements this when its connections arrive one after the other.        *)
(***************************************************************************)
CONSTANTS Sessions, \* the connections
          Ids,      \* the client ids
          None      \* holder of a free id

VARIABLE holder     \* holder[i]: the session that has id i

Init == holder = [i \in Ids |-> None]

Acquire(p, i) ==
  /\ holder[i] = None
  /\ \A j \in Ids : holder[j] # p
  /\ holder' = [holder EXCEPT ![i] = p]

Release(i) ==
  /\ holder[i] # None
  /\ holder' = [holder EXCEPT ![i] = None]

\* All ids become free when the process that keeps them ends.
Reset == holder' = [i \in Ids |-> None]

Next == Reset \/ \E i \in Ids : Release(i) \/ \E p \in Sessions : Acquire(p, i)

Spec == Init /\ [][Next]_holder
=============================================================================

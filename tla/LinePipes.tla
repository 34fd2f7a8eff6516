----------------------------- MODULE LinePipes -----------------------------
(***************************************************************************)
(* What a command line promises (hw1Spec.txt): its programs run from left  *)
(* to right; "|" sends a program's output to the next one, "|n" and "!n"   *)
(* to the first program of the n-th next line.  Several lines may send to  *)
(* the same one, which reads their output in order.  What was sent to a    *)
(* line that runs no program is lost.  A line may be given up at a program *)
(* that does not exist, or when the kernel refuses a descriptor.           *)
(*                                                                         *)
(* The output of a program is its number: programs are numbered in the     *)
(* order in which they run.                                                *)
(***************************************************************************)
EXTENDS CommandLines

VARIABLES line,    \* commands of the line that are still to run
          due,     \* due[k]: what was sent to the k-th next line
          input,   \* what the next program of this line is to read
          got,     \* what the last program that read its input read
          count,   \* programs run so far
          starved  \* the kernel has refused a descriptor

Init ==
  /\ line = <<>> /\ input = <<>> /\ got = <<>> /\ count = 0 /\ starved = FALSE
  /\ due = [k \in 1..MaxN |-> <<>>]

NextLine ==
  /\ line = <<>>
  /\ line' \in Seq(Command) /\ Legal(line')
  /\ input' = due[1]
  /\ due' = [k \in 1..MaxN |-> IF k < MaxN THEN due[k + 1] ELSE <<>>]
  /\ UNCHANGED <<got, count, starved>>

Builtin ==
  /\ line # <<>> /\ Head(line).kind = "builtin"
  /\ line' = Tail(line)
  /\ UNCHANGED <<due, input, got, count, starved>>

\* The next program of the line runs; one that does not exist reads nothing.
Run ==
  /\ line # <<>> /\ Head(line).kind # "builtin"
  /\ count' = count + 1 /\ line' = Tail(line)
  /\ LET c == Head(line) IN
     /\ got' = IF c.kind = "prog" THEN input ELSE got
     /\ input' = IF c.link = "pipe" THEN <<count'>> ELSE <<>>
     /\ due' = IF Numbered(c.link) THEN [due EXCEPT ![c.n] = Append(@, count')] ELSE due
  /\ UNCHANGED starved

GiveUp ==
  /\ line # <<>>
  /\ \/ Head(line).kind = "unknown" /\ UNCHANGED starved
     \/ starved' = TRUE
  /\ line' = <<>> /\ input' = <<>>
  /\ UNCHANGED <<due, got, count>>

EndLine ==
  /\ line = <<>>
  /\ input' = <<>>
  /\ UNCHANGED <<line, due, got, count, starved>>

Next == NextLine \/ Builtin \/ Run \/ GiveUp \/ EndLine

Spec == Init /\ [][Next]_<<line, due, input, got, count, starved>>
=============================================================================

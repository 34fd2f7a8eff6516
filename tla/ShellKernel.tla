---------------------------- MODULE ShellKernel ----------------------------
(***************************************************************************)
(* What the three shells of the repository have in common: they are one    *)
(* process with a table of descriptors, run a line's programs one after    *)
(* the other, each in a child that inherits the table, and keep a queue of *)
(* the pipes that wait for a later line.  RasShell, RwgShell and           *)
(* AbbieShell extend this module, each with its own parser and its own     *)
(* rules of what is closed where.                                          *)
(*                                                                         *)
(* A program's output is its number (see LinePipes); its input is what is  *)
(* in the pipe it reads, and it ends only when it sees the end of it, that *)
(* is when no process has the pipe open for writing.                       *)
(*                                                                         *)
(* Left out: arguments, PATH, which of a program's two outputs goes into a *)
(* pipe, how much fits into one.                                           *)
(***************************************************************************)
EXTENDS Integers, FiniteSets, CommandLines

CONSTANTS
  MaxFd,        \* the largest descriptor the process may open
  MaxPrograms,  \* bound: programs run in a session
  Lines,        \* the lines the client may type
  None          \* a descriptor that is closed

Fds   == 3..MaxFd      \* 0, 1 and 2 are the client's connection
Pipes == 1..MaxPrograms

ASSUME MaxNPositive    == MaxN \in Nat \ {0}
ASSUME MaxFdNatural    == MaxFd \in Nat
ASSUME ProgramsNatural == MaxPrograms \in Nat
ASSUME LinesLegal      == Lines \subseteq Seq(Command) /\ \A l \in Lines : Legal(l)

VARIABLES
  pc,       \* "prompt", "run" (a command is next), "fork", "exited"
  line,     \* history: commands of the typed line that have not run
  cmds,     \* what the shell's parser made of them
  queue,    \* pipes that wait for a later line: lines to come, reading, writing end
  locals,   \* the variables of the running function, a record of each shell
  open,     \* the shell's descriptors: which end of which pipe, or a file
  data,     \* what is in each pipe
  got,      \* history: what the last program that read its input read
  count,    \* programs run so far
  starved   \* history: the kernel has refused the shell a descriptor

world == <<open, data, got, count, starved>>
vars  == <<pc, line, cmds, queue, locals, world>>

Fresh ==
  /\ pc = "prompt" /\ line = <<>> /\ cmds = <<>> /\ queue = {}
  /\ open = [f \in Fds |-> None]
  /\ data = [p \in Pipes |-> <<>>]
  /\ got = <<>> /\ count = 0 /\ starved = FALSE

-----------------------------------------------------------------------------
\* close() of a descriptor that is not open does nothing.
Closed(fds, table) == [f \in Fds |-> IF f \in fds THEN None ELSE table[f]]

Free       == {f \in Fds : open[f] = None}
Lowest(fs) == CHOOSE f \in fs : \A g \in fs : f <= g

\* pipe(): the two lowest descriptors; a pipe has the number of the program it
\* is made for.
CanPipe == Cardinality(Free) >= 2
NewPipe == LET r == Lowest(Free) IN <<r, Lowest(Free \ {r})>>
Piped   == [open EXCEPT ![NewPipe[1]] = [pipe |-> count + 1, end |-> "r"],
                        ![NewPipe[2]] = [pipe |-> count + 1, end |-> "w"]]

\* Where reading from and writing to descriptor f leads.
Ends(f, end) == f \in Fds /\ open[f] # None /\ open[f].end = end
Content(f)   == IF Ends(f, "r") THEN data[open[f].pipe] ELSE <<>>

\* A child whose input is f sees its end: nobody else writes into the pipe, nor
\* the child itself, which has closed some descriptors.
SeesEndOf(f, closes) ==
  \A g \in Fds \ closes : Ends(f, "r") /\ Ends(g, "w") => open[g].pipe # open[f].pipe

\* A child runs the next program of the line with input in and output out.
Run(reads, in, out) ==
  /\ count' = count + 1 /\ line' = Tail(line)
  /\ got' = IF reads THEN Content(in) ELSE got
  /\ data' = [p \in Pipes |->
       IF Ends(out, "w") /\ open[out].pipe = p THEN Append(data[p], count + 1)
       ELSE IF reads /\ Ends(in, "r") /\ open[in].pipe = p THEN <<>>
       ELSE data[p]]
  /\ UNCHANGED starved

\* At the prompt a client may type any line the session's bound allows.
Typed(l) == count + Programs(l) <= MaxPrograms /\ line' = l

Exit == pc = "prompt" /\ pc' = "exited" /\ UNCHANGED <<line, cmds, queue, locals, world>>

-----------------------------------------------------------------------------
Waiting == [remains : Int, rd : Fds, wr : Fds]
PipeEnd == [pipe : Pipes, end : {"r", "w"}] \cup [pipe : {0}, end : {"f"}]
Descr   == Fds \cup {0}

ASSUME NoneIsNoEnd == None \notin PipeEnd

KernelTypeOK ==
  /\ pc \in {"prompt", "run", "fork", "exited"}
  /\ line \in Seq(Command)
  /\ queue \subseteq Waiting
  /\ open \in [Fds -> PipeEnd \cup {None}]
  /\ data \in [Pipes -> Seq(Pipes)]
  /\ got \in Seq(Pipes) /\ count \in 0..MaxPrograms /\ starved \in BOOLEAN

\* What waits for the k-th next line, in a shell that has counted down `done`
\* more lines than the client has typed.
Sent(done) ==
  [k \in 1..MaxN |->
     LET es == {e \in queue : e.remains = k - done} IN
     IF es = {} THEN <<>> ELSE Content((CHOOSE e \in es : TRUE).rd)]
=============================================================================

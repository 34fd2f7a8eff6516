------------------------------ MODULE RasShell ------------------------------
(***************************************************************************)
(* The shell of project 1, NP_Project1/simple_shell.cpp.  It counts the    *)
(* numbered pipes down, parses the line, and for each command makes a pipe, *)
(* forks, closes what it gave to the child and waits for it.               *)
(***************************************************************************)
EXTENDS ShellKernel

CONSTANTS
  RasFds,     \* the number of pipe ends the process may have open
  MaxOverdue  \* bound: lines typed after one whose pipe() failed

\* locals.npipeIn, .pipeCurr, .pipeNext (pipe_next[0]), .previousPipe (previous_x
\* = 1; not initialised in the code), .elementExist
Locals ==
  [npipeIn : Descr, pipeCurr : Descr \X Descr, pipeNext : Descr,
   previousPipe : BOOLEAN, elementExist : BOOLEAN]

Init ==
  /\ Fresh
  /\ locals = [npipeIn |-> 0, pipeCurr |-> <<0, 0>>, pipeNext |-> 0,
               previousPipe |-> FALSE, elementExist |-> FALSE]

-----------------------------------------------------------------------------
(* commandParsing: the words so far (y), and how the command ends (x). *)

NoParse == [y |-> <<>>, x |-> 0, n |-> 0]

Push(a, x) == [done |-> Append(a.done, [a.cur EXCEPT !.x = x]), cur |-> NoParse]

\* "|" and ">" end a command that has words, "|n" and "!n" only mark it.
ParseWord(a, w) ==
  LET empty == a.cur.y = <<>> IN
  CASE IsName(w)               -> [a EXCEPT !.cur.y = Append(@, w.is)]
    [] w.sign = "|" /\ w.n = 0 -> IF empty THEN a ELSE Push(a, 1)
    [] w.sign = "|" /\ w.n # 0 -> IF empty THEN a ELSE [a EXCEPT !.cur.x = 2, !.cur.n = w.n]
    [] w.sign = ">"            -> IF empty THEN [a EXCEPT !.cur.x = 3] ELSE Push(a, 3)
    [] w.sign = "!" /\ w.n # 0 -> IF empty THEN a ELSE [a EXCEPT !.cur.x = 4, !.cur.n = w.n]
    [] OTHER                   -> a

commandParsing(ws) ==
  LET a == FoldLeft(ParseWord, [done |-> <<>>, cur |-> NoParse], ws) IN
  IF a.cur.y = <<>> THEN a.done ELSE Append(a.done, a.cur)

Parsed(l) == commandParsing(Words(l))

-----------------------------------------------------------------------------
\* The child's standard input: dup2 of the previous pipe, then of the numbered
\* one; the client where neither works.
Stdin ==
  IF Ends(locals.npipeIn, "r") THEN locals.npipeIn
  ELSE IF locals.previousPipe /\ Ends(locals.pipeNext, "r") THEN locals.pipeNext ELSE 0

\* Mutant: the writing end of the pipe that is due stays open.
Enter_KeepsWriter(l) ==
  /\ Typed(l) /\ \A e \in queue : e.remains > -MaxOverdue
  /\ pc' = "run" /\ cmds' = Parsed(l)
  /\ LET due == {e \in queue : e.remains = 1} IN
     /\ queue' = {[e EXCEPT !.remains = @ - 1] : e \in queue}
     /\ \E in \in (IF due = {} THEN {0} ELSE {e.rd : e \in due}), prev \in BOOLEAN :
          locals' = [npipeIn |-> in, pipeCurr |-> <<0, 0>>, pipeNext |-> 0,
                     previousPipe |-> prev, elementExist |-> FALSE]
  /\ UNCHANGED world

\* createProcess: the numbered pipes are counted down; of the one that is due,
\* the writing end is closed.
Enter(l) ==
  /\ Typed(l) /\ \A e \in queue : e.remains > -MaxOverdue
  /\ pc' = "run" /\ cmds' = Parsed(l)
  /\ LET due == {e \in queue : e.remains = 1} IN
     /\ queue' = {[e EXCEPT !.remains = @ - 1] : e \in queue}
     /\ open' = Closed({e.wr : e \in due}, open)
     /\ \E in \in (IF due = {} THEN {0} ELSE {e.rd : e \in due}), prev \in BOOLEAN :
          locals' = [npipeIn |-> in, pipeCurr |-> <<0, 0>>, pipeNext |-> 0,
                     previousPipe |-> prev, elementExist |-> FALSE]
  /\ UNCHANGED <<data, got, count, starved>>

InLoop == pc = "run" /\ cmds # <<>>
curr   == Head(cmds)

\* sys_Check: setenv and printenv run in the shell itself.
Builtin ==
  /\ InLoop /\ curr.y[1] = "builtin"
  /\ cmds' = Tail(cmds) /\ line' = Tail(line)
  /\ UNCHANGED <<pc, queue, locals, world>>

Program == InLoop /\ curr.y[1] # "builtin"
Sends   == curr.x \in {2, 4}
Granted == CanPipe /\ Cardinality(Fds \ Free) + 2 <= RasFds

\* Every program but one that writes to a file gets a new pipe; if there is one
\* to that line, its writing end is taken in place of the new one.
MakePipe ==
  /\ Program /\ curr.x # 3 /\ Granted
  /\ pc' = "fork"
  /\ LET same == {e \in queue : Sends /\ e.remains = curr.n} IN
     \/ /\ same = {}
        /\ locals' = [locals EXCEPT !.pipeCurr = NewPipe] /\ open' = Piped
     \/ \E e \in same :
          /\ locals' = [locals EXCEPT !.pipeCurr = <<NewPipe[1], e.wr>>, !.elementExist = TRUE]
          /\ open' = Closed({NewPipe[2]}, Piped)
  /\ UNCHANGED <<line, cmds, queue, data, got, count, starved>>

\* Too many descriptors: createProcess returns -1 at once.
PipeFails ==
  /\ Program /\ curr.x # 3 /\ ~Granted
  /\ pc' = "prompt" /\ line' = <<>> /\ cmds' = <<>> /\ starved' = TRUE
  /\ UNCHANGED <<queue, locals, open, data, got, count>>

\* ">" writes to a file that the child opens: no pipe.
NoPipe ==
  /\ Program /\ curr.x = 3
  /\ pc' = "fork"
  /\ UNCHANGED <<line, cmds, queue, locals, world>>

\* The child inherits the shell's descriptors; an unknown command reads nothing.
Reads     == curr.y[1] = "prog"
InputEnds == Reads => SeesEndOf(Stdin, {})

\* fork; the child reads, writes and ends; the shell closes the writing end of a
\* "|" and the reading end of the previous one, waits, and after the last
\* command queues the pipe of a "|n" or closes the reading end it kept.  The
\* file of a ">" is a command of its own, which is skipped.
RunProgram ==
  LET rest   == IF curr.x = 3 THEN SubSeq(cmds, 3, Len(cmds)) ELSE Tail(cmds)
      out    == locals.pipeCurr[2]
      queues == rest = <<>> /\ Sends /\ ~locals.elementExist
  IN
  /\ pc = "fork" /\ InputEnds
  /\ Run(Reads, Stdin, IF curr.x \in {1, 2, 4} THEN out ELSE 0)
  /\ open' = Closed({locals.pipeNext} \cup (IF Sends THEN {} ELSE {out})
                      \cup (IF rest = <<>> /\ ~queues THEN {locals.pipeCurr[1]} ELSE {}), open)
  /\ locals' = [locals EXCEPT
       !.npipeIn = 0,
       !.previousPipe = curr.x = 1 \/ @,
       !.pipeNext = IF curr.x = 1 THEN locals.pipeCurr[1] ELSE @]
  /\ queue' = queue \cup (IF queues THEN {[remains |-> curr.n, rd |-> locals.pipeCurr[1], wr |-> out]}
                                    ELSE {})
  /\ cmds' = rest /\ pc' = "run"

\* erase(remove_if(..., check_remains)): the pipe that was due goes.
EndLine ==
  LET gone == {e \in queue : e.remains = 0} IN
  /\ pc = "run" /\ cmds = <<>> /\ pc' = "prompt"
  /\ queue' = queue \ gone
  /\ open' = Closed({e.rd : e \in gone}, open)
  /\ UNCHANGED <<line, cmds, locals, data, got, count, starved>>

Next ==
  \/ pc = "prompt" /\ \E l \in Lines : Enter(l)
  \/ Builtin \/ MakePipe \/ PipeFails \/ NoPipe \/ RunProgram \/ EndLine \/ Exit

-----------------------------------------------------------------------------
\* The variables of LinePipes.
due   == Sent(0)
input == IF pc \in {"run", "fork"} THEN Content(Stdin) ELSE <<>>
=============================================================================

------------------------------ MODULE RwgShell ------------------------------
(***************************************************************************)
(* The command lines of one session of NP_Project2/src/server.cpp, that is *)
(* ras_wrapper with its helpers and the parser in libs/CommandUnit, without *)
(* what RwgServer models: pipes between users, and the second shell that a *)
(* command that does not exist leaves.                                     *)
(*                                                                         *)
(* Bounds: no line has a command that does not exist; there are enough     *)
(* descriptors (what a failing pipe() or fopen() does is left out).        *)
(***************************************************************************)
EXTENDS ShellKernel

CONSTANT PipesIntoDue  \* whether a line of several programs may be sent output

\* locals.prev, .next: pipe_prev, pipe_next; .fdin, .fdout: of the child
Locals == [prev : Descr \X Descr, next : Descr \X Descr, fdin : Descr, fdout : Descr]

Idle == [prev |-> <<0, 0>>, next |-> <<0, 0>>, fdin |-> 0, fdout |-> 0]
Init == Fresh /\ locals = Idle

-----------------------------------------------------------------------------
(* Command_parse: the commands so far, and the words of the next one. *)

Code(sign) == CASE sign = "|" -> 2 [] sign = "!" -> 3 [] sign = ">" -> 4 [] sign = "<" -> 5

\* A sign ends a command, even one without words; a sign of three characters
\* ("|12") is dropped, "!" and "<" alone are too.
ParseWord(a, w) ==
  IF IsName(w) THEN [a EXCEPT !.words = Append(@, w.is)]
  ELSE IF w.n > 9 \/ (w.n = 0 /\ w.sign \in {"!", "<"}) THEN a
  ELSE [done |-> Append(a.done, [type |-> Code(w.sign), n |-> w.n, words |-> a.words]),
        words |-> <<>>]

\* Words after the last sign are a command of their own.
Command_parse(ws) ==
  LET a == FoldLeft(ParseWord, [done |-> <<>>, words |-> <<>>], ws) IN
  IF ws # <<>> /\ IsName(Last(ws))
  THEN Append(a.done, [type |-> 1, n |-> 0, words |-> a.words])
  ELSE a.done

Parsed(l) == Command_parse(Words(l))

-----------------------------------------------------------------------------
Due == {e \in queue : e.remains = 0}

Enter(l) ==
  /\ Typed(l) /\ \A i \in 1..Len(l) : l[i].kind # "unknown"
  /\ PipesIntoDue \/ Due = {} \/ Programs(l) <= 1
  /\ pc' = "run" /\ cmds' = Parsed(l)
  /\ locals' = [locals EXCEPT !.prev = <<0, 0>>, !.next = <<0, 0>>]
  /\ UNCHANGED <<queue, world>>

InLoop == pc = "run" /\ cmds # <<>>
curr   == Head(cmds)

\* execute_ras_cmds
Builtin ==
  /\ InLoop /\ curr.words[1] = "builtin"
  /\ cmds' = Tail(cmds) /\ line' = Tail(line)
  /\ UNCHANGED <<pc, queue, locals, world>>

Program == InLoop /\ curr.words[1] # "builtin"

\* prepare_child_fdin: the pipe that is due goes before the one of "|", for every
\* program of the line; its writing end is closed, each time.
Stdin         == IF Due = {} THEN locals.prev[1] ELSE (CHOOSE e \in Due : TRUE).rd
FedFrom(table) == Closed({e.wr : e \in Due}, table)

Prepare(next, out, table) ==
  /\ pc' = "fork"
  /\ locals' = [locals EXCEPT !.next = next, !.fdin = Stdin, !.fdout = out]
  /\ open' = table
  /\ UNCHANGED <<line, cmds, data, got, count, starved>>

\* A program that writes to the client.
PrepareLast == Program /\ curr.type = 1 /\ Prepare(locals.next, 0, FedFrom(open)) /\ UNCHANGED queue

\* "|"
PreparePipe ==
  /\ Program /\ curr.type = 2 /\ curr.n = 0 /\ CanPipe
  /\ Prepare(NewPipe, NewPipe[2], FedFrom(Piped))
  /\ UNCHANGED queue

\* Mutant: the pipe is looked for one line too far.
PrepareNumbered_OffByOne ==
  /\ Program /\ curr.type \in {2, 3} /\ curr.n # 0
  /\ LET same == {e \in queue : e.remains = curr.n + 1} IN
     \/ \E e \in same : Prepare(locals.next, e.wr, FedFrom(open)) /\ UNCHANGED queue
     \/ /\ same = {} /\ CanPipe
        /\ Prepare(locals.next, NewPipe[2], FedFrom(Piped))
        /\ queue' = queue \cup {[remains |-> curr.n, rd |-> NewPipe[1], wr |-> NewPipe[2]]}

\* "|n" and "!n": get_N_pipe_queue
PrepareNumbered ==
  /\ Program /\ curr.type \in {2, 3} /\ curr.n # 0
  /\ LET same == {e \in queue : e.remains = curr.n} IN
     \/ \E e \in same : Prepare(locals.next, e.wr, FedFrom(open)) /\ UNCHANGED queue
     \/ /\ same = {} /\ CanPipe
        /\ Prepare(locals.next, NewPipe[2], FedFrom(Piped))
        /\ queue' = queue \cup {[remains |-> curr.n, rd |-> NewPipe[1], wr |-> NewPipe[2]]}

\* "> file": the shell opens the file, and never closes it.
PrepareFile ==
  /\ Program /\ curr.type = 4
  /\ LET table == FedFrom(open)
         free  == {f \in Fds : table[f] = None}
     IN /\ free # {}
        /\ Prepare(locals.next, Lowest(free),
                   [table EXCEPT ![Lowest(free)] = [pipe |-> 0, end |-> "f"]])
  /\ UNCHANGED queue

\* What the shell closes before it waits for a program.
Drops == {locals.prev[1], locals.prev[2]}

\* The child has closed what it dup2'ed, and pipe_prev[1].
InputEnds ==
  /\ SeesEndOf(locals.fdin, {locals.fdin, locals.fdout, locals.prev[2]})
  /\ SeesEndOf(locals.fdin, Drops)

\* fork; the child reads, writes and ends; the shell closes the pipe of the "|"
\* before the program, whose number it then takes from the one after it, and waits.
RunProgram ==
  /\ pc = "fork" /\ InputEnds
  /\ Run(TRUE, locals.fdin, locals.fdout)
  /\ open' = Closed(Drops, open)
  /\ locals' = [locals EXCEPT !.prev = locals.next]
  /\ cmds' = IF curr.type = 4 THEN SubSeq(cmds, 3, Len(cmds)) ELSE Tail(cmds)
  /\ pc' = "run"
  /\ UNCHANGED queue

\* Mutant: a pipe that is past stays open.
EndLine_KeepsReader ==
  /\ pc = "run" /\ cmds = <<>> /\ pc' = "prompt"
  /\ queue' = {[e EXCEPT !.remains = @ - 1] : e \in queue \ Due}
  /\ UNCHANGED <<line, cmds, locals, world>>

\* Npipe_queue_handler: counts down, and drops the pipe that was due, of which it
\* closes the reading end.
EndLine ==
  /\ pc = "run" /\ cmds = <<>> /\ pc' = "prompt"
  /\ queue' = {[e EXCEPT !.remains = @ - 1] : e \in queue \ Due}
  /\ open' = Closed({e.rd : e \in Due}, open)
  /\ UNCHANGED <<line, cmds, locals, data, got, count, starved>>

Next ==
  \/ pc = "prompt" /\ \E l \in Lines : Enter(l)
  \/ Builtin \/ PrepareLast \/ PreparePipe \/ PrepareNumbered \/ PrepareFile
  \/ RunProgram \/ EndLine \/ Exit

-----------------------------------------------------------------------------
\* The variables of LinePipes; at the prompt the queue is one line ahead.
due   == Sent(IF pc \in {"prompt", "exited"} THEN 1 ELSE 0)
input == IF pc \in {"run", "fork"} THEN Content(Stdin) ELSE <<>>
=============================================================================

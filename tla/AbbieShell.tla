----------------------------- MODULE AbbieShell -----------------------------
(***************************************************************************)
(* The command lines of one user of ABbie's servers, server_shared.cpp     *)
(* (server_single.cpp has the same text): split_line, check_syntax,        *)
(* fd_handler and normal_cmd, without pipes between users.                 *)
(*                                                                         *)
(* A line with a syntax error and a built-in command do not come to        *)
(* fd_handler: they change nothing here, and are not counted.              *)
(***************************************************************************)
EXTENDS ShellKernel

\* locals.fdIn, .fdOut, .pipeFd; .link: link_type of the program to be forked.
\* The client's socket is descriptor 0 here.
Locals ==
  [fdIn : Descr, fdOut : Descr, pipeFd : Descr \X Descr,
   link : {"NONE", "PIPE", "NUMBER_PIPE", "ERROR_NUMBER_PIPE", "REDIRECT"}]

Idle == [fdIn |-> 0, fdOut |-> 0, pipeFd |-> <<0, 0>>, link |-> "NONE"]
Init == Fresh /\ locals = Idle

-----------------------------------------------------------------------------
get_type(w) ==
  CASE IsName(w)                 -> IF w.is = "builtin" THEN "RAS_CMD" ELSE "NONE"
    [] w.sign = "|" /\ w.n = 0   -> "PIPE"
    [] w.sign = ">" /\ w.n = 0   -> "REDIRECT"
    [] w.sign = "|" /\ w.n # 0   -> "NUMBER_PIPE"
    [] w.sign = "!" /\ w.n # 0   -> "ERROR_NUMBER_PIPE"
    [] w.sign = ">" /\ w.n # 0   -> "WRITE_FIFO"
    [] w.sign = "<" /\ w.n # 0   -> "READ_FIFO"
    [] OTHER                     -> "NONE"

Links == {"PIPE", "REDIRECT", "NUMBER_PIPE", "ERROR_NUMBER_PIPE"}

\* The words between two links are a command, and each link is one.
SplitWord(a, w) ==
  IF get_type(w) \notin Links THEN [a EXCEPT !.one = Append(@, w)]
  ELSE [done |-> a.done \o (IF a.one = <<>> THEN <<>> ELSE <<a.one>>) \o << <<w>> >>,
        one |-> <<>>]

split_line(ws) ==
  LET a == FoldLeft(SplitWord, [done |-> <<>>, one |-> <<>>], ws) IN
  IF a.one = <<>> THEN a.done ELSE Append(a.done, a.one)

TypeAt(cs, i) == IF i <= Len(cs) THEN get_type(cs[i][1]) ELSE "NONE"

\* Commands and links alternate; a built-in command is the first one, a numbered
\* pipe the last link, a file one word.
check_syntax(cs) ==
  \A i \in {j \in 1..Len(cs) : j % 2 = 1} :
    LET link == TypeAt(cs, i + 1) IN
    /\ TypeAt(cs, i) \in (IF i = 1 THEN {"NONE", "RAS_CMD"} ELSE {"NONE"})
    /\ link \in {"NUMBER_PIPE", "ERROR_NUMBER_PIPE"} => i + 1 = Len(cs)
    /\ link = "REDIRECT" => i + 2 = Len(cs) /\ Len(cs[i + 2]) = 1
    /\ link = "PIPE" => i + 1 # Len(cs)

Parsed(l) == split_line(Words(l))

-----------------------------------------------------------------------------
Due == {e \in queue : e.remains = 1}

\* Mutant: the entry that is due stays in fd_records.
Enter_NoErase(l) ==
  LET cs == Parsed(l) IN
  /\ Typed(l) /\ cs # <<>> /\ check_syntax(cs) /\ TypeAt(cs, 1) # "RAS_CMD"
  /\ pc' = "run" /\ cmds' = cs
  /\ queue' = {[e EXCEPT !.remains = @ - 1] : e \in queue}
  /\ open' = Closed({e.wr : e \in Due}, open)
  /\ \E in \in (IF Due = {} THEN {0} ELSE {e.rd : e \in Due}) :
       locals' = [Idle EXCEPT !.fdIn = in]
  /\ UNCHANGED <<data, got, count, starved>>

\* execute_cmd, fd_handler: the records are counted down; the one that is due is
\* erased, its writing end closed, and its reading end is the first input.
Enter(l) ==
  LET cs == Parsed(l) IN
  /\ Typed(l) /\ cs # <<>> /\ check_syntax(cs) /\ TypeAt(cs, 1) # "RAS_CMD"
  /\ pc' = "run" /\ cmds' = cs
  /\ queue' = {[e EXCEPT !.remains = @ - 1] : e \in queue \ Due}
  /\ open' = Closed({e.wr : e \in Due}, open)
  /\ \E in \in (IF Due = {} THEN {0} ELSE {e.rd : e \in Due}) :
       locals' = [Idle EXCEPT !.fdIn = in]
  /\ UNCHANGED <<data, got, count, starved>>

InLoop  == pc = "run" /\ cmds # <<>>
exists  == Head(cmds)[1].is # "unknown"
Program == InLoop /\ exists
link    == TypeAt(cmds, 2)

\* check_cmd_exist fails: the line is given up, and its input stays open.
Unknown ==
  /\ InLoop /\ ~exists
  /\ pc' = "prompt" /\ line' = <<>> /\ cmds' = <<>>
  /\ UNCHANGED <<queue, locals, world>>

\* Command and link are popped; the child's output is out.
Prepare(out, pipeFd, table) ==
  /\ pc' = "fork"
  /\ cmds' = SubSeq(cmds, IF link = "REDIRECT" THEN 4 ELSE 3, Len(cmds))
  /\ locals' = [locals EXCEPT !.fdOut = out, !.pipeFd = pipeFd, !.link = link]
  /\ open' = table
  /\ UNCHANGED <<line, data, got, count, starved>>

PrepareLast == Program /\ link = "NONE" /\ Prepare(0, locals.pipeFd, open) /\ UNCHANGED queue

PreparePipe ==
  /\ Program /\ link = "PIPE" /\ CanPipe
  /\ Prepare(NewPipe[2], NewPipe, Piped)
  /\ UNCHANGED queue

\* check_pipe_exist: a pipe to the same line is used again.
PrepareNumbered ==
  /\ Program /\ link \in {"NUMBER_PIPE", "ERROR_NUMBER_PIPE"}
  /\ LET n    == cmds[2][1].n
         same == {e \in queue : e.remains = n}
     IN
     \/ \E e \in same : Prepare(e.wr, <<e.rd, e.wr>>, open) /\ UNCHANGED queue
     \/ /\ same = {} /\ CanPipe
        /\ Prepare(NewPipe[2], NewPipe, Piped)
        /\ queue' = queue \cup {[remains |-> n, rd |-> NewPipe[1], wr |-> NewPipe[2]]}

PrepareFile ==
  /\ Program /\ link = "REDIRECT" /\ Free # {}
  /\ Prepare(Lowest(Free), locals.pipeFd, [open EXCEPT ![Lowest(Free)] = [pipe |-> 0, end |-> "f"]])
  /\ UNCHANGED queue

\* exit_message ends the process of the user when there is no descriptor left for
\* a pipe (and fileno(NULL) when there is none for a file).
PrepareFails ==
  /\ Program
  /\ \/ link = "REDIRECT" /\ Free = {}
     \/ link = "PIPE" /\ ~CanPipe
     \/ /\ link \in {"NUMBER_PIPE", "ERROR_NUMBER_PIPE"} /\ ~CanPipe
        /\ \A e \in queue : e.remains # cmds[2][1].n
  /\ pc' = "exited" /\ line' = <<>> /\ cmds' = <<>> /\ starved' = TRUE
  /\ UNCHANGED <<queue, locals, open, data, got, count>>

\* The server closes the program's input, and its output unless it is a numbered
\* pipe, before it waits for the child, which has closed its copies of both.
Kept  == locals.link \in {"NUMBER_PIPE", "ERROR_NUMBER_PIPE"}
Drops == {locals.fdIn} \cup (IF Kept THEN {} ELSE {locals.fdOut})

InputEnds ==
  /\ SeesEndOf(locals.fdIn, {locals.fdIn, locals.fdOut})
  /\ SeesEndOf(locals.fdIn, Drops)

\* fork; the child reads, writes and ends.
RunProgram ==
  /\ pc = "fork" /\ InputEnds
  /\ Run(TRUE, locals.fdIn, locals.fdOut)
  /\ open' = Closed(Drops, open)
  /\ locals' = [locals EXCEPT !.fdIn = IF locals.link = "PIPE" THEN locals.pipeFd[1] ELSE @]
  /\ pc' = "run"
  /\ UNCHANGED <<cmds, queue>>

\* normal_cmd returns.
EndLine ==
  /\ pc = "run" /\ cmds = <<>> /\ pc' = "prompt"
  /\ UNCHANGED <<line, cmds, queue, locals, world>>

Next ==
  \/ pc = "prompt" /\ \E l \in Lines : Enter(l)
  \/ Unknown \/ PrepareLast \/ PreparePipe \/ PrepareNumbered \/ PrepareFile \/ PrepareFails
  \/ RunProgram \/ EndLine \/ Exit

-----------------------------------------------------------------------------
\* The variables of LinePipes.
due   == Sent(0)
input == IF pc \in {"run", "fork"} THEN Content(locals.fdIn) ELSE <<>>
=============================================================================

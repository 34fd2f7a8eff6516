---------------------------- MODULE AbbieShared ----------------------------
(***************************************************************************)
(* The chat server on shared memory, ABbie/server_shared.cpp: one process  *)
(* accepts and gives out the rows of gUsers, one process serves each user. *)
(* A message is stored in the receiver's row, SIGUSR1 wakes the receiver,  *)
(* and the sender spins until the receiver has emptied the slot.  SIGUSR2  *)
(* makes the reader of a fifo open it.  The exit status of every child is  *)
(* taken for a user's id (killzombie).                                     *)
(*                                                                         *)
(* A step is one test, one store into a row others work on, or one system  *)
(* call.  One step each are: accept and the search for a row; a message    *)
(* sent and its slot emptied; the loop that takes the names of fifos away  *)
(* and unlinks them; the end of the busy wait for the reader and the open  *)
(* after it.  What others do within these is left out.                     *)
(*                                                                         *)
(* Left out: texts, nicknames, who, environments, lines of several         *)
(* commands, numbered pipes, how much fits into a fifo, ids outside of the *)
(* table, reuse of process ids.  A line names "<n" before ">n".            *)
(***************************************************************************)
EXTENDS Integers, Sequences, FiniteSets

CONSTANTS
  Sessions,   \* the connections that may be made
  MaxId,      \* the highest client id (30 in the code)
  Lines,      \* the lines the clients may type
  Statuses,   \* exit statuses of programs
  Left,       \* the fifos an earlier server has left in /tmp, by sender and receiver
  MaxActs,    \* bound: lines typed and connections closed by all clients
  None        \* nobody; in openRd: the process that accepts

Ids  == 1..MaxId
Over == MaxId + 1

\* "yell": yell and name; "tell": to wr; "run": a program, reading pipe #rd and
\* writing pipe #wr (0: neither).
Line == [kind : {"yell", "tell", "exit", "run"}, rd : 0..MaxId, wr : 0..MaxId]

NoLine == [kind |-> "run", rd |-> 0, wr |-> 0]

ASSUME MaxIdPositive   == MaxId \in Nat \ {0}
ASSUME MaxActsNatural  == MaxActs \in Nat
ASSUME LinesKnown      == Lines \subseteq Line
ASSUME StatusesKnown   == Statuses \subseteq Nat
ASSUME LeftKnown       == Left \subseteq Ids \X Ids
ASSUME NoneIsNoSession == None \notin Sessions

VARIABLES
  \* the process that accepts
  main,       \* "accept", "clear", "fork", "down"
  conn,       \* the connection it holds, None: none or one closed under it
  mainId,     \* its gMyId
  mainPend,   \* signals it has not handled yet
  \* the processes of the users
  pc,         \* where the process is
  row,        \* gMyId
  line,       \* the line of programs it runs
  tgt, job,   \* ras_send: the loop variable, what the message announces
  fdIn,       \* the fifo the next program reads
  status,     \* exit status of a process that ended
  pend,       \* signals it has not handled yet
  frames,     \* handlers it is in, the innermost first
  openRd,     \* fifos a process has open for reading
  \* gUsers
  used, sock, \* in use, and the connection it was given to
  pid, slot, sender, fifoName, readFifoFd,
  \* outside
  files,      \* the fifos that have a name in /tmp
  client,     \* "none", "open", "closed" by the client, "cut" by its process, "gone"
  acts        \* lines typed and connections closed so far

accepting == <<main, conn, mainId, mainPend>>
where     == <<pc, row, line, tgt, job, fdIn, status>>
sig       == <<pend, frames>>
users     == <<used, sock, pid, slot, sender>>
pipes     == <<fifoName, readFifoFd, openRd, files>>
vars      == <<accepting, where, sig, users, pipes, client, acts>>

Fifo    == [s : Ids, r : Ids, from : Sessions \cup {None}, n : 0..MaxActs]
Message == [from : Sessions, to : Sessions]
Frame   == [sig : {"USR1", "USR2"}, from : 0..MaxId, at : {"show", "open", "reset"}]
PCs     == {"none", "accepted", "new", "greet", "put", "name", "kill", "check", "spin", "prompt",
            "rcheck", "wcheck", "mkfifo", "fd", "fsender", "fkill", "fspin", "exec",
            "unlink", "clean", "release", "zombie", "gone"}

Init ==
  /\ main = "accept" /\ conn = None /\ mainId = 0 /\ mainPend = {}
  /\ pc = [p \in Sessions |-> "none"]
  /\ row = [p \in Sessions |-> 0]
  /\ line = [p \in Sessions |-> NoLine]
  /\ tgt = [p \in Sessions |-> 1]
  /\ job = [p \in Sessions |-> "none"]
  /\ fdIn = [p \in Sessions |-> None]
  /\ status = [p \in Sessions |-> 0]
  /\ pend = [p \in Sessions |-> {}]
  /\ frames = [p \in Sessions |-> <<>>]
  /\ openRd = {}
  /\ used = [r \in Ids |-> FALSE]
  /\ sock = [r \in Ids |-> None]
  /\ pid = [r \in Ids |-> None]
  /\ slot = [r \in Ids |-> [s \in 0..MaxId |-> None]]
  /\ sender = [r \in Ids |-> 0]
  /\ fifoName = [s \in Ids |-> [r \in Ids |-> FALSE]]
  /\ readFifoFd = [r \in Ids |-> [s \in Ids |-> None]]
  /\ files = {[s |-> l[1], r |-> l[2], from |-> None, n |-> 0] : l \in Left}
  /\ client = [p \in Sessions |-> "none"]
  /\ acts = 0

-----------------------------------------------------------------------------
(* Processes, signals and pipes *)

Alive(p) == pc[p] \notin {"none", "accepted", "zombie", "gone"}
At(p, l) == pc[p] = l /\ frames[p] = <<>>
Goto(p, l) == pc' = [pc EXCEPT ![p] = l]

\* The line is done with.
Prompt(p) == Goto(p, "prompt") /\ line' = [line EXCEPT ![p] = NoLine]

\* The process ends.
End(p, k) ==
  /\ Goto(p, "zombie")
  /\ status' = [status EXCEPT ![p] = k]
  /\ line' = [line EXCEPT ![p] = NoLine]
  /\ tgt' = [tgt EXCEPT ![p] = 1]
  /\ job' = [job EXCEPT ![p] = "none"]
  /\ fdIn' = [fdIn EXCEPT ![p] = None]
  /\ pend' = [pend EXCEPT ![p] = {}]
  /\ frames' = [frames EXCEPT ![p] = <<>>]
  /\ openRd' = {o \in openRd : o[1] # p}
  /\ client' = [client EXCEPT ![p] = "gone"]

\* The process ends without logout, its row stays used: exit_message (1), a
\* failed read or SIGPIPE (0).
Dies(p, statuses) ==
  /\ \E k \in statuses : End(p, k)
  /\ UNCHANGED <<accepting, row, users, fifoName, readFifoFd, files, acts>>

\* A write to a client that is gone.
WriteFails(p) ==
  \/ client[p] = "closed" /\ Dies(p, {0, 1})
  \/ client[p] = "cut" /\ Dies(p, {1})

First(s, q) == [sig |-> s, from |-> sender[row[q]], at |-> IF s = "USR1" THEN "show" ELSE "open"]

\* Mutant: a signal to oneself is lost.
Signal_NotSelf(p, s, r) ==
  LET all == pid[r] = None
      hit == {q \in Sessions \ {p} : Alive(q) /\ (all \/ pid[r] = q)}
  IN /\ pend' = [q \in Sessions |-> IF q \in hit THEN pend[q] \cup {s} ELSE pend[q]]
     /\ mainPend' = IF all /\ main # "down" THEN mainPend \cup {s} ELSE mainPend
     /\ UNCHANGED frames

\* kill(pid[r], s) by p.  Pid 0, that of a row nobody had yet, is the process
\* group.  A signal to oneself is handled before kill returns.
Signal(p, s, r) ==
  LET all == pid[r] = None
      hit == {q \in Sessions : Alive(q) /\ (all \/ pid[r] = q)}
  IN /\ pend' = [q \in Sessions |-> IF q \in hit \ {p} THEN pend[q] \cup {s} ELSE pend[q]]
     /\ frames' = IF p \in hit THEN [frames EXCEPT ![p] = <<First(s, p)>>] ELSE frames
     /\ mainPend' = IF all /\ main # "down" THEN mainPend \cup {s} ELSE mainPend

Between(i, s, r) == s # r /\ ((s = i /\ used[r]) \/ (r = i /\ used[s]))

\* The loop of logout and of killzombie: the fifos between user i and the users
\* who are there go.
Unlinked(i) ==
  /\ files' = {f \in files : ~(fifoName[f.s][f.r] /\ Between(i, f.s, f.r))}
  /\ fifoName' = [s \in Ids |-> [r \in Ids |-> fifoName[s][r] /\ ~Between(i, s, r)]]

-----------------------------------------------------------------------------
(* The process that accepts *)

\* Mutant: the first row, used or not.
FirstFree_NoTest(r) == r = 1

\* for( id = 1 ; gUsers[id].used && id < 31 ; id++ );
FirstFree(r) == (r # Over => ~used[r]) /\ \A q \in 1..(r - 1) : used[q]

\* The process that accepts ends, with what it has open.
MainEnds ==
  /\ main' = "down" /\ conn' = None /\ mainId' = 0 /\ mainPend' = {}
  /\ openRd' = {o \in openRd : o[1] # None}
  /\ UNCHANGED <<where, sig, users, fifoName, readFifoFd, files, client, acts>>

\* accept, and login up to the store that marks the row.
Accept(p, r) ==
  /\ main = "accept" /\ pc[p] = "none" /\ FirstFree(r)
  /\ client' = [client EXCEPT ![p] = "open"]
  /\ Goto(p, "accepted")
  /\ used' = [used EXCEPT ![r] = TRUE]
  /\ sock' = [sock EXCEPT ![r] = p]
  /\ row' = [row EXCEPT ![p] = r]
  /\ main' = "clear" /\ conn' = p
  /\ UNCHANGED <<mainId, mainPend, line, tgt, job, fdIn, status, sig, pid, slot, sender, pipes, acts>>

\* login at full house: gUsers[31].fifoName is not in the segment.
LoginOverrun(p) ==
  /\ main = "accept" /\ pc[p] = "none" /\ FirstFree(Over)
  /\ MainEnds

\* The rest of login; gMyId is assigned when it returns.
LoginClear(p) ==
  /\ main = "clear" /\ pc[p] = "accepted"
  /\ fifoName' = [fifoName EXCEPT ![row[p]] = [r \in Ids |-> FALSE]]
  /\ mainId' = row[p]
  /\ main' = "fork"
  /\ UNCHANGED <<conn, mainPend, where, sig, users, readFifoFd, openRd, files, client, acts>>

\* fork, and close of the socket; the child has no socket if it was closed before.
Fork(p) ==
  /\ main = "fork" /\ pc[p] = "accepted"
  /\ Goto(p, "new")
  /\ client' = IF conn = p THEN client ELSE [client EXCEPT ![p] = "cut"]
  /\ main' = "accept" /\ conn' = None
  /\ UNCHANGED <<mainId, mainPend, row, line, tgt, job, fdIn, status, sig, users, pipes, acts>>

\* killzombie: a child that ended with status k is user k.  All rows have the
\* same number for their socket: closing it closes the one main holds.
KillZombie(p) ==
  /\ main # "down" /\ pc[p] = "zombie"
  /\ Goto(p, "gone")
  /\ status' = [status EXCEPT ![p] = 0]
  /\ IF status[p] \in Ids
     THEN Unlinked(status[p]) /\ conn' = None
     ELSE UNCHANGED <<fifoName, files, conn>>
  /\ UNCHANGED <<main, mainId, mainPend, row, line, tgt, job, fdIn, sig, users, readFifoFd,
                 openRd, client, acts>>

\* message_handler in main: the socket is open between accept and close only.
MainMessage ==
  /\ main # "down" /\ "USR1" \in mainPend
  /\ IF conn = None \/ mainId = 0
     THEN MainEnds
     ELSE /\ mainPend' = mainPend \ {"USR1"}
          /\ slot' = [slot EXCEPT ![mainId][sender[mainId]] = None]
          /\ UNCHANGED <<main, conn, mainId, where, sig, used, sock, pid, sender, pipes, client, acts>>

\* f is the file that gUsers[s].fifoName[r] names.
Names(f, s, r) == f.s = s /\ f.r = r /\ fifoName[s][r]

\* fifo_handler in main: it opens the fifo for the user it logged in last.
MainFifo ==
  /\ main # "down" /\ "USR2" \in mainPend
  /\ \/ /\ mainPend' = mainPend \ {"USR2"}
        /\ \E f \in files :
             /\ Names(f, sender[mainId], mainId)
             /\ openRd' = openRd \cup {<<None, f>>}
             /\ readFifoFd' = [readFifoFd EXCEPT ![mainId][f.s] = f]
        /\ sender' = [sender EXCEPT ![mainId] = 0]
        /\ UNCHANGED <<main, conn, mainId, where, sig, used, sock, pid, slot, fifoName, files, client, acts>>
     \/ /\ ~\E f \in files : Names(f, sender[mainId], mainId)
        /\ MainEnds

-----------------------------------------------------------------------------
(* Handlers of a user's process *)

Enter(p, s) ==
  /\ Alive(p) /\ s \in pend[p]
  /\ \A i \in DOMAIN frames[p] : frames[p][i].sig # s
  /\ pend' = [pend EXCEPT ![p] = @ \ {s}]
  /\ frames' = [frames EXCEPT ![p] = <<First(s, p)>> \o @]
  /\ UNCHANGED <<accepting, where, users, pipes, client, acts>>

InHandler(p, l) == frames[p] # <<>> /\ Head(frames[p]).at = l
from(p) == Head(frames[p]).from
Return(p) == frames' = [frames EXCEPT ![p] = Tail(@)]

\* message_handler: the message is sent, its slot emptied.
MsgShow(p) ==
  /\ InHandler(p, "show")
  /\ slot' = [slot EXCEPT ![row[p]][from(p)] = None]
  /\ Return(p)
  /\ UNCHANGED <<accepting, where, pend, used, sock, pid, sender, pipes, client, acts>>

FifoOpen(p) ==
  /\ InHandler(p, "open")
  /\ \E f \in files :
       /\ Names(f, from(p), row[p])
       /\ openRd' = openRd \cup {<<p, f>>}
       /\ readFifoFd' = [readFifoFd EXCEPT ![f.r][f.s] = f]
  /\ frames' = [frames EXCEPT ![p][1].at = "reset"]
  /\ UNCHANGED <<accepting, where, pend, users, fifoName, files, client, acts>>

FifoReset(p) ==
  /\ InHandler(p, "reset")
  /\ sender' = [sender EXCEPT ![row[p]] = 0]
  /\ Return(p)
  /\ UNCHANGED <<accepting, where, pend, used, sock, pid, slot, pipes, client, acts>>

HandlerFails(p) ==
  \/ InHandler(p, "show") /\ WriteFails(p)
  \/ InHandler(p, "open") /\ ~(\E f \in files : Names(f, from(p), row[p])) /\ Dies(p, {1})

-----------------------------------------------------------------------------
(* ras_send *)

\* The message to send announces j; to everybody, or to r.
Begin(p, j, r) ==
  /\ job' = [job EXCEPT ![p] = j]
  /\ tgt' = [tgt EXCEPT ![p] = r]
  /\ Goto(p, "put")

\* What the process does when everybody has taken its message.
Then(p) ==
  CASE job[p] = "left"                     -> "clean"
    [] job[p] = "read" /\ line[p].wr # 0   -> "wcheck"
    [] job[p] \in {"read", "piped"}         -> "fd"
    [] OTHER                               -> "prompt"

\* Mutant: one row too many.
Advance_Beyond(p, l, after) ==
  IF job[p] # "tell" /\ tgt[p] <= MaxId
  THEN tgt' = [tgt EXCEPT ![p] = @ + 1] /\ Goto(p, l) /\ UNCHANGED job
  ELSE /\ tgt' = [tgt EXCEPT ![p] = IF after = "spin" THEN @ ELSE 1]
       /\ Goto(p, after)
       /\ job' = IF l = "check" THEN [job EXCEPT ![p] = "none"] ELSE job

\* The next row of the loop at l, or what follows it; after the last loop the
\* message is no longer p's concern.
Advance(p, l, after) ==
  IF job[p] # "tell" /\ tgt[p] < MaxId
  THEN tgt' = [tgt EXCEPT ![p] = @ + 1] /\ Goto(p, l) /\ UNCHANGED job
  ELSE /\ tgt' = [tgt EXCEPT ![p] = IF after = "spin" THEN @ ELSE 1]
       /\ Goto(p, after)
       /\ job' = IF l = "check" THEN [job EXCEPT ![p] = "none"] ELSE job

SendSkip(p) ==
  /\ At(p, "put") /\ job[p] # "tell" /\ ~used[tgt[p]]
  /\ Advance(p, "put", "check")
  /\ UNCHANGED <<accepting, row, line, fdIn, status, sig, users, pipes, client, acts>>

\* strcpy into the slot, for the user who has the row.
SendPut(p) ==
  /\ At(p, "put") /\ (job[p] = "tell" \/ used[tgt[p]])
  /\ slot' = [slot EXCEPT ![tgt[p]][row[p]] = [from |-> p, to |-> sock[tgt[p]]]]
  /\ Goto(p, "name")
  /\ UNCHANGED <<accepting, row, line, tgt, job, fdIn, status, sig, used, sock, pid, sender,
                 pipes, client, acts>>

SendName(p) ==
  /\ At(p, "name")
  /\ sender' = [sender EXCEPT ![tgt[p]] = row[p]]
  /\ Goto(p, "kill")
  /\ UNCHANGED <<accepting, row, line, tgt, job, fdIn, status, sig, used, sock, pid, slot,
                 pipes, client, acts>>

SendKill(p) ==
  /\ At(p, "kill")
  /\ Signal(p, "USR1", tgt[p])
  /\ Advance(p, "put", IF job[p] = "tell" THEN "spin" ELSE "check")
  /\ UNCHANGED <<main, conn, mainId, row, line, fdIn, status, users, pipes, client, acts>>

\* Mutant: nobody is waited for.
SendCheck_NoWait(p) ==
  /\ At(p, "check")
  /\ Advance(p, "check", Then(p))
  /\ UNCHANGED <<accepting, row, line, fdIn, status, sig, users, pipes, client, acts>>

\* Whether to wait for a row is decided once.
SendCheck(p) ==
  /\ At(p, "check")
  /\ IF used[tgt[p]] /\ slot[tgt[p]][row[p]] # None
     THEN Goto(p, "spin") /\ UNCHANGED <<tgt, job>>
     ELSE Advance(p, "check", Then(p))
  /\ UNCHANGED <<accepting, row, line, fdIn, status, sig, users, pipes, client, acts>>

SendSpin(p) ==
  /\ At(p, "spin") /\ slot[tgt[p]][row[p]] = None
  /\ Advance(p, "check", Then(p))
  /\ UNCHANGED <<accepting, row, line, fdIn, status, sig, users, pipes, client, acts>>

-----------------------------------------------------------------------------
(* The user's process: lines *)

\* The pid is stored; then the user is greeted and announced.
Start(p) ==
  /\ At(p, "new")
  /\ pid' = [pid EXCEPT ![row[p]] = p]
  /\ Goto(p, "greet")
  /\ UNCHANGED <<accepting, row, line, tgt, job, fdIn, status, sig, used, sock, slot, sender, pipes,
                 client, acts>>

Greet(p) ==
  /\ At(p, "greet")
  /\ Begin(p, "enter", 1)
  /\ UNCHANGED <<accepting, row, line, fdIn, status, sig, users, pipes, client, acts>>

\* read_line and the line's first test.
TypeLine(p, l) ==
  /\ At(p, "prompt") /\ client[p] = "open" /\ acts < MaxActs
  /\ acts' = acts + 1
  /\ CASE l.kind = "yell" -> Begin(p, "yell", 1) /\ UNCHANGED line
       [] l.kind = "exit" -> Begin(p, "left", 1) /\ UNCHANGED line
       [] l.kind = "tell" -> /\ IF l.wr \in Ids /\ used[l.wr] THEN Begin(p, "tell", l.wr)
                                ELSE UNCHANGED <<job, tgt, pc>>
                             /\ UNCHANGED line
       [] OTHER -> /\ Goto(p, IF l.rd # 0 THEN "rcheck" ELSE IF l.wr # 0 THEN "wcheck" ELSE "fd")
                   /\ line' = [line EXCEPT ![p] = l]
                   /\ UNCHANGED <<job, tgt>>
  /\ UNCHANGED <<accepting, row, fdIn, status, sig, users, pipes, client>>

\* cmd_fifo: the pipe to read is announced.
ReadCheck(p) ==
  /\ At(p, "rcheck")
  /\ IF fifoName[line[p].rd][row[p]] THEN Begin(p, "read", 1) /\ UNCHANGED line
     ELSE Prompt(p) /\ UNCHANGED <<job, tgt>>
  /\ UNCHANGED <<accepting, row, fdIn, status, sig, users, pipes, client, acts>>

CanWrite(p) == used[line[p].wr] /\ ~fifoName[row[p]][line[p].wr]

\* cmd_fifo: the pipe to write is named, made, announced.
WriteCheck(p) ==
  /\ At(p, "wcheck")
  /\ IF CanWrite(p)
     THEN fifoName' = [fifoName EXCEPT ![row[p]][line[p].wr] = TRUE] /\ Goto(p, "mkfifo") /\ UNCHANGED line
     ELSE Prompt(p) /\ UNCHANGED fifoName
  /\ UNCHANGED <<accepting, row, tgt, job, fdIn, status, sig, users, readFifoFd, openRd,
                 files, client, acts>>

Taken(p) == \E f \in files : f.s = row[p] /\ f.r = line[p].wr

MakeFifo(p) ==
  /\ At(p, "mkfifo") /\ ~Taken(p)
  /\ files' = files \cup {[s |-> row[p], r |-> line[p].wr, from |-> p, n |-> acts]}
  /\ Begin(p, "piped", 1)
  /\ UNCHANGED <<accepting, row, line, fdIn, status, sig, users, fifoName, readFifoFd, openRd,
                 client, acts>>

FifoError(p) == At(p, "mkfifo") /\ Taken(p) /\ Dies(p, {1})

\* read_fifo
TakeFd(p) ==
  /\ At(p, "fd")
  /\ fdIn' = [fdIn EXCEPT ![p] = IF line[p].rd = 0 THEN None ELSE readFifoFd[row[p]][line[p].rd]]
  /\ Goto(p, IF line[p].wr = 0 THEN "exec" ELSE "fsender")
  /\ UNCHANGED <<accepting, row, line, tgt, job, status, sig, users, pipes, client, acts>>

\* write_fifo
FifoSender(p) ==
  /\ At(p, "fsender")
  /\ sender' = [sender EXCEPT ![line[p].wr] = row[p]]
  /\ Goto(p, "fkill")
  /\ UNCHANGED <<accepting, row, line, tgt, job, fdIn, status, sig, used, sock, pid, slot,
                 pipes, client, acts>>

FifoKill(p) ==
  /\ At(p, "fkill")
  /\ Signal(p, "USR2", line[p].wr)
  /\ Goto(p, "fspin")
  /\ UNCHANGED <<main, conn, mainId, row, line, tgt, job, fdIn, status, users, pipes, client, acts>>

\* The busy wait for the reader; then open(O_WRONLY) waits for a reader.
FifoWrite(p) ==
  /\ At(p, "fspin") /\ readFifoFd[line[p].wr][row[p]] # None
  /\ \E f \in files : Names(f, row[p], line[p].wr) /\ \E o \in openRd : o[2] = f
  /\ Goto(p, "exec")
  /\ UNCHANGED <<accepting, row, line, tgt, job, fdIn, status, sig, users, pipes, client, acts>>

FifoGone(p) ==
  /\ At(p, "fspin") /\ readFifoFd[line[p].wr][row[p]] # None
  /\ ~\E f \in files : Names(f, row[p], line[p].wr)
  /\ Dies(p, {1})

\* The program runs; wait or killzombie learns its status k.
Program(p, k) ==
  /\ At(p, "exec")
  /\ openRd' = openRd \ {<<p, fdIn[p]>>}
  /\ fdIn' = [fdIn EXCEPT ![p] = None]
  /\ \/ UNCHANGED <<fifoName, files, client>>
     \/ /\ k \in Ids /\ Unlinked(k)
        /\ client' = IF sock[k] = None THEN client ELSE [client EXCEPT ![p] = "cut"]
  /\ IF line[p].rd = 0 THEN Prompt(p) ELSE Goto(p, "unlink") /\ UNCHANGED line
  /\ UNCHANGED <<accepting, row, tgt, job, status, sig, users, readFifoFd, acts>>

\* The pipe that was read goes.
Unlink(p) ==
  /\ At(p, "unlink")
  /\ files' = {f \in files : ~Names(f, line[p].rd, row[p])}
  /\ fifoName' = [fifoName EXCEPT ![line[p].rd][row[p]] = FALSE]
  /\ Prompt(p)
  /\ UNCHANGED <<accepting, row, tgt, job, fdIn, status, sig, users, readFifoFd, openRd,
                 client, acts>>

\* logout, after its announcement; the process returns its id to exit.
Clean(p) ==
  /\ At(p, "clean")
  /\ Unlinked(row[p])
  /\ Goto(p, "release")
  /\ UNCHANGED <<accepting, row, line, tgt, job, fdIn, status, sig, users, readFifoFd, openRd,
                 client, acts>>

Release(p) ==
  /\ At(p, "release")
  /\ used' = [used EXCEPT ![row[p]] = FALSE]
  /\ End(p, row[p])
  /\ UNCHANGED <<accepting, row, sock, pid, slot, sender, fifoName,
                 readFifoFd, files, acts>>

\* The greeting, the prompt or an error cannot be written, or no line comes.
Disconnected(p) ==
  /\ \/ At(p, "greet") \/ At(p, "prompt")
     \/ At(p, "rcheck") /\ ~fifoName[line[p].rd][row[p]]
     \/ At(p, "wcheck") /\ ~CanWrite(p)
  /\ WriteFails(p)

Hangup(p) ==
  /\ client[p] = "open" /\ acts < MaxActs
  /\ acts' = acts + 1
  /\ client' = [client EXCEPT ![p] = "closed"]
  /\ UNCHANGED <<accepting, where, sig, users, pipes>>

-----------------------------------------------------------------------------
Main ==
  \/ MainMessage \/ MainFifo
  \/ \E p \in Sessions : (\E r \in Ids : Accept(p, r)) \/ LoginOverrun(p) \/ LoginClear(p) \/ Fork(p) \/ KillZombie(p)

Handle(p) ==
  (\E s \in {"USR1", "USR2"} : Enter(p, s)) \/ MsgShow(p) \/ FifoOpen(p) \/ FifoReset(p)
    \/ HandlerFails(p)

Work(p) ==
  \/ Start(p) \/ Greet(p) \/ SendSkip(p) \/ SendPut(p) \/ SendName(p) \/ SendKill(p) \/ SendCheck(p) \/ SendSpin(p)
  \/ ReadCheck(p) \/ WriteCheck(p) \/ MakeFifo(p) \/ FifoError(p) \/ TakeFd(p) \/ FifoSender(p)
  \/ FifoKill(p) \/ FifoWrite(p) \/ FifoGone(p) \/ (\E k \in Statuses : Program(p, k))
  \/ Unlink(p) \/ Clean(p) \/ Release(p) \/ Disconnected(p)

Next ==
  \/ Main
  \/ \E p \in Sessions :
       Handle(p) \/ Work(p) \/ (\E l \in Lines : TypeLine(p, l)) \/ Hangup(p)

Spec == Init /\ [][Next]_vars

-----------------------------------------------------------------------------
(* Properties *)

TypeOK ==
  /\ main \in {"accept", "clear", "fork", "down"} /\ conn \in Sessions \cup {None}
  /\ mainId \in 0..MaxId /\ mainPend \subseteq {"USR1", "USR2"}
  /\ pc \in [Sessions -> PCs] /\ row \in [Sessions -> 0..MaxId] /\ line \in [Sessions -> Line]
  /\ tgt \in [Sessions -> Ids]
  /\ job \in [Sessions -> {"none", "enter", "yell", "tell", "read", "piped", "left"}]
  /\ fdIn \in [Sessions -> Fifo \cup {None}] /\ status \in [Sessions -> 0..MaxId]
  /\ pend \in [Sessions -> SUBSET {"USR1", "USR2"}] /\ frames \in [Sessions -> Seq(Frame)]
  /\ openRd \subseteq (Sessions \cup {None}) \X Fifo
  /\ used \in [Ids -> BOOLEAN] /\ sock \in [Ids -> Sessions \cup {None}]
  /\ pid \in [Ids -> Sessions \cup {None}]
  /\ slot \in [Ids -> [0..MaxId -> Message \cup {None}]] /\ sender \in [Ids -> 0..MaxId]
  /\ fifoName \in [Ids -> [Ids -> BOOLEAN]] /\ readFifoFd \in [Ids -> [Ids -> Fifo \cup {None}]]
  /\ files \subseteq Fifo
  /\ client \in [Sessions -> {"none", "open", "closed", "cut", "gone"}] /\ acts \in 0..MaxActs

\* The busy wait of ras_send does its duty: no process stores a message over one
\* that the user who is still there has not taken.
NoneOverwritten ==
  \A p \in Sessions :
    pc[p] = "put" /\ used[tgt[p]] =>
      LET m == slot[tgt[p]][row[p]] IN m = None \/ m.to # sock[tgt[p]]

\* Rows are given out by one process: logins may overlap with everything.
holder == [r \in Ids |-> IF used[r] THEN sock[r] ELSE None]
Registry == INSTANCE IdRegistry WITH holder <- holder
RegistrySpec == Registry!Spec

\* The busy wait ends: as long as senderId in the receiver's row is the sender's
\* and the receiver had announced himself, he has a signal or a handler for it.
Woken(q, r) ==
  \/ "USR1" \in pend[q]
  \/ \E i \in DOMAIN frames[q] : frames[q][i].sig = "USR1" /\ frames[q][i].from = r
Announced(q) == pc[q] # "greet" /\ job[q] # "enter"
NoLostWakeup ==
  \A p \in Sessions :
    LET r == tgt[p]
        q == sock[r]
    IN pc[p] = "spin" /\ slot[r][row[p]] # None /\ sender[r] = row[p]
         /\ used[r] /\ pid[r] = q /\ Alive(q) /\ (Announced(q) \/ p = q)
       => Woken(q, row[p])
=============================================================================

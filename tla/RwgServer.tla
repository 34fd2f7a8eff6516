----------------------------- MODULE RwgServer -----------------------------
(***************************************************************************)
(* The shared-memory chat server, NP_Project2/src/server.cpp.  main()      *)
(* forks one process per connection; the processes share gShmUT, a table   *)
(* of one row per client id, and wake each other with SIGUSR1 ("a message  *)
(* for you") and SIGUSR2 ("open the pipe for reading").                    *)
(*                                                                         *)
(* A session is one connection and the process serving it.  A step is one  *)
(* access to the table, one system call, or the local work between two of  *)
(* them; a signal handler is an activation record on top of the session's  *)
(* program, run to its end before the program goes on.                     *)
(*                                                                         *)
(* Left out: the text of messages (a message is its author, a number and   *)
(* the readers it is meant for), columns of the table only "who" prints,   *)
(* commands that touch no shared state, reuse of process ids, two fifos    *)
(* made with the same name in the same second.                             *)
(***************************************************************************)
EXTENDS Integers, Sequences, FiniteSets

CONSTANTS
  Sessions,   \* the connections that may be made
  MaxId,      \* the highest client id (30 in the code)
  Commands,   \* what the clients may do: a subset of AllCommands
  MaxTyped,   \* bound: lines a client types
  Overlap,    \* may a connection be accepted while another picks its row?
  None        \* nobody, nothing, no descriptor

AllCommands == {"tell", "yell", "name", "pipe", "read", "orphan", "hangup"}

ASSUME MaxIdPositive   == MaxId \in Nat \ {0}
ASSUME MaxTypedNatural == MaxTyped \in Nat
ASSUME CommandsKnown   == Commands \subseteq AllCommands
ASSUME OverlapBoolean  == Overlap \in BOOLEAN
ASSUME NoneIsNoSession == None \notin Sessions

Ids  == 1..MaxId
Rows == 0..MaxId      \* row 0 is what gMyId points at before Login returns

VARIABLES
  \* local to a session's process
  pc,         \* where the program is
  row,        \* Login's local id: the row probed, then the row taken
  myId,       \* gMyId
  tgt,        \* the row the current command or loop is about
  job,        \* what the current message is: "login", "yell", "tell" or "none"
  aim,        \* the sessions it is meant for
  typed,      \* lines typed so far
  client,     \* the client's end of the connection
  shells,     \* "single"; "nested": a child runs the loop too and the session's
              \* own process waits for it; "headless": only that child is left
  pend,       \* signals sent and not yet delivered
  frames,     \* handlers in progress, the running one first
  \* the table, UserTable gShmUT[31]
  isUsed, pid, nick,
  messages,   \* messages[r][s]: what user s last wrote to user r
  msgSender,  \* msgSender[r]: who wrote to r, or made a pipe to r, last
  fifoName,   \* fifoName[s][r]: the pipe from user s to user r
  readFifoFd, \* readFifoFd[r][s]: r's descriptor of that pipe
  \* the operating system
  files,      \* the fifos that have a name in /tmp
  openRd,     \* who has which fifo open for reading
  shown,      \* the typed messages each client was sent by its handler, in order
  serverUp    \* the accepting process is running

where  == <<pc, shells>>
self   == <<row, myId>>
work   == <<tgt, job, aim>>
term   == <<typed, client>>
sig    == <<pend, frames>>
users  == <<isUsed, pid, nick>>
mail   == <<messages, msgSender, shown>>
pipes  == <<fifoName, readFifoFd, files, openRd>>
vars   == <<where, self, work, term, sig, users, mail, pipes, serverUp>>

-----------------------------------------------------------------------------
(* Where a session can be *)

Choosing == {"probe", "claim"}
Talking  == {"check", "write", "sender", "kill"}
Piping   == {"pcheck", "pname", "mkfifo", "psender", "pkill", "spin", "open"}
InShell  == {"prompt", "ready", "eating", "release"} \cup Piping
Holding  == {"fill", "enter"} \cup Talking \cup InShell
Leaving  == {"wipe", "unlink"}
Ended    == {"gone", "leaked"}   \* leaked: ended without giving its row back
Owning   == Holding \cup {"leaked"}
PCs      == {"off"} \cup Choosing \cup Holding \cup Leaving \cup Ended

Alive(p) == pc[p] \notin {"off"} \cup Ended
Holds(p) == pc[p] \in Holding
Owns(p)  == pc[p] \in Owning

Message == [by: Sessions, n: 0..MaxTyped, to: SUBSET Sessions]
Fifo    == [by: Sessions, to: Rows, n: 0..MaxTyped]
Reader  == [rd: Sessions, fifo: Fifo]
Frame   == [sig: {"USR1", "USR2"}, from: Rows,
            at: {"enter", "send", "clear", "open", "reset"}]

ASSUME NoneIsNoFifo == None \notin Fifo

Init ==
  /\ pc = [p \in Sessions |-> "off"]
  /\ row = [p \in Sessions |-> 0]
  /\ myId = [p \in Sessions |-> 0]
  /\ tgt = [p \in Sessions |-> 0]
  /\ job = [p \in Sessions |-> "none"]
  /\ aim = [p \in Sessions |-> {}]
  /\ typed = [p \in Sessions |-> 0]
  /\ client = [p \in Sessions |-> "none"]
  /\ shells = [p \in Sessions |-> "single"]
  /\ pend = [p \in Sessions |-> {}]
  /\ frames = [p \in Sessions |-> <<>>]
  /\ isUsed = [r \in Rows |-> FALSE]
  /\ pid = [r \in Rows |-> None]
  /\ nick = [r \in Rows |-> None]
  /\ messages = [r \in Rows |-> [s \in Rows |-> None]]
  /\ msgSender = [r \in Rows |-> 0]
  /\ fifoName = [s \in Rows |-> [r \in Rows |-> None]]
  /\ readFifoFd = [r \in Rows |-> [s \in Rows |-> None]]
  /\ files = {}
  /\ openRd = {}
  /\ shown = [p \in Sessions |-> <<>>]
  /\ serverUp = TRUE

-----------------------------------------------------------------------------
(* Processes and signals *)

\* The program of p runs: no handler is on top of it, or it is the program of
\* a nested shell, which handlers of the session's own process do not stop.
At(p, l)   == pc[p] = l /\ (frames[p] = <<>> \/ shells[p] # "single")
Goto(p, l) == pc' = [pc EXCEPT ![p] = l]

Running(p) == Alive(p) /\ shells[p] # "headless"

\* kill(gShmUT[r].pid, ...): a row nobody ever filled in has pid 0, and
\* kill(0, ...) signals the whole process group, main() included.
Receivers(r) ==
  {q \in Sessions : Running(q) /\ (pid[r] = None \/ pid[r] = q)}

\* A signal a process sends itself is handled before kill() returns.
Signal(p, s, r) ==
  LET sync == p \in Receivers(r) /\ shells[p] = "single" IN
  /\ pend' = [q \in Sessions |->
                IF q \in Receivers(r) /\ ~(q = p /\ sync)
                THEN pend[q] \cup {s} ELSE pend[q]]
  /\ frames' = IF sync
               THEN [frames EXCEPT ![p] = <<[sig |-> s, from |-> 0, at |-> "enter"]>>]
               ELSE frames
  /\ serverUp' = (serverUp /\ ~(s = "USR2" /\ pid[r] = None))

\* The session's last process ends; its descriptors are closed.
End(p, l) ==
  /\ Goto(p, l)
  /\ pend' = [pend EXCEPT ![p] = {}]
  /\ frames' = [frames EXCEPT ![p] = <<>>]
  /\ openRd' = {o \in openRd : o.rd # p}
  /\ UNCHANGED shells

\* A process that exits without Logout leaves the row it holds marked.
Lost(p) == IF Owns(p) THEN "leaked" ELSE "gone"

\* exit(), or SIGPIPE, in the program: a nested shell only returns control to
\* the process that waits for it.
ProgramDies(p) ==
  IF shells[p] = "nested"
  THEN /\ Goto(p, "prompt")
       /\ shells' = [shells EXCEPT ![p] = "single"]
       /\ UNCHANGED <<sig, openRd>>
  ELSE End(p, Lost(p))

\* The same in a handler, which runs in the session's own process.  A nested
\* shell lives on, with the descriptors it had when it was forked.
HandlerDies(p) ==
  IF shells[p] = "nested"
  THEN /\ shells' = [shells EXCEPT ![p] = "headless"]
       /\ pend' = [pend EXCEPT ![p] = {}]
       /\ frames' = [frames EXCEPT ![p] = <<>>]
       /\ \E kept \in SUBSET {o \in openRd : o.rd = p} :
            openRd' = {o \in openRd : o.rd # p} \cup kept
       /\ UNCHANGED pc
  ELSE End(p, Lost(p))

\* The child forked for a command comes back into ras_wrapper's loop instead
\* of ending, and reads the client's lines; its parent waits for it.
\* (bound: one nested shell per session)
Nest(p) ==
  /\ Goto(p, "prompt")
  /\ shells' = [shells EXCEPT ![p] = IF @ = "single" THEN "nested" ELSE @]

-----------------------------------------------------------------------------
(* Connecting and Login *)

\* main() accepts a connection and forks; Login starts at row 1.
Connect(p) ==
  /\ pc[p] = "off" /\ serverUp
  /\ Overlap \/ \A q \in Sessions : pc[q] \notin Choosing
  /\ Goto(p, "probe")
  /\ row' = [row EXCEPT ![p] = 1]
  /\ client' = [client EXCEPT ![p] = "open"]
  /\ UNCHANGED <<shells, myId, work, typed, sig, users, mail, pipes, serverUp>>

\* Mutant: the row is taken without looking at isUsed.
LoginFound_NoTest(p) ==
  /\ At(p, "probe")
  /\ Goto(p, "claim")
  /\ UNCHANGED <<shells, self, work, term, sig, users, mail, pipes, serverUp>>

LoginFound(p) ==
  /\ At(p, "probe") /\ ~isUsed[row[p]]
  /\ Goto(p, "claim")
  /\ UNCHANGED <<shells, self, work, term, sig, users, mail, pipes, serverUp>>

LoginProbe(p) ==
  /\ At(p, "probe") /\ isUsed[row[p]] /\ row[p] < MaxId
  /\ row' = [row EXCEPT ![p] = @ + 1]
  /\ UNCHANGED <<where, myId, work, term, sig, users, mail, pipes, serverUp>>

LoginRefused(p) ==
  /\ At(p, "probe") /\ isUsed[row[p]] /\ row[p] = MaxId
  /\ End(p, "gone")
  /\ UNCHANGED <<self, work, term, users, mail, fifoName, readFifoFd, files, serverUp>>

\* Mutant: isUsed is not set.
LoginClaim_NoMark(p) ==
  /\ At(p, "claim")
  /\ Goto(p, "fill")
  /\ UNCHANGED <<shells, self, work, term, sig, users, mail, pipes, serverUp>>

LoginClaim(p) ==
  /\ At(p, "claim")
  /\ isUsed' = [isUsed EXCEPT ![row[p]] = TRUE]
  /\ Goto(p, "fill")
  /\ UNCHANGED <<shells, self, work, term, sig, pid, nick, mail, pipes, serverUp>>

\* pid, address, nickname; then the newcomer is announced to every row.
LoginFill(p) ==
  /\ At(p, "fill")
  /\ pid' = [pid EXCEPT ![row[p]] = p]
  /\ nick' = [nick EXCEPT ![row[p]] = p]
  /\ tgt' = [tgt EXCEPT ![p] = 1]
  /\ job' = [job EXCEPT ![p] = "login"]
  /\ Goto(p, "check")
  /\ UNCHANGED <<shells, self, aim, term, sig, isUsed, mail, pipes, serverUp>>

\* The welcome is sent and Login's result assigned to gMyId.
EnterShell(p) ==
  /\ At(p, "enter")
  /\ myId' = [myId EXCEPT ![p] = row[p]]
  /\ Goto(p, "prompt")
  /\ UNCHANGED <<shells, row, work, term, sig, users, mail, pipes, serverUp>>

-----------------------------------------------------------------------------
(* ras_tell, and ras_broadcast as a loop over it *)

\* Mutant: the loop runs to MaxId + 1.
TellDone_OffByOne(p) ==
  /\ aim' = [aim EXCEPT ![p] = {}]
  /\ IF job[p] = "tell" \/ tgt[p] > MaxId
     THEN /\ Goto(p, IF job[p] = "login" THEN "enter" ELSE "prompt")
          /\ tgt' = [tgt EXCEPT ![p] = 0]
          /\ job' = [job EXCEPT ![p] = "none"]
     ELSE /\ Goto(p, "check")
          /\ tgt' = [tgt EXCEPT ![p] = @ + 1]
          /\ UNCHANGED job

\* Mutant: the loop does not advance.
TellDone_Stuck(p) ==
  /\ aim' = [aim EXCEPT ![p] = {}]
  /\ Goto(p, "check")
  /\ UNCHANGED <<tgt, job>>

\* ras_tell(tgt) returns: the next row of the broadcast, or the end of it.
TellDone(p) ==
  /\ aim' = [aim EXCEPT ![p] = {}]
  /\ IF job[p] = "tell" \/ tgt[p] = MaxId
     THEN /\ Goto(p, IF job[p] = "login" THEN "enter" ELSE "prompt")
          /\ tgt' = [tgt EXCEPT ![p] = 0]
          /\ job' = [job EXCEPT ![p] = "none"]
     ELSE /\ Goto(p, "check")
          /\ tgt' = [tgt EXCEPT ![p] = @ + 1]
          /\ UNCHANGED job

\* Not online: the loop goes on; a tell answers its user instead.
TellSkip(p) ==
  /\ At(p, "check") /\ ~isUsed[tgt[p]]
  /\ TellDone(p)
  /\ UNCHANGED <<shells, self, term, sig, users, mail, pipes, serverUp>>

\* Online: the message is meant for the session that has the id now.  (The
\* loop's own test, just before ras_tell's, is taken as one with it.)
TellCheck(p) ==
  /\ At(p, "check") /\ isUsed[tgt[p]]
  /\ aim' = [aim EXCEPT ![p] = {q \in Sessions : Holds(q) /\ row[q] = tgt[p]}]
  /\ Goto(p, "write")
  /\ UNCHANGED <<shells, self, tgt, job, term, sig, users, mail, pipes, serverUp>>

\* Mutant: the two indices of messages are swapped.
TellWrite_Swapped(p) ==
  /\ At(p, "write")
  /\ messages' = [messages EXCEPT ![myId[p]][tgt[p]] =
                    [by |-> p, n |-> typed[p], to |-> aim[p]]]
  /\ Goto(p, "sender")
  /\ UNCHANGED <<shells, self, work, term, sig, users, msgSender, shown, pipes, serverUp>>

TellWrite(p) ==
  /\ At(p, "write")
  /\ messages' = [messages EXCEPT ![tgt[p]][myId[p]] =
                    [by |-> p, n |-> typed[p], to |-> aim[p]]]
  /\ Goto(p, "sender")
  /\ UNCHANGED <<shells, self, work, term, sig, users, msgSender, shown, pipes, serverUp>>

TellSender(p) ==
  /\ At(p, "sender")
  /\ msgSender' = [msgSender EXCEPT ![tgt[p]] = myId[p]]
  /\ Goto(p, "kill")
  /\ UNCHANGED <<shells, self, work, term, sig, users, messages, shown, pipes, serverUp>>

TellKill(p) ==
  /\ At(p, "kill")
  /\ Signal(p, "USR1", tgt[p])
  /\ TellDone(p)
  /\ UNCHANGED <<shells, self, term, users, mail, pipes>>

-----------------------------------------------------------------------------
(* ras_wrapper: the prompt, the client's next line, the end of input *)

Prompt(p) ==
  /\ At(p, "prompt")
  /\ Goto(p, "ready")
  /\ UNCHANGED <<shells, self, work, term, sig, users, mail, pipes, serverUp>>

\* The client types a line of command c and getline returns it.
Types(p, c) ==
  /\ At(p, "ready") /\ client[p] = "open"
  /\ c \in Commands /\ typed[p] < MaxTyped
  /\ typed' = [typed EXCEPT ![p] = @ + 1]
  /\ UNCHANGED <<self, client, sig, users, mail, pipes, serverUp>>

TypeTell(p, r) ==
  /\ Types(p, "tell")
  /\ Goto(p, "check")
  /\ tgt' = [tgt EXCEPT ![p] = r]
  /\ job' = [job EXCEPT ![p] = "tell"]
  /\ UNCHANGED <<shells, aim>>

TypeYell(p) ==
  /\ Types(p, "yell")
  /\ Goto(p, "check")
  /\ tgt' = [tgt EXCEPT ![p] = 1]
  /\ job' = [job EXCEPT ![p] = "yell"]
  /\ UNCHANGED <<shells, aim>>

TypePipe(p, r) ==
  /\ Types(p, "pipe")
  /\ Goto(p, "pcheck")
  /\ tgt' = [tgt EXCEPT ![p] = r]
  /\ UNCHANGED <<shells, job, aim>>

\* A command whose child ends up in the loop, as an unknown command with "|1",
\* "!1", ">2" or "> file" behind it does.
TypeOrphan(p) ==
  /\ Types(p, "orphan")
  /\ Nest(p)
  /\ UNCHANGED work

TypeName(p) ==
  /\ At(p, "ready") /\ client[p] = "open"
  /\ "name" \in Commands /\ typed[p] < MaxTyped
  /\ typed' = [typed EXCEPT ![p] = @ + 1]
  /\ nick' = [nick EXCEPT ![myId[p]] = p]
  /\ Goto(p, "prompt")
  /\ UNCHANGED <<shells, self, work, client, sig, isUsed, pid, mail, pipes, serverUp>>

\* "cat <r".  Without the user or the pipe the child does not run the command
\* and comes back into the loop.  A descriptor 0 is not yet opened: the command
\* reads the client's lines instead, and so may it with a descriptor that some
\* earlier holder of the row, or another process, opened.
PipeExists(p, r) == isUsed[r] /\ fifoName[r][myId[p]] # None

TypeReadMissing(p, r) ==
  /\ Types(p, "read") /\ ~PipeExists(p, r)
  /\ Nest(p)
  /\ UNCHANGED work

OwnFd(p, r) ==
  LET fd == readFifoFd[myId[p]][r] IN fd # None /\ fd.rd = p

TypeRead(p, r) ==
  /\ Types(p, "read") /\ PipeExists(p, r)
  /\ \/ readFifoFd[myId[p]][r] # None /\ Goto(p, "prompt")
     \/ ~(OwnFd(p, r) /\ shells[p] = "single") /\ Goto(p, "eating")
  /\ UNCHANGED <<shells, work>>

\* The command that reads the client's lines ends with them.
EatingEnds(p) ==
  /\ At(p, "eating") /\ client[p] = "closed"
  /\ Goto(p, "prompt")
  /\ UNCHANGED <<shells, self, work, term, sig, users, mail, pipes, serverUp>>

Hangup(p) ==
  /\ "hangup" \in Commands
  /\ client[p] = "open"
  /\ client' = [client EXCEPT ![p] = "closed"]
  /\ UNCHANGED <<where, self, work, typed, sig, users, mail, pipes, serverUp>>

\* Mutant: the loop goes on at the end of input.
Eof_Ignored(p) ==
  /\ At(p, "ready") /\ client[p] = "closed"
  /\ Goto(p, "prompt")
  /\ UNCHANGED <<shells, self, work, term, sig, users, mail, pipes, serverUp>>

Eof(p) ==
  /\ At(p, "ready") /\ client[p] = "closed"
  /\ Goto(p, "release")
  /\ UNCHANGED <<shells, self, work, term, sig, users, mail, pipes, serverUp>>

\* A write to a client that is gone: the first may still succeed, a later one
\* fails or raises SIGPIPE.
Writing(p) ==
  \/ At(p, "prompt") \/ At(p, "enter")
  \/ At(p, "check") /\ job[p] = "tell" /\ ~isUsed[tgt[p]]
  \/ At(p, "pcheck") /\ ~isUsed[tgt[p]]

WriteFails(p) ==
  /\ Writing(p) /\ client[p] = "closed"
  /\ ProgramDies(p)
  /\ UNCHANGED <<self, work, term, users, mail, fifoName, readFifoFd, files, serverUp>>

-----------------------------------------------------------------------------
(* "command >r": the writing end of a pipe to user r *)

\* The command is over; its local variables are gone.
PipeDone(p) ==
  /\ Goto(p, "prompt")
  /\ tgt' = [tgt EXCEPT ![p] = 0]
  /\ UNCHANGED <<job, aim>>

PipeOffline(p) ==
  /\ At(p, "pcheck") /\ ~isUsed[tgt[p]]
  /\ PipeDone(p)
  /\ UNCHANGED <<shells, self, term, sig, users, mail, pipes, serverUp>>

PipeCheck(p) ==
  /\ At(p, "pcheck") /\ isUsed[tgt[p]]
  /\ Goto(p, "pname")
  /\ UNCHANGED <<shells, self, work, term, sig, users, mail, pipes, serverUp>>

\* A pipe that has a name is used as it is.
PipeReuse(p) ==
  /\ At(p, "pname") /\ fifoName[myId[p]][tgt[p]] # None
  /\ Goto(p, "open")
  /\ UNCHANGED <<shells, self, work, term, sig, users, mail, pipes, serverUp>>

NewFifo(p) == [by |-> p, to |-> tgt[p], n |-> typed[p]]

\* Mutant: a pipe that exists gets a new name.
PipeName_NoTest(p) ==
  /\ At(p, "pname")
  /\ fifoName' = [fifoName EXCEPT ![myId[p]][tgt[p]] = NewFifo(p)]
  /\ Goto(p, "mkfifo")
  /\ UNCHANGED <<shells, self, work, term, sig, users, mail, readFifoFd, files, openRd, serverUp>>

PipeName(p) ==
  /\ At(p, "pname") /\ fifoName[myId[p]][tgt[p]] = None
  /\ fifoName' = [fifoName EXCEPT ![myId[p]][tgt[p]] = NewFifo(p)]
  /\ Goto(p, "mkfifo")
  /\ UNCHANGED <<shells, self, work, term, sig, users, mail, readFifoFd, files, openRd, serverUp>>

MkFifo(p) ==
  /\ At(p, "mkfifo")
  /\ files' = files \cup {NewFifo(p)}
  /\ Goto(p, "psender")
  /\ UNCHANGED <<shells, self, work, term, sig, users, mail, fifoName, readFifoFd, openRd, serverUp>>

PipeSender(p) ==
  /\ At(p, "psender")
  /\ msgSender' = [msgSender EXCEPT ![tgt[p]] = myId[p]]
  /\ Goto(p, "pkill")
  /\ UNCHANGED <<shells, self, work, term, sig, users, messages, shown, pipes, serverUp>>

PipeKill(p) ==
  /\ At(p, "pkill")
  /\ Signal(p, "USR2", tgt[p])
  /\ Goto(p, "spin")
  /\ UNCHANGED <<shells, self, work, term, users, mail, pipes>>

\* while( gShmUT[target_id].readFifoFd[gMyId] == 0 ) ;
PipeSpinEnds(p) ==
  /\ At(p, "spin") /\ readFifoFd[tgt[p]][myId[p]] # None
  /\ Goto(p, "open")
  /\ UNCHANGED <<shells, self, work, term, sig, users, mail, pipes, serverUp>>

\* open(..., O_WRONLY) waits until some process has the fifo open for reading;
\* then the command runs, writes into the pipe and ends.
PipeOpen(p) ==
  /\ At(p, "open")
  /\ fifoName[myId[p]][tgt[p]] \in files
  /\ \E o \in openRd : o.fifo = fifoName[myId[p]][tgt[p]]
  /\ PipeDone(p)
  /\ UNCHANGED <<shells, self, term, sig, users, mail, pipes, serverUp>>

PipeOpenFails(p) ==
  /\ At(p, "open")
  /\ fifoName[myId[p]][tgt[p]] \notin files
  /\ ProgramDies(p)
  /\ UNCHANGED <<self, work, term, users, mail, fifoName, readFifoFd, files, serverUp>>

-----------------------------------------------------------------------------
(* Logout: InitUserTable(gShmUT[gMyId]) *)

\* Mutant: the row stays marked.
Release_KeepsMark(p) ==
  /\ At(p, "release")
  /\ Goto(p, "wipe")
  /\ UNCHANGED <<shells, self, work, term, sig, users, mail, pipes, serverUp>>

Release(p) ==
  /\ At(p, "release")
  /\ isUsed' = [isUsed EXCEPT ![myId[p]] = FALSE]
  /\ Goto(p, "wipe")
  /\ UNCHANGED <<shells, self, work, term, sig, pid, nick, mail, pipes, serverUp>>

\* Mutant: the pid is cleared with the other columns.
Wipe_Pid(p) ==
  /\ At(p, "wipe")
  /\ nick' = [nick EXCEPT ![myId[p]] = None]
  /\ pid' = [pid EXCEPT ![myId[p]] = None]
  /\ tgt' = [tgt EXCEPT ![p] = 1]
  /\ Goto(p, "unlink")
  /\ UNCHANGED <<shells, self, job, aim, term, sig, isUsed, mail, pipes, serverUp>>

Wipe(p) ==
  /\ At(p, "wipe")
  /\ nick' = [nick EXCEPT ![myId[p]] = None]
  /\ tgt' = [tgt EXCEPT ![p] = 1]
  /\ Goto(p, "unlink")
  /\ UNCHANGED <<shells, self, job, aim, term, sig, isUsed, pid, mail, pipes, serverUp>>

\* One round of the loop: the pipe to user i, and the pipe from user i if i is
\* online.  Then kill(SIGSTOP, pid), its arguments swapped, does nothing, and
\* after the last round the process exits.
Unlink(p) ==
  LET me   == myId[p]
      i    == tgt[p]
      from == isUsed[i]
  IN
  /\ At(p, "unlink")
  /\ files' = files \ ({fifoName[me][i]} \cup IF from THEN {fifoName[i][me]} ELSE {})
  /\ fifoName' = [s \in Rows |-> [r \in Rows |->
                    IF <<s, r>> = <<me, i>> \/ (from /\ <<s, r>> = <<i, me>>)
                    THEN None ELSE fifoName[s][r]]]
  /\ UNCHANGED <<self, job, aim, term, users, mail, readFifoFd, serverUp>>
  /\ IF i < MaxId
     THEN /\ tgt' = [tgt EXCEPT ![p] = i + 1]
          /\ UNCHANGED <<where, sig, openRd>>
     ELSE /\ UNCHANGED tgt
          /\ ProgramDies(p)

-----------------------------------------------------------------------------
(* Signal handlers.  A signal is blocked while its own handler runs; the *)
(* other one may interrupt it.                                            *)

Handling(p, s) == \E k \in DOMAIN frames[p] : frames[p][k].sig = s
Top(p, at)     == frames[p] # <<>> /\ Head(frames[p]).at = at
Retop(p, f)    == frames' = [frames EXCEPT ![p] = <<f>> \o Tail(@)]
Return(p)      == frames' = [frames EXCEPT ![p] = Tail(@)]

\* A handler starts with int senderId = gShmUT[gMyId].msg_senderId;
Started(p, s) == [sig |-> s, from |-> msgSender[myId[p]],
                  at |-> IF s = "USR1" THEN "send" ELSE "open"]

Deliver(p) ==
  /\ \E s \in pend[p] :
       /\ ~Handling(p, s)
       /\ pend' = [pend EXCEPT ![p] = @ \ {s}]
       /\ frames' = [frames EXCEPT ![p] = <<Started(p, s)>> \o @]
  /\ UNCHANGED <<where, self, work, term, users, mail, pipes, serverUp>>

HandlerEnter(p) ==
  /\ Top(p, "enter")
  /\ Retop(p, Started(p, Head(frames[p]).sig))
  /\ UNCHANGED <<where, self, work, term, pend, users, mail, pipes, serverUp>>

\* ras_tell_MsgHandler: the slot goes to the client (an empty one sends no
\* byte).  Before gMyId is set the slot is row 0's, which is always empty.
MsgSend(p) ==
  LET m == messages[myId[p]][Head(frames[p]).from] IN
  /\ Top(p, "send")
  /\ shown' = IF m = None \/ m.n = 0 THEN shown ELSE [shown EXCEPT ![p] = Append(@, m)]
  /\ Retop(p, [Head(frames[p]) EXCEPT !.at = "clear"])
  /\ UNCHANGED <<where, self, work, term, pend, users, messages, msgSender, pipes, serverUp>>

MsgSendFails(p) ==
  /\ Top(p, "send") /\ client[p] = "closed" /\ myId[p] # 0
  /\ HandlerDies(p)
  /\ UNCHANGED <<self, work, term, users, mail, fifoName, readFifoFd, files, serverUp>>

\* Mutant: the slot is not cleared.
MsgClear_Kept(p) ==
  /\ Top(p, "clear")
  /\ Return(p)
  /\ UNCHANGED <<where, self, work, term, pend, users, mail, pipes, serverUp>>

MsgClear(p) ==
  /\ Top(p, "clear")
  /\ messages' = [messages EXCEPT ![myId[p]][Head(frames[p]).from] = None]
  /\ Return(p)
  /\ UNCHANGED <<where, self, work, term, pend, users, msgSender, shown, pipes, serverUp>>

\* fifo_handler
Named(p) == fifoName[Head(frames[p]).from][myId[p]]

\* Mutant: the sender is read again from the table.
FifoOpen_Reread(p) ==
  LET s == msgSender[myId[p]] IN
  /\ Top(p, "open") /\ Named(p) \in files
  /\ openRd' = openRd \cup {[rd |-> p, fifo |-> Named(p)]}
  /\ readFifoFd' = [readFifoFd EXCEPT ![myId[p]][s] = [rd |-> p, fifo |-> Named(p)]]
  /\ Retop(p, [Head(frames[p]) EXCEPT !.at = "reset"])
  /\ UNCHANGED <<where, self, work, term, pend, users, mail, fifoName, files, serverUp>>

FifoOpen(p) ==
  LET s == Head(frames[p]).from IN
  /\ Top(p, "open") /\ Named(p) \in files
  /\ openRd' = openRd \cup {[rd |-> p, fifo |-> Named(p)]}
  /\ readFifoFd' = [readFifoFd EXCEPT ![myId[p]][s] = [rd |-> p, fifo |-> Named(p)]]
  /\ Retop(p, [Head(frames[p]) EXCEPT !.at = "reset"])
  /\ UNCHANGED <<where, self, work, term, pend, users, mail, fifoName, files, serverUp>>

\* open() of a name that is empty or gone: exit_message
FifoOpenFails(p) ==
  /\ Top(p, "open") /\ Named(p) \notin files
  /\ HandlerDies(p)
  /\ UNCHANGED <<self, work, term, users, mail, fifoName, readFifoFd, files, serverUp>>

FifoReset(p) ==
  /\ Top(p, "reset")
  /\ msgSender' = [msgSender EXCEPT ![myId[p]] = 0]
  /\ Return(p)
  /\ UNCHANGED <<where, self, work, term, pend, users, messages, shown, pipes, serverUp>>

-----------------------------------------------------------------------------
Line(p) ==
  \/ \E r \in Ids : TypeTell(p, r) \/ TypePipe(p, r) \/ TypeRead(p, r) \/ TypeReadMissing(p, r)
  \/ TypeYell(p) \/ TypeName(p) \/ TypeOrphan(p)

Client(p) == Connect(p) \/ Line(p) \/ Hangup(p)

Program(p) ==
  \/ LoginFound(p) \/ LoginProbe(p) \/ LoginRefused(p) \/ LoginClaim(p) \/ LoginFill(p)
  \/ EnterShell(p) \/ Prompt(p) \/ Eof(p) \/ EatingEnds(p) \/ WriteFails(p)
  \/ TellSkip(p) \/ TellCheck(p) \/ TellWrite(p) \/ TellSender(p) \/ TellKill(p)
  \/ PipeOffline(p) \/ PipeCheck(p) \/ PipeReuse(p) \/ PipeName(p) \/ MkFifo(p)
  \/ PipeSender(p) \/ PipeKill(p) \/ PipeSpinEnds(p) \/ PipeOpen(p) \/ PipeOpenFails(p)
  \/ Release(p) \/ Wipe(p) \/ Unlink(p)

Handler(p) ==
  \/ HandlerEnter(p) \/ MsgSend(p) \/ MsgSendFails(p) \/ MsgClear(p)
  \/ FifoOpen(p) \/ FifoOpenFails(p) \/ FifoReset(p)

Next == \E p \in Sessions : Client(p) \/ Program(p) \/ Deliver(p) \/ Handler(p)

Spec == Init /\ [][Next]_vars

\* The scheduler runs every process, and the kernel delivers what was sent to
\* it.  Nothing is assumed of the clients.
Fairness ==
  \A p \in Sessions :
    WF_vars(Program(p)) /\ WF_vars(Deliver(p)) /\ WF_vars(Handler(p))

FairSpec == Spec /\ Fairness

-----------------------------------------------------------------------------
(* Properties *)

TypeSession ==
  /\ pc \in [Sessions -> PCs]
  /\ row \in [Sessions -> Rows] /\ myId \in [Sessions -> Rows]
  /\ tgt \in [Sessions -> Rows]
  /\ job \in [Sessions -> {"login", "yell", "tell", "none"}]
  /\ aim \in [Sessions -> SUBSET Sessions]
  /\ typed \in [Sessions -> 0..MaxTyped]
  /\ client \in [Sessions -> {"none", "open", "closed"}]
  /\ shells \in [Sessions -> {"single", "nested", "headless"}]

TypeSignals ==
  /\ pend \in [Sessions -> SUBSET {"USR1", "USR2"}]
  /\ frames \in [Sessions -> Seq(Frame)]

TypeTable ==
  /\ isUsed \in [Rows -> BOOLEAN]
  /\ pid \in [Rows -> Sessions \cup {None}] /\ nick \in [Rows -> Sessions \cup {None}]
  /\ messages \in [Rows -> [Rows -> Message \cup {None}]]
  /\ msgSender \in [Rows -> Rows]
  /\ fifoName \in [Rows -> [Rows -> Fifo \cup {None}]]
  /\ readFifoFd \in [Rows -> [Rows -> Reader \cup {None}]]

TypeSystem ==
  /\ files \subseteq Fifo /\ openRd \subseteq Reader
  /\ shown \in [Sessions -> Seq(Message)]
  /\ serverUp \in BOOLEAN

TypeOK == TypeSession /\ TypeSignals /\ TypeTable /\ TypeSystem

\* No two sessions have the same id ("All IDs must be distinct", hw2.txt).
\* Login looks for a free row and takes it in two steps.
IdsDistinct ==
  \A p, q \in Sessions : p # q /\ Holds(p) /\ Holds(q) => row[p] # row[q]

\* A row is marked used exactly while some session has it: a logout frees its
\* own row only, and a row whose session ended without a logout stays marked
\* and is given to nobody else.
MarkedIffOwned ==
  \A r \in Ids : isUsed[r] <=> \E p \in Sessions : Owns(p) /\ row[p] = r

\* Half of it survives even sessions that release their row twice: a marked row
\* has an owner.
MarkedIsOwned ==
  \A r \in Ids : isUsed[r] => \E p \in Sessions : Owns(p) /\ row[p] = r

\* The pid in a row is that of the session that has it, so that a signal to
\* the user reaches that session.
PidOfHolder ==
  \A p \in Sessions : Holds(p) /\ pc[p] # "fill" => pid[row[p]] = p

\* Why the ids are distinct when connections are accepted one at a time: only
\* one session is between the test and the mark of a row, the row it found is
\* still free, and rows of owners are marked.  A nested shell would break it.
SerialInv ==
  /\ \A p \in Sessions : shells[p] = "single"
  /\ \A p, q \in Sessions : pc[p] \in Choosing /\ pc[q] \in Choosing => p = q
  /\ \A p \in Sessions : pc[p] = "claim" => ~isUsed[row[p]]
  /\ \A p \in Sessions : Owns(p) => isUsed[row[p]]
  /\ \A p, q \in Sessions : Owns(p) /\ Owns(q) /\ row[p] = row[q] => p = q

\* The table implements the registry of ids.
holder == [r \in Ids |->
             IF \E p \in Sessions : Owns(p) /\ row[p] = r
             THEN CHOOSE p \in Sessions : Owns(p) /\ row[p] = r
             ELSE None]

Registry == INSTANCE IdRegistry WITH holder <- holder
RegistrySpec == Registry!Spec

\* A client sees the lines of one user in the order they were typed and each
\* at most once, whatever signals coalesce or go astray.
ShownInOrder ==
  \A p \in Sessions : \A i, j \in DOMAIN shown[p] :
    i < j /\ shown[p][i].by = shown[p][j].by => shown[p][i].n < shown[p][j].n

\* A client is shown a message only if it had the id when the message passed
\* ras_tell's test
\* ("send only to <user> the message <message>", hw2.txt).
ShownToUserOnly ==
  \A p \in Sessions : \A i \in DOMAIN shown[p] : p \in shown[p][i].to

\* The descriptor a user keeps for the pipe from user s is one of its own, open
\* on the very fifo user s writes to, even if signals were coalesced and the
\* sender read by the handler is not the one that raised it.
ReadsItsPipe ==
  \A r, s \in Rows : LET fd == readFifoFd[r][s] IN
    fd # None =>
      /\ fd.fifo = fifoName[s][r]
      /\ myId[fd.rd] = r
      /\ Running(fd.rd) => fd \in openRd

\* Every fifo in /tmp is the current pipe of its two users: none is left behind.
FilesNamed ==
  \A f \in files : f = fifoName[row[f.by]][f.to]

\* A connection gets as far as the shell, is refused, or ends.
LoginEnds ==
  \A p \in Sessions : pc[p] = "probe" ~> (myId[p] # 0 \/ pc[p] \in Ended)

\* When the client is gone its process ends ("the forked process of server MUST
\* be killed when the connection to the client is closed", hw1Spec.txt).
HangupEndsProcess ==
  \A p \in Sessions : client[p] = "closed" ~> pc[p] \in Ended

\* SIGUSR2 makes the other client open the pipe for reading, so that the writer
\* gets through ("force another client create a fd reader", server.cpp).
WriterGetsThrough ==
  \A p \in Sessions : pc[p] = "pkill" ~> pc[p] # "spin" /\ pc[p] # "pkill"
=============================================================================

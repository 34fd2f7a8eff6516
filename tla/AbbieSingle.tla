---------------------------- MODULE AbbieSingle ----------------------------
(***************************************************************************)
(* The chat server in one process, ABbie/server_single.cpp: a select loop  *)
(* that accepts at most one connection a round and then serves one line of *)
(* each client that was ready.  Users pipe to each other through fifos     *)
(* both of whose ends the server opens.                                    *)
(*                                                                         *)
(* A step is one pass of the loop's body for one row: nothing else runs in *)
(* the process meanwhile, only clients act.  A descriptor is named by the  *)
(* connection or fifo it belongs to.                                       *)
(*                                                                         *)
(* Left out: texts, nicknames and environments, lines of several commands, *)
(* numbered pipes and files (they concern one user only), how much fits    *)
(* into a fifo, ids outside the table in ">n" and "<n".                    *)
(***************************************************************************)
EXTENDS Integers, Sequences, FiniteSets

CONSTANTS
  Sessions,   \* the connections that may be made
  MaxId,      \* the highest client id (30 in the code)
  Lines,      \* the lines the clients may type
  MaxTyped,   \* bound: lines a client types
  MaxStarts,  \* bound: times the server is started
  None        \* nobody, no descriptor

Ids  == 1..MaxId
Over == MaxId + 1    \* the row behind the table that a login at full house takes
Rows == 1..Over

\* "talk": who, tell, yell, name; "eat": a program that reads the client's
\* lines; "run": any other, reading pipe #rd and writing pipe #wr (0: neither).
Line == [kind : {"talk", "exit", "eat", "run"}, rd : 0..MaxId, wr : 0..MaxId]

ASSUME MaxIdPositive   == MaxId \in Nat \ {0}
ASSUME MaxTypedNatural == MaxTyped \in Nat
ASSUME MaxStartsPositive == MaxStarts \in Nat \ {0}
ASSUME LinesKnown      == Lines \subseteq Line
ASSUME NoneIsNoSession == None \notin Sessions

VARIABLES
  \* the server
  pc,         \* "select", "accept", "clients" (row id is next), "child" (waiting
              \* for a program that reads its client), "down"
  id,         \* the loop variable
  used, sock, \* columns of gUsers
  fifoName,   \* fifoName[s][r]: the name is not empty; it is a function of s and r
  readFifoFd, \* readFifoFd[r][s]: the fifo this descriptor was opened on
  conMax,     \* con_max
  afds, rfds, \* the clients select watches, and those it reported
  openRd,     \* fifos the server has open for reading
  starts,     \* times the server was started
  \* outside of it
  files,      \* the fifos that have a name in /tmp
  backlog,    \* connections to accept
  client,     \* "none", "open", "closed" by the client, "gone": closed by both
  inbox,      \* lines the client sent that are not read yet
  partial,    \* the client has sent the beginning of a line
  typed       \* lines begun so far

table  == <<used, sock, fifoName, readFifoFd, openRd>>
loop   == <<pc, id, conMax, afds, rfds, starts>>
net    == <<backlog, client, inbox, partial, typed>>
vars   == <<loop, table, files, net>>

Fifo == [s : Rows, r : Ids, from : Sessions, to : Sessions]

Empty == [s \in Rows |-> [r \in Rows |-> FALSE]]

Init ==
  /\ pc = "select" /\ id = 1 /\ conMax = 0 /\ afds = {} /\ rfds = {} /\ starts = 1
  /\ used = [r \in Rows |-> FALSE]
  /\ sock = [r \in Rows |-> None]
  /\ fifoName = Empty
  /\ readFifoFd = [r \in Rows |-> [s \in Rows |-> None]]
  /\ openRd = {} /\ files = {} /\ backlog = <<>>
  /\ client = [p \in Sessions |-> "none"]
  /\ inbox = [p \in Sessions |-> <<>>]
  /\ partial = [p \in Sessions |-> FALSE]
  /\ typed = [p \in Sessions |-> 0]

-----------------------------------------------------------------------------
(* Clients *)

Connect(p) ==
  /\ client[p] = "none" /\ pc # "down"
  /\ client' = [client EXCEPT ![p] = "open"]
  /\ backlog' = Append(backlog, p)
  /\ UNCHANGED <<loop, table, files, inbox, partial, typed>>

BeginLine(p) ==
  /\ client[p] = "open" /\ ~partial[p] /\ typed[p] < MaxTyped
  /\ partial' = [partial EXCEPT ![p] = TRUE]
  /\ typed' = [typed EXCEPT ![p] = @ + 1]
  /\ UNCHANGED <<loop, table, files, backlog, client, inbox>>

EndLine(p, l) ==
  /\ client[p] = "open" /\ partial[p]
  /\ partial' = [partial EXCEPT ![p] = FALSE]
  /\ inbox' = [inbox EXCEPT ![p] = Append(@, l)]
  /\ UNCHANGED <<loop, table, files, backlog, client, typed>>

Hangup(p) ==
  /\ client[p] = "open"
  /\ client' = [client EXCEPT ![p] = "closed"]
  /\ UNCHANGED <<loop, table, files, backlog, inbox, partial, typed>>

Readable(p) == inbox[p] # <<>> \/ partial[p] \/ client[p] = "closed"

-----------------------------------------------------------------------------
(* The loop: select, accept *)

\* Mutant: every client is taken to be ready.
Select_All ==
  /\ pc = "select"
  /\ backlog # <<>> \/ \E p \in afds : Readable(p)
  /\ rfds' = afds
  /\ pc' = IF backlog # <<>> THEN "accept" ELSE "clients"
  /\ id' = 1
  /\ UNCHANGED <<conMax, afds, starts, table, files, net>>

Select ==
  /\ pc = "select"
  /\ backlog # <<>> \/ \E p \in afds : Readable(p)
  /\ rfds' = {p \in afds : Readable(p)}
  /\ pc' = IF backlog # <<>> THEN "accept" ELSE "clients"
  /\ id' = 1
  /\ UNCHANGED <<conMax, afds, starts, table, files, net>>

\* Mutant: the first row, used or not.
FirstFree_NoTest(r) == r = 1

\* for( id = 1 ; gUsers[id].used && id < 31 ; id++ );
FirstFree(r) == (r = Over \/ ~used[r]) /\ \A q \in 1..(r - 1) : used[q]

Greater(a, b) == IF a > b THEN a ELSE b

\* Mutant: con_max is the last id given.
Accept_LastId(r) ==
  LET p == Head(backlog) IN
  /\ pc = "accept" /\ FirstFree(r)
  /\ backlog' = Tail(backlog)
  /\ used' = [used EXCEPT ![r] = TRUE]
  /\ sock' = [sock EXCEPT ![r] = p]
  /\ fifoName' = [fifoName EXCEPT ![r] = Empty[r]]
  /\ afds' = afds \cup {p}
  /\ conMax' = r
  /\ pc' = "clients"
  /\ UNCHANGED <<id, rfds, starts, readFifoFd, openRd, files, client, inbox, partial, typed>>

\* accept and login; a row's numbers in readFifoFd stay what they were.
Accept(r) ==
  LET p == Head(backlog) IN
  /\ pc = "accept" /\ FirstFree(r)
  /\ backlog' = Tail(backlog)
  /\ used' = [used EXCEPT ![r] = TRUE]
  /\ sock' = [sock EXCEPT ![r] = p]
  /\ fifoName' = [fifoName EXCEPT ![r] = Empty[r]]
  /\ afds' = afds \cup {p}
  /\ conMax' = Greater(r, conMax)
  /\ pc' = "clients"
  /\ UNCHANGED <<id, rfds, starts, readFifoFd, openRd, files, client, inbox, partial, typed>>

\* gUsers[31] is not in the array: the process may not survive writing it.
LoginOverrun ==
  /\ pc = "accept" /\ FirstFree(Over)
  /\ pc' = "down"
  /\ UNCHANGED <<id, conMax, afds, rfds, starts, table, files, net>>

-----------------------------------------------------------------------------
(* The loop: one row *)

Serving == pc = "clients" /\ id <= conMax /\ used[id] /\ sock[id] \in rfds
me      == sock[id]
HasLine == Serving /\ inbox[me] # <<>>
line    == Head(inbox[me])

Next1   == pc' = "clients" /\ id' = id + 1
Consume == inbox' = [inbox EXCEPT ![me] = Tail(@)]

\* Mutant: the loop ends before con_max.
EndRound_Early ==
  /\ pc = "clients" /\ id >= conMax
  /\ pc' = "select"
  /\ UNCHANGED <<id, conMax, afds, rfds, starts, table, files, net>>

EndRound ==
  /\ pc = "clients" /\ id > conMax
  /\ pc' = "select"
  /\ UNCHANGED <<id, conMax, afds, rfds, starts, table, files, net>>

\* Mutant: the loop does not end.
SkipRow_NoBound ==
  /\ pc = "clients" /\ ~Serving
  /\ Next1
  /\ UNCHANGED <<conMax, afds, rfds, starts, table, files, net>>

SkipRow ==
  /\ pc = "clients" /\ id <= conMax /\ ~Serving
  /\ Next1
  /\ UNCHANGED <<conMax, afds, rfds, starts, table, files, net>>

\* cmd_fifo: what the line asks for is possible.
CanRead  == line.rd # 0 => fifoName[line.rd][id]
CanWrite == line.wr # 0 => used[line.wr] /\ ~fifoName[id][line.wr]

\* A line that only writes to clients: a message, or an error of cmd_fifo.
Talk ==
  /\ HasLine
  /\ line.kind = "talk" \/ (line.kind = "run" /\ ~(CanRead /\ CanWrite))
  /\ Consume /\ Next1
  /\ UNCHANGED <<conMax, afds, rfds, starts, table, files, backlog, client, partial, typed>>

\* mkfifo fails if a file of that name is there.
NameTaken == line.wr # 0 /\ \E f \in files : f.s = id /\ f.r = line.wr

Piping == HasLine /\ line.kind = "run" /\ CanRead /\ CanWrite /\ ~NameTaken

Made    == {[s |-> id, r |-> r, from |-> me, to |-> sock[r]] : r \in {line.wr} \cap Ids}
Read(f) == f.s = line.rd /\ f.r = id

\* Mutant: the pipe that was read keeps its name.
Run_KeepsName ==
  /\ Piping
  /\ readFifoFd' = [r \in Rows |-> [s \in Rows |->
                      IF s = id /\ r = line.wr THEN CHOOSE f \in Made : TRUE
                      ELSE readFifoFd[r][s]]]
  /\ openRd' = (openRd \cup Made) \ {readFifoFd[id][s] : s \in {line.rd} \cap Ids}
  /\ files' = {f \in files \cup Made : ~Read(f)}
  /\ fifoName' = [s \in Rows |-> [r \in Rows |-> fifoName[s][r] \/ (s = id /\ r = line.wr)]]
  /\ Consume /\ Next1
  /\ UNCHANGED <<conMax, afds, rfds, starts, used, sock, backlog, client, partial, typed>>

\* write_fifo names and opens the new pipe, the program runs, the pipe that was
\* read is closed and unlinked.
Run ==
  /\ Piping
  /\ readFifoFd' = [r \in Rows |-> [s \in Rows |->
                      IF s = id /\ r = line.wr THEN CHOOSE f \in Made : TRUE
                      ELSE readFifoFd[r][s]]]
  /\ openRd' = (openRd \cup Made) \ {readFifoFd[id][s] : s \in {line.rd} \cap Ids}
  /\ files' = {f \in files \cup Made : ~Read(f)}
  /\ fifoName' = [s \in Rows |-> [r \in Rows |->
                    IF s = id /\ r = line.wr THEN TRUE
                    ELSE fifoName[s][r] /\ ~(s = line.rd /\ r = id)]]
  /\ Consume /\ Next1
  /\ UNCHANGED <<conMax, afds, rfds, starts, used, sock, backlog, client, partial, typed>>

FifoError ==
  /\ HasLine /\ line.kind = "run" /\ CanRead /\ CanWrite /\ NameTaken
  /\ pc' = "down"
  /\ UNCHANGED <<id, conMax, afds, rfds, starts, table, files, net>>

\* A program that reads its client's lines: the server waits for it, and it
\* ends with them.
Eat ==
  /\ HasLine /\ line.kind = "eat"
  /\ Consume
  /\ pc' = "child"
  /\ UNCHANGED <<id, conMax, afds, rfds, starts, table, files, backlog, client, partial, typed>>

EatingEnds ==
  /\ pc = "child" /\ client[me] = "closed"
  /\ inbox' = [inbox EXCEPT ![me] = <<>>]
  /\ partial' = [partial EXCEPT ![me] = FALSE]
  /\ Next1
  /\ UNCHANGED <<conMax, afds, rfds, starts, table, files, backlog, client, typed>>

\* Mutant: only the pipes from the user go.
Ends_FromOnly(i, s, r) == s # r /\ s = i /\ used[r]

\* logout: the pipes between the user and the others who are there go.
Ends(i, s, r) ==
  /\ s # r
  /\ \/ s = i /\ used[r]
     \/ r = i /\ s \in Ids /\ used[s]

\* "exit", or read_line fails: the client closed and sent no further line.
Logout ==
  LET p == me IN
  /\ Serving
  /\ IF inbox[p] # <<>> THEN line.kind = "exit" ELSE client[p] = "closed"
  /\ conMax' = IF id = conMax THEN conMax - 1 ELSE conMax
  /\ afds' = afds \ {p}
  /\ files' = {f \in files : ~(fifoName[f.s][f.r] /\ Ends(id, f.s, f.r))}
  /\ fifoName' = [s \in Rows |-> [r \in Rows |-> fifoName[s][r] /\ ~Ends(id, s, r)]]
  /\ used' = [used EXCEPT ![id] = FALSE]
  /\ client' = [client EXCEPT ![p] = "gone"]
  /\ inbox' = [inbox EXCEPT ![p] = <<>>]
  /\ partial' = [partial EXCEPT ![p] = FALSE]
  /\ Next1
  /\ UNCHANGED <<rfds, starts, sock, readFifoFd, openRd, backlog, typed>>

-----------------------------------------------------------------------------
(* The server ends and is started again *)

\* Whom the current step writes to.
Everyone == {sock[r] : r \in {q \in Ids : used[q]}}
Plain    == line.kind = "run" /\ ((line.rd = 0 /\ line.wr = 0) \/ ~(CanRead /\ CanWrite))
Audience ==
  CASE pc = "accept"                -> Everyone \cup {Head(backlog)}
    [] pc = "child"                 -> {me}
    [] HasLine /\ line.kind = "eat" -> {}
    [] HasLine /\ Plain             -> {me}
    [] OTHER                        -> Everyone \cup {me}

\* A write to a client that is gone fails or raises SIGPIPE: before a fifo is
\* made, when it has been made, or at the prompt.
WriteFails ==
  /\ \/ pc \in {"accept", "child"} \/ HasLine
     \/ Serving /\ client[me] = "closed"
  /\ \E p \in Audience : client[p] = "closed"
  /\ pc' = "down"
  /\ \/ UNCHANGED files
     \/ Piping /\ files' = files \cup Made
     \/ Piping /\ client[me] = "closed" /\ files' = {f \in files \cup Made : ~Read(f)}
  /\ UNCHANGED <<id, conMax, afds, rfds, starts, table, net>>

\* Started again: the table is new, the files in /tmp are not.
Restart ==
  /\ pc = "down" /\ starts < MaxStarts
  /\ pc' = "select" /\ id' = 1 /\ conMax' = 0 /\ afds' = {} /\ rfds' = {}
  /\ starts' = starts + 1
  /\ used' = [r \in Rows |-> FALSE]
  /\ sock' = [r \in Rows |-> None]
  /\ fifoName' = Empty
  /\ readFifoFd' = [r \in Rows |-> [s \in Rows |-> None]]
  /\ openRd' = {} /\ backlog' = <<>>
  /\ client' = [p \in Sessions |-> IF client[p] = "none" THEN "none" ELSE "gone"]
  /\ inbox' = [p \in Sessions |-> <<>>]
  /\ partial' = [p \in Sessions |-> FALSE]
  /\ UNCHANGED <<files, typed>>

-----------------------------------------------------------------------------
Client(p) == Connect(p) \/ BeginLine(p) \/ (\E l \in Lines : EndLine(p, l)) \/ Hangup(p)

Server ==
  \/ Select \/ (\E r \in Rows : Accept(r)) \/ LoginOverrun \/ EndRound \/ SkipRow \/ Talk \/ Run \/ FifoError
  \/ Eat \/ EatingEnds \/ Logout \/ WriteFails

Next == Server \/ Restart \/ \E p \in Sessions : Client(p)

Spec == Init /\ [][Next]_vars

\* The process is scheduled; nothing is assumed of clients or operators.
FairSpec == Spec /\ WF_vars(Server)

-----------------------------------------------------------------------------
(* Properties *)

TypeOK ==
  /\ pc \in {"select", "accept", "clients", "child", "down"}
  /\ id \in 1..(MaxId + 2) /\ conMax \in 0..Over
  /\ afds \subseteq Sessions /\ rfds \subseteq Sessions /\ starts \in 1..MaxStarts
  /\ used \in [Rows -> BOOLEAN] /\ sock \in [Rows -> Sessions \cup {None}]
  /\ fifoName \in [Rows -> [Rows -> BOOLEAN]]
  /\ readFifoFd \in [Rows -> [Rows -> Fifo \cup {None}]]
  /\ openRd \subseteq Fifo /\ files \subseteq Fifo
  /\ backlog \in Seq(Sessions)
  /\ client \in [Sessions -> {"none", "open", "closed", "gone"}]
  /\ inbox \in [Sessions -> Seq(Line)]
  /\ partial \in [Sessions -> BOOLEAN] /\ typed \in [Sessions -> 0..MaxTyped]

\* The loop over clients ends at con_max, which a logout lowers by one at most:
\* no user is behind it, and select watches the users and nobody else.
EveryUserIsServed ==
  pc # "down" =>
    /\ \A r \in Rows : used[r] => r <= conMax /\ sock[r] \in afds
    /\ \A p \in afds : \E r \in Rows : used[r] /\ sock[r] = p

\* A pipe that has a name can be read: its file is there and the descriptor the
\* reader keeps is open on it.  It was made by the session that has the one id
\* for the session that has the other, never for an earlier user of the row.
PipesArePresent ==
  pc # "down" =>
    \A s, r \in Ids : fifoName[s][r] /\ used[s] /\ used[r] =>
      LET f == readFifoFd[r][s] IN
        /\ f \in openRd /\ f \in files
        /\ f.from = sock[s] /\ f.to = sock[r]

\* Every file in /tmp is a pipe of two users who are there.
FilesOfUsers ==
  pc # "down" => \A f \in files : f.s \in Ids => fifoName[f.s][f.r] /\ used[f.s] /\ used[f.r]

\* The server does not stop in read: a client it serves has sent something.
NeverReadsIdle == Serving => Readable(me)

\* The rows implement the registry of ids; when the server ends all are free.
holder == [r \in Ids |-> IF pc # "down" /\ used[r] THEN sock[r] ELSE None]
Registry == INSTANCE IdRegistry WITH holder <- holder
RegistrySpec == Registry!Spec

\* Every line and every hangup is dealt with, unless the server ends or stands
\* still for somebody: a client that leaves a line unfinished, or whose program
\* reads its lines.
Waiting(p) == inbox[p] # <<>> \/ client[p] = "closed"
Stalled    == pc \in {"down", "child"} \/ \E p \in Sessions : partial[p] /\ client[p] = "open"
LinesAreServed == \A p \in Sessions : Waiting(p) ~> ~Waiting(p) \/ Stalled
=============================================================================

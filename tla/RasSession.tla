----------------------------- MODULE RasSession -----------------------------
(***************************************************************************)
(* Project 1 from outside: the server (NP_Project1/server.cpp), the loop   *)
(* of the shells it forks (main of simple_shell.cpp) and the test client   *)
(* (testing_data/client.c), which sends the next line of its script when   *)
(* it has read a prompt.                                                   *)
(*                                                                         *)
(* What a line does is RasShell's subject; here a line is "exit" or        *)
(* another command, which may print something that looks like a prompt.    *)
(*                                                                         *)
(* Left out: lines longer than the client's buffers.                       *)
(***************************************************************************)
EXTENDS Naturals, Sequences

CONSTANTS
  Sessions,  \* the clients, each with the shell that is forked for it
  None,
  Scripts,   \* the scripts a client may be given
  MaxFakes   \* bound: texts like a prompt that commands print in a session

Server == "server"
Line   == {"command", "exit"}

ASSUME SessionsNamed  == None \notin Sessions /\ Server \notin Sessions
ASSUME ScriptsOfLines == Scripts \subseteq Seq(Line)
ASSUME FakesNatural   == MaxFakes \in Nat

VARIABLES
  backlog,  \* connections that wait for accept
  serving,  \* childfd: the connection the server has taken, or None
  forked,   \* the server is behind its fork
  shell,    \* "none", "forked", "prompt", "run", "loops" (exec failed), "zombie"
  held,     \* held[p]: processes with a descriptor on connection p
  up,       \* up[p]: lines on their way to the shell
  down,     \* down[p]: prompts and other texts on their way to the client
  client,   \* "none", "open", "ended" (exit(0)), "failed" (exit(1), killed)
  script,   \* what is left of the script
  gSc,      \* the client has seen a prompt
  fakes     \* texts like a prompt printed so far

server == <<backlog, serving, forked>>
wires  == <<held, up, down>>
user   == <<client, script, gSc>>
vars   == <<server, shell, wires, user, fakes>>

Init ==
  /\ backlog = <<>> /\ serving = None /\ forked = FALSE
  /\ shell = [p \in Sessions |-> "none"]
  /\ held = [p \in Sessions |-> {}]
  /\ up = [p \in Sessions |-> <<>>] /\ down = [p \in Sessions |-> <<>>]
  /\ client = [p \in Sessions |-> "none"]
  /\ script \in [Sessions -> Scripts]
  /\ gSc = [p \in Sessions |-> FALSE]
  /\ fakes = [p \in Sessions |-> 0]

-----------------------------------------------------------------------------
(* The server *)

Accept ==
  /\ serving = None /\ backlog # <<>>
  /\ serving' = Head(backlog) /\ backlog' = Tail(backlog)
  /\ held' = [held EXCEPT ![Head(backlog)] = {Server}]
  /\ UNCHANGED <<forked, shell, up, down, user, fakes>>

\* The child inherits every connection the server has open.
Fork ==
  /\ serving # None /\ ~forked
  /\ forked' = TRUE
  /\ shell' = [shell EXCEPT ![serving] = "forked"]
  /\ held' = [q \in Sessions |-> IF Server \in held[q] THEN held[q] \cup {serving} ELSE held[q]]
  /\ UNCHANGED <<backlog, serving, up, down, user, fakes>>

\* The kernel has no room for a process (nobody waits for the shells that ended:
\* each stays in its table), and fork's -1 is taken for a child's pid.
ForkFails ==
  /\ serving # None /\ ~forked
  /\ forked' = TRUE
  /\ UNCHANGED <<backlog, serving, shell, wires, user, fakes>>

\* Mutant: the server keeps the connection open.
CloseChild_Keeps ==
  /\ serving # None /\ forked
  /\ serving' = None /\ forked' = FALSE
  /\ UNCHANGED <<backlog, shell, wires, user, fakes>>

CloseChild ==
  /\ serving # None /\ forked
  /\ held' = [held EXCEPT ![serving] = @ \ {Server}]
  /\ serving' = None /\ forked' = FALSE
  /\ UNCHANGED <<backlog, shell, up, down, user, fakes>>

-----------------------------------------------------------------------------
(* The shell of session p *)

Prompt(p) == [down EXCEPT ![p] = Append(@, "prompt")]

Exec(p) ==
  /\ shell[p] = "forked"
  /\ shell' = [shell EXCEPT ![p] = "prompt"]
  /\ down' = Prompt(p)
  /\ UNCHANGED <<server, held, up, user, fakes>>

\* The child goes on with the server's loop, on a socket it has closed, and
\* complains to its client for ever (what it writes is left out).
ExecFails(p) ==
  /\ shell[p] = "forked"
  /\ shell' = [shell EXCEPT ![p] = "loops"]
  /\ UNCHANGED <<server, wires, user, fakes>>

\* A process ends: the kernel closes what it has.
End(p) ==
  /\ shell' = [shell EXCEPT ![p] = "zombie"]
  /\ held' = [q \in Sessions |-> held[q] \ {p}]

Gone(p) == client[p] \in {"ended", "failed"}

\* getline
ReadLine(p) ==
  /\ shell[p] = "prompt" /\ up[p] # <<>>
  /\ up' = [up EXCEPT ![p] = Tail(@)]
  /\ IF Head(up[p]) = "exit" THEN End(p)
     ELSE shell' = [shell EXCEPT ![p] = "run"] /\ UNCHANGED held
  /\ UNCHANGED <<server, down, user, fakes>>

\* Mutant: the shell does not look for the end of its input.
ReadEnd_Ignored(p) == FALSE /\ ReadLine(p)

ReadEnd(p) ==
  /\ shell[p] = "prompt" /\ up[p] = <<>> /\ Gone(p)
  /\ End(p)
  /\ UNCHANGED <<server, up, down, user, fakes>>

\* A command prints what looks like a prompt.
Fake(p) ==
  /\ shell[p] = "run" /\ fakes[p] < MaxFakes
  /\ fakes' = [fakes EXCEPT ![p] = @ + 1]
  /\ down' = Prompt(p)
  /\ UNCHANGED <<server, shell, held, up, user>>

RunLine(p) ==
  /\ shell[p] = "run"
  /\ shell' = [shell EXCEPT ![p] = "prompt"]
  /\ down' = Prompt(p)
  /\ UNCHANGED <<server, held, up, user, fakes>>

\* SIGPIPE: a process that writes to a client that is gone.
WriteFails(p) ==
  /\ shell[p] \in {"forked", "run", "loops"} /\ Gone(p)
  /\ End(p)
  /\ UNCHANGED <<server, up, down, user, fakes>>

-----------------------------------------------------------------------------
(* The client of session p *)

Connect(p) ==
  /\ client[p] = "none"
  /\ client' = [client EXCEPT ![p] = "open"]
  /\ backlog' = Append(backlog, p)
  /\ UNCHANGED <<serving, forked, shell, wires, script, gSc, fakes>>

\* Mutant: gSc is not reset.
Send_KeepsFlag(p) ==
  /\ client[p] = "open" /\ gSc[p] /\ Len(up[p]) < 2
  /\ script' = [script EXCEPT ![p] = IF @ = <<>> THEN <<>> ELSE Tail(@)]
  /\ up' = [up EXCEPT ![p] = Append(@, IF script[p] = <<>> THEN "command" ELSE Head(script[p]))]
  /\ UNCHANGED <<server, shell, held, down, client, gSc, fakes>>

\* The next line of the script; an empty one when there is none, for ever.
Send(p) ==
  /\ client[p] = "open" /\ gSc[p]
  /\ gSc' = [gSc EXCEPT ![p] = FALSE]
  /\ script' = [script EXCEPT ![p] = IF @ = <<>> THEN <<>> ELSE Tail(@)]
  /\ up' = [up EXCEPT ![p] = Append(@, IF script[p] = <<>> THEN "command" ELSE Head(script[p]))]
  /\ UNCHANGED <<server, shell, held, down, client, fakes>>

\* recv_msg
Receive(p) ==
  /\ client[p] = "open" /\ ~gSc[p] /\ down[p] # <<>>
  /\ down' = [down EXCEPT ![p] = Tail(@)]
  /\ gSc' = [gSc EXCEPT ![p] = TRUE]
  /\ UNCHANGED <<server, shell, held, up, client, script, fakes>>

\* The connection has no other end any more.
Closed(p) == held[p] = {} /\ \A i \in DOMAIN backlog : backlog[i] # p

\* End of file, or an error if the shell left lines unread: exit.
SeeEnd(p) ==
  /\ client[p] = "open" /\ Closed(p)
  /\ \/ ~gSc[p] /\ down[p] = <<>>
     \/ up[p] # <<>>
  /\ client' = [client EXCEPT ![p] = IF up[p] = <<>> THEN "ended" ELSE "failed"]
  /\ UNCHANGED <<server, shell, wires, script, gSc, fakes>>

\* Somebody stops the client.
Kill(p) ==
  /\ client[p] = "open"
  /\ client' = [client EXCEPT ![p] = "failed"]
  /\ UNCHANGED <<server, shell, wires, script, gSc, fakes>>

-----------------------------------------------------------------------------
Serve    == Accept \/ Fork \/ ForkFails \/ CloseChild
Shell(p) ==
  \/ Exec(p) \/ ExecFails(p) \/ ReadLine(p) \/ ReadEnd(p) \/ Fake(p)
  \/ RunLine(p) \/ WriteFails(p)
Client(p) == Send(p) \/ Receive(p) \/ SeeEnd(p)

Next == Serve \/ \E p \in Sessions : Shell(p) \/ Client(p) \/ Connect(p) \/ Kill(p)

\* The kernel schedules the processes; people need not start clients or stop them.
Spec ==
  /\ Init /\ [][Next]_vars
  /\ WF_vars(Serve)
  /\ \A p \in Sessions : WF_vars(Shell(p)) /\ WF_vars(Client(p))

-----------------------------------------------------------------------------
TypeOK ==
  /\ backlog \in Seq(Sessions) /\ serving \in Sessions \cup {None} /\ forked \in BOOLEAN
  /\ shell \in [Sessions -> {"none", "forked", "prompt", "run", "loops", "zombie"}]
  /\ held \in [Sessions -> SUBSET (Sessions \cup {Server})]
  /\ up \in [Sessions -> Seq(Line)] /\ down \in [Sessions -> Seq({"prompt"})]
  /\ client \in [Sessions -> {"none", "open", "ended", "failed"}]
  /\ script \in [Sessions -> Seq(Line)]
  /\ gSc \in [Sessions -> BOOLEAN]
  /\ fakes \in [Sessions -> 0..MaxFakes]
  /\ \A p \in Sessions : Len(up[p]) + Len(down[p]) + (IF gSc[p] THEN 1 ELSE 0) <= 1 + MaxFakes

\* The client sees the end of its session when its own shell ends, whatever the
\* shells forked before and after it inherit ("Close the connection between the
\* server and the client immediately", hw1Spec.txt).
ConnectionEnds ==
  \A p \in Sessions : shell[p] = "zombie" /\ serving # p => Closed(p)

\* A client whose script has an "exit" comes to its end, even when commands print
\* texts like a prompt and the client runs ahead; unless ./bin/mybash cannot be run.
SessionEnds ==
  \A p \in Sessions :
    client[p] = "open" /\ (\E i \in DOMAIN script[p] : script[p][i] = "exit")
      ~> Gone(p) \/ shell[p] = "loops"

\* "the forked process of server MUST be killed when the connection to the client
\* is closed" (hw1Spec.txt)
HangupEndsShell ==
  \A p \in Sessions : Gone(p) ~> shell[p] \in {"none", "zombie"} /\ Closed(p)
=============================================================================

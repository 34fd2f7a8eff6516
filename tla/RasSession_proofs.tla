------------------------- MODULE RasSession_proofs -------------------------
(***************************************************************************)
(* Theorems about RasSession, for any number of clients, any scripts and   *)
(* any number of texts like a prompt.                                      *)
(***************************************************************************)
EXTENDS RasSession, TLAPS

Types ==
  /\ backlog \in Seq(Sessions) /\ serving \in Sessions \cup {None} /\ forked \in BOOLEAN
  /\ shell \in [Sessions -> {"none", "forked", "prompt", "run", "loops", "zombie"}]
  /\ held \in [Sessions -> SUBSET (Sessions \cup {Server})]
  /\ up \in [Sessions -> Seq(Line)] /\ down \in [Sessions -> Seq({"prompt"})]
  /\ client \in [Sessions -> {"none", "open", "ended", "failed"}]
  /\ script \in [Sessions -> Seq(Line)]
  /\ gSc \in [Sessions -> BOOLEAN]
  /\ fakes \in [Sessions -> 0..MaxFakes]

\* A shell has the turn when the next prompt is to come from it, without a line.
Turn(p) == IF shell[p] \in {"none", "forked", "run"} THEN 1 ELSE 0

\* The client has seen a prompt that it has not answered.
Seen(p) == IF gSc[p] THEN 1 ELSE 0

\* Each prompt on the way, each one the client has seen and each line on the way
\* takes the shell's turn; only texts like a prompt add to them.
Turns ==
  \A p \in Sessions :
    Len(up[p]) + Len(down[p]) + Seen(p) + Turn(p) <= 1 + fakes[p]

\* A connection is in the backlog, with the server, or with its shell.
Distinct == \A i, j \in 1..Len(backlog) : backlog[i] = backlog[j] => i = j
Waiting ==
  \A i \in 1..Len(backlog) :
    shell[backlog[i]] = "none" /\ serving # backlog[i] /\ client[backlog[i]] # "none"
Taken ==
  /\ forked => serving \in Sessions
  /\ ~forked /\ serving \in Sessions => shell[serving] = "none"
Owned ==
  \A p \in Sessions :
    /\ held[p] \subseteq {p, Server}
    /\ Server \in held[p] => serving = p
    /\ p \in held[p] => shell[p] \notin {"none", "zombie"}
    /\ client[p] = "none" => shell[p] = "none" /\ serving # p
Places == Distinct /\ Waiting /\ Taken /\ Owned

-----------------------------------------------------------------------------
(* Types and turns *)

\* One turn, and nothing else.
LEMMA One ==
  \A a, b, c, d, f : a = 0 /\ b = 0 /\ c = 0 /\ d = 1 /\ f = 0 => a + b + c + d <= 1 + f
OBVIOUS

\* Initially nothing is on the way.
LEMMA InitTypes == Init => Types /\ Turns
<1> SUFFICES ASSUME Init PROVE Types /\ Turns
  OBVIOUS
<1>1. script \in [Sessions -> Seq(Line)]
  BY ScriptsOfLines DEF Init
<1>2. Types
  <2>1. /\ <<>> \in Seq(Sessions) /\ <<>> \in Seq(Line) /\ <<>> \in Seq({"prompt"})
        /\ 0 \in 0..MaxFakes
    BY FakesNatural
  <2> QED BY <1>1, <2>1 DEF Init, Types
<1>3. \A p \in Sessions : Len(up[p]) = 0 /\ Len(down[p]) = 0
  BY DEF Init
<1>4. \A p \in Sessions : Seen(p) = 0 /\ Turn(p) = 1 /\ fakes[p] = 0
  BY DEF Init, Seen, Turn
<1>5. Turns
  <2> SUFFICES ASSUME NEW p \in Sessions
               PROVE  Len(up[p]) + Len(down[p]) + Seen(p) + Turn(p) <= 1 + fakes[p]
    BY DEF Turns
  <2> QED BY <1>3, <1>4, One, Zenon
<1> QED BY <1>2, <1>5

\* A queue that is appended to or read from.
LEMMA Queues ==
  ASSUME NEW T, NEW q \in Seq(T)
  PROVE  /\ Len(q) \in Nat
         /\ \A e \in T : Append(q, e) \in Seq(T) /\ Len(Append(q, e)) = Len(q) + 1
         /\ q # <<>> => Head(q) \in T /\ Tail(q) \in Seq(T) /\ Len(Tail(q)) = Len(q) - 1
OBVIOUS

\* Without the shell's turn there is not more.
LEMMA Fewer ==
  \A a, b, f \in Nat, c, d \in 0..1 : a + b + c + d <= 1 + f => a + b + c + 0 <= 1 + f
OBVIOUS

\* There is not more than the bound on texts like a prompt allows.
LEMMA Most ==
  \A a, b, f, m \in Nat, c, d \in 0..1 :
    a + b + c + d <= 1 + f /\ f <= m => a + b + c <= 1 + m
OBVIOUS

\* The server's steps.
LEMMA ServeTypes == Types /\ Turns /\ Places /\ Serve => Types' /\ Turns'
<1> SUFFICES ASSUME Types, Turns, Places, Serve PROVE Types' /\ Turns'
  OBVIOUS
<1>1. CASE Accept
  <2>1. Head(backlog) \in Sessions /\ Tail(backlog) \in Seq(Sessions)
    BY <1>1, Queues DEF Accept, Types
  <2>2. Types'
    BY <1>1, <2>1 DEF Accept, Types, user
  <2> QED BY <1>1, <2>2 DEF Accept, Turns, Turn, Seen, user
<1>2. CASE Fork
  <2>1. serving \in Sessions
    BY <1>2 DEF Fork, Types
  <2>2. Types'
    BY <1>2, <2>1 DEF Fork, Types, user
  <2>3. \A p \in Sessions : Turn(p)' = Turn(p)
    BY <1>2, <2>1 DEF Fork, Types, Places, Taken, Turn
  <2>4. \A p \in Sessions : Seen(p)' = Seen(p)
    BY <1>2 DEF Fork, Seen, user
  <2> QED BY <1>2, <2>2, <2>3, <2>4 DEF Fork, Turns
<1>3. CASE ForkFails
  BY <1>3 DEF ForkFails, Types, Turns, Turn, Seen, user, wires
<1>4. CASE CloseChild
  BY <1>4 DEF CloseChild, Types, Turns, Turn, Seen, user
<1> QED BY <1>1, <1>2, <1>3, <1>4 DEF Serve
\* A process that ends.
LEMMA EndTypes ==
  ASSUME NEW p \in Sessions, Types, End(p)
  PROVE  /\ shell' \in [Sessions -> {"none", "forked", "prompt", "run", "loops", "zombie"}]
         /\ held' \in [Sessions -> SUBSET (Sessions \cup {Server})]
         /\ shell'[p] = "zombie" /\ \A q \in Sessions \ {p} : shell'[q] = shell[q]
<1>1. shell' = [shell EXCEPT ![p] = "zombie"]
  BY DEF End
<1>2. \A q \in Sessions : held[q] \ {p} \in SUBSET (Sessions \cup {Server})
  BY DEF Types
<1>3. held' \in [Sessions -> SUBSET (Sessions \cup {Server})]
  BY <1>2 DEF End
<1> QED BY <1>1, <1>3 DEF Types

\* The shell's steps.
LEMMA ShellTypes ==
  ASSUME NEW p \in Sessions, Types, Turns, Shell(p)
  PROVE  Types' /\ Turns'
<1>1. /\ Len(up[p]) \in Nat /\ Len(down[p]) \in Nat /\ fakes[p] \in 0..MaxFakes
      /\ Append(down[p], "prompt") \in Seq({"prompt"})
      /\ Len(Append(down[p], "prompt")) = Len(down[p]) + 1
  BY Queues DEF Types
<1>2. Len(up[p]) + Len(down[p]) + Seen(p) + Turn(p) <= 1 + fakes[p] /\ Seen(p) \in 0..1
  <2>1. Seen(p) \in 0..1
    BY DEF Seen
  <2> QED BY <2>1 DEF Turns
<1>3. UNCHANGED <<server, user>> /\ \A q \in Sessions : Seen(q)' = Seen(q)
  BY DEF Shell, Exec, ExecFails, ReadLine, ReadEnd, Fake, RunLine, WriteFails, user, Seen
<1>4. SUFFICES /\ shell' \in [Sessions -> {"none", "forked", "prompt", "run", "loops", "zombie"}]
               /\ held' \in [Sessions -> SUBSET (Sessions \cup {Server})]
               /\ up' \in [Sessions -> Seq(Line)] /\ down' \in [Sessions -> Seq({"prompt"})]
               /\ fakes' \in [Sessions -> 0..MaxFakes]
               /\ Len(up'[p]) + Len(down'[p]) + Seen(p) + Turn(p)' <= 1 + fakes'[p]
               /\ \A q \in Sessions \ {p} :
                    up'[q] = up[q] /\ down'[q] = down[q] /\ fakes'[q] = fakes[q] /\ Turn(q)' = Turn(q)
  <2>1. Types'
    BY <1>3, <1>4 DEF Types, server, user
  <2>2. Turns'
    BY <1>3, <1>4 DEF Turns
  <2> QED BY <2>1, <2>2
<1>5. CASE Exec(p)
  BY <1>1, <1>2, <1>5 DEF Exec, Prompt, Turn, Types
<1>6. CASE ExecFails(p)
  BY <1>1, <1>2, <1>6 DEF ExecFails, wires, Turn, Types
<1>7. CASE ReadLine(p)
  <2>1. up' = [up EXCEPT ![p] = Tail(@)] /\ Tail(up[p]) \in Seq(Line) /\ Len(Tail(up[p])) = Len(up[p]) - 1
    BY <1>7, Queues DEF ReadLine, Types
  <2>2. /\ shell' \in [Sessions -> {"none", "forked", "prompt", "run", "loops", "zombie"}]
        /\ held' \in [Sessions -> SUBSET (Sessions \cup {Server})]
        /\ \A q \in Sessions \ {p} : shell'[q] = shell[q]
    BY <1>7, EndTypes DEF ReadLine, Types
  <2>3. Turn(p) = 0 /\ Turn(p)' \in 0..1
    BY <1>7 DEF ReadLine, Turn
  <2>4. \A q \in Sessions \ {p} : Turn(q)' = Turn(q)
    BY <2>2 DEF Turn
  <2>5. up' \in [Sessions -> Seq(Line)] /\ up'[p] = Tail(up[p]) /\ \A q \in Sessions \ {p} : up'[q] = up[q]
    BY <2>1 DEF Types
  <2>6. down' = down /\ fakes' = fakes
    BY <1>7 DEF ReadLine
  <2>7. Len(up'[p]) + Len(down'[p]) + Seen(p) + Turn(p)' <= 1 + fakes'[p]
    BY <1>1, <1>2, <2>1, <2>3, <2>5, <2>6
  <2> QED BY <2>2, <2>4, <2>5, <2>6, <2>7 DEF Types
<1>8. CASE ReadEnd(p) \/ WriteFails(p)
  <2>1. End(p) /\ up' = up /\ down' = down /\ fakes' = fakes
    BY <1>8 DEF ReadEnd, WriteFails
  <2>2. Turn(p)' = 0 /\ Turn(p) \in 0..1 /\ \A q \in Sessions \ {p} : Turn(q)' = Turn(q)
    BY <2>1, EndTypes DEF Turn
  <2>3. Len(up'[p]) + Len(down'[p]) + Seen(p) + Turn(p)' <= 1 + fakes'[p]
    <3>1. fakes[p] \in Nat
      BY <1>1, FakesNatural
    <3>2. Len(up[p]) + Len(down[p]) + Seen(p) + 0 <= 1 + fakes[p]
      BY <1>1, <1>2, <2>2, <3>1, Fewer, Zenon
    <3> QED BY <3>2, <2>1, <2>2, Zenon
  <2> QED BY <2>1, <2>2, <2>3, EndTypes DEF Types
<1>9. CASE Fake(p)
  <2>1. fakes[p] + 1 \in 0..MaxFakes
    BY <1>1, <1>9, FakesNatural DEF Fake
  <2> QED BY <1>1, <1>2, <1>9, <2>1 DEF Fake, Prompt, Turn, Types
<1>10. CASE RunLine(p)
  BY <1>1, <1>2, <1>10 DEF RunLine, Prompt, Turn, Types
<1> QED BY <1>5, <1>6, <1>7, <1>8, <1>9, <1>10 DEF Shell

\* The client's steps.
LEMMA ClientTypes ==
  ASSUME NEW p \in Sessions, Types, Turns, Client(p) \/ Connect(p) \/ Kill(p)
  PROVE  Types' /\ Turns'
<1> USE DEF Types, server
<1>1. /\ Len(up[p]) \in Nat /\ Len(down[p]) \in Nat /\ fakes[p] \in 0..MaxFakes
      /\ \A l \in Line : /\ Append(up[p], l) \in Seq(Line)
                         /\ Len(Append(up[p], l)) = Len(up[p]) + 1
  BY Queues
<1>2. Len(up[p]) + Len(down[p]) + Seen(p) + Turn(p) <= 1 + fakes[p] /\ Turn(p) \in 0..1
  BY DEF Turns, Turn
<1>3. CASE Send(p)
  <2>1. (IF script[p] = <<>> THEN <<>> ELSE Tail(script[p])) \in Seq(Line)
    BY Queues
  <2>2. (IF script[p] = <<>> THEN "command" ELSE Head(script[p])) \in Line
    BY Queues DEF Line
  <2>3. Types'
    BY <1>1, <1>3, <2>1, <2>2 DEF Send
  <2>4. \A q \in Sessions : Turn(q)' = Turn(q)
    BY <1>3 DEF Send, Turn
  <2>5. Len(up'[p]) = Len(up[p]) + 1 /\ Seen(p) = 1 /\ Seen(p)' = 0
    BY <1>1, <1>3, <2>2 DEF Send, Seen
  <2>6. \A q \in Sessions \ {p} : up'[q] = up[q] /\ Seen(q)' = Seen(q)
    BY <1>3 DEF Send, Seen
  <2>7. down' = down /\ fakes' = fakes
    BY <1>3 DEF Send
  <2>8. Len(up'[p]) + Len(down'[p]) + Seen(p)' + Turn(p)' <= 1 + fakes'[p]
    BY <1>1, <1>2, <2>4, <2>5, <2>7
  <2>9. Turns'
    BY <2>4, <2>6, <2>7, <2>8 DEF Turns
  <2> QED BY <2>3, <2>9
<1>4. CASE Receive(p)
  <2>1. Tail(down[p]) \in Seq({"prompt"}) /\ Len(Tail(down[p])) = Len(down[p]) - 1
    BY <1>4, Queues DEF Receive
  <2>2. Types'
    BY <1>4, <2>1 DEF Receive
  <2>3. \A q \in Sessions : Turn(q)' = Turn(q)
    BY <1>4 DEF Receive, Turn
  <2>4. \A q \in Sessions \ {p} : down'[q] = down[q] /\ Seen(q)' = Seen(q)
    BY <1>4 DEF Receive, Seen
  <2>5. up' = up /\ fakes' = fakes
    BY <1>4 DEF Receive
  <2>6. Seen(p) = 0 /\ Seen(p)' = 1 /\ down'[p] = Tail(down[p])
    BY <1>4 DEF Receive, Seen
  <2>7. Len(up'[p]) + Len(down'[p]) + Seen(p)' + Turn(p)' <= 1 + fakes'[p]
    BY <1>1, <1>2, <2>1, <2>3, <2>5, <2>6
  <2>8. Turns'
    BY <2>3, <2>4, <2>5, <2>7 DEF Turns
  <2> QED BY <2>2, <2>8
<1>5. CASE SeeEnd(p) \/ Kill(p)
  BY <1>5 DEF SeeEnd, Kill, wires, Turns, Turn, Seen
<1>6. CASE Connect(p)
  <2>1. Append(backlog, p) \in Seq(Sessions)
    BY Queues
  <2> QED BY <1>6, <2>1 DEF Connect, wires, Turns, Turn, Seen
<1> QED BY <1>3, <1>4, <1>5, <1>6 DEF Client

-----------------------------------------------------------------------------
(* Places *)

LEMMA InitPlaces == Init => Places
BY SessionsNamed DEF Init, Places, Distinct, Waiting, Taken, Owned

\* The server's steps.
LEMMA AcceptPlaces == Types /\ Places /\ Accept => Places'
<1> SUFFICES ASSUME Types, Places, Accept PROVE Places'
  OBVIOUS
<1>1. /\ Len(backlog) \in Nat \ {0} /\ Head(backlog) = backlog[1] /\ backlog[1] \in Sessions
      /\ Len(Tail(backlog)) = Len(backlog) - 1
      /\ \A i \in 1..Len(Tail(backlog)) : Tail(backlog)[i] = backlog[i + 1]
  BY DEF Accept, Types
<1>2. /\ backlog' = Tail(backlog) /\ serving' = backlog[1] /\ serving = None
      /\ held' = [held EXCEPT ![backlog[1]] = {Server}]
      /\ forked' = forked /\ shell' = shell /\ client' = client
  BY <1>1 DEF Accept, user
<1>3. \A i \in 1..Len(backlog') : i \in Nat /\ i + 1 \in 1..Len(backlog) /\ i + 1 # 1 /\ backlog'[i] = backlog[i + 1]
  BY <1>1, <1>2
<1>4. 1 \in 1..Len(backlog)
  BY <1>1
<1>5. Distinct'
  <2> SUFFICES ASSUME NEW i \in 1..Len(backlog'), NEW j \in 1..Len(backlog'), backlog'[i] = backlog'[j]
               PROVE  i = j
    BY DEF Distinct
  <2>1. i + 1 = j + 1
    BY <1>3 DEF Distinct, Places
  <2> QED BY <1>3, <2>1
<1>6. Waiting'
  <2> SUFFICES ASSUME NEW i \in 1..Len(backlog')
               PROVE  /\ shell'[backlog'[i]] = "none" /\ serving' # backlog'[i]
                      /\ client'[backlog'[i]] # "none"
    BY DEF Waiting
  <2>1. backlog[i + 1] # backlog[1]
    BY <1>3, <1>4 DEF Distinct, Places
  <2>2. shell[backlog[i + 1]] = "none" /\ client[backlog[i + 1]] # "none"
    BY <1>3 DEF Waiting, Places
  <2> QED BY <1>2, <1>3, <2>1, <2>2
<1>7. shell[backlog[1]] = "none" /\ client[backlog[1]] # "none"
  BY <1>4 DEF Waiting, Places
<1>8. Taken'
  BY <1>1, <1>2, <1>7, SessionsNamed DEF Taken, Places
<1>9. Owned'
  <2> SUFFICES ASSUME NEW p \in Sessions
               PROVE  /\ held'[p] \subseteq {p, Server}
                      /\ Server \in held'[p] => serving' = p
                      /\ p \in held'[p] => shell[p] \notin {"none", "zombie"}
                      /\ client[p] = "none" => shell[p] = "none" /\ serving' # p
    BY <1>2 DEF Owned
  <2>1. CASE p = backlog[1]
    BY <1>1, <1>2, <1>7, <2>1, SessionsNamed DEF Types
  <2>2. CASE p # backlog[1]
    <3>1. held'[p] = held[p]
      BY <1>2, <2>2 DEF Types
    <3>2. Server \notin held[p]
      BY <1>2, SessionsNamed DEF Owned, Places
    <3> QED BY <1>2, <2>2, <3>1, <3>2 DEF Owned, Places
  <2> QED BY <2>1, <2>2
<1> QED BY <1>5, <1>6, <1>8, <1>9 DEF Places

LEMMA ForkPlaces == Types /\ Places /\ Fork => Places'
<1> SUFFICES ASSUME Types, Places, Fork PROVE Places'
  OBVIOUS
<1>1. backlog' = backlog /\ serving' = serving /\ client' = client /\ forked' /\ ~forked
  BY DEF Fork, user
<1>2. serving \in Sessions
  BY DEF Fork, Types
<1>3. shell[serving] = "none" /\ client[serving] # "none"
  BY <1>1, <1>2 DEF Taken, Owned, Places
<1>4. shell'[serving] = "forked" /\ \A q \in Sessions \ {serving} : shell'[q] = shell[q]
  BY <1>2 DEF Fork, Types
<1>5. /\ held'[serving] \subseteq held[serving] \cup {serving}
      /\ \A q \in Sessions \ {serving} : Server \notin held[q] /\ held'[q] = held[q]
  BY <1>2 DEF Fork, Owned, Places
<1>6. Waiting'
  <2> SUFFICES ASSUME NEW i \in 1..Len(backlog)
               PROVE  shell'[backlog[i]] = "none" /\ serving # backlog[i] /\ client[backlog[i]] # "none"
    BY <1>1 DEF Waiting
  <2>1. shell[backlog[i]] = "none" /\ serving # backlog[i] /\ client[backlog[i]] # "none"
    BY DEF Waiting, Places
  <2>2. backlog[i] \in Sessions
    BY DEF Types
  <2> QED BY <1>4, <2>1, <2>2
<1>7. Owned'
  <2> SUFFICES ASSUME NEW p \in Sessions
               PROVE  /\ held'[p] \subseteq {p, Server}
                      /\ Server \in held'[p] => serving = p
                      /\ p \in held'[p] => shell'[p] \notin {"none", "zombie"}
                      /\ client[p] = "none" => shell'[p] = "none" /\ serving # p
    BY <1>1 DEF Owned
  <2>1. CASE p = serving
    BY <1>3, <1>4, <1>5, <2>1 DEF Owned, Places
  <2>2. CASE p # serving
    <3>1. held'[p] = held[p] /\ shell'[p] = shell[p]
      BY <1>4, <1>5, <2>2
    <3> QED BY <2>2, <3>1 DEF Owned, Places
  <2> QED BY <2>1, <2>2
<1> QED BY <1>1, <1>2, <1>6, <1>7 DEF Places, Distinct, Taken

LEMMA ServePlaces == Types /\ Places /\ Serve => Places'
<1> SUFFICES ASSUME Types, Places, Serve PROVE Places'
  OBVIOUS
<1>1. CASE ForkFails
  <2>1. UNCHANGED <<backlog, serving, shell, held, client>> /\ serving \in Sessions /\ forked'
    BY <1>1 DEF ForkFails, wires, user, Types
  <2> QED BY <2>1 DEF Places, Distinct, Waiting, Taken, Owned
<1>2. CASE CloseChild
  <2>1. /\ backlog' = backlog /\ shell' = shell /\ client' = client
        /\ serving' = None /\ ~forked' /\ serving \in Sessions
        /\ held' = [held EXCEPT ![serving] = @ \ {Server}]
    BY <1>2 DEF CloseChild, user, Types
  <2>2. \A i \in 1..Len(backlog) : backlog[i] \in Sessions
    BY DEF Types
  <2>3. Distinct' /\ Taken'
    BY <2>1, SessionsNamed DEF Places, Distinct, Taken
  <2>4. Waiting'
    BY <2>1, <2>2, SessionsNamed DEF Places, Waiting
  <2>5. Owned'
    <3> SUFFICES ASSUME NEW p \in Sessions
                 PROVE  /\ held'[p] \subseteq {p, Server}
                        /\ Server \notin held'[p]
                        /\ p \in held'[p] => shell[p] \notin {"none", "zombie"}
                        /\ client[p] = "none" => shell[p] = "none" /\ None # p
      BY <2>1 DEF Owned
    <3>1. held'[p] \subseteq held[p]
      BY <2>1 DEF Types
    <3>2. Server \notin held'[p]
      BY <2>1 DEF Types, Owned, Places
    <3> QED BY <3>1, <3>2, SessionsNamed DEF Owned, Places
  <2> QED BY <2>3, <2>4, <2>5 DEF Places
<1> QED BY <1>1, <1>2, AcceptPlaces, ForkPlaces DEF Serve

\* The shell's steps.
LEMMA ShellPlaces ==
  ASSUME NEW p \in Sessions, Types, Places, Shell(p)
  PROVE  Places'
<1>1. /\ backlog' = backlog /\ serving' = serving /\ forked' = forked /\ client' = client
      /\ shell[p] \notin {"none", "zombie"}
  BY DEF Shell, Exec, ExecFails, ReadLine, ReadEnd, Fake, RunLine, WriteFails, server, user
<1>2. \/ held' = held /\ shell'[p] \notin {"none", "zombie"}
      \/ held' = [q \in Sessions |-> held[q] \ {p}] /\ shell'[p] = "zombie"
  BY DEF Shell, Exec, ExecFails, ReadLine, ReadEnd, Fake, RunLine, WriteFails, End, wires, Types
<1>3. \A q \in Sessions \ {p} : shell'[q] = shell[q]
  BY DEF Shell, Exec, ExecFails, ReadLine, ReadEnd, Fake, RunLine, WriteFails, End, wires, Types
<1>4. Waiting'
  <2> SUFFICES ASSUME NEW i \in 1..Len(backlog)
               PROVE  shell'[backlog[i]] = "none" /\ serving # backlog[i] /\ client[backlog[i]] # "none"
    BY <1>1 DEF Waiting
  <2>1. shell[backlog[i]] = "none" /\ serving # backlog[i] /\ client[backlog[i]] # "none"
    BY DEF Waiting, Places
  <2>2. backlog[i] \in Sessions
    BY DEF Types
  <2> QED BY <1>1, <1>3, <2>1, <2>2
<1>5. Taken'
  BY <1>1, <1>3 DEF Taken, Places
<1>6. Owned'
  <2> SUFFICES ASSUME NEW q \in Sessions
               PROVE  /\ held'[q] \subseteq {q, Server}
                      /\ Server \in held'[q] => serving = q
                      /\ q \in held'[q] => shell'[q] \notin {"none", "zombie"}
                      /\ client[q] = "none" => shell'[q] = "none" /\ serving # q
    BY <1>1 DEF Owned
  <2>1. held'[q] \subseteq held[q]
    BY <1>2
  <2>2. client[p] # "none"
    BY <1>1 DEF Owned, Places
  <2>3. CASE q = p
    BY <1>2, <2>1, <2>2, <2>3 DEF Owned, Places
  <2>4. CASE q # p
    BY <1>3, <2>1, <2>4 DEF Owned, Places
  <2> QED BY <2>3, <2>4
<1> QED BY <1>1, <1>4, <1>5, <1>6 DEF Places, Distinct

\* The client's steps.
LEMMA ClientPlaces ==
  ASSUME NEW p \in Sessions, Types, Places, Client(p) \/ Connect(p) \/ Kill(p)
  PROVE  Places'
<1>1. /\ serving' = serving /\ forked' = forked /\ shell' = shell /\ held' = held
      /\ \A q \in Sessions : client'[q] = "none" => client[q] = "none"
  <2>1. serving' = serving /\ forked' = forked /\ shell' = shell /\ held' = held
    BY DEF Client, Send, Receive, SeeEnd, Kill, Connect, server, wires
  <2>2. client' = client \/ \E e \in {"open", "ended", "failed"} : client' = [client EXCEPT ![p] = e]
    BY DEF Client, Send, Receive, SeeEnd, Kill, Connect
  <2>3. client \in [Sessions -> {"none", "open", "ended", "failed"}]
    BY DEF Types
  <2>4. \A q \in Sessions : client'[q] = "none" => client[q] = "none"
    BY <2>2, <2>3
  <2> QED BY <2>1, <2>4
<1>2. Taken' /\ Owned'
  BY <1>1 DEF Taken, Owned, Places
<1>3. \A i \in 1..Len(backlog) :
        /\ backlog[i] \in Sessions /\ shell[backlog[i]] = "none"
        /\ serving # backlog[i] /\ client[backlog[i]] # "none"
  <2>1. \A i \in 1..Len(backlog) : backlog[i] \in Sessions
    BY DEF Types
  <2>2. Waiting
    BY DEF Places
  <2> QED BY <2>1, <2>2 DEF Waiting
<1>4. CASE Client(p) \/ Kill(p)
  <2>1. backlog' = backlog
    BY <1>4 DEF Client, Send, Receive, SeeEnd, Kill, server
  <2> QED BY <1>1, <1>2, <1>3, <2>1 DEF Places, Distinct, Waiting
<1>5. CASE Connect(p)
  <2>1. /\ Len(backlog') = Len(backlog) + 1 /\ Len(backlog) \in Nat
        /\ \A i \in 1..Len(backlog) : backlog'[i] = backlog[i]
        /\ backlog'[Len(backlog) + 1] = p
    BY <1>5 DEF Connect, Types
  <2>2. client[p] = "none" /\ client'[p] # "none" /\ shell[p] = "none" /\ serving # p
    BY <1>5 DEF Connect, Types, Owned, Places
  <2>3. \A i \in 1..Len(backlog') : i \in 1..Len(backlog) \/ i = Len(backlog) + 1
    BY <2>1
  <2>4. Distinct'
    <3> SUFFICES ASSUME NEW i \in 1..Len(backlog'), NEW j \in 1..Len(backlog'), backlog'[i] = backlog'[j]
                 PROVE  i = j
      BY DEF Distinct
    <3>1. CASE i \in 1..Len(backlog) /\ j \in 1..Len(backlog)
      BY <3>1, <2>1 DEF Distinct, Places
    <3>2. CASE i = Len(backlog) + 1 \/ j = Len(backlog) + 1
      BY <1>3, <2>1, <2>2, <2>3, <3>2
    <3> QED BY <2>3, <3>1, <3>2
  <2>5. Waiting'
    <3> SUFFICES ASSUME NEW i \in 1..Len(backlog')
                 PROVE  /\ shell[backlog'[i]] = "none" /\ serving # backlog'[i]
                        /\ client'[backlog'[i]] # "none"
      BY <1>1 DEF Waiting
    <3>1. CASE i \in 1..Len(backlog)
      BY <1>1, <1>3, <2>1, <3>1
    <3>2. CASE i = Len(backlog) + 1
      BY <2>1, <2>2, <3>2
    <3> QED BY <2>3, <3>1, <3>2
  <2> QED BY <1>2, <2>4, <2>5 DEF Places
<1> QED BY <1>4, <1>5

-----------------------------------------------------------------------------
(* The theorems *)

Inv == Types /\ Turns /\ Places

\* The three together are inductive.
LEMMA Inductive == Spec => []Inv
<1>1. Init => Inv
  BY InitTypes, InitPlaces DEF Inv
<1>2. Inv /\ [Next]_vars => Inv'
  <2> SUFFICES ASSUME Types, Turns, Places, [Next]_vars PROVE Types' /\ Turns' /\ Places'
    BY DEF Inv
  <2>1. CASE Next
    BY <2>1, ServeTypes, ShellTypes, ClientTypes, ServePlaces, ShellPlaces, ClientPlaces DEF Next
  <2>2. CASE UNCHANGED vars
    BY <2>2 DEF vars, server, wires, user, Types, Turns, Turn, Seen, Places, Distinct, Waiting, Taken, Owned
  <2> QED BY <2>1, <2>2
<1> QED BY <1>1, <1>2, PTL DEF Spec

\* The types of a session's processes and wires.  What is under way between a
\* client and its shell is bounded: the client sends one line for each prompt,
\* or text that looks like one.
THEOREM TypeCorrect == Spec => []TypeOK
<1>1. Inv => TypeOK
  <2> SUFFICES ASSUME Types, Turns, NEW p \in Sessions
               PROVE  Len(up[p]) + Len(down[p]) + Seen(p) <= 1 + MaxFakes
    BY DEF Inv, TypeOK, Types, Seen
  <2>1. Len(up[p]) \in Nat /\ Len(down[p]) \in Nat /\ fakes[p] \in 0..MaxFakes
    BY Queues DEF Types
  <2>2. Len(up[p]) + Len(down[p]) + Seen(p) + Turn(p) <= 1 + fakes[p]
    BY DEF Turns
  <2>3. Seen(p) \in 0..1 /\ Turn(p) \in 0..1
    BY DEF Seen, Turn
  <2>4. fakes[p] \in Nat /\ fakes[p] <= MaxFakes
    BY <2>1, FakesNatural
  <2> QED BY <2>1, <2>2, <2>3, <2>4, Most, FakesNatural, Zenon
<1> QED BY <1>1, Inductive, PTL

\* A client sees the end of its connection when its own shell has ended, however
\* many shells are forked before and after it.
THEOREM ConnectionsEnd == Spec => []ConnectionEnds
<1>1. Inv => ConnectionEnds
  <2> SUFFICES ASSUME Types, Places, NEW p \in Sessions, shell[p] = "zombie", serving # p
               PROVE  Closed(p)
    BY DEF Inv, ConnectionEnds
  <2>1. held[p] = {}
    BY DEF Owned, Places
  <2>2. DOMAIN backlog = 1..Len(backlog)
    BY DEF Types
  <2>3. \A i \in DOMAIN backlog : backlog[i] # p
    BY <2>2 DEF Waiting, Places
  <2> QED BY <2>1, <2>3 DEF Closed
<1> QED BY <1>1, Inductive, PTL
=============================================================================

------------------------- MODULE AbbieSingle_proofs -------------------------
(***************************************************************************)
(* Theorems about AbbieSingle, for any number of connections, rows, lines  *)
(* and restarts.                                                           *)
(***************************************************************************)
EXTENDS AbbieSingle, FiniteSetTheorems, TLAPS

\* Types, and what the loop's places say about the state.
Places ==
  /\ pc = "accept" => backlog # <<>>
  /\ pc = "child" => id \in 1..conMax /\ used[id]
  /\ \A r \in Rows : used[r] => sock[r] \in Sessions

\* A session is in one row at most, or once in the backlog, and has connected.
Apart ==
  /\ \A r, q \in Rows : used[r] /\ used[q] /\ sock[r] = sock[q] => r = q
  /\ \A i, j \in 1..Len(backlog) : backlog[i] = backlog[j] => i = j
  /\ \A i \in 1..Len(backlog), r \in Rows : used[r] => sock[r] # backlog[i]
  /\ \A i \in 1..Len(backlog) : client[backlog[i]] # "none"
  /\ \A r \in Rows : used[r] => client[sock[r]] # "none"

\* Initially both hold.
LEMMA InitTypes == Init => TypeOK /\ Places /\ Apart
<1> SUFFICES ASSUME Init PROVE TypeOK /\ Places /\ Apart
  OBVIOUS
<1> USE MaxIdPositive, MaxTypedNatural, MaxStartsPositive
<1>1. TypeOK
  BY DEF Init, TypeOK, Empty, Rows, Ids, Over
<1>2. Places
  BY DEF Init, Places
<1>3. Apart
  <2>1. backlog = <<>> /\ Len(backlog) = 0
    BY DEF Init
  <2> QED BY <2>1 DEF Init, Apart
<1> QED BY <1>1, <1>2, <1>3

\* What a row that is served is: a used one, not behind con_max, of a session.
LEMMA ServingRow ==
  ASSUME TypeOK, Places, Serving
  PROVE  /\ id \in Rows /\ id + 1 \in 1..(MaxId + 2) /\ used[id]
         /\ me \in Sessions /\ conMax - 1 \in 0..Over
BY MaxIdPositive DEF TypeOK, Places, Serving, me, Rows, Over

\* The line that is served has the type of a line.
LEMMA ServedLine ==
  ASSUME TypeOK, Places, HasLine
  PROVE  line \in Line /\ Tail(inbox[me]) \in Seq(Line)
<1>1. me \in Sessions /\ inbox[me] \in Seq(Line) /\ inbox[me] # <<>>
  BY ServingRow DEF HasLine, TypeOK
<1>2. Head(inbox[me]) \in Line /\ Tail(inbox[me]) \in Seq(Line)
  BY <1>1
<1> QED BY <1>2 DEF line

\* A pipe that is made is one from the row that is served to a used row.
NewPipe == [s |-> id, r |-> line.wr, from |-> me, to |-> sock[line.wr]]

LEMMA MadePipe ==
  ASSUME TypeOK, Places, Piping
  PROVE  /\ Made \subseteq Fifo
         /\ line.wr \in 0..MaxId /\ line.rd \in 0..MaxId
         /\ line.wr \in Rows => /\ line.wr \in Ids /\ used[line.wr]
                                /\ NewPipe \in Fifo
                                /\ Made = {NewPipe}
                                /\ (CHOOSE f \in Made : TRUE) = NewPipe
<1>1. id \in Rows /\ me \in Sessions /\ line \in Line
  BY ServingRow, ServedLine DEF Piping, HasLine
<1>2. /\ line.wr \in 0..MaxId /\ line.rd \in 0..MaxId
      /\ line.wr # 0 => used[line.wr]
  BY <1>1 DEF Piping, CanWrite, Line
<1>3. line.wr \in Rows => line.wr \in Ids /\ used[line.wr] /\ NewPipe \in Fifo
  BY <1>1, <1>2, MaxIdPositive DEF Ids, Rows, Over, Places, Fifo, NewPipe
<1>4. line.wr \in Ids => line.wr \in Rows
  BY MaxIdPositive DEF Ids, Rows, Over
<1>5. line.wr \in Ids => Made = {NewPipe}
  BY DEF Made, NewPipe
<1>6. line.wr \notin Ids => Made = {}
  BY DEF Made
<1>7. Made \subseteq Fifo
  BY <1>3, <1>4, <1>5, <1>6
<1> QED BY <1>2, <1>3, <1>5, <1>7

-----------------------------------------------------------------------------
(* Type correctness *)

\* What a logout changes keeps the types.
LEMMA LogoutTypes == TypeOK /\ Places /\ Logout => TypeOK'
<1> SUFFICES ASSUME TypeOK, Places, Logout PROVE TypeOK'
  OBVIOUS
<1>1. id + 1 \in 1..(MaxId + 2) /\ conMax' \in 0..Over
  BY ServingRow DEF Logout, TypeOK
<1>2. afds' \subseteq Sessions /\ files' \subseteq Fifo
  BY DEF Logout, TypeOK
<1>3. fifoName' \in [Rows -> [Rows -> BOOLEAN]]
  BY DEF Logout, TypeOK
<1>4. <<>> \in Seq(Line)
  OBVIOUS
<1> QED BY <1>1, <1>2, <1>3, <1>4 DEF Logout, TypeOK, Next1

\* A program that runs keeps the types.
LEMMA RunTypes == TypeOK /\ Places /\ Run => TypeOK'
<1> SUFFICES ASSUME TypeOK, Places, Run PROVE TypeOK'
  OBVIOUS
<1>1. id \in Rows /\ id + 1 \in 1..(MaxId + 2) /\ Tail(inbox[me]) \in Seq(Line)
  BY ServingRow, ServedLine DEF Run, Piping, HasLine
<1>2. Piping /\ Made \subseteq Fifo
  BY MadePipe DEF Run
<1>3. readFifoFd' \in [Rows -> [Rows -> Fifo \cup {None}]]
  <2>1. \A r, s \in Rows : s = id /\ r = line.wr => (CHOOSE f \in Made : TRUE) \in Fifo
    BY <1>2, MadePipe
  <2>2. \A r, s \in Rows : readFifoFd[r][s] \in Fifo \cup {None}
    BY DEF TypeOK
  <2>3. \A r, s \in Rows : (IF s = id /\ r = line.wr THEN CHOOSE f \in Made : TRUE
                            ELSE readFifoFd[r][s]) \in Fifo \cup {None}
    BY <2>1, <2>2
  <2> QED BY <2>3 DEF Run
<1>4. openRd' \subseteq Fifo /\ files' \subseteq Fifo
  BY <1>2 DEF Run, TypeOK
<1>5. fifoName' \in [Rows -> [Rows -> BOOLEAN]]
  BY DEF Run, TypeOK
<1>6. inbox' \in [Sessions -> Seq(Line)]
  BY <1>1 DEF Run, Consume, TypeOK
<1> QED BY <1>1, <1>3, <1>4, <1>5, <1>6 DEF Run, Next1, TypeOK

\* Every step keeps the types.
LEMMA TypeStep == TypeOK /\ Places /\ [Next]_vars => TypeOK'
<1> SUFFICES ASSUME TypeOK, Places, [Next]_vars PROVE TypeOK'
  OBVIOUS
<1> USE MaxIdPositive DEF vars, table, loop, net
<1>1. ASSUME NEW p \in Sessions, Connect(p) PROVE TypeOK'
  BY <1>1 DEF Connect, TypeOK
<1>2. ASSUME NEW p \in Sessions, BeginLine(p) PROVE TypeOK'
  BY <1>2, MaxTypedNatural DEF BeginLine, TypeOK
<1>3. ASSUME NEW p \in Sessions, NEW l \in Lines, EndLine(p, l) PROVE TypeOK'
  BY <1>3, LinesKnown DEF EndLine, TypeOK
<1>4. ASSUME NEW p \in Sessions, Hangup(p) PROVE TypeOK'
  BY <1>4 DEF Hangup, TypeOK
<1>5. CASE Select
  BY <1>5 DEF Select, TypeOK
<1>6. ASSUME NEW r \in Rows, Accept(r) PROVE TypeOK'
  <2>1. Head(backlog) \in Sessions /\ Tail(backlog) \in Seq(Sessions)
    BY <1>6 DEF Accept, Places, TypeOK
  <2>2. Greater(r, conMax) \in 0..Over
    BY DEF Greater, TypeOK, Rows, Over
  <2>3. fifoName' \in [Rows -> [Rows -> BOOLEAN]]
    BY <1>6 DEF Accept, TypeOK, Empty
  <2> QED BY <1>6, <2>1, <2>2, <2>3 DEF Accept, TypeOK
<1>7. CASE LoginOverrun
  BY <1>7 DEF LoginOverrun, TypeOK
<1>8. CASE EndRound
  BY <1>8 DEF EndRound, TypeOK
<1>9. CASE SkipRow
  BY <1>9 DEF SkipRow, Next1, TypeOK, Over
<1>10. CASE Talk
  <2>1. id + 1 \in 1..(MaxId + 2) /\ Tail(inbox[me]) \in Seq(Line)
    BY <1>10, ServingRow, ServedLine DEF Talk, HasLine
  <2> QED BY <1>10, <2>1 DEF Talk, Consume, Next1, TypeOK
<1>11. CASE FifoError
  BY <1>11 DEF FifoError, TypeOK
<1>12. CASE Eat
  <2>1. Tail(inbox[me]) \in Seq(Line)
    BY <1>12, ServedLine DEF Eat
  <2> QED BY <1>12, <2>1 DEF Eat, Consume, TypeOK
<1>13. CASE EatingEnds
  <2>1. id + 1 \in 1..(MaxId + 2) /\ <<>> \in Seq(Line)
    BY <1>13 DEF EatingEnds, Places, TypeOK, Over
  <2> QED BY <1>13, <2>1 DEF EatingEnds, Next1, TypeOK
<1>14. CASE WriteFails
  <2>1. Piping => Made \subseteq Fifo
    BY MadePipe
  <2>2. files' \subseteq Fifo
    BY <1>14, <2>1 DEF WriteFails, TypeOK
  <2> QED BY <1>14, <2>2 DEF WriteFails, TypeOK
<1>15. CASE Restart
  <2>1. starts' \in 1..MaxStarts /\ <<>> \in Seq(Line) /\ <<>> \in Seq(Sessions)
    BY <1>15, MaxStartsPositive DEF Restart, TypeOK
  <2>2. fifoName' \in [Rows -> [Rows -> BOOLEAN]]
    BY <1>15 DEF Restart, Empty
  <2>3. client' \in [Sessions -> {"none", "open", "closed", "gone"}]
    BY <1>15 DEF Restart
  <2> QED BY <1>15, <2>1, <2>2, <2>3 DEF Restart, TypeOK, Over
<1>16. CASE UNCHANGED vars
  BY <1>16 DEF TypeOK
<1> QED BY <1>1, <1>2, <1>3, <1>4, <1>5, <1>6, <1>7, <1>8, <1>9, <1>10, <1>11, <1>12,
           <1>13, <1>14, <1>15, <1>16, RunTypes, LogoutTypes DEF Next, Client, Server

\* Every step keeps what the loop's places say.
LEMMA PlacesStep == TypeOK /\ Places /\ [Next]_vars => Places'
<1> SUFFICES ASSUME TypeOK, Places, [Next]_vars PROVE Places'
  OBVIOUS
<1> USE DEF vars, table, loop, net
<1>1. ASSUME NEW p \in Sessions, Client(p) PROVE Places'
  <2>1. UNCHANGED <<pc, id, conMax, used, sock>>
    BY <1>1 DEF Client, Connect, BeginLine, EndLine, Hangup
  <2>2. backlog' = backlog \/ backlog' = Append(backlog, p)
    BY <1>1 DEF Client, Connect, BeginLine, EndLine, Hangup
  <2>3. backlog # <<>> => backlog' # <<>>
    BY <2>2 DEF TypeOK
  <2> QED BY <2>1, <2>3 DEF Places
<1>2. CASE Select
  BY <1>2 DEF Select, Places
<1>3. ASSUME NEW r \in Rows, Accept(r) PROVE Places'
  <2>1. Head(backlog) \in Sessions
    BY <1>3 DEF Accept, Places, TypeOK
  <2> QED BY <1>3, <2>1 DEF Accept, Places, TypeOK
<1>4. CASE LoginOverrun \/ EndRound \/ FifoError \/ WriteFails
  BY <1>4 DEF LoginOverrun, EndRound, FifoError, WriteFails, Places
<1>5. CASE SkipRow \/ Talk \/ Run \/ EatingEnds
  BY <1>5 DEF SkipRow, Talk, Run, EatingEnds, Next1, Places
<1>6. CASE Eat
  BY <1>6 DEF Eat, HasLine, Serving, Places, TypeOK
<1>7. CASE Logout
  BY <1>7 DEF Logout, Next1, Places, TypeOK
<1>8. CASE Restart
  BY <1>8 DEF Restart, Places
<1>9. CASE UNCHANGED vars
  BY <1>9 DEF Places
<1> QED BY <1>1, <1>2, <1>3, <1>4, <1>5, <1>6, <1>7, <1>8, <1>9 DEF Next, Server

\* THEOREM: every variable of the server keeps its type; the loop accepts only
\* when somebody waits, and a program that reads its client's lines belongs to a
\* user (server_single.cpp: main, login, write_fifo, logout).
THEOREM TypeCorrect == Spec => [](TypeOK /\ Places)
<1>1. Init => TypeOK /\ Places
  BY InitTypes
<1>2. TypeOK /\ Places /\ [Next]_vars => TypeOK' /\ Places'
  BY TypeStep, PlacesStep
<1> QED BY <1>1, <1>2, PTL DEF Spec

-----------------------------------------------------------------------------
(* One id per session, one session per id *)

\* Every step keeps sessions apart.
LEMMA ApartStep == TypeOK /\ Places /\ Apart /\ [Next]_vars => Apart'
<1> SUFFICES ASSUME TypeOK, Places, Apart, [Next]_vars PROVE Apart'
  OBVIOUS
<1> USE DEF vars, table, loop, net
<1>1. ASSUME NEW p \in Sessions, Connect(p) PROVE Apart'
  <2>1. /\ backlog' = Append(backlog, p)
        /\ client[p] = "none" /\ client' = [client EXCEPT ![p] = "open"]
        /\ UNCHANGED <<used, sock>>
    BY <1>1 DEF Connect
  <2>2. /\ Len(backlog') = Len(backlog) + 1 /\ Len(backlog) \in Nat
        /\ backlog'[Len(backlog) + 1] = p
        /\ \A i \in 1..Len(backlog) : backlog'[i] = backlog[i] /\ backlog[i] \in Sessions
    BY <2>1 DEF TypeOK
  <2>3. \A i \in 1..Len(backlog) : backlog[i] # p
    BY <2>1 DEF Apart
  <2>4. \A r \in Rows : used[r] => sock[r] # p /\ sock[r] \in Sessions
    BY <2>1 DEF Apart, Places
  <2>5. \A q \in Sessions : client'[q] = IF q = p THEN "open" ELSE client[q]
    BY <2>1 DEF TypeOK
  <2>6. \A i \in 1..Len(backlog') : i \in 1..Len(backlog) \/ i = Len(backlog) + 1
    BY <2>2
  <2>7. \A i, j \in 1..Len(backlog') : backlog'[i] = backlog'[j] => i = j
    BY <2>2, <2>3, <2>6 DEF Apart
  <2>8. \A i \in 1..Len(backlog'), r \in Rows : used'[r] => sock'[r] # backlog'[i]
    BY <2>1, <2>2, <2>4, <2>6 DEF Apart
  <2>9. \A i \in 1..Len(backlog') : client'[backlog'[i]] # "none"
    BY <2>2, <2>5, <2>6 DEF Apart
  <2>10. \A r \in Rows : used'[r] => client'[sock'[r]] # "none"
    BY <2>1, <2>4, <2>5 DEF Apart
  <2>11. \A r, q \in Rows : used'[r] /\ used'[q] /\ sock'[r] = sock'[q] => r = q
    BY <2>1 DEF Apart
  <2> QED BY ONLY <2>7, <2>8, <2>9, <2>10, <2>11 DEF Apart
<1>2. ASSUME NEW r \in Rows, Accept(r) PROVE Apart'
  <2> DEFINE p == Head(backlog)
  <2>1. /\ backlog' = Tail(backlog) /\ backlog # <<>>
        /\ used' = [used EXCEPT ![r] = TRUE] /\ sock' = [sock EXCEPT ![r] = p]
        /\ UNCHANGED client
    BY <1>2 DEF Accept, Places
  <2>2. /\ Len(backlog') = Len(backlog) - 1 /\ Len(backlog) \in Nat \ {0}
        /\ p = backlog[1] /\ p \in Sessions
        /\ \A i \in 1..Len(backlog') : backlog'[i] = backlog[i + 1]
    BY <2>1 DEF TypeOK
  <2>3. \A i \in 1..Len(backlog') : i + 1 \in 1..Len(backlog) /\ i + 1 # 1
    BY <2>2
  <2>4. \A q \in Rows : /\ used'[q] = (IF q = r THEN TRUE ELSE used[q])
                        /\ sock'[q] = (IF q = r THEN p ELSE sock[q])
    BY <2>1 DEF TypeOK
  <2>5. \A q \in Rows : used[q] => sock[q] # p
    BY <2>2 DEF Apart
  <2>6. \A i, j \in 1..Len(backlog') : i + 1 = j + 1 => i = j
    OBVIOUS
  <2>7. \A i, j \in 1..Len(backlog') : backlog'[i] = backlog'[j] => i = j
    BY <2>2, <2>3, <2>6 DEF Apart
  <2>8. \A i \in 1..Len(backlog') : backlog'[i] # p
    BY <2>2, <2>3 DEF Apart
  <2>9. \A s, q \in Rows : used'[s] /\ used'[q] /\ sock'[s] = sock'[q] => s = q
    BY <2>4, <2>5 DEF Apart
  <2>10. \A i \in 1..Len(backlog'), q \in Rows : used'[q] => sock'[q] # backlog'[i]
    <3>1. \A i \in 1..Len(backlog'), q \in Rows : used[q] => sock[q] # backlog'[i]
      BY <2>2, <2>3 DEF Apart
    <3> QED BY <3>1, <2>4, <2>8
  <2>11. ASSUME NEW i \in 1..Len(backlog') PROVE client'[backlog'[i]] # "none"
    <3>1. backlog'[i] = backlog[i + 1] /\ i + 1 \in 1..Len(backlog) /\ client' = client
      BY <2>1, <2>2, <2>3
    <3>2. \A j \in 1..Len(backlog) : client[backlog[j]] # "none"
      BY DEF Apart
    <3> QED BY ONLY <3>1, <3>2
  <2>12. \A q \in Rows : used'[q] => client'[sock'[q]] # "none"
    <3>1. client[p] # "none"
      BY <2>2 DEF Apart
    <3>2. \A q \in Rows : used[q] => client[sock[q]] # "none"
      BY DEF Apart
    <3>3. client' = client
      BY <2>1
    <3> QED BY ONLY <3>1, <3>2, <3>3, <2>4, ZenonT(40)
  <2> QED BY ONLY <2>7, <2>9, <2>10, <2>11, <2>12 DEF Apart
<1>3. CASE Logout
  <2>1. /\ UNCHANGED <<backlog, sock>>
        /\ used' = [used EXCEPT ![id] = FALSE] /\ client' = [client EXCEPT ![me] = "gone"]
    BY <1>3 DEF Logout
  <2>2. /\ \A r \in Rows : used'[r] => used[r]
        /\ \A q \in Sessions : client'[q] = client[q] \/ client'[q] = "gone"
    BY <2>1 DEF TypeOK
  <2>3. \A i \in 1..Len(backlog) : backlog[i] \in Sessions
    BY DEF TypeOK
  <2> QED BY <2>1, <2>2, <2>3 DEF Apart, Places
<1>4. ASSUME NEW p \in Sessions, Hangup(p) PROVE Apart'
  <2>1. UNCHANGED <<backlog, used, sock>> /\ client' = [client EXCEPT ![p] = "closed"]
    BY <1>4 DEF Hangup
  <2>2. \A q \in Sessions : client'[q] = client[q] \/ client'[q] = "closed"
    BY <2>1 DEF TypeOK
  <2>3. \A i \in 1..Len(backlog) : backlog[i] \in Sessions
    BY DEF TypeOK
  <2> QED BY <2>1, <2>2, <2>3 DEF Apart, Places
<1>5. CASE Restart
  <2>1. backlog' = <<>> /\ Len(backlog') = 0 /\ \A r \in Rows : ~used'[r]
    BY <1>5 DEF Restart
  <2> QED BY <2>1 DEF Apart
<1>6. CASE UNCHANGED <<backlog, used, sock, client>>
  BY <1>6 DEF Apart
<1>7. ASSUME NEW p \in Sessions, BeginLine(p) \/ \E l \in Lines : EndLine(p, l) PROVE Apart'
  BY <1>6, <1>7 DEF BeginLine, EndLine
<1>8. CASE Select \/ LoginOverrun \/ EndRound \/ SkipRow \/ Talk \/ Run \/ FifoError
           \/ Eat \/ EatingEnds \/ WriteFails
  BY <1>6, <1>8 DEF Select, LoginOverrun, EndRound, SkipRow, Talk, Run, FifoError,
                    Eat, EatingEnds, WriteFails
<1> QED BY <1>1, <1>2, <1>3, <1>4, <1>5, <1>6, <1>7, <1>8 DEF Next, Client, Server

\* A step of the server or of its clients is a step of the registry or leaves it.
LEMMA RegistryStep ==
  TypeOK /\ Places /\ Apart /\ [Next]_vars => [Registry!Next]_holder
<1> SUFFICES ASSUME TypeOK, Places, Apart, [Next]_vars PROVE [Registry!Next]_holder
  OBVIOUS
<1> USE DEF vars, table, loop, net
<1>0. Ids \subseteq Rows
  BY MaxIdPositive DEF Ids, Rows, Over
<1>1. CASE UNCHANGED <<used, sock>> /\ (pc = "down" <=> pc' = "down")
  BY <1>1 DEF holder
<1>2. CASE pc' = "down"
  <2>1. holder' = [r \in Ids |-> None]
    BY <1>2 DEF holder
  <2> QED BY <2>1 DEF Registry!Next, Registry!Reset
<1>3. ASSUME NEW r \in Rows, Accept(r) PROVE [Registry!Next]_holder
  <2> DEFINE p == Head(backlog)
  <2>1. /\ pc # "down" /\ pc' # "down"
        /\ used' = [used EXCEPT ![r] = TRUE] /\ sock' = [sock EXCEPT ![r] = p]
        /\ p \in Sessions /\ p = backlog[1] /\ 1 \in 1..Len(backlog)
    BY <1>3 DEF Accept, Places, TypeOK
  <2>2. CASE r \in Ids
    <3>1. holder[r] = None
      BY <1>3, <2>2, MaxIdPositive DEF Accept, FirstFree, holder, Ids, Over
    <3>2. \A j \in Ids : holder[j] # p
      BY <1>0, <2>1, NoneIsNoSession DEF holder, Apart
    <3>3. holder' = [holder EXCEPT ![r] = p]
      BY <1>0, <2>1, <2>2 DEF holder, TypeOK
    <3>4. Registry!Acquire(p, r)
      BY <3>1, <3>2, <3>3 DEF Registry!Acquire
    <3> QED BY <2>1, <2>2, <3>4 DEF Registry!Next
  <2>3. CASE r \notin Ids
    BY <1>0, <2>1, <2>3 DEF holder, TypeOK
  <2> QED BY <2>2, <2>3
<1>4. CASE Logout
  <2>1. /\ pc # "down" /\ pc' # "down" /\ used[id] /\ id \in Rows
        /\ used' = [used EXCEPT ![id] = FALSE] /\ UNCHANGED sock
    BY <1>4, ServingRow DEF Logout, Next1, Serving
  <2>2. CASE id \in Ids
    <3>1. holder[id] # None
      BY <1>0, <2>1, <2>2, NoneIsNoSession DEF holder, Places
    <3>2. holder' = [holder EXCEPT ![id] = None]
      BY <1>0, <2>1, <2>2 DEF holder, TypeOK
    <3> QED BY <2>2, <3>1, <3>2 DEF Registry!Next, Registry!Release
  <2>3. CASE id \notin Ids
    BY <1>0, <2>1, <2>3 DEF holder, TypeOK
  <2> QED BY <2>2, <2>3
<1>5. CASE Restart
  BY <1>0, <1>5 DEF Restart, holder
<1>6. ASSUME NEW p \in Sessions, Client(p) PROVE [Registry!Next]_holder
  BY <1>1, <1>6 DEF Client, Connect, BeginLine, EndLine, Hangup
<1>7. CASE Select \/ EndRound \/ SkipRow \/ Talk \/ Run \/ Eat \/ EatingEnds
  BY <1>1, <1>7 DEF Select, EndRound, SkipRow, Talk, Run, Eat, EatingEnds, Next1,
                    HasLine, Serving, Piping
<1>8. CASE LoginOverrun \/ FifoError \/ WriteFails
  BY <1>2, <1>8 DEF LoginOverrun, FifoError, WriteFails
<1>9. CASE UNCHANGED vars
  BY <1>1, <1>9
<1> QED BY <1>3, <1>4, <1>5, <1>6, <1>7, <1>8, <1>9 DEF Next, Server

\* THEOREM: the server's table implements the registry of ids: a login gives a
\* free id to a session that has none, only a logout or the server's end frees it
\* (server_single.cpp: login, logout).
THEOREM ImplementsRegistry == Spec => RegistrySpec
<1>1. Init => TypeOK /\ Places /\ Apart /\ Registry!Init
  BY InitTypes, MaxIdPositive DEF Init, Registry!Init, holder, Ids, Rows, Over
<1>2. TypeOK /\ Places /\ Apart /\ [Next]_vars => Apart'
  BY ApartStep
<1> QED BY <1>1, <1>2, TypeCorrect, RegistryStep, PTL
        DEF Spec, RegistrySpec, Registry!Spec

-----------------------------------------------------------------------------
(* The loop over the clients reaches every user *)

Reached == \A r \in Rows : used[r] => r <= conMax /\ sock[r] \in afds
Watched == \A p \in afds : \E r \in Rows : used[r] /\ sock[r] = p

\* What a step changes of the rows that are reached and watched.
Rest == UNCHANGED <<used, sock, conMax, afds>>

LEMMA RestSteps ==
  ASSUME [Next]_vars
  PROVE  Rest \/ (\E r \in Rows : Accept(r)) \/ Logout \/ Restart
<1> USE DEF vars, table, loop, net, Rest
<1>1. ASSUME NEW p \in Sessions, Client(p) PROVE Rest
  BY <1>1 DEF Client, Connect, BeginLine, EndLine, Hangup
<1>2. CASE Select \/ LoginOverrun \/ EndRound \/ SkipRow \/ Talk \/ Run \/ FifoError
           \/ Eat \/ EatingEnds \/ WriteFails
  BY <1>2 DEF Select, LoginOverrun, EndRound, SkipRow, Talk, Run, FifoError,
              Eat, EatingEnds, WriteFails
<1>3. CASE UNCHANGED vars
  BY <1>3
<1> QED BY <1>1, <1>2, <1>3 DEF Next, Server

\* No user is behind con_max, and select watches every user.
LEMMA ReachedStep ==
  TypeOK /\ Places /\ Apart /\ Reached /\ [Next]_vars => Reached'
<1> SUFFICES ASSUME TypeOK, Places, Apart, Reached, [Next]_vars PROVE Reached'
  OBVIOUS
<1>1. ASSUME NEW r \in Rows, Accept(r) PROVE Reached'
  <2> DEFINE p == Head(backlog)
  <2>1. /\ \A q \in Rows : /\ used'[q] = (IF q = r THEN TRUE ELSE used[q])
                           /\ sock'[q] = (IF q = r THEN p ELSE sock[q])
        /\ afds' = afds \cup {p}
    BY <1>1 DEF Accept, TypeOK
  <2>2. r <= conMax' /\ conMax <= conMax' /\ r \in Int /\ conMax \in Int /\ conMax' \in Int
    BY <1>1 DEF Accept, Greater, TypeOK, Rows, Over
  <2>3. \A q \in Rows : q <= conMax => q <= conMax'
    BY <2>2 DEF Rows
  <2> QED BY <2>1, <2>2, <2>3 DEF Reached
<1>2. CASE Logout
  <2>1. /\ id \in Rows /\ used[id] /\ id <= conMax
        /\ \A q \in Rows : used'[q] => used[q] /\ q # id
        /\ UNCHANGED sock /\ afds' = afds \ {me}
        /\ conMax' = IF id = conMax THEN conMax - 1 ELSE conMax
    BY <1>2, ServingRow DEF Logout, TypeOK, Serving
  <2>2. \A q \in Rows : q <= conMax /\ q # id => q <= conMax'
    BY <2>1 DEF TypeOK, Rows, Over
  <2>3. \A q \in Rows : used[q] /\ q # id => sock[q] # me
    BY <2>1 DEF Apart, me
  <2> QED BY <2>1, <2>2, <2>3 DEF Reached
<1>3. CASE Restart
  BY <1>3 DEF Restart, Reached
<1>4. CASE Rest
  BY <1>4 DEF Rest, Reached
<1> QED BY <1>1, <1>2, <1>3, <1>4, RestSteps

\* A login that finds every row used, the one behind the table as well, needs
\* one connection more than there are rows.
LEMMA NoRowTwice ==
  ASSUME IsFiniteSet(Sessions), Cardinality(Sessions) <= MaxId + 1,
         TypeOK, Places, Apart, NEW r \in Rows, Accept(r)
  PROVE  ~used[r]
<1> SUFFICES ASSUME used[r] PROVE FALSE
  OBVIOUS
<1> DEFINE p == Head(backlog)
           T == Sessions \ {p}
           f == [q \in Rows |-> sock[q]]
<1>1. p \in Sessions /\ p = backlog[1] /\ 1 \in 1..Len(backlog)
  BY DEF Accept, Places, TypeOK
<1>2. \A q \in Rows : used[q]
  BY MaxIdPositive DEF Accept, FirstFree, Rows, Over
<1>3. f \in [Rows -> T]
  BY <1>1, <1>2 DEF Places, Apart
<1>4. IsFiniteSet(T) /\ Cardinality(T) = Cardinality(Sessions) - 1
  BY <1>1, FS_RemoveElement
<1>5. IsFiniteSet(Rows) /\ Cardinality(Rows) = MaxId + 1
  BY MaxIdPositive, FS_Interval DEF Rows, Over
<1>6. Cardinality(Sessions) \in Nat
  BY FS_CardinalityType
<1>7. Cardinality(T) < Cardinality(Rows)
  BY <1>4, <1>5, <1>6, MaxIdPositive
<1>8. \E x, y \in Rows : x # y /\ f[x] = f[y]
  <2> HIDE DEF f, T
  <2> QED BY <1>3, <1>4, <1>5, <1>7, FS_PigeonHole
<1> QED BY <1>2, <1>8 DEF Apart

\* Select watches nobody else.
LEMMA WatchedStep ==
  ASSUME IsFiniteSet(Sessions), Cardinality(Sessions) <= MaxId + 1
  PROVE  TypeOK /\ Places /\ Apart /\ Watched /\ [Next]_vars => Watched'
<1> SUFFICES ASSUME TypeOK, Places, Apart, Watched, [Next]_vars PROVE Watched'
  OBVIOUS
<1>1. ASSUME NEW r \in Rows, Accept(r) PROVE Watched'
  <2> DEFINE p == Head(backlog)
  <2>1. /\ \A q \in Rows : /\ used'[q] = (IF q = r THEN TRUE ELSE used[q])
                           /\ sock'[q] = (IF q = r THEN p ELSE sock[q])
        /\ afds' = afds \cup {p}
    BY <1>1 DEF Accept, TypeOK
  <2>2. ~used[r]
    BY <1>1, NoRowTwice
  <2> QED BY <2>1, <2>2, ZenonT(40) DEF Watched
<1>2. CASE Logout
  <2>1. /\ id \in Rows
        /\ \A q \in Rows : used'[q] = (IF q = id THEN FALSE ELSE used[q])
        /\ UNCHANGED sock /\ afds' = afds \ {sock[id]}
    BY <1>2, ServingRow DEF Logout, TypeOK, me
  <2> QED BY <2>1 DEF Watched
<1>3. CASE Restart
  BY <1>3 DEF Restart, Watched
<1>4. CASE Rest
  BY <1>4 DEF Rest, Watched
<1> QED BY <1>1, <1>2, <1>3, <1>4, RestSteps

\* THEOREM: the loop over the clients ends behind the last user, and select
\* watches the users and nobody else, as long as no login overwrites the row
\* behind the table (server_single.cpp: main, login, logout).
THEOREM UsersAreServed ==
  ASSUME IsFiniteSet(Sessions), Cardinality(Sessions) <= MaxId + 1
  PROVE  Spec => []EveryUserIsServed
<1>1. Init => Apart /\ Reached /\ Watched
  BY InitTypes DEF Init, Reached, Watched
<1>2. TypeOK /\ Places /\ Apart /\ Reached /\ Watched /\ [Next]_vars
      => Apart' /\ Reached' /\ Watched'
  BY ApartStep, ReachedStep, WatchedStep
<1>3. Reached /\ Watched => EveryUserIsServed
  BY DEF Reached, Watched, EveryUserIsServed
<1> QED BY <1>1, <1>2, <1>3, TypeCorrect, PTL DEF Spec

-----------------------------------------------------------------------------
(* Pipes between users *)

\* A named pipe from row s to row r is one of the sessions that are there, and
\* all of it is there: name, descriptor and file.
Whole(s, r) ==
  /\ used[s] /\ used[r]
  /\ readFifoFd[r][s] = [s |-> s, r |-> r, from |-> sock[s], to |-> sock[r]]
  /\ readFifoFd[r][s] \in openRd /\ readFifoFd[r][s] \in files

\* A pipe to oneself keeps its name at the logout, until the next login.
PipesWhole ==
  pc # "down" =>
    /\ \A s \in Rows : ~fifoName[s][Over]
    /\ \A s, r \in Ids : fifoName[s][r] /\ (s # r \/ used[s]) => Whole(s, r)

\* What a step changes of the pipes.
Still == UNCHANGED <<used, sock, fifoName, readFifoFd, openRd, files>>

LEMMA PipeSteps ==
  ASSUME [Next]_vars
  PROVE  \/ Still /\ pc' = pc
         \/ Still /\ pc # "down"
         \/ pc' = "down"
         \/ (\E r \in Rows : Accept(r)) \/ Run \/ Logout \/ Restart
<1> USE DEF vars, table, loop, net, Still
<1>1. ASSUME NEW p \in Sessions, Client(p) PROVE Still /\ pc' = pc
  BY <1>1 DEF Client, Connect, BeginLine, EndLine, Hangup
<1>2. CASE LoginOverrun \/ FifoError \/ WriteFails
  BY <1>2 DEF LoginOverrun, FifoError, WriteFails
<1>3. CASE Select \/ EndRound \/ SkipRow \/ Talk \/ Eat \/ EatingEnds
  BY <1>3 DEF Select, EndRound, SkipRow, Talk, Eat, EatingEnds, HasLine, Serving
<1>4. CASE UNCHANGED vars
  BY <1>4
<1> QED BY <1>1, <1>2, <1>3, <1>4 DEF Next, Server

\* A login clears the names of its row; nobody has a pipe to a free row.
LEMMA AcceptPipes ==
  ASSUME TypeOK, Places, PipesWhole, NEW i \in Rows, Accept(i)
  PROVE  PipesWhole'
<1>1. /\ pc # "down" /\ (i \in Ids => ~used[i])
      /\ UNCHANGED <<readFifoFd, openRd, files>>
      /\ \A s \in Rows : /\ used'[s] = (IF s = i THEN TRUE ELSE used[s])
                         /\ sock'[s] = (IF s = i THEN Head(backlog) ELSE sock[s])
      /\ \A s, r \in Rows : fifoName'[s][r] => fifoName[s][r] /\ s # i
  BY MaxIdPositive DEF Accept, FirstFree, TypeOK, Empty, Ids, Over
<1>2. Ids \subseteq Rows /\ Over \in Rows
  BY MaxIdPositive DEF Ids, Rows, Over
<1>3. ASSUME NEW s \in Ids, NEW r \in Ids, fifoName'[s][r], s # r \/ used'[s]
      PROVE  Whole(s, r)'
  <2>1. fifoName[s][r] /\ s # i /\ (s # r \/ used[s])
    BY <1>1, <1>2, <1>3
  <2>2. Whole(s, r)
    BY <1>1, <2>1 DEF PipesWhole
  <2>3. r # i
    BY <1>1, <2>2 DEF Whole
  <2> QED BY <1>1, <1>2, <2>1, <2>2, <2>3 DEF Whole
<1>4. \A s \in Rows : ~fifoName'[s][Over]
  BY <1>1, <1>2 DEF PipesWhole
<1> QED BY <1>3, <1>4 DEF PipesWhole

\* A program makes the pipe it writes to and removes the one it has read.
LEMMA RunPipes ==
  ASSUME TypeOK, Places, PipesWhole, Run
  PROVE  PipesWhole'
<1> DEFINE rd == line.rd
           wr == line.wr
<1>1. Piping /\ pc # "down" /\ used[id] /\ id \in Rows /\ UNCHANGED <<used, sock>>
  BY ServingRow DEF Run, Piping, HasLine, Serving
<1>2. /\ wr \in 0..MaxId /\ rd \in 0..MaxId /\ (wr \in Ids => wr \in Rows)
      /\ rd \in Ids => fifoName[rd][id]
      /\ wr \in Ids => ~fifoName[id][wr]
  BY <1>1, MadePipe, MaxIdPositive DEF Piping, CanRead, CanWrite, Ids, Rows, Over
<1>3. wr \in Ids => /\ used[wr] /\ NewPipe \in Fifo /\ Made = {NewPipe}
                    /\ (CHOOSE f \in Made : TRUE) = NewPipe
  BY <1>1, <1>2, MadePipe
<1>4. Ids \subseteq Rows /\ Over \in Rows /\ Over \notin Ids
  BY MaxIdPositive DEF Ids, Rows, Over
<1>5. \A s, r \in Rows :
        /\ fifoName'[s][r] = (IF s = id /\ r = wr THEN TRUE
                              ELSE fifoName[s][r] /\ ~(s = rd /\ r = id))
        /\ readFifoFd'[r][s] = (IF s = id /\ r = wr THEN CHOOSE f \in Made : TRUE
                                ELSE readFifoFd[r][s])
  BY DEF Run
<1>6. /\ openRd' = (openRd \cup Made) \ {readFifoFd[id][s] : s \in {rd} \cap Ids}
      /\ files' = {f \in files \cup Made : ~(f.s = rd /\ f.r = id)}
  BY DEF Run, Read
<1>7. rd \in Ids => readFifoFd[id][rd].s = rd /\ readFifoFd[id][rd].r = id
  <2>1. SUFFICES ASSUME rd \in Ids
                 PROVE  readFifoFd[id][rd].s = rd /\ readFifoFd[id][rd].r = id
    OBVIOUS
  <2>2. id \in Ids
    <3>1. rd \in Rows /\ ~fifoName[rd][Over]
      BY <1>1, <1>4, <2>1 DEF PipesWhole
    <3>2. id # Over
      BY <1>2, <2>1, <3>1
    <3> QED BY <1>1, <3>2, MaxIdPositive DEF Ids, Rows, Over
  <2>3. Whole(rd, id)
    BY <1>1, <1>2, <2>1, <2>2 DEF PipesWhole
  <2> QED BY <2>3 DEF Whole
<1>8. ASSUME NEW s \in Ids, NEW r \in Ids, fifoName'[s][r], s # r \/ used'[s]
      PROVE  Whole(s, r)'
  <2> DEFINE f == [s |-> s, r |-> r, from |-> sock[s], to |-> sock[r]]
  <2>1. f.s = s /\ f.r = r
    OBVIOUS
  <2>2. CASE s = id /\ r = wr
    <3>1. f = NewPipe /\ f \in Made /\ used[s] /\ used[r]
      BY <1>1, <1>3, <2>2 DEF NewPipe, me
    <3>2. readFifoFd'[r][s] = f
      BY <1>3, <1>4, <1>5, <2>2, <3>1
    <3>3. ~(rd = s /\ id = r)
      BY <1>2, <2>2
    <3>4. f \in openRd' /\ f \in files'
      BY <1>6, <1>7, <2>1, <3>1, <3>3
    <3> QED BY <1>1, <3>1, <3>2, <3>4 DEF Whole
  <2>3. CASE ~(s = id /\ r = wr)
    <3>1. fifoName[s][r] /\ ~(s = rd /\ r = id) /\ readFifoFd'[r][s] = readFifoFd[r][s]
      BY <1>4, <1>5, <1>8, <2>3
    <3>2. Whole(s, r)
      BY <1>1, <1>8, <3>1 DEF PipesWhole
    <3>3. f = readFifoFd[r][s] /\ f \in openRd /\ f \in files
      BY <3>2 DEF Whole
    <3>4. f \in openRd' /\ f \in files'
      BY <1>6, <1>7, <2>1, <3>1, <3>3
    <3> QED BY <1>1, <3>1, <3>2, <3>3, <3>4 DEF Whole
  <2> QED BY <2>2, <2>3
<1>9. \A s \in Rows : ~fifoName'[s][Over]
  <2>1. Over # wr
    BY <1>2, MaxIdPositive DEF Over
  <2> QED BY <1>1, <1>4, <1>5, <2>1 DEF PipesWhole
<1> QED BY <1>8, <1>9 DEF PipesWhole

\* A logout removes the pipes between the row and the others that are used.
LEMMA LogoutPipes ==
  ASSUME TypeOK, Places, PipesWhole, Logout
  PROVE  PipesWhole'
<1>1. /\ pc # "down" /\ id \in Rows /\ used[id]
      /\ UNCHANGED <<sock, readFifoFd, openRd>>
      /\ \A s \in Rows : used'[s] = (IF s = id THEN FALSE ELSE used[s])
  BY ServingRow DEF Logout, Serving, TypeOK
<1>2. Ids \subseteq Rows /\ Over \in Rows
  BY MaxIdPositive DEF Ids, Rows, Over
<1>3. /\ \A s, r \in Rows : fifoName'[s][r] = (fifoName[s][r] /\ ~Ends(id, s, r))
      /\ files' = {f \in files : ~(fifoName[f.s][f.r] /\ Ends(id, f.s, f.r))}
  BY DEF Logout
<1>4. ASSUME NEW s \in Ids, NEW r \in Ids, fifoName'[s][r], s # r \/ used'[s]
      PROVE  Whole(s, r)'
  <2>1. fifoName[s][r] /\ ~Ends(id, s, r) /\ (s # r \/ used[s])
    BY <1>1, <1>2, <1>3, <1>4
  <2>2. Whole(s, r)
    BY <1>1, <2>1 DEF PipesWhole
  <2>3. s # id /\ r # id
    BY <1>1, <1>2, <1>4, <2>1, <2>2 DEF Ends, Whole
  <2>4. readFifoFd[r][s].s = s /\ readFifoFd[r][s].r = r
    BY <2>2 DEF Whole
  <2>5. readFifoFd[r][s] \in files'
    BY <1>3, <2>1, <2>2, <2>4 DEF Whole
  <2> QED BY <1>1, <1>2, <2>2, <2>3, <2>5 DEF Whole
<1>5. \A s \in Rows : ~fifoName'[s][Over]
  BY <1>1, <1>2, <1>3 DEF PipesWhole
<1> QED BY <1>4, <1>5 DEF PipesWhole

\* Every step keeps the pipes whole.
LEMMA PipesStep == TypeOK /\ Places /\ PipesWhole /\ [Next]_vars => PipesWhole'
<1> SUFFICES ASSUME TypeOK, Places, PipesWhole, [Next]_vars PROVE PipesWhole'
  OBVIOUS
<1>1. CASE Still /\ (pc' = pc \/ pc # "down")
  BY <1>1 DEF Still, PipesWhole, Whole
<1>2. CASE pc' = "down"
  BY <1>2 DEF PipesWhole
<1>3. CASE Restart
  BY <1>3, MaxIdPositive DEF Restart, Empty, PipesWhole, Ids, Rows, Over
<1> QED BY <1>1, <1>2, <1>3, AcceptPipes, RunPipes, LogoutPipes, PipeSteps

\* THEOREM: a pipe between two users that has a name can be read: its file is
\* there and the descriptor in the reader's row is open on it, and it was made
\* by the one of them for the other (server_single.cpp: write_fifo, read_cmd,
\* login, logout).
THEOREM PipesCanBeRead == Spec => []PipesArePresent
<1>1. Init => PipesWhole
  BY MaxIdPositive DEF Init, Empty, PipesWhole, Ids, Rows, Over
<1>2. TypeOK /\ Places /\ PipesWhole /\ [Next]_vars => PipesWhole'
  BY PipesStep
<1>3. PipesWhole => PipesArePresent
  <2> SUFFICES ASSUME PipesWhole, pc # "down", NEW s \in Ids, NEW r \in Ids,
                      fifoName[s][r], used[s], used[r]
               PROVE  /\ readFifoFd[r][s] \in openRd /\ readFifoFd[r][s] \in files
                      /\ readFifoFd[r][s].from = sock[s] /\ readFifoFd[r][s].to = sock[r]
    BY DEF PipesArePresent
  <2>1. Whole(s, r)
    BY DEF PipesWhole
  <2> QED BY <2>1 DEF Whole
<1> QED BY <1>1, <1>2, <1>3, TypeCorrect, PTL DEF Spec

-----------------------------------------------------------------------------
(* The server reads only where there is something to read *)

\* A connection that select watches or reported is not one to accept.
Accepted ==
  \A p \in afds \cup rfds :
    client[p] # "none" /\ \A i \in 1..Len(backlog) : backlog[i] # p

\* The loop has not come to row r yet.
Ahead(r) == (pc \in {"accept", "clients"} /\ r >= id) \/ (pc = "child" /\ r > id)

\* What select reported stays true until the row is served.
Reported == \A r \in Rows : Ahead(r) /\ used[r] /\ sock[r] \in rfds => Readable(sock[r])

LEMMA AcceptedStep == TypeOK /\ Places /\ Apart /\ Accepted /\ [Next]_vars => Accepted'
<1> SUFFICES ASSUME TypeOK, Places, Apart, Accepted, [Next]_vars PROVE Accepted'
  OBVIOUS
<1> USE DEF vars, table, loop, net
<1>1. ASSUME NEW p \in Sessions, Connect(p) PROVE Accepted'
  <2>1. /\ backlog' = Append(backlog, p) /\ client[p] = "none"
        /\ client' = [client EXCEPT ![p] = "open"] /\ UNCHANGED <<afds, rfds>>
    BY <1>1 DEF Connect
  <2>2. \A i \in 1..Len(backlog') : backlog'[i] = p \/ (i \in 1..Len(backlog) /\ backlog'[i] = backlog[i])
    BY <2>1 DEF TypeOK
  <2>3. \A q \in Sessions : client'[q] # "none" \/ client'[q] = client[q]
    BY <2>1 DEF TypeOK
  <2> QED BY <2>1, <2>2, <2>3 DEF Accepted, TypeOK
<1>2. ASSUME NEW r \in Rows, Accept(r) PROVE Accepted'
  <2> DEFINE p == Head(backlog)
  <2>1. /\ backlog' = Tail(backlog) /\ UNCHANGED <<rfds, client>> /\ afds' = afds \cup {p}
        /\ p = backlog[1] /\ 1 \in 1..Len(backlog)
    BY <1>2 DEF Accept, Places, TypeOK
  <2>2. \A i \in 1..Len(backlog') : /\ i + 1 \in 1..Len(backlog) /\ i + 1 # 1
                                    /\ backlog'[i] = backlog[i + 1]
    BY <2>1 DEF TypeOK
  <2>3. client[p] # "none" /\ \A i \in 1..Len(backlog') : backlog'[i] # p
    BY <2>1, <2>2 DEF Apart
  <2> QED BY <2>1, <2>2, <2>3 DEF Accepted
<1>3. CASE Logout
  <2>1. /\ UNCHANGED <<backlog, rfds>> /\ afds' \subseteq afds
        /\ client' = [client EXCEPT ![me] = "gone"]
    BY <1>3 DEF Logout
  <2>2. \A q \in Sessions : client'[q] = client[q] \/ client'[q] = "gone"
    BY <2>1 DEF TypeOK
  <2> QED BY <2>1, <2>2 DEF Accepted, TypeOK
<1>4. ASSUME NEW p \in Sessions, Hangup(p) PROVE Accepted'
  <2>1. UNCHANGED <<backlog, afds, rfds>> /\ client' = [client EXCEPT ![p] = "closed"]
    BY <1>4 DEF Hangup
  <2>2. \A q \in Sessions : client'[q] = client[q] \/ client'[q] = "closed"
    BY <2>1 DEF TypeOK
  <2> QED BY <2>1, <2>2 DEF Accepted, TypeOK
<1>5. CASE Restart
  BY <1>5 DEF Restart, Accepted
<1>6. CASE Select
  BY <1>6 DEF Select, Accepted
<1>7. CASE UNCHANGED <<backlog, afds, rfds, client>>
  BY <1>7 DEF Accepted
<1>8. ASSUME NEW p \in Sessions, BeginLine(p) \/ \E l \in Lines : EndLine(p, l) PROVE Accepted'
  BY <1>7, <1>8 DEF BeginLine, EndLine
<1>9. CASE LoginOverrun \/ EndRound \/ SkipRow \/ Talk \/ Run \/ FifoError
           \/ Eat \/ EatingEnds \/ WriteFails
  BY <1>7, <1>9 DEF LoginOverrun, EndRound, SkipRow, Talk, Run, FifoError,
                    Eat, EatingEnds, WriteFails
<1> QED BY <1>1, <1>2, <1>3, <1>4, <1>5, <1>6, <1>7, <1>8, <1>9 DEF Next, Client, Server

\* A row that is served and left behind: the others keep what they have to read.
LEMMA ServedAndLeft ==
  ASSUME TypeOK, Places, Apart, Reported,
         pc \in {"clients", "child"}, used[id], id \in Rows,
         \/ pc' = "clients" /\ id' = id + 1
         \/ pc = "clients" /\ pc' = "child" /\ id' = id,
         UNCHANGED <<sock, rfds>>,
         \A r \in Rows : used'[r] => used[r],
         \A p \in Sessions \ {me} : Readable(p) => Readable(p)'
  PROVE  Reported'
<1> SUFFICES ASSUME NEW r \in Rows, Ahead(r)', used'[r], sock'[r] \in rfds'
             PROVE  Readable(sock[r])'
  BY DEF Reported, Readable
<1>1. Ahead(r) /\ r # id
  BY DEF Ahead, TypeOK, Rows
<1>2. Readable(sock[r])
  BY <1>1 DEF Reported
<1>3. sock[r] \in Sessions \ {me}
  BY <1>1 DEF Apart, Places, me
<1> QED BY <1>2, <1>3

LEMMA ReportedStep ==
  TypeOK /\ Places /\ Apart /\ Accepted /\ Reported /\ [Next]_vars => Reported'
<1> SUFFICES ASSUME TypeOK, Places, Apart, Accepted, Reported, [Next]_vars PROVE Reported'
  OBVIOUS
<1> USE DEF vars, table, loop, net
<1>1. ASSUME NEW p \in Sessions, Client(p) PROVE Reported'
  <2>1. UNCHANGED <<pc, id, used, sock, rfds>>
    BY <1>1 DEF Client, Connect, BeginLine, EndLine, Hangup
  <2>2. \A q \in Sessions : Readable(q) => Readable(q)'
    <3>1. CASE Connect(p)
      BY <3>1 DEF Connect, Readable, TypeOK
    <3>2. CASE BeginLine(p)
      BY <3>2 DEF BeginLine, Readable, TypeOK
    <3>3. ASSUME NEW l \in Lines, EndLine(p, l)
          PROVE  \A q \in Sessions : Readable(q) => Readable(q)'
      <4>1. inbox[p] \in Seq(Line) /\ l \in Line
        BY LinesKnown DEF TypeOK
      <4>2. Append(inbox[p], l) # <<>>
        BY <4>1
      <4> QED BY <3>3, <4>2 DEF EndLine, Readable, TypeOK
    <3>4. CASE Hangup(p)
      BY <3>4 DEF Hangup, Readable, TypeOK
    <3> QED BY <1>1, <3>1, <3>2, <3>3, <3>4 DEF Client
  <2> QED BY <2>1, <2>2 DEF Reported, Ahead, Places, Readable
<1>2. CASE Select
  BY <1>2 DEF Select, Reported, Readable
<1>3. ASSUME NEW r \in Rows, Accept(r) PROVE Reported'
  <2> DEFINE p == Head(backlog)
  <2>1. /\ \A q \in Rows : /\ used'[q] = (IF q = r THEN TRUE ELSE used[q])
                           /\ sock'[q] = (IF q = r THEN p ELSE sock[q])
        /\ UNCHANGED <<id, rfds, client, inbox, partial>>
        /\ pc = "accept" /\ pc' = "clients"
        /\ p = backlog[1] /\ 1 \in 1..Len(backlog)
    BY <1>3 DEF Accept, Places, TypeOK
  <2>2. p \notin rfds
    BY <2>1 DEF Accepted
  <2> QED BY <2>1, <2>2 DEF Reported, Ahead, Readable
<1>4. CASE pc' \in {"down", "select"}
  BY <1>4 DEF Reported, Ahead
<1>5. CASE SkipRow
  BY <1>5 DEF SkipRow, Next1, Reported, Ahead, Readable, TypeOK, Rows
<1>6. CASE Talk \/ Run \/ Eat
  <2>1. HasLine /\ Serving /\ id \in Rows /\ used[id] /\ pc = "clients"
    BY <1>6, ServingRow DEF Talk, Run, Eat, Piping, HasLine, Serving
  <2>2. /\ UNCHANGED <<used, sock, rfds, client, partial>>
        /\ inbox' = [inbox EXCEPT ![me] = Tail(@)]
        /\ (pc' = "clients" /\ id' = id + 1) \/ (pc' = "child" /\ id' = id)
    BY <1>6 DEF Talk, Run, Eat, Consume, Next1
  <2>3. \A p \in Sessions \ {me} : Readable(p) => Readable(p)'
    BY <2>2 DEF Readable, TypeOK
  <2>4. UNCHANGED <<sock, rfds>> /\ \A r \in Rows : used'[r] => used[r]
    BY <2>2
  <2>5. \/ pc' = "clients" /\ id' = id + 1
        \/ pc = "clients" /\ pc' = "child" /\ id' = id
    BY <2>1, <2>2
  <2>6. pc \in {"clients", "child"} /\ used[id] /\ id \in Rows
    BY <2>1
  <2> QED BY ONLY TypeOK, Places, Apart, Reported, <2>3, <2>4, <2>5, <2>6, ServedAndLeft
<1>7. CASE EatingEnds
  <2>1. id \in Rows /\ used[id] /\ pc = "child"
    BY <1>7, MaxIdPositive DEF EatingEnds, Places, TypeOK, Rows, Over
  <2>2. /\ UNCHANGED <<used, sock, rfds, client>> /\ pc' = "clients" /\ id' = id + 1
        /\ inbox' = [inbox EXCEPT ![me] = <<>>] /\ partial' = [partial EXCEPT ![me] = FALSE]
    BY <1>7 DEF EatingEnds, Next1
  <2>3. \A p \in Sessions \ {me} : Readable(p) => Readable(p)'
    BY <2>2 DEF Readable, TypeOK
  <2> QED BY <2>1, <2>2, <2>3, ServedAndLeft
<1>8. CASE Logout
  <2>1. id \in Rows /\ used[id] /\ pc = "clients"
    BY <1>8, ServingRow DEF Logout, Serving
  <2>2. /\ UNCHANGED <<sock, rfds>> /\ pc' = "clients" /\ id' = id + 1
        /\ \A r \in Rows : used'[r] => used[r]
        /\ inbox' = [inbox EXCEPT ![me] = <<>>] /\ partial' = [partial EXCEPT ![me] = FALSE]
        /\ client' = [client EXCEPT ![me] = "gone"]
    BY <1>8 DEF Logout, Next1, TypeOK
  <2>3. \A p \in Sessions \ {me} : Readable(p) => Readable(p)'
    BY <2>2 DEF Readable, TypeOK
  <2> QED BY <2>1, <2>2, <2>3, ServedAndLeft
<1>9. CASE LoginOverrun \/ FifoError \/ WriteFails \/ EndRound \/ Restart
  BY <1>4, <1>9 DEF LoginOverrun, FifoError, WriteFails, EndRound, Restart
<1>10. CASE UNCHANGED vars
  BY <1>10 DEF Reported, Ahead, Readable
<1> QED BY <1>1, <1>2, <1>3, <1>5, <1>6, <1>7, <1>8, <1>9, <1>10 DEF Next, Server

\* THEOREM: the server, which has one thread, does not stop in the read of a
\* client that sent nothing: whom it serves was reported by select, and nothing
\* since took his input (server_single.cpp: main, read_line, logout).
THEOREM ServesTheReady == Spec => []NeverReadsIdle
<1>1. Init => Apart /\ Accepted /\ Reported
  BY InitTypes DEF Init, Accepted, Reported, Ahead
<1>2. TypeOK /\ Places /\ Apart /\ Accepted /\ Reported /\ [Next]_vars
      => Apart' /\ Accepted' /\ Reported'
  BY ApartStep, AcceptedStep, ReportedStep
<1>3. TypeOK /\ Places /\ Reported => NeverReadsIdle
  <2> SUFFICES ASSUME TypeOK, Places, Reported, Serving PROVE Readable(me)
    BY DEF NeverReadsIdle
  <2>1. id \in Rows
    BY ServingRow
  <2>2. Ahead(id)
    BY DEF Serving, Ahead, TypeOK
  <2> QED BY <2>1, <2>2 DEF Serving, Reported, me
<1> QED BY <1>1, <1>2, <1>3, TypeCorrect, PTL DEF Spec
=============================================================================

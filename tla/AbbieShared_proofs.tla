------------------------ MODULE AbbieShared_proofs ------------------------
(***************************************************************************)
(* Theorems about AbbieShared, for any number of sessions and ids, any     *)
(* lines, exit statuses and fifos left in /tmp.                            *)
(***************************************************************************)
EXTENDS AbbieShared, TLAPS

USE MaxIdPositive, MaxActsNatural, NoneIsNoSession

TypeMain ==
  /\ main \in {"accept", "clear", "fork", "down"} /\ conn \in Sessions \cup {None}
  /\ mainId \in 0..MaxId /\ mainPend \subseteq {"USR1", "USR2"}
TypeWhere ==
  /\ pc \in [Sessions -> PCs] /\ row \in [Sessions -> 0..MaxId] /\ line \in [Sessions -> Line]
  /\ tgt \in [Sessions -> Ids]
  /\ job \in [Sessions -> {"none", "enter", "yell", "tell", "read", "piped", "left"}]
  /\ fdIn \in [Sessions -> Fifo \cup {None}] /\ status \in [Sessions -> 0..MaxId]
TypeSig ==
  pend \in [Sessions -> SUBSET {"USR1", "USR2"}] /\ frames \in [Sessions -> Seq(Frame)]
TypeUsers ==
  /\ used \in [Ids -> BOOLEAN] /\ sock \in [Ids -> Sessions \cup {None}]
  /\ pid \in [Ids -> Sessions \cup {None}]
  /\ slot \in [Ids -> [0..MaxId -> Message \cup {None}]] /\ sender \in [Ids -> 0..MaxId]
TypePipes ==
  /\ fifoName \in [Ids -> [Ids -> BOOLEAN]] /\ readFifoFd \in [Ids -> [Ids -> Fifo \cup {None}]]
  /\ openRd \subseteq (Sessions \cup {None}) \X Fifo /\ files \subseteq Fifo
TypeClient ==
  client \in [Sessions -> {"none", "open", "closed", "cut", "gone"}] /\ acts \in 0..MaxActs

\* Has a row and has not ended.
Live(p) == pc[p] \notin {"none", "zombie", "gone"}

\* Who was accepted has a row; a row in use is that of the session it was given to.
Rowed    == \A p \in Sessions : pc[p] # "none" => row[p] \in Ids
UsedRows == \A r \in Ids : used[r] => sock[r] \in Sessions /\ row[sock[r]] = r
Known    == \A r \in Ids : sock[r] # None => pc[sock[r]] # "none"
OwnRow   == \A p \in Sessions : Live(p) => used[row[p]] /\ sock[row[p]] = p
Table    == Rowed /\ UsedRows /\ Known /\ OwnRow

\* The users a line names are users; a tell goes to a row somebody had.
LinesNamed ==
  \A p \in Sessions :
    /\ pc[p] \in {"wcheck", "mkfifo", "fsender", "fkill", "fspin"} => line[p].wr \in Ids
    /\ pc[p] \in {"rcheck", "unlink"} => line[p].rd \in Ids
TellsKnown ==
  \A p \in Sessions : pc[p] = "put" /\ job[p] = "tell" => sock[tgt[p]] # None

-----------------------------------------------------------------------------
(* Sets of values and the helpers *)

\* TypeOK in parts.
LEMMA TypeParts ==
  TypeOK <=> TypeMain /\ TypeWhere /\ TypeSig /\ TypeUsers /\ TypePipes /\ TypeClient
BY DEF TypeOK, TypeMain, TypeWhere, TypeSig, TypeUsers, TypePipes, TypeClient

\* The same in the next state.
LEMMA TypePartsNext ==
  TypeOK' <=> (TypeMain /\ TypeWhere /\ TypeSig /\ TypeUsers /\ TypePipes /\ TypeClient)'
BY TypeParts, PTL

\* What the steps need to know of the sets of values.
LEMMA Values ==
  /\ 0 \in 0..MaxId /\ 1 \in 0..MaxId /\ 1 \in Ids /\ Ids \subseteq 0..MaxId /\ 0 \notin Ids
  /\ \A r \in 0..MaxId : r # 0 => r \in Ids
  /\ \A r \in Ids : r < MaxId => r + 1 \in Ids
  /\ Ids \subseteq Nat /\ MaxId \in Ids
BY DEF Ids

\* Handlers in progress form a sequence of frames.
LEMMA Frames ==
  ASSUME TypeSig, NEW p \in Sessions
  PROVE  /\ frames[p] \in Seq(Frame)
         /\ <<>> \in Seq(Frame)
         /\ \A f \in Frame : <<f>> \in Seq(Frame) /\ <<f>> \o frames[p] \in Seq(Frame)
         /\ frames[p] # <<>> =>
              /\ Head(frames[p]) \in Frame
              /\ Tail(frames[p]) \in Seq(Frame)
              /\ \A f \in Frame : [frames[p] EXCEPT ![1] = f] \in Seq(Frame)
BY DEF TypeSig

\* A line that is done with.
LEMMA NoLineLine == NoLine \in Line
BY Values DEF NoLine, Line

\* The frame a handler starts with.
LEMMA FirstFrame ==
  ASSUME TypeUsers, NEW q \in Sessions, row[q] \in Ids, NEW s \in {"USR1", "USR2"}
  PROVE  First(s, q) \in Frame
BY DEF First, Frame, TypeUsers

\* A process that ends.
LEMMA EndTypes ==
  ASSUME TypeWhere, TypeSig, TypePipes, TypeClient, NEW p \in Sessions,
         NEW k \in 0..MaxId, End(p, k), UNCHANGED row
  PROVE  /\ TypeWhere' /\ TypeSig' /\ openRd' \subseteq (Sessions \cup {None}) \X Fifo
         /\ client' \in [Sessions -> {"none", "open", "closed", "cut", "gone"}]
<1>1. TypeWhere'
  BY NoLineLine, Values DEF TypeWhere, End, Goto, PCs
<1>2. TypeSig'
  BY Frames DEF TypeSig, End
<1>3. openRd' \subseteq openRd
  BY DEF End
<1> QED BY <1>1, <1>2, <1>3 DEF End, TypePipes, TypeClient

\* A process that ends without logout.
LEMMA DiesTypes ==
  ASSUME TypeOK, NEW p \in Sessions, Dies(p, {0, 1}) \/ Dies(p, {1}) PROVE TypeOK'
<1>1. PICK k \in {0, 1} : End(p, k)
  BY DEF Dies
<1>2. UNCHANGED <<accepting, row, users, fifoName, readFifoFd, files, acts>>
  BY DEF Dies
<1>3. k \in 0..MaxId
  BY Values
<1>4. /\ TypeWhere' /\ TypeSig' /\ openRd' \subseteq (Sessions \cup {None}) \X Fifo
      /\ client' \in [Sessions -> {"none", "open", "closed", "cut", "gone"}]
  BY <1>1, <1>2, <1>3, EndTypes, TypeParts
<1>5. TypeMain' /\ TypeUsers' /\ TypePipes' /\ TypeClient'
  BY <1>2, <1>4, TypeParts DEF TypeMain, TypeUsers, TypePipes, TypeClient, accepting, users
<1> QED BY <1>4, <1>5, TypePartsNext

\* A failed write ends the process.
LEMMA WriteFailsDies ==
  ASSUME NEW p, WriteFails(p) PROVE Dies(p, {0, 1}) \/ Dies(p, {1})
BY DEF WriteFails

\* kill() keeps the types.
LEMMA SignalTypes ==
  ASSUME TypeMain, TypeSig, TypeUsers, Rowed,
         NEW p \in Sessions, NEW r \in Ids, NEW s \in {"USR1", "USR2"}, Signal(p, s, r)
  PROVE  TypeSig' /\ mainPend' \subseteq {"USR1", "USR2"}
<1>1. Alive(p) => First(s, p) \in Frame
  BY FirstFrame DEF Alive, Rowed
<1>2. frames' = frames \/ (Alive(p) /\ frames' = [frames EXCEPT ![p] = <<First(s, p)>>])
  BY DEF Signal
<1>3. frames' \in [Sessions -> Seq(Frame)]
  BY <1>1, <1>2, Frames DEF TypeSig
<1>4. pend' \in [Sessions -> SUBSET {"USR1", "USR2"}]
  BY DEF Signal, TypeSig
<1>5. mainPend' \subseteq {"USR1", "USR2"}
  BY DEF Signal, TypeMain
<1> QED BY <1>3, <1>4, <1>5 DEF TypeSig

\* The loops stay within the rows.
LEMMA AdvanceEffect ==
  ASSUME TypeWhere, NEW p \in Sessions, NEW l, NEW a, Advance(p, l, a)
  PROVE  \/ /\ job[p] # "tell" /\ tgt[p] < MaxId /\ tgt[p] + 1 \in Ids
            /\ tgt' = [tgt EXCEPT ![p] = tgt[p] + 1] /\ UNCHANGED job
            /\ pc' = [pc EXCEPT ![p] = l]
         \/ /\ job[p] = "tell" \/ tgt[p] = MaxId
            /\ IF a = "spin" THEN UNCHANGED tgt ELSE tgt' = [tgt EXCEPT ![p] = 1]
            /\ IF l = "check" THEN job' = [job EXCEPT ![p] = "none"] ELSE UNCHANGED job
            /\ pc' = [pc EXCEPT ![p] = a]
<1>1. tgt[p] \in Ids
  BY DEF TypeWhere
<1>2. CASE job[p] # "tell" /\ tgt[p] < MaxId
  BY <1>1, <1>2, Values DEF Advance, Goto
<1>3. CASE ~(job[p] # "tell" /\ tgt[p] < MaxId)
  <2>1. job[p] = "tell" \/ tgt[p] = MaxId
    BY <1>1, <1>3 DEF Ids
  <2>2. tgt = [tgt EXCEPT ![p] = tgt[p]]
    BY DEF TypeWhere
  <2>3. IF a = "spin" THEN UNCHANGED tgt ELSE tgt' = [tgt EXCEPT ![p] = 1]
    BY <1>3, <2>2 DEF Advance
  <2> QED BY <1>3, <2>1, <2>3 DEF Advance, Goto
<1> QED BY <1>2, <1>3

\* What follows the last loop.
LEMMA ThenPlaces ==
  ASSUME TypeWhere, NEW p \in Sessions
  PROVE  Then(p) \in {"clean", "wcheck", "fd", "prompt"}
BY DEF Then

\* A round of a loop keeps the types.
LEMMA AdvanceTypes ==
  ASSUME TypeWhere, NEW p \in Sessions, NEW l \in {"put", "check"},
         NEW a \in {"spin", "check", "clean", "wcheck", "fd", "prompt"}, Advance(p, l, a),
         UNCHANGED <<row, line, fdIn, status>>
  PROVE  TypeWhere'
BY AdvanceEffect, Values DEF TypeWhere, PCs

-----------------------------------------------------------------------------
(* Types *)

\* Where a process works its row is a user's.
LEMMA RowOf ==
  ASSUME Rowed, NEW p \in Sessions PROVE pc[p] # "none" => row[p] \in Ids
BY DEF Rowed

\* Initially everything is of its type.
LEMMA InitTypes == Init => TypeOK
<1> SUFFICES ASSUME Init
             PROVE  TypeMain /\ TypeWhere /\ TypeSig /\ TypeUsers /\ TypePipes /\ TypeClient
  BY TypeParts
<1>1. TypeMain /\ TypeUsers /\ TypeClient
  BY Values DEF Init, TypeMain, TypeUsers, TypeClient
<1>2. TypeWhere
  BY NoLineLine, Values DEF Init, TypeWhere, PCs
<1>3. TypeSig
  BY DEF Init, TypeSig
<1>4. files \subseteq Fifo
  <2> SUFFICES ASSUME NEW l \in Left PROVE [s |-> l[1], r |-> l[2], from |-> None, n |-> 0] \in Fifo
    BY DEF Init
  <2> QED BY LeftKnown DEF Fifo
<1>5. TypePipes
  BY <1>4 DEF Init, TypePipes
<1> QED BY <1>1, <1>2, <1>3, <1>5

\* The loop of logout and killzombie takes names away only.
LEMMA UnlinkedTypes ==
  ASSUME TypePipes, NEW i, Unlinked(i)
  PROVE  /\ fifoName' \in [Ids -> [Ids -> BOOLEAN]] /\ files' \subseteq Fifo
         /\ \A s, r \in Ids : fifoName'[s][r] => fifoName[s][r]
<1>1. fifoName' = [s \in Ids |-> [r \in Ids |-> fifoName[s][r] /\ ~Between(i, s, r)]]
  BY DEF Unlinked
<1>2. \A s, r \in Ids : (fifoName[s][r] /\ ~Between(i, s, r)) \in BOOLEAN
  OBVIOUS
<1>3. fifoName' \in [Ids -> [Ids -> BOOLEAN]]
  BY <1>1, <1>2, Zenon
<1>4. files' \subseteq files
  BY DEF Unlinked
<1> QED BY <1>1, <1>3, <1>4 DEF TypePipes

\* The steps of the process that accepts.
LEMMA MainTypes ==
  ASSUME TypeOK, Rowed, Main PROVE TypeOK'
<1> SUFFICES (TypeMain /\ TypeWhere /\ TypeSig /\ TypeUsers /\ TypePipes /\ TypeClient)'
  BY TypePartsNext
<1> USE TypeParts
<1>1. ASSUME MainEnds
      PROVE (TypeMain /\ TypeWhere /\ TypeSig /\ TypeUsers /\ TypePipes /\ TypeClient)'
  BY <1>1, Values DEF MainEnds, TypeMain, TypeWhere, TypeSig, TypeUsers, TypePipes, TypeClient,
                  where, sig, users
<1>2. ASSUME NEW p \in Sessions, NEW r \in Ids, Accept(p, r)
      PROVE (TypeMain /\ TypeWhere /\ TypeSig /\ TypeUsers /\ TypePipes /\ TypeClient)'
  BY <1>2, Values DEF Accept, Goto, PCs, TypeMain, TypeWhere, TypeSig, TypeUsers, TypePipes,
                      TypeClient, sig, pipes
<1>3. ASSUME NEW p \in Sessions, LoginClear(p)
      PROVE (TypeMain /\ TypeWhere /\ TypeSig /\ TypeUsers /\ TypePipes /\ TypeClient)'
  BY <1>3, Values DEF LoginClear, TypeMain, TypeWhere, TypeSig, TypeUsers, TypePipes,
                      TypeClient, where, sig, users
<1>4. ASSUME NEW p \in Sessions, Fork(p)
      PROVE (TypeMain /\ TypeWhere /\ TypeSig /\ TypeUsers /\ TypePipes /\ TypeClient)'
  BY <1>4, Values DEF Fork, Goto, PCs, TypeMain, TypeWhere, TypeSig, TypeUsers, TypePipes,
                      TypeClient, sig, users, pipes
<1>5. ASSUME NEW p \in Sessions, KillZombie(p)
      PROVE (TypeMain /\ TypeWhere /\ TypeSig /\ TypeUsers /\ TypePipes /\ TypeClient)'
  <2>1. fifoName' \in [Ids -> [Ids -> BOOLEAN]] /\ files' \subseteq Fifo
    <3>1. Unlinked(status[p]) \/ UNCHANGED <<fifoName, files>>
      BY <1>5 DEF KillZombie
    <3> QED BY <3>1, UnlinkedTypes DEF TypePipes
  <2>2. conn' \in Sessions \cup {None}
    BY <1>5 DEF KillZombie, TypeMain
  <2> QED BY <1>5, <2>1, <2>2, Values
          DEF KillZombie, Goto, PCs, TypeMain, TypeWhere, TypeSig, TypeUsers, TypePipes,
              TypeClient, sig, users
<1>6. ASSUME MainMessage
      PROVE (TypeMain /\ TypeWhere /\ TypeSig /\ TypeUsers /\ TypePipes /\ TypeClient)'
  <2>1. CASE conn = None \/ mainId = 0
    BY <1>1, <1>6, <2>1 DEF MainMessage
  <2>2. CASE ~(conn = None \/ mainId = 0)
    <3>1. /\ mainPend' = mainPend \ {"USR1"}
          /\ slot' = [slot EXCEPT ![mainId][sender[mainId]] = None]
          /\ UNCHANGED <<main, conn, mainId, where, sig, used, sock, pid, sender, pipes, client,
                acts>>
      BY <1>6, <2>2 DEF MainMessage
    <3>2. TypeUsers'
      BY <3>1 DEF TypeUsers
    <3> QED BY <3>1, <3>2 DEF TypeMain, TypeWhere, TypeSig, TypePipes, TypeClient,
                              where, sig, pipes
  <2> QED BY <2>1, <2>2
<1>7. ASSUME MainFifo
      PROVE (TypeMain /\ TypeWhere /\ TypeSig /\ TypeUsers /\ TypePipes /\ TypeClient)'
  <2>1. CASE ~MainEnds
    <3>1. PICK f \in files :
            /\ openRd' = openRd \cup {<<None, f>>}
            /\ readFifoFd' = [readFifoFd EXCEPT ![mainId][f.s] = f]
      BY <1>7, <2>1 DEF MainFifo
    <3>2. /\ mainPend' = mainPend \ {"USR2"}
          /\ sender' = [sender EXCEPT ![mainId] = 0]
          /\ UNCHANGED <<main, conn, mainId, where, sig, used, sock, pid, slot, fifoName, files,
                         client, acts>>
      BY <1>7, <2>1 DEF MainFifo
    <3>3. f \in Fifo /\ f.s \in Ids /\ <<None, f>> \in (Sessions \cup {None}) \X Fifo
      BY DEF TypePipes, Fifo
    <3>4. readFifoFd' \in [Ids -> [Ids -> Fifo \cup {None}]]
      BY <3>1, <3>3 DEF TypePipes
    <3>5. TypePipes'
      BY <3>1, <3>2, <3>3, <3>4 DEF TypePipes
    <3>6. TypeUsers'
      BY <3>2, Values DEF TypeUsers
    <3> QED BY <3>2, <3>5, <3>6 DEF TypeMain, TypeWhere, TypeSig, TypeClient, where, sig
  <2> QED BY <1>1, <2>1
<1> QED BY <1>1, <1>2, <1>3, <1>4, <1>5, <1>6, <1>7 DEF Main, LoginOverrun

\* The handlers of a user's process.
LEMMA HandleTypes ==
  ASSUME TypeOK, Rowed, NEW p \in Sessions, Handle(p) PROVE TypeOK'
<1> SUFFICES (TypeMain /\ TypeWhere /\ TypeSig /\ TypeUsers /\ TypePipes /\ TypeClient)' \/ TypeOK'
  BY TypePartsNext
<1> USE TypeParts
<1>1. ASSUME NEW s \in {"USR1", "USR2"}, Enter(p, s)
      PROVE (TypeMain /\ TypeWhere /\ TypeSig /\ TypeUsers /\ TypePipes /\ TypeClient)'
  <2>1. First(s, p) \in Frame
    BY <1>1, FirstFrame, RowOf DEF Enter, Alive
  <2>2. TypeSig'
    <3>1. <<First(s, p)>> \o frames[p] \in Seq(Frame)
      BY <2>1, Frames
    <3> QED BY <1>1, <3>1 DEF Enter, TypeSig
  <2> QED BY <1>1, <2>2 DEF Enter, TypeMain, TypeWhere, TypeUsers, TypePipes, TypeClient,
                            accepting, where, users, pipes
<1>2. ASSUME MsgShow(p)
      PROVE (TypeMain /\ TypeWhere /\ TypeSig /\ TypeUsers /\ TypePipes /\ TypeClient)'
  <2>1. TypeSig'
    BY <1>2, Frames DEF MsgShow, InHandler, Return, TypeSig
  <2>2. TypeUsers'
    BY <1>2 DEF MsgShow, TypeUsers
  <2> QED BY <1>2, <2>1, <2>2 DEF MsgShow, TypeMain, TypeWhere, TypePipes, TypeClient,
                                  accepting, where, pipes
<1>3. ASSUME FifoOpen(p)
      PROVE (TypeMain /\ TypeWhere /\ TypeSig /\ TypeUsers /\ TypePipes /\ TypeClient)'
  <2>1. TypeSig'
    <3>1. frames[p] # <<>>
      BY <1>3 DEF FifoOpen, InHandler
    <3>2. PICK f : /\ f = [frames[p][1] EXCEPT !.at = "reset"]
                   /\ frames' = [frames EXCEPT ![p] = [frames[p] EXCEPT ![1] = f]]
      BY <1>3 DEF FifoOpen
    <3>3. frames[p][1] \in Frame
      BY <3>1 DEF TypeSig
    <3>4. f \in Frame
      BY <3>2, <3>3 DEF Frame
    <3>5. [frames[p] EXCEPT ![1] = f] \in Seq(Frame)
      BY <3>1, <3>4, Frames
    <3> QED BY <1>3, <3>2, <3>5 DEF FifoOpen, TypeSig
  <2>2. PICK f \in files :
          /\ openRd' = openRd \cup {<<p, f>>}
          /\ readFifoFd' = [readFifoFd EXCEPT ![f.r][f.s] = f]
    BY <1>3 DEF FifoOpen
  <2>3. f \in Fifo /\ f.r \in Ids /\ f.s \in Ids /\ <<p, f>> \in (Sessions \cup {None}) \X Fifo
    BY DEF TypePipes, Fifo
  <2>4. TypePipes'
    <3>1. readFifoFd' \in [Ids -> [Ids -> Fifo \cup {None}]]
      BY <2>2, <2>3 DEF TypePipes
    <3> QED BY <1>3, <2>2, <2>3, <3>1 DEF FifoOpen, TypePipes
  <2> QED BY <1>3, <2>1, <2>4 DEF FifoOpen, TypeMain, TypeWhere, TypeUsers, TypeClient,
                                  accepting, where, users
<1>4. ASSUME FifoReset(p)
      PROVE (TypeMain /\ TypeWhere /\ TypeSig /\ TypeUsers /\ TypePipes /\ TypeClient)'
  <2>1. TypeSig'
    BY <1>4, Frames DEF FifoReset, InHandler, Return, TypeSig
  <2>2. TypeUsers'
    BY <1>4, Values DEF FifoReset, TypeUsers
  <2> QED BY <1>4, <2>1, <2>2 DEF FifoReset, TypeMain, TypeWhere, TypePipes, TypeClient,
                                  accepting, where, pipes
<1>5. CASE HandlerFails(p)
  BY <1>5, DiesTypes, WriteFailsDies DEF HandlerFails
<1> QED BY <1>1, <1>2, <1>3, <1>4, <1>5 DEF Handle

\* The steps of ras_send.
LEMMA SendTypes ==
  ASSUME TypeOK, Table, TellsKnown, NEW p \in Sessions,
         \/ SendSkip(p) \/ SendPut(p) \/ SendName(p) \/ SendKill(p) \/ SendCheck(p) \/ SendSpin(p)
  PROVE  TypeOK'
<1> SUFFICES (TypeMain /\ TypeWhere /\ TypeSig /\ TypeUsers /\ TypePipes /\ TypeClient)'
  BY TypePartsNext
<1> USE TypeParts
<1>0. Then(p) \in {"clean", "wcheck", "fd", "prompt"} /\ tgt[p] \in Ids
  BY ThenPlaces DEF TypeWhere
<1>1. CASE SendSkip(p)
  <2>1. TypeWhere'
    BY <1>1, AdvanceTypes DEF SendSkip
  <2> QED BY <1>1, <2>1 DEF SendSkip, TypeMain, TypeSig, TypeUsers, TypePipes, TypeClient,
                            accepting, sig, users, pipes
<1>2. CASE SendPut(p)
  <2>1. row[p] \in Ids
    BY <1>2 DEF Table, Rowed, SendPut, At
  <2>2. sock[tgt[p]] \in Sessions
    BY <1>0, <1>2 DEF Table, UsedRows, TellsKnown, SendPut, At, TypeUsers
  <2>3. [from |-> p, to |-> sock[tgt[p]]] \in Message
    BY <2>2 DEF Message
  <2>4. TypeUsers'
    BY <1>0, <1>2, <2>1, <2>3, Values DEF SendPut, TypeUsers
  <2>5. TypeWhere'
    BY <1>2 DEF SendPut, Goto, TypeWhere, PCs
  <2> QED BY <1>2, <2>4, <2>5 DEF SendPut, TypeMain, TypeSig, TypePipes, TypeClient,
                                  accepting, sig, pipes
<1>3. CASE SendName(p)
  <2>1. row[p] \in Ids
    BY <1>3 DEF Table, Rowed, SendName, At
  <2>2. TypeUsers'
    BY <1>3, <2>1, Values DEF SendName, TypeUsers
  <2>3. TypeWhere'
    BY <1>3 DEF SendName, Goto, TypeWhere, PCs
  <2> QED BY <1>3, <2>2, <2>3 DEF SendName, TypeMain, TypeSig, TypePipes, TypeClient,
                                  accepting, sig, pipes
<1>4. CASE SendKill(p)
  <2>1. TypeWhere'
    BY <1>4, AdvanceTypes DEF SendKill
  <2>2. TypeSig' /\ mainPend' \subseteq {"USR1", "USR2"}
    BY <1>0, <1>4, SignalTypes DEF SendKill, Table
  <2> QED BY <1>4, <2>1, <2>2 DEF SendKill, TypeMain, TypeUsers, TypePipes, TypeClient, users, pipes
<1>5. CASE SendCheck(p)
  <2>1. TypeWhere'
    <3>1. CASE Goto(p, "spin") /\ UNCHANGED <<tgt, job>>
      BY <1>5, <3>1 DEF SendCheck, Goto, TypeWhere, PCs
    <3>2. CASE Advance(p, "check", Then(p))
      BY <1>0, <1>5, <3>2, AdvanceTypes DEF SendCheck
    <3> QED BY <1>5, <3>1, <3>2 DEF SendCheck
  <2> QED BY <1>5, <2>1 DEF SendCheck, TypeMain, TypeSig, TypeUsers, TypePipes, TypeClient,
                            accepting, sig, users, pipes
<1>6. CASE SendSpin(p)
  <2>1. TypeWhere'
    BY <1>0, <1>6, AdvanceTypes DEF SendSpin
  <2> QED BY <1>6, <2>1 DEF SendSpin, TypeMain, TypeSig, TypeUsers, TypePipes, TypeClient,
                            accepting, sig, users, pipes
<1> QED BY <1>1, <1>2, <1>3, <1>4, <1>5, <1>6

\* Lines, and what they make a process do first.
LEMMA LineTypes ==
  ASSUME TypeOK, Table, NEW p \in Sessions,
         \/ Start(p) \/ Greet(p) \/ (\E l \in Lines : TypeLine(p, l)) \/ Hangup(p)
         \/ ReadCheck(p)
  PROVE  TypeOK'
<1> SUFFICES (TypeMain /\ TypeWhere /\ TypeSig /\ TypeUsers /\ TypePipes /\ TypeClient)'
  BY TypePartsNext
<1> USE TypeParts
<1>1. CASE Start(p)
  BY <1>1 DEF Start, Goto, PCs, TypeMain, TypeWhere, TypeSig, TypeUsers, TypePipes, TypeClient,
              accepting, sig, pipes
<1>2. CASE Greet(p)
  BY <1>2, Values DEF Greet, Begin, Goto, PCs, TypeMain, TypeWhere, TypeSig, TypeUsers, TypePipes,
              TypeClient, accepting, sig, users, pipes
<1>3. ASSUME NEW l \in Lines, TypeLine(p, l)
      PROVE (TypeMain /\ TypeWhere /\ TypeSig /\ TypeUsers /\ TypePipes /\ TypeClient)'
  <2>1. l \in Line
    BY LinesKnown
  <2>2. TypeClient'
    BY <1>3 DEF TypeLine, TypeClient
  <2>3. UNCHANGED <<row, fdIn, status>>
    BY <1>3 DEF TypeLine
  <2>4. \/ \E j \in {"yell", "left", "tell"}, r \in Ids : Begin(p, j, r) /\ UNCHANGED line
        \/ UNCHANGED <<job, tgt, pc, line>>
        \/ /\ \E a \in {"rcheck", "wcheck", "fd"} : Goto(p, a)
           /\ line' = [line EXCEPT ![p] = l] /\ UNCHANGED <<job, tgt>>
    <3>1. CASE l.kind = "yell"
      BY <1>3, <3>1, Values DEF TypeLine
    <3>2. CASE l.kind = "exit"
      BY <1>3, <3>2, Values DEF TypeLine
    <3>3. CASE l.kind = "tell"
      BY <1>3, <3>3, Values DEF TypeLine
    <3>4. CASE l.kind = "run"
      <4>1. Goto(p, IF l.rd # 0 THEN "rcheck" ELSE IF l.wr # 0 THEN "wcheck" ELSE "fd")
        BY <1>3, <3>4 DEF TypeLine
      <4>2. line' = [line EXCEPT ![p] = l] /\ UNCHANGED <<job, tgt>>
        BY <1>3, <3>4 DEF TypeLine
      <4> QED BY <4>1, <4>2
    <3> QED BY <2>1, <3>1, <3>2, <3>3, <3>4 DEF Line
  <2>5. TypeWhere'
    BY <2>1, <2>3, <2>4 DEF TypeWhere, Begin, Goto, PCs
  <2> QED BY <1>3, <2>2, <2>5 DEF TypeLine, TypeMain, TypeSig, TypeUsers, TypePipes, accepting,
                                  sig, users, pipes
<1>4. CASE Hangup(p)
  <2>1. TypeClient'
    BY <1>4 DEF Hangup, TypeClient
  <2> QED BY <1>4, <2>1 DEF Hangup, TypeMain, TypeWhere, TypeSig, TypeUsers, TypePipes,
                            accepting, where, sig, users, pipes
<1>5. CASE ReadCheck(p)
  <2>1. TypeWhere'
    BY <1>5, NoLineLine, Values DEF ReadCheck, Begin, Prompt, Goto, PCs, TypeWhere
  <2> QED BY <1>5, <2>1 DEF ReadCheck, TypeMain, TypeSig, TypeUsers, TypePipes, TypeClient,
              accepting, sig, users, pipes
<1> QED BY <1>1, <1>2, <1>3, <1>4, <1>5

\* Pipes, programs and logout.
LEMMA PipeTypes ==
  ASSUME TypeOK, Table, LinesNamed, NEW p \in Sessions,
         \/ WriteCheck(p) \/ MakeFifo(p) \/ FifoError(p) \/ TakeFd(p) \/ FifoSender(p)
         \/ FifoKill(p) \/ FifoWrite(p) \/ FifoGone(p) \/ (\E k \in Statuses : Program(p, k))
         \/ Unlink(p) \/ Clean(p) \/ Release(p) \/ Disconnected(p)
  PROVE  TypeOK'
<1> SUFFICES (TypeMain /\ TypeWhere /\ TypeSig /\ TypeUsers /\ TypePipes /\ TypeClient)' \/ TypeOK'
  BY TypePartsNext
<1> USE TypeParts
<1>0. /\ pc[p] # "none" => row[p] \in Ids
      /\ pc[p] \in {"wcheck", "mkfifo", "fsender", "fkill", "fspin"} => line[p].wr \in Ids
      /\ line[p] \in Line
  BY DEF Table, Rowed, LinesNamed, TypeWhere
<1>1. CASE WriteCheck(p)
  <2>1. TypeWhere'
    BY <1>1, NoLineLine DEF WriteCheck, Prompt, Goto, PCs, TypeWhere
  <2>2. TypePipes'
    <3>1. UNCHANGED fifoName \/ fifoName' = [fifoName EXCEPT ![row[p]][line[p].wr] = TRUE]
      BY <1>1 DEF WriteCheck
    <3>2. fifoName' \in [Ids -> [Ids -> BOOLEAN]]
      <4>1. row[p] \in Ids /\ line[p].wr \in Ids
        BY <1>0, <1>1 DEF WriteCheck, At
      <4>2. [fifoName[row[p]] EXCEPT ![line[p].wr] = TRUE] \in [Ids -> BOOLEAN]
        BY <4>1 DEF TypePipes
      <4> QED BY <3>1, <4>1, <4>2 DEF TypePipes
    <3> QED BY <1>1, <3>2 DEF WriteCheck, TypePipes
  <2> QED BY <1>1, <2>1, <2>2 DEF WriteCheck, TypeMain, TypeSig, TypeUsers, TypeClient,
                                  accepting, sig, users
<1>2. CASE MakeFifo(p)
  <2>1. TypeWhere'
    BY <1>2, Values DEF MakeFifo, Begin, Goto, PCs, TypeWhere
  <2>2. [s |-> row[p], r |-> line[p].wr, from |-> p, n |-> acts] \in Fifo
    BY <1>0, <1>2 DEF MakeFifo, At, Fifo, TypeClient
  <2>3. TypePipes'
    BY <1>2, <2>2 DEF MakeFifo, TypePipes
  <2> QED BY <1>2, <2>1, <2>3 DEF MakeFifo, TypeMain, TypeSig, TypeUsers, TypeClient,
                                  accepting, sig, users
<1>3. CASE FifoError(p) \/ FifoGone(p) \/ Disconnected(p)
  BY <1>3, DiesTypes, WriteFailsDies DEF FifoError, FifoGone, Disconnected
<1>4. CASE TakeFd(p)
  <2>1. (IF line[p].rd = 0 THEN None ELSE readFifoFd[row[p]][line[p].rd]) \in Fifo \cup {None}
    <3>1. row[p] \in Ids /\ line[p].rd \in 0..MaxId
      BY <1>0, <1>4 DEF TakeFd, At, Line
    <3>2. line[p].rd # 0 => line[p].rd \in Ids
      BY <3>1, Values
    <3>3. line[p].rd # 0 => readFifoFd[row[p]][line[p].rd] \in Fifo \cup {None}
      BY <3>1, <3>2 DEF TypePipes
    <3> QED BY <3>3
  <2>2. PICK f \in Fifo \cup {None} : fdIn' = [fdIn EXCEPT ![p] = f]
    BY <1>4, <2>1 DEF TakeFd
  <2>3. pc' = [pc EXCEPT ![p] = "exec"] \/ pc' = [pc EXCEPT ![p] = "fsender"]
    BY <1>4 DEF TakeFd, Goto
  <2>4. TypeWhere'
    BY <1>4, <2>2, <2>3 DEF TakeFd, PCs, TypeWhere
  <2> QED BY <1>4, <2>4 DEF TakeFd, TypeMain, TypeSig, TypeUsers, TypePipes, TypeClient,
                            accepting, sig, users, pipes
<1>5. CASE FifoSender(p)
  <2>1. row[p] \in 0..MaxId
    BY <1>0, <1>5, Values DEF FifoSender, At
  <2>2. TypeUsers'
    BY <1>5, <2>1 DEF FifoSender, TypeUsers
  <2> QED BY <1>5, <2>2 DEF FifoSender, Goto, PCs, TypeMain, TypeWhere, TypeSig, TypePipes,
                            TypeClient, accepting, sig, pipes
<1>6. CASE FifoKill(p)
  <2>1. TypeSig' /\ mainPend' \subseteq {"USR1", "USR2"}
    BY <1>0, <1>6, SignalTypes DEF FifoKill, At, Table
  <2> QED BY <1>6, <2>1 DEF FifoKill, Goto, PCs, TypeMain, TypeWhere, TypeUsers, TypePipes,
                            TypeClient, users, pipes
<1>7. CASE FifoWrite(p)
  BY <1>7 DEF FifoWrite, Goto, PCs, TypeMain, TypeWhere, TypeSig, TypeUsers, TypePipes, TypeClient,
              accepting, sig, users, pipes
<1>8. ASSUME NEW k \in Statuses, Program(p, k)
      PROVE (TypeMain /\ TypeWhere /\ TypeSig /\ TypeUsers /\ TypePipes /\ TypeClient)'
  <2>1. (pc' = [pc EXCEPT ![p] = "unlink"] /\ UNCHANGED line) \/ Prompt(p)
    BY <1>8 DEF Program, Goto
  <2>2. TypeWhere'
    BY <1>8, <2>1, NoLineLine DEF Program, Prompt, Goto, PCs, TypeWhere
  <2>3. fifoName' \in [Ids -> [Ids -> BOOLEAN]] /\ files' \subseteq Fifo
    <3>1. Unlinked(k) \/ UNCHANGED <<fifoName, files>>
      BY <1>8 DEF Program
    <3> QED BY <3>1, UnlinkedTypes DEF TypePipes
  <2>4. TypePipes'
    BY <1>8, <2>3 DEF Program, TypePipes
  <2>5. client' = client \/ client' = [client EXCEPT ![p] = "cut"]
    BY <1>8 DEF Program
  <2> QED BY <1>8, <2>2, <2>4, <2>5 DEF Program, TypeMain, TypeSig, TypeUsers, TypeClient,
                                        accepting, sig, users
<1>9. CASE Unlink(p)
  <2>1. TypeWhere'
    BY <1>9, NoLineLine DEF Unlink, Prompt, Goto, PCs, TypeWhere
  <2>2. TypePipes'
    BY <1>9 DEF Unlink, TypePipes
  <2> QED BY <1>9, <2>1, <2>2 DEF Unlink, TypeMain, TypeSig, TypeUsers, TypeClient,
                                  accepting, sig, users
<1>10. CASE Clean(p)
  <2>1. fifoName' \in [Ids -> [Ids -> BOOLEAN]] /\ files' \subseteq Fifo
    BY <1>10, UnlinkedTypes DEF Clean
  <2>2. TypePipes'
    BY <1>10, <2>1 DEF Clean, TypePipes
  <2> QED BY <1>10, <2>2 DEF Clean, Goto, PCs, TypeMain, TypeWhere, TypeSig, TypeUsers,
                             TypeClient, accepting, sig, users
<1>11. CASE Release(p)
  <2>1. row[p] \in 0..MaxId
    BY <1>0, <1>11, Values DEF Release, At
  <2>2. /\ TypeWhere' /\ TypeSig' /\ openRd' \subseteq (Sessions \cup {None}) \X Fifo
        /\ client' \in [Sessions -> {"none", "open", "closed", "cut", "gone"}]
    BY <1>11, <2>1, EndTypes DEF Release
  <2>3. TypeUsers'
    BY <1>11 DEF Release, TypeUsers
  <2> QED BY <1>11, <2>2, <2>3 DEF Release, TypeMain, TypePipes, TypeClient, accepting
<1> QED BY <1>1, <1>2, <1>3, <1>4, <1>5, <1>6, <1>7, <1>8, <1>9, <1>10, <1>11

\* Every step keeps the types.
LEMMA TypeStep ==
  ASSUME TypeOK, Table, LinesNamed, TellsKnown, [Next]_vars PROVE TypeOK'
<1>1. CASE Main
  BY <1>1, MainTypes DEF Table
<1>2. ASSUME NEW p \in Sessions, Handle(p) PROVE TypeOK'
  BY <1>2, HandleTypes DEF Table
<1>3. ASSUME NEW p \in Sessions, Work(p) PROVE TypeOK'
  BY <1>3, SendTypes, LineTypes, PipeTypes DEF Work
<1>4. ASSUME NEW p \in Sessions, (\E l \in Lines : TypeLine(p, l)) \/ Hangup(p) PROVE TypeOK'
  BY <1>4, LineTypes
<1>5. CASE UNCHANGED vars
  BY <1>5, TypeParts, TypePartsNext
     DEF vars, accepting, where, sig, users, pipes,
         TypeMain, TypeWhere, TypeSig, TypeUsers, TypePipes, TypeClient
<1> QED BY <1>1, <1>2, <1>3, <1>4, <1>5 DEF Next

-----------------------------------------------------------------------------
(* What the steps outside of ras_send do to where the processes are *)

Sending == {"put", "name", "kill", "check", "spin"}
Fresh   == {"accepted", "new", "greet"}

\* A process that sends nothing has no message to announce.
Idle == \A p \in Sessions : pc[p] \notin Sending => job[p] = "none"

Rows == <<used, sock, row>>

Stays    == UNCHANGED <<pc, tgt, job, line>>
Moves(p) ==
  /\ UNCHANGED <<tgt, job>>
  /\ Live(p) /\ pc[p] \notin Sending
  /\ \E l \in PCs \ ({"none", "zombie", "gone"} \cup Sending) :
       /\ Goto(p, l) /\ pc[p] # "greet"
       /\ pc[p] \in {"accepted", "new"} => l \in Fresh
       /\ l # "accepted" /\ (l = "new" => pc[p] = "accepted")
Begins(p) ==
  /\ Live(p) /\ pc[p] \notin Sending \cup {"accepted", "new"}
  /\ \E j \in {"enter", "yell", "tell", "read", "piped", "left"}, r \in Ids :
       /\ Begin(p, j, r)
       /\ IF j = "tell" THEN used[r] ELSE r = 1
       /\ j = "enter" <=> pc[p] = "greet"
Ends(p) ==
  /\ pc[p] # "none"
  /\ \E l \in {"zombie", "gone"} : Goto(p, l)
  /\ \A q \in Sessions \ {p} : tgt'[q] = tgt[q] /\ job'[q] = job[q]
  /\ job'[p] = "none" \/ (pc[p] = "zombie" /\ UNCHANGED job)

\* A step that leaves the rows and everybody's broadcast alone.
Quiet ==
  /\ UNCHANGED Rows
  /\ Stays \/ \E p \in Sessions : Moves(p) \/ Begins(p) \/ Ends(p)

Sends(p) ==
  SendSkip(p) \/ SendPut(p) \/ SendName(p) \/ SendKill(p) \/ SendCheck(p) \/ SendSpin(p)

\* The process that accepts.
LEMMA MainQuiet ==
  ASSUME TypeOK, Main PROVE Quiet \/ \E p \in Sessions, r \in Ids : Accept(p, r)
<1>1. ASSUME MainEnds PROVE Quiet
  BY <1>1 DEF MainEnds, Quiet, Stays, Rows, where, users
<1>2. CASE MainMessage \/ MainFifo
  BY <1>1, <1>2 DEF MainMessage, MainFifo, Quiet, Stays, Rows, where
<1>3. ASSUME NEW p \in Sessions, LoginClear(p) PROVE Quiet
  BY <1>3 DEF LoginClear, Quiet, Stays, Rows, where, users
<1>4. ASSUME NEW p \in Sessions, Fork(p) PROVE Quiet
  <2>1. Moves(p)
    BY <1>4 DEF Fork, Moves, Live, Sending, Fresh, PCs
  <2> QED BY <1>4, <2>1 DEF Fork, Quiet, Rows, users
<1>5. ASSUME NEW p \in Sessions, KillZombie(p) PROVE Quiet
  BY <1>5 DEF KillZombie, Quiet, Ends, Rows, users
<1> QED BY <1>1, <1>2, <1>3, <1>4, <1>5 DEF Main, LoginOverrun

\* A process that ends without logout.
LEMMA DiesQuiet ==
  ASSUME TypeOK, NEW p \in Sessions, pc[p] # "none", Dies(p, {0, 1}) \/ Dies(p, {1})
  PROVE  Quiet
<1>1. PICK k \in {0, 1} : End(p, k)
  BY DEF Dies
<1>2. Ends(p)
  BY <1>1 DEF Ends, End, TypeOK
<1> QED BY <1>2 DEF Dies, Quiet, Rows, users

\* Only a process that has a row handles signals.
Handlers == \A p \in Sessions : frames[p] # <<>> => pc[p] # "none"

\* A step of a handler takes no row and gives none back.
LEMMA HandleQuiet ==
  ASSUME TypeOK, Handlers, NEW p \in Sessions, Handle(p) PROVE Quiet
<1>1. ASSUME NEW s, Enter(p, s) PROVE Quiet
  BY <1>1 DEF Enter, Quiet, Stays, Rows, where, users
<1>2. CASE MsgShow(p) \/ FifoOpen(p) \/ FifoReset(p)
  BY <1>2 DEF MsgShow, FifoOpen, FifoReset, Quiet, Stays, Rows, where, users
<1>3. CASE HandlerFails(p)
  BY <1>3, DiesQuiet, WriteFailsDies DEF HandlerFails, InHandler, Handlers
<1> QED BY <1>1, <1>2, <1>3 DEF Handle

\* The steps of a user's process.
LEMMA WorkQuiet ==
  ASSUME TypeOK, Idle, NEW p \in Sessions,
         Work(p) \/ (\E l \in Lines : TypeLine(p, l)) \/ Hangup(p)
  PROVE  Quiet \/ Release(p) \/ Sends(p)
<1>1. CASE Start(p)
  BY <1>1 DEF Start, At, Quiet, Moves, Live, Sending, Fresh, PCs, Rows
<1>2. CASE Greet(p)
  <2>1. Begins(p)
    BY <1>2, Values DEF Greet, At, Begins, Live, Sending
  <2> QED BY <1>2, <2>1 DEF Greet, Quiet, Rows, users
<1>3. ASSUME NEW l \in Lines, TypeLine(p, l) PROVE Quiet
  <2>1. UNCHANGED Rows /\ pc[p] = "prompt"
    BY <1>3 DEF TypeLine, Rows, users, At
  <2>2. \/ \E j \in {"yell", "left"} : Begin(p, j, 1)
        \/ \E r \in Ids : Begin(p, "tell", r) /\ used[r]
        \/ UNCHANGED <<job, tgt, pc, line>>
        \/ (\E a \in {"rcheck", "wcheck", "fd"} : Goto(p, a)) /\ UNCHANGED <<job, tgt>>
    <3>1. CASE l.kind = "yell"
      BY <1>3, <3>1 DEF TypeLine
    <3>2. CASE l.kind = "exit"
      BY <1>3, <3>2 DEF TypeLine
    <3>3. CASE l.kind = "tell"
      BY <1>3, <3>3 DEF TypeLine
    <3>4. CASE l.kind = "run"
      <4>1. Goto(p, IF l.rd # 0 THEN "rcheck" ELSE IF l.wr # 0 THEN "wcheck" ELSE "fd")
            /\ UNCHANGED <<job, tgt>>
        BY <1>3, <3>4 DEF TypeLine
      <4> QED BY <4>1
    <3> QED BY LinesKnown, <3>1, <3>2, <3>3, <3>4 DEF Line
  <2>3. Stays \/ Moves(p) \/ Begins(p)
    BY <2>1, <2>2, Values DEF Stays, Moves, Begins, Live, Sending, Fresh, PCs
  <2> QED BY <2>1, <2>3 DEF Quiet
<1>4. CASE Hangup(p)
  BY <1>4 DEF Hangup, Quiet, Stays, Rows, where, users
<1>5. CASE ReadCheck(p) \/ MakeFifo(p)
  <2>1. Moves(p) \/ Begins(p)
    BY <1>5, Values DEF ReadCheck, MakeFifo, Prompt, At, Moves, Begins, Live, Sending, Fresh, PCs
  <2> QED BY <1>5, <2>1 DEF ReadCheck, MakeFifo, Quiet, Rows, users
<1>6. CASE WriteCheck(p) \/ FifoSender(p) \/ FifoKill(p) \/ FifoWrite(p) \/ Unlink(p) \/ Clean(p)
  <2>1. Moves(p)
    BY <1>6 DEF WriteCheck, FifoSender, FifoKill, FifoWrite, Unlink, Clean, Prompt, At, Moves,
                Live, Sending, Fresh, PCs
  <2> QED BY <1>6, <2>1 DEF WriteCheck, FifoSender, FifoKill, FifoWrite, Unlink, Clean, Quiet,
                            Rows, users
<1>7. CASE TakeFd(p)
  <2>1. Goto(p, "exec") \/ Goto(p, "fsender")
    BY <1>7 DEF TakeFd
  <2>2. Moves(p)
    BY <1>7, <2>1 DEF TakeFd, At, Moves, Live, Sending, Fresh, PCs
  <2> QED BY <1>7, <2>2 DEF TakeFd, Quiet, Rows, users
<1>8. ASSUME NEW k, Program(p, k) PROVE Quiet
  <2>1. Goto(p, "prompt") \/ Goto(p, "unlink")
    BY <1>8 DEF Program, Prompt
  <2>2. Moves(p)
    BY <1>8, <2>1 DEF Program, At, Moves, Live, Sending, Fresh, PCs
  <2> QED BY <1>8, <2>2 DEF Program, Quiet, Rows, users
<1>9. CASE FifoError(p) \/ FifoGone(p) \/ Disconnected(p)
  BY <1>9, DiesQuiet, WriteFailsDies DEF FifoError, FifoGone, Disconnected, At
<1> QED BY <1>1, <1>2, <1>3, <1>4, <1>5, <1>6, <1>7, <1>8, <1>9 DEF Work, Sends

\* All steps.
LEMMA StepEffect ==
  ASSUME TypeOK, Idle, Handlers, [Next]_vars
  PROVE  \/ Quiet
         \/ \E p \in Sessions, r \in Ids : Accept(p, r)
         \/ \E p \in Sessions : Release(p) \/ Sends(p)
<1>1. CASE UNCHANGED vars
  BY <1>1 DEF vars, where, users, Quiet, Stays, Rows
<1> QED BY <1>1, MainQuiet, HandleQuiet, WorkQuiet DEF Next

-----------------------------------------------------------------------------
(* The table of users *)

\* A loop of ras_send goes on, or is over.
LEMMA SendsEffect ==
  ASSUME TypeOK, NEW p \in Sessions, Sends(p)
  PROVE  /\ pc[p] \in Sending /\ UNCHANGED <<used, sock, row, line>>
         /\ \A q \in Sessions \ {p} : pc'[q] = pc[q] /\ tgt'[q] = tgt[q] /\ job'[q] = job[q]
         /\ \/ pc'[p] \in Sending /\ job'[p] = job[p]
            \/ pc'[p] = Then(p) /\ job'[p] = "none"
         /\ pc'[p] = "put" => job[p] # "tell"
<1> USE DEF TypeOK, Sending
<1>1. TypeWhere
  BY TypeParts
<1>2. Then(p) \notin Sending
  BY <1>1, ThenPlaces DEF Sending
<1>3. CASE SendSkip(p)
  BY <1>1, <1>3, AdvanceEffect DEF SendSkip, At, users
<1>4. CASE SendPut(p) \/ SendName(p)
  BY <1>4 DEF SendPut, SendName, At, Goto
<1>5. CASE SendKill(p)
  BY <1>1, <1>5, AdvanceEffect DEF SendKill, At, users
<1>6. CASE SendCheck(p)
  <2>1. CASE Goto(p, "spin") /\ UNCHANGED <<tgt, job>>
    BY <1>6, <2>1 DEF SendCheck, At, Goto, users
  <2>2. CASE Advance(p, "check", Then(p))
    BY <1>1, <1>2, <1>6, <2>2, ThenPlaces, AdvanceEffect DEF SendCheck, At, users
  <2> QED BY <1>6, <2>1, <2>2 DEF SendCheck
<1>7. CASE SendSpin(p)
  BY <1>1, <1>2, <1>7, ThenPlaces, AdvanceEffect DEF SendSpin, At, users
<1> QED BY <1>3, <1>4, <1>5, <1>6, <1>7 DEF Sends

\* What a quiet step does to who is there.
LEMMA QuietLife ==
  ASSUME TypeOK, Quiet
  PROVE  /\ UNCHANGED <<used, sock, row>>
         /\ \A q \in Sessions : (pc'[q] = "none" <=> pc[q] = "none") /\ (Live(q)' => Live(q))
<1>1. UNCHANGED <<used, sock, row>>
  BY DEF Quiet, Rows
<1>2. CASE Stays
  BY <1>1, <1>2 DEF Stays, Live
<1>3. ASSUME NEW p \in Sessions, Moves(p) \/ Begins(p) \/ Ends(p)
      PROVE \A q \in Sessions : (pc'[q] = "none" <=> pc[q] = "none") /\ (Live(q)' => Live(q))
  BY <1>3 DEF Moves, Begins, Ends, Begin, Goto, Live, TypeOK
<1> QED BY <1>1, <1>2, <1>3 DEF Quiet

\* The table initially.
LEMMA InitTable == Init => Table
BY DEF Init, Table, Rowed, UsedRows, Known, OwnRow, Live

\* The table stays in order.
LEMMA TableStep ==
  ASSUME TypeOK, Table, Idle, Handlers, [Next]_vars PROVE Table'
<1> SUFFICES (Rowed /\ UsedRows /\ Known /\ OwnRow)'
  BY DEF Table
<1> USE DEF Table, Rowed, UsedRows, Known, OwnRow, Live
<1>1. CASE Quiet
  <2>1. /\ UNCHANGED <<used, sock, row>>
        /\ \A q \in Sessions : (pc'[q] = "none" <=> pc[q] = "none") /\ (Live(q)' => Live(q))
    BY <1>1, QuietLife
  <2>2. \A r \in Ids : sock[r] \in Sessions \cup {None}
    BY DEF TypeOK
  <2> QED BY <2>1, <2>2
<1>2. ASSUME NEW p \in Sessions, NEW r \in Ids, Accept(p, r)
      PROVE (Rowed /\ UsedRows /\ Known /\ OwnRow)'
  <2>1. /\ pc[p] = "none" /\ ~used[r]
        /\ pc' = [pc EXCEPT ![p] = "accepted"] /\ used' = [used EXCEPT ![r] = TRUE]
        /\ sock' = [sock EXCEPT ![r] = p] /\ row' = [row EXCEPT ![p] = r]
    BY <1>2, Values DEF Accept, FirstFree, Goto, Over, Ids
  <2>2. \A q \in Ids : used[q] => sock[q] # p
    BY <2>1
  <2>3. \A q \in Sessions : Live(q) => q # p /\ row[q] # r
    BY <2>1
  <2> QED BY <2>1, <2>2, <2>3 DEF TypeOK
<1>3. ASSUME NEW p \in Sessions, Release(p)
      PROVE (Rowed /\ UsedRows /\ Known /\ OwnRow)'
  <2>1. /\ pc[p] = "release"
        /\ pc' = [pc EXCEPT ![p] = "zombie"] /\ used' = [used EXCEPT ![row[p]] = FALSE]
        /\ UNCHANGED <<sock, row>>
    BY <1>3 DEF Release, At, End, Goto
  <2>2. \A q \in Sessions \ {p} : Live(q) => row[q] # row[p]
    BY <2>1
  <2> QED BY <2>1, <2>2 DEF TypeOK
<1>4. ASSUME NEW p \in Sessions, Sends(p)
      PROVE (Rowed /\ UsedRows /\ Known /\ OwnRow)'
  <2>1. Live(p) /\ pc'[p] # "none"
    BY <1>4, SendsEffect, ThenPlaces, TypeParts DEF Sending
  <2>2. \A r \in Ids : sock[r] \in Sessions \cup {None}
    BY DEF TypeOK
  <2> QED BY <1>4, <2>1, <2>2, SendsEffect
<1> QED BY <1>1, <1>2, <1>3, <1>4, StepEffect

-----------------------------------------------------------------------------
(* Where the processes are *)

Places == LinesNamed /\ TellsKnown /\ Idle /\ Handlers

\* The places initially.
LEMMA InitPlaces == Init => Places
BY DEF Init, Places, LinesNamed, TellsKnown, Idle, Handlers

\* A message is announced while it is sent.
LEMMA IdleStep ==
  ASSUME TypeOK, Idle, Handlers, [Next]_vars PROVE Idle'
<1>1. CASE Quiet
  <2>1. CASE Stays
    BY <2>1 DEF Stays, Idle
  <2>2. ASSUME NEW p \in Sessions, Moves(p) PROVE Idle'
    BY <2>2 DEF Moves, Goto, Idle, TypeOK
  <2>3. ASSUME NEW p \in Sessions, Begins(p) PROVE Idle'
    BY <2>3 DEF Begins, Begin, Goto, Idle, Sending, TypeOK
  <2>4. ASSUME NEW p \in Sessions, Ends(p) PROVE Idle'
    BY <2>4 DEF Ends, Goto, Idle, Sending, TypeOK
  <2> QED BY <1>1, <2>1, <2>2, <2>3, <2>4 DEF Quiet
<1>2. ASSUME NEW p \in Sessions, NEW r \in Ids, Accept(p, r) PROVE Idle'
  BY <1>2 DEF Accept, Goto, Idle, Sending, TypeOK
<1>3. ASSUME NEW p \in Sessions, Release(p) PROVE Idle'
  BY <1>3 DEF Release, End, Goto, Idle, Sending, TypeOK
<1>4. ASSUME NEW p \in Sessions, Sends(p) PROVE Idle'
  BY <1>4, SendsEffect DEF Idle
<1> QED BY <1>1, <1>2, <1>3, <1>4, StepEffect

\* A tell is sent to a row that somebody had.
LEMMA TellsKnownStep ==
  ASSUME TypeOK, Table, Places, [Next]_vars PROVE TellsKnown'
<1> USE DEF TellsKnown, Places
<1>1. CASE Quiet
  <2>0. UNCHANGED sock
    BY <1>1, QuietLife
  <2>1. CASE Stays
    BY <2>0, <2>1 DEF Stays
  <2>2. ASSUME NEW p \in Sessions, Moves(p) PROVE TellsKnown'
    BY <2>0, <2>2 DEF Moves, Goto, Sending, TypeOK
  <2>3. ASSUME NEW p \in Sessions, Begins(p) PROVE TellsKnown'
    BY <2>0, <2>3 DEF Begins, Begin, Goto, Table, UsedRows, TypeOK
  <2>4. ASSUME NEW p \in Sessions, Ends(p) PROVE TellsKnown'
    BY <2>0, <2>4 DEF Ends, Goto, TypeOK
  <2> QED BY <1>1, <2>1, <2>2, <2>3, <2>4 DEF Quiet
<1>2. ASSUME NEW p \in Sessions, NEW r \in Ids, Accept(p, r) PROVE TellsKnown'
  BY <1>2 DEF Accept, Goto, TypeOK
<1>3. ASSUME NEW p \in Sessions, Release(p) PROVE TellsKnown'
  BY <1>3 DEF Release, End, Goto, TypeOK
<1>4. ASSUME NEW p \in Sessions, Sends(p) PROVE TellsKnown'
  BY <1>4, SendsEffect, ThenPlaces, TypeParts
<1> QED BY <1>1, <1>2, <1>3, <1>4, StepEffect

\* The steps after which a line is used have looked at it.
LEMMA LinesNamedStep ==
  ASSUME TypeOK, Places, [Next]_vars PROVE LinesNamed'
<1> USE DEF LinesNamed, TypeOK
<1>0. LinesNamed
  BY DEF Places
<1>1. ASSUME NEW p \in Sessions, line' = [line EXCEPT ![p] = NoLine],
             NEW l \in {"prompt", "zombie"},
             Goto(p, l)
      PROVE LinesNamed'
  BY <1>0, <1>1 DEF Goto
<1>2. ASSUME NEW p \in Sessions, UNCHANGED line,
             UNCHANGED pc \/ \E l \in PCs \ {"wcheck", "mkfifo", "fsender", "fkill", "fspin", "rcheck", "unlink"} : Goto(p, l)
      PROVE LinesNamed'
  BY <1>0, <1>2 DEF Goto
<1>3. ASSUME NEW p \in Sessions, Dies(p, {0, 1}) \/ Dies(p, {1}) PROVE LinesNamed'
  BY <1>1, <1>3 DEF Dies, End
<1>4. ASSUME Main PROVE LinesNamed'
  <2>1. UNCHANGED <<pc, line>> \/ \E p \in Sessions : UNCHANGED line /\ \E l \in {"accepted", "new", "gone"} : Goto(p, l)
    BY <1>4 DEF Main, MainMessage, MainFifo, MainEnds, Accept, LoginOverrun, LoginClear, Fork,
       KillZombie, where
  <2> QED BY <1>0, <1>2, <2>1 DEF PCs
<1>5. ASSUME NEW p \in Sessions, Handle(p) PROVE LinesNamed'
  <2>1. UNCHANGED <<pc, line>> \/ HandlerFails(p)
    BY <1>5 DEF Handle, Enter, MsgShow, FifoOpen, FifoReset, where
  <2> QED BY <1>0, <1>3, <2>1, WriteFailsDies DEF HandlerFails
<1>6. ASSUME NEW p \in Sessions, Sends(p) PROVE LinesNamed'
  <2>1. pc'[p] \in Sending \/ pc'[p] = Then(p)
    BY <1>6, SendsEffect
  <2>2. Then(p) = "wcheck" => line[p].wr \in Ids
    BY Values DEF Then, Line
  <2>3. LinesNamed'
    BY <1>0, <1>6, <2>1, <2>2, SendsEffect, ThenPlaces, TypeParts DEF Sending
  <2> QED BY <2>3
<1>7. ASSUME NEW p \in Sessions, NEW l \in Lines, TypeLine(p, l) PROVE LinesNamed'
  <2>1. l \in Line
    BY LinesKnown
  <2>2. CASE l.kind # "run"
    <3>1. UNCHANGED line /\ (UNCHANGED pc \/ Goto(p, "put"))
      <4>1. CASE l.kind = "yell"
        BY <1>7, <4>1 DEF TypeLine, Begin
      <4>2. CASE l.kind = "exit"
        BY <1>7, <4>2 DEF TypeLine, Begin
      <4>3. CASE l.kind = "tell"
        BY <1>7, <4>3 DEF TypeLine, Begin
      <4> QED BY <2>1, <2>2, <4>1, <4>2, <4>3 DEF Line
    <3> QED BY <1>2, <3>1 DEF PCs
  <2>3. CASE l.kind = "run"
    <3>1. Goto(p, IF l.rd # 0 THEN "rcheck" ELSE IF l.wr # 0 THEN "wcheck" ELSE "fd")
          /\ line' = [line EXCEPT ![p] = l]
      BY <1>7, <2>3 DEF TypeLine
    <3>2. /\ l.rd # 0 => l.rd \in Ids
          /\ l.wr # 0 => l.wr \in Ids
      BY <2>1, Values DEF Line
    <3> QED BY <1>0, <3>1, <3>2 DEF Goto
  <2> QED BY <2>2, <2>3
<1>8. ASSUME NEW p \in Sessions, Work(p) \/ Hangup(p) PROVE LinesNamed'
  <2>1. CASE Start(p) \/ Greet(p) \/ MakeFifo(p) \/ FifoWrite(p) \/ Clean(p) \/ Hangup(p)
    BY <1>2, <2>1 DEF Start, Greet, MakeFifo, FifoWrite, Clean, Hangup, Begin, PCs, where
  <2>2. CASE FifoError(p) \/ FifoGone(p) \/ Disconnected(p)
    BY <1>3, <2>2, WriteFailsDies DEF FifoError, FifoGone, Disconnected
  <2>3. CASE ReadCheck(p) \/ Unlink(p)
    BY <1>1, <1>2, <2>3 DEF ReadCheck, Unlink, Begin, Prompt, PCs
  <2>4. CASE WriteCheck(p)
    BY <1>0, <1>1, <2>4 DEF WriteCheck, Prompt, Goto, At
  <2>5. CASE FifoSender(p) \/ FifoKill(p)
    BY <1>0, <2>5 DEF FifoSender, FifoKill, Goto, At
  <2>6. CASE TakeFd(p)
    <3>1. line[p].wr # 0 => line[p].wr \in Ids
      BY Values DEF Line
    <3>2. Goto(p, IF line[p].wr = 0 THEN "exec" ELSE "fsender") /\ UNCHANGED line
      BY <2>6 DEF TakeFd
    <3> QED BY <1>0, <3>1, <3>2 DEF Goto
  <2>7. ASSUME NEW k, Program(p, k) PROVE LinesNamed'
    <3>1. line[p].rd # 0 => line[p].rd \in Ids
      BY Values DEF Line
    <3>2. IF line[p].rd = 0 THEN Prompt(p) ELSE Goto(p, "unlink") /\ UNCHANGED line
      BY <2>7 DEF Program
    <3> QED BY <1>0, <1>1, <3>1, <3>2 DEF Prompt, Goto
  <2>8. CASE Release(p)
    BY <1>1, <2>8 DEF Release, End
  <2> QED BY <1>6, <1>8, <2>1, <2>2, <2>3, <2>4, <2>5, <2>6, <2>7, <2>8 DEF Work, Sends
<1>9. CASE UNCHANGED vars
  BY <1>0, <1>9 DEF vars, where
<1> QED BY <1>4, <1>5, <1>7, <1>8, <1>9 DEF Next

-----------------------------------------------------------------------------
(* What the steps do to signals, slots and senders *)

\* Steps that change signals, slots, senderIds or pids.
Shows(p) == Enter(p, "USR1") \/ Enter(p, "USR2") \/ MsgShow(p) \/ FifoOpen(p) \/ FifoReset(p)
Dead(p)  == \E k \in 0..MaxId : End(p, k) /\ UNCHANGED <<sock, pid, slot, sender, row>>

\* The others leave them alone.
LEMMA DataEffect ==
  ASSUME TypeOK, Rowed, [Next]_vars
  PROVE  \/ UNCHANGED <<sig, pid, slot, sender>>
         \/ MainMessage /\ mainId \in Ids /\ UNCHANGED <<sig, pid, sender>>
            /\ slot' = [slot EXCEPT ![mainId][sender[mainId]] = None]
         \/ MainFifo /\ mainId \in 0..MaxId /\ UNCHANGED <<sig, pid, slot>>
            /\ sender' = [sender EXCEPT ![mainId] = 0]
         \/ \E p \in Sessions :
              Shows(p) \/ Dead(p) \/ SendPut(p) \/ SendName(p) \/ SendKill(p) \/ Start(p)
                \/ FifoSender(p) \/ FifoKill(p)
<1> DEFINE Calm == UNCHANGED <<sig, pid, slot, sender>>
<1>1. ASSUME MainEnds PROVE Calm
  BY <1>1 DEF MainEnds, users
<1>2. CASE MainMessage
  <2>1. mainId # 0 => mainId \in Ids
    BY Values DEF TypeOK
  <2> QED BY <1>1, <1>2, <2>1 DEF MainMessage
<1>3. CASE MainFifo
  <2>1. mainId \in 0..MaxId
    BY DEF TypeOK
  <2> QED BY <1>1, <1>3, <2>1 DEF MainFifo
<1>4. ASSUME NEW p \in Sessions,
             (\E r \in Ids : Accept(p, r)) \/ LoginOverrun(p) \/ LoginClear(p) \/ Fork(p) \/ KillZombie(p)
      PROVE Calm
  BY <1>1, <1>4 DEF Accept, LoginOverrun, LoginClear, Fork, KillZombie, users
<1>5. ASSUME NEW p \in Sessions, Dies(p, {0, 1}) \/ Dies(p, {1}) PROVE Dead(p)
  <2>1. 0 \in 0..MaxId /\ 1 \in 0..MaxId
    BY Values
  <2> QED BY <1>5, <2>1 DEF Dies, Dead, users
<1>6. ASSUME NEW p \in Sessions, Handle(p) PROVE Shows(p) \/ Dead(p)
  BY <1>5, <1>6, WriteFailsDies DEF Handle, Shows, HandlerFails
<1>7. ASSUME NEW p \in Sessions, NEW l \in Lines, TypeLine(p, l) PROVE Calm
  BY <1>7 DEF TypeLine, users
<1>8. ASSUME NEW p \in Sessions, NEW k, Program(p, k) PROVE Calm
  BY <1>8 DEF Program, users
<1>9. ASSUME NEW p \in Sessions, Release(p) PROVE Dead(p)
  <2>1. row[p] \in 0..MaxId
    BY <1>9, Values DEF Release, At, Rowed
  <2> QED BY <1>9, <2>1 DEF Release, Dead
<1>10. ASSUME NEW p \in Sessions,
              \/ Greet(p) \/ SendSkip(p) \/ SendCheck(p) \/ SendSpin(p) \/ ReadCheck(p)
              \/ WriteCheck(p) \/ MakeFifo(p) \/ TakeFd(p) \/ FifoWrite(p) \/ Unlink(p) \/ Clean(p)
              \/ Hangup(p)
       PROVE Calm
  BY <1>10 DEF Greet, SendSkip, SendCheck, SendSpin, ReadCheck, WriteCheck, MakeFifo, TakeFd,
               FifoWrite, Unlink, Clean, Hangup, users
<1>11. ASSUME NEW p \in Sessions, FifoError(p) \/ FifoGone(p) \/ Disconnected(p) PROVE Dead(p)
  BY <1>5, <1>11, WriteFailsDies DEF FifoError, FifoGone, Disconnected
<1>12. CASE UNCHANGED vars
  BY <1>12 DEF vars, users
<1> QED BY <1>2, <1>3, <1>4, <1>6, <1>7, <1>8, <1>9, <1>10, <1>11, <1>12 DEF Next, Main, Work

\* A process handles signals when it has a row.
LEMMA HandlersStep ==
  ASSUME TypeOK, Rowed, Idle, Handlers, [Next]_vars PROVE Handlers'
<1>1. \A q \in Sessions : pc'[q] = "none" => pc[q] = "none"
  <2>1. CASE Quiet
    BY <2>1, QuietLife
  <2>2. ASSUME NEW p \in Sessions, NEW r \in Ids, Accept(p, r)
        PROVE \A q \in Sessions : pc'[q] = "none" => pc[q] = "none"
    BY <2>2 DEF Accept, Goto, TypeOK
  <2>3. ASSUME NEW p \in Sessions, Release(p)
        PROVE \A q \in Sessions : pc'[q] = "none" => pc[q] = "none"
    BY <2>3 DEF Release, End, Goto, TypeOK
  <2>4. ASSUME NEW p \in Sessions, Sends(p)
        PROVE \A q \in Sessions : pc'[q] = "none" => pc[q] = "none"
    BY <2>4, SendsEffect, ThenPlaces, TypeParts DEF Sending
  <2> QED BY <2>1, <2>2, <2>3, <2>4, StepEffect
<1>2. \A q \in Sessions : frames'[q] # <<>> => frames[q] # <<>> \/ pc[q] # "none"
  <2>1. ASSUME NEW p \in Sessions, UNCHANGED frames
                 \/ \E f : frames' = [frames EXCEPT ![p] = f] /\ (pc[p] # "none" \/ f = <<>>)
        PROVE \A q \in Sessions : frames'[q] # <<>> => frames[q] # <<>> \/ pc[q] # "none"
    BY <2>1 DEF TypeOK
  <2>2. ASSUME NEW p \in Sessions, Shows(p)
        PROVE \E f : frames' = [frames EXCEPT ![p] = f] /\ pc[p] # "none"
    BY <2>2 DEF Shows, Enter, Alive, MsgShow, FifoOpen, FifoReset, InHandler, Return, Handlers
  <2>3. ASSUME NEW p \in Sessions, Dead(p)
        PROVE frames' = [frames EXCEPT ![p] = <<>>]
    BY <2>3 DEF Dead, End
  <2>4. ASSUME NEW p \in Sessions, NEW s, NEW r, pc[p] # "none", Signal(p, s, r)
        PROVE UNCHANGED frames \/ \E f : frames' = [frames EXCEPT ![p] = f] /\ pc[p] # "none"
    BY <2>4 DEF Signal
  <2>5. ASSUME NEW p \in Sessions, SendKill(p) \/ FifoKill(p)
        PROVE UNCHANGED frames \/ \E f : frames' = [frames EXCEPT ![p] = f] /\ pc[p] # "none"
    BY <2>4, <2>5 DEF SendKill, FifoKill, At
  <2>6. ASSUME NEW p \in Sessions, SendPut(p) \/ SendName(p) \/ Start(p) \/ FifoSender(p)
        PROVE UNCHANGED frames
    BY <2>6 DEF SendPut, SendName, Start, FifoSender, sig
  <2> QED BY <2>1, <2>2, <2>3, <2>5, <2>6, DataEffect DEF sig
<1> QED BY <1>1, <1>2 DEF Handlers

-----------------------------------------------------------------------------
(* The registry of ids *)

IInv == TypeOK /\ Table /\ Places

\* Types, the table and the places hold throughout.
LEMMA Invariant == Spec => []IInv
<1>1. Init => IInv
  BY InitTypes, InitTable, InitPlaces DEF IInv
<1>2. ASSUME IInv, [Next]_vars PROVE IInv'
  BY <1>2, TypeStep, TableStep, IdleStep, HandlersStep, TellsKnownStep, LinesNamedStep
     DEF IInv, Places, Table
<1> QED BY <1>1, <1>2, PTL DEF Spec

\* The invariant of types.
THEOREM TypeCorrect == Spec => []TypeOK
<1>1. IInv => TypeOK
  BY DEF IInv
<1> QED BY <1>1, Invariant, PTL

\* Only login gives a row out, and only the user it was given to gives it back.
THEOREM ImplementsRegistry == Spec => RegistrySpec
<1>1. Init => Registry!Init
  BY DEF Init, Registry!Init, holder
<1>2. ASSUME IInv, [Next]_vars PROVE [Registry!Next]_holder
  <2> USE DEF IInv
  <2>1. CASE UNCHANGED <<used, sock>>
    BY <2>1 DEF holder
  <2>2. ASSUME NEW p \in Sessions, NEW r \in Ids, Accept(p, r) PROVE Registry!Acquire(p, r)
    <3>1. /\ pc[p] = "none" /\ ~used[r]
          /\ used' = [used EXCEPT ![r] = TRUE] /\ sock' = [sock EXCEPT ![r] = p]
      BY <2>2, Values DEF Accept, FirstFree, Over, Ids
    <3>2. \A j \in Ids : used[j] => sock[j] # p
      BY <1>2, <3>1 DEF Table, UsedRows, Known
    <3>3. holder' = [holder EXCEPT ![r] = p]
      BY <1>2, <3>1 DEF TypeOK, holder
    <3> QED BY <3>1, <3>2, <3>3 DEF Registry!Acquire, holder
  <2>3. ASSUME NEW p \in Sessions, Release(p) PROVE Registry!Release(row[p]) /\ row[p] \in Ids
    <3>1. /\ pc[p] = "release" /\ used' = [used EXCEPT ![row[p]] = FALSE] /\ UNCHANGED sock
      BY <2>3 DEF Release, At
    <3>2. row[p] \in Ids /\ used[row[p]] /\ sock[row[p]] = p
      BY <1>2, <3>1 DEF Table, Rowed, OwnRow, Live
    <3>3. holder' = [holder EXCEPT ![row[p]] = None]
      BY <1>2, <3>1, <3>2 DEF TypeOK, holder
    <3> QED BY <3>2, <3>3 DEF Registry!Release, holder
  <2>4. \/ UNCHANGED <<used, sock>>
        \/ \E p \in Sessions, r \in Ids : Accept(p, r)
        \/ \E p \in Sessions : Release(p)
    BY <1>2, StepEffect, SendsEffect DEF Quiet, Rows, Places
  <2> QED BY <2>1, <2>2, <2>3, <2>4 DEF Registry!Next
<1> QED BY <1>1, <1>2, Invariant, PTL DEF Spec, RegistrySpec, Registry!Spec

-----------------------------------------------------------------------------
(* Slots *)

\* p has signalled row r in this broadcast or passed it by, and is still to wait for it.
SignalledTo(p, r) ==
  \/ pc[p] \in {"put", "name", "kill"} /\ job[p] # "tell" /\ r < tgt[p]
  \/ pc[p] \in {"check", "spin"} /\ IF job[p] = "tell" THEN r = tgt[p] ELSE r >= tgt[p]

\* The same, or p has just written into it.
PendingTo(p, r) == SignalledTo(p, r) \/ (pc[p] \in {"name", "kill"} /\ r = tgt[p])

\* The user who has row r, if there is one, has no message from row s.
Received(s, r) == used[r] => slot[r][s] = None \/ slot[r][s].to # sock[r]

\* Messages are for users who were accepted.
SlotsKnown == \A r, s \in Ids : slot[r][s] # None => pc[slot[r][s].to] # "none"

\* A row that is free has left no message for a user who is there, nor has one
\* whose user is not waiting for him.
SlotsFree ==
  \A r, s \in Ids :
    /\ ~used[s] => Received(s, r)
    /\ \A p \in Sessions : Live(p) /\ row[p] = s /\ ~PendingTo(p, r) => Received(s, r)

\* The loops pass over a row when its slot is empty or its user gone.
LEMMA SendLoop ==
  ASSUME TypeOK, NEW p \in Sessions, Sends(p), NEW r \in Ids
  PROVE  /\ SignalledTo(p, r)' => SignalledTo(p, r) \/ (r = tgt[p] /\ (SendKill(p) \/ ~used[r]))
         /\ PendingTo(p, r) => PendingTo(p, r)'
               \/ (r = tgt[p] /\ (used[r] => slot[r][row[p]] = None))
         /\ SendPut(p) /\ r = tgt[p] => PendingTo(p, r)'
<1>1. TypeWhere /\ tgt[p] \in Ids /\ pc \in [Sessions -> PCs] /\ tgt \in [Sessions -> Ids] /\ r \in Nat
      /\ job \in [Sessions -> {"none", "enter", "yell", "tell", "read", "piped", "left"}]
      /\ tgt[p] \in Nat /\ r <= MaxId /\ r >= 1
  BY TypeParts, Values DEF TypeWhere, Ids
<1> USE DEF SignalledTo, PendingTo
<1>2. CASE SendSkip(p)
  <2>1. pc[p] = "put" /\ job[p] # "tell" /\ ~used[tgt[p]] /\ Advance(p, "put", "check")
    BY <1>2 DEF SendSkip, At
  <2>2. ~SendPut(p)
    BY <2>1 DEF SendPut
  <2>3. CASE /\ job[p] # "tell" /\ tgt[p] < MaxId /\ tgt[p] + 1 \in Ids
             /\ tgt' = [tgt EXCEPT ![p] = tgt[p] + 1] /\ UNCHANGED job
             /\ pc' = [pc EXCEPT ![p] = "put"]
    BY <1>1, <2>1, <2>2, <2>3
  <2>4. CASE /\ tgt[p] = MaxId /\ tgt' = [tgt EXCEPT ![p] = 1] /\ UNCHANGED job
             /\ pc' = [pc EXCEPT ![p] = "check"]
    BY <1>1, <2>1, <2>2, <2>4
  <2> QED BY <1>1, <2>1, <2>3, <2>4, AdvanceEffect
<1>3. CASE SendPut(p)
  BY <1>1, <1>3 DEF SendPut, At, Goto
<1>4. CASE SendName(p)
  BY <1>1, <1>4 DEF SendName, At, Goto
<1>5. CASE SendKill(p)
  <2>1. pc[p] = "kill" /\ Advance(p, "put", IF job[p] = "tell" THEN "spin" ELSE "check")
    BY <1>5 DEF SendKill, At
  <2>2. ~SendPut(p)
    BY <2>1 DEF SendPut, At
  <2>3. CASE /\ job[p] # "tell" /\ tgt[p] < MaxId /\ tgt[p] + 1 \in Ids
             /\ tgt' = [tgt EXCEPT ![p] = tgt[p] + 1] /\ UNCHANGED job
             /\ pc' = [pc EXCEPT ![p] = "put"]
    BY <1>1, <1>5, <2>1, <2>2, <2>3
  <2>4. CASE /\ job[p] # "tell" /\ tgt[p] = MaxId /\ tgt' = [tgt EXCEPT ![p] = 1]
             /\ UNCHANGED job /\ pc' = [pc EXCEPT ![p] = "check"]
    BY <1>1, <1>5, <2>1, <2>2, <2>4
  <2>5. CASE job[p] = "tell" /\ UNCHANGED <<tgt, job>> /\ pc' = [pc EXCEPT ![p] = "spin"]
    BY <1>1, <1>5, <2>1, <2>2, <2>5
  <2> QED BY <1>1, <2>1, <2>3, <2>4, <2>5, AdvanceEffect
<1>6. CASE SendCheck(p)
  <2>1. CASE Goto(p, "spin") /\ UNCHANGED <<tgt, job>>
    BY <1>1, <1>6, <2>1 DEF SendCheck, At, Goto
  <2>2. CASE ~(used[tgt[p]] /\ slot[tgt[p]][row[p]] # None) /\ Advance(p, "check", Then(p))
    <3>1. Then(p) \in {"clean", "wcheck", "fd", "prompt"} /\ pc[p] = "check"
      BY <1>1, <1>6, ThenPlaces DEF SendCheck, At
    <3>2. CASE /\ job[p] # "tell" /\ tgt[p] < MaxId /\ tgt[p] + 1 \in Ids
               /\ tgt' = [tgt EXCEPT ![p] = tgt[p] + 1] /\ UNCHANGED job
               /\ pc' = [pc EXCEPT ![p] = "check"]
      BY <1>1, <2>2, <3>1, <3>2 DEF SendPut, At
    <3>3. CASE (job[p] = "tell" \/ tgt[p] = MaxId) /\ pc' = [pc EXCEPT ![p] = Then(p)]
      BY <1>1, <2>2, <3>1, <3>3 DEF SendPut, At
    <3> QED BY <1>1, <2>2, <3>2, <3>3, AdvanceEffect
  <2> QED BY <1>6, <2>1, <2>2 DEF SendCheck
<1>7. CASE SendSpin(p)
  <2>1. Then(p) \in {"clean", "wcheck", "fd", "prompt"} /\ pc[p] = "spin" /\ slot[tgt[p]][row[p]] = None
        /\ Advance(p, "check", Then(p))
    BY <1>1, <1>7, ThenPlaces DEF SendSpin, At
  <2>2. CASE /\ job[p] # "tell" /\ tgt[p] < MaxId /\ tgt[p] + 1 \in Ids
             /\ tgt' = [tgt EXCEPT ![p] = tgt[p] + 1] /\ UNCHANGED job
             /\ pc' = [pc EXCEPT ![p] = "check"]
    BY <1>1, <2>1, <2>2 DEF SendPut, At
  <2>3. CASE (job[p] = "tell" \/ tgt[p] = MaxId) /\ pc' = [pc EXCEPT ![p] = Then(p)]
    BY <1>1, <2>1, <2>3 DEF SendPut, At
  <2> QED BY <1>1, <2>1, <2>2, <2>3, AdvanceEffect
<1> QED BY <1>2, <1>3, <1>4, <1>5, <1>6, <1>7 DEF Sends

\* Outside of ras_send nobody becomes or ceases to be waited for.
LEMMA QuietSending ==
  ASSUME TypeOK, Quiet, NEW q \in Sessions, Live(q)', NEW r \in Ids
  PROVE  (SignalledTo(q, r)' <=> SignalledTo(q, r)) /\ (PendingTo(q, r)' <=> PendingTo(q, r))
<1> USE DEF SignalledTo, PendingTo
<1>1. CASE Stays
  BY <1>1 DEF Stays
<1>2. ASSUME NEW p \in Sessions, Moves(p)
      PROVE  (SignalledTo(q, r)' <=> SignalledTo(q, r)) /\ (PendingTo(q, r)' <=> PendingTo(q, r))
  BY <1>2 DEF Moves, Goto, Sending, TypeOK
<1>3. ASSUME NEW p \in Sessions, Begins(p)
      PROVE  (SignalledTo(q, r)' <=> SignalledTo(q, r)) /\ (PendingTo(q, r)' <=> PendingTo(q, r))
  <2>1. PICK j \in {"enter", "yell", "tell", "read", "piped", "left"}, t \in Ids :
          Begin(p, j, t) /\ (j # "tell" => t = 1)
    BY <1>3 DEF Begins
  <2>2. CASE q = p
    <3>1. pc[q] \notin {"put", "name", "kill", "check", "spin"}
      BY <1>3, <2>2 DEF Begins, Sending
    <3>2. pc'[q] = "put" /\ job'[q] = j /\ tgt'[q] = t
      BY <2>1, <2>2 DEF Begin, Goto, TypeOK
    <3>3. ~(r < 1)
      BY DEF Ids
    <3> QED BY <2>1, <3>1, <3>2, <3>3
  <2>3. CASE q # p
    BY <2>1, <2>3 DEF Begin, Goto, TypeOK
  <2> QED BY <2>2, <2>3
<1>4. ASSUME NEW p \in Sessions, Ends(p)
      PROVE  (SignalledTo(q, r)' <=> SignalledTo(q, r)) /\ (PendingTo(q, r)' <=> PendingTo(q, r))
  BY <1>4 DEF Ends, Goto, Live, TypeOK
<1> QED BY <1>1, <1>2, <1>3, <1>4 DEF Quiet

\* A slot is emptied, or written by SendPut.
LEMMA SlotEffect ==
  ASSUME IInv, [Next]_vars
  PROVE  \/ \A r, s \in Ids : slot'[r][s] = slot[r][s] \/ slot'[r][s] = None
         \/ \E p \in Sessions : SendPut(p)
<1> USE DEF IInv
<1>1. ASSUME NEW a \in Ids, NEW b \in 0..MaxId, slot' = [slot EXCEPT ![a][b] = None]
      PROVE \A r, s \in Ids : slot'[r][s] = slot[r][s] \/ slot'[r][s] = None
  BY <1>1, Values DEF TypeOK
<1>2. CASE UNCHANGED slot
  BY <1>2
<1>3. CASE MainMessage /\ mainId \in Ids /\ slot' = [slot EXCEPT ![mainId][sender[mainId]] = None]
  <2>1. sender[mainId] \in 0..MaxId
    BY <1>3 DEF TypeOK
  <2> QED BY <1>1, <1>3, <2>1
<1>4. ASSUME NEW p \in Sessions, Shows(p)
      PROVE \A r, s \in Ids : slot'[r][s] = slot[r][s] \/ slot'[r][s] = None
  <2>1. CASE MsgShow(p)
    <3>1. row[p] \in Ids
      BY <2>1 DEF MsgShow, InHandler, Places, Handlers, Table, Rowed
    <3>2. Head(frames[p]) \in Frame
      BY <2>1, Frames, TypeParts DEF MsgShow, InHandler
    <3>3. from(p) \in 0..MaxId
      BY <3>2 DEF from, Frame
    <3> QED BY <1>1, <2>1, <3>1, <3>3 DEF MsgShow
  <2>2. CASE ~MsgShow(p)
    BY <1>2, <1>4, <2>2 DEF Shows, Enter, FifoOpen, FifoReset, users
  <2> QED BY <2>1, <2>2
<1>5. ASSUME NEW p \in Sessions, Dead(p) \/ SendName(p) \/ SendKill(p) \/ Start(p)
               \/ FifoSender(p) \/ FifoKill(p)
      PROVE UNCHANGED slot
  BY <1>5 DEF Dead, SendName, SendKill, Start, FifoSender, FifoKill, users
<1> QED BY <1>2, <1>3, <1>4, <1>5, DataEffect DEF Table

\* Who was accepted was accepted.
LEMMA NoneEffect ==
  ASSUME IInv, [Next]_vars, NEW q \in Sessions PROVE pc'[q] = "none" => pc[q] = "none"
<1> USE DEF IInv
<1>1. CASE Quiet
  BY <1>1, QuietLife
<1>2. ASSUME NEW p \in Sessions, NEW r \in Ids, Accept(p, r) PROVE pc'[q] = "none" => pc[q] = "none"
  BY <1>2 DEF Accept, Goto, TypeOK
<1>3. ASSUME NEW p \in Sessions, Release(p) PROVE pc'[q] = "none" => pc[q] = "none"
  BY <1>3 DEF Release, End, Goto, TypeOK
<1>4. ASSUME NEW p \in Sessions, Sends(p) PROVE pc'[q] = "none" => pc[q] = "none"
  BY <1>4, SendsEffect, ThenPlaces, TypeParts DEF Sending
<1> QED BY <1>1, <1>2, <1>3, <1>4, StepEffect DEF Places

\* What SendPut stores.
LEMMA PutEffect ==
  ASSUME IInv, NEW p \in Sessions, SendPut(p)
  PROVE  /\ pc[p] = "put" /\ Live(p) /\ row[p] \in Ids /\ tgt[p] \in Ids /\ sock[tgt[p]] \in Sessions
         /\ slot'[tgt[p]][row[p]] = [from |-> p, to |-> sock[tgt[p]]]
         /\ \A r, s \in Ids : r # tgt[p] \/ s # row[p] => slot'[r][s] = slot[r][s]
<1>1. /\ pc[p] = "put" /\ (job[p] = "tell" \/ used[tgt[p]]) /\ tgt[p] \in Ids
      /\ slot' = [slot EXCEPT ![tgt[p]][row[p]] = [from |-> p, to |-> sock[tgt[p]]]]
  BY DEF SendPut, At, IInv, TypeOK
<1>2. row[p] \in Ids /\ Live(p) /\ row[p] \in 0..MaxId
  BY <1>1, Values DEF IInv, Table, Rowed, Live
<1>3. sock[tgt[p]] \in Sessions
  BY <1>1 DEF IInv, Table, UsedRows, Places, TellsKnown, TypeOK
<1>4. slot \in [Ids -> [0..MaxId -> Message \cup {None}]]
  BY DEF IInv, TypeOK
<1>5. /\ slot'[tgt[p]][row[p]] = [from |-> p, to |-> sock[tgt[p]]]
      /\ \A r, s \in Ids : r # tgt[p] \/ s # row[p] => slot'[r][s] = slot[r][s]
  BY <1>1, <1>2, <1>4, Values
<1> QED BY <1>1, <1>2, <1>3, <1>5

\* Messages are for users who were accepted.
LEMMA SlotsKnownStep ==
  ASSUME IInv, SlotsKnown, [Next]_vars PROVE SlotsKnown'
<1>1. \A r, s \in Ids : slot[r][s] # None => slot[r][s].to \in Sessions
  BY Values DEF IInv, TypeOK, Message
<1>2. CASE \A r, s \in Ids : slot'[r][s] = slot[r][s] \/ slot'[r][s] = None
  BY <1>1, <1>2, NoneEffect DEF SlotsKnown
<1>3. ASSUME NEW p \in Sessions, SendPut(p) PROVE SlotsKnown'
  <2>1. sock[tgt[p]] \in Sessions /\ tgt[p] \in Ids
    BY <1>3, PutEffect
  <2>2. pc[sock[tgt[p]]] # "none"
    BY <2>1 DEF IInv, Table, Known
  <2>3. \A r, s \in Ids :
          slot'[r][s] = slot[r][s] \/ slot'[r][s] = [from |-> p, to |-> sock[tgt[p]]]
    BY <1>3, PutEffect
  <2>4. \A q \in Sessions : pc[q] # "none" => pc'[q] # "none"
    BY NoneEffect
  <2> SUFFICES ASSUME NEW r \in Ids, NEW s \in Ids, slot'[r][s] # None
               PROVE  pc'[slot'[r][s].to] # "none"
    BY DEF SlotsKnown
  <2> QED BY <1>1, <2>1, <2>2, <2>3, <2>4 DEF SlotsKnown
<1> QED BY <1>2, <1>3, SlotEffect

\* One process at a time takes a step.
LEMMA PutOnly ==
  ASSUME IInv, NEW p \in Sessions, Sends(p), NEW q \in Sessions, SendPut(q) PROVE q = p
<1>1. pc[q] = "put" /\ pc'[q] = "name"
  BY DEF SendPut, At, Goto, IInv, TypeOK
<1> QED BY <1>1, SendsEffect DEF IInv

\* What is left in a slot is waited for or for somebody who is gone.
LEMMA SlotsFreeStep ==
  ASSUME IInv, SlotsKnown, SlotsFree, [Next]_vars PROVE SlotsFree'
<1> SUFFICES ASSUME NEW r \in Ids, NEW s \in Ids
             PROVE  /\ ~used'[s] => Received(s, r)'
                    /\ \A p \in Sessions : Live(p)' /\ row'[p] = s /\ ~PendingTo(p, r)'
                          => Received(s, r)'
  BY DEF SlotsFree
<1>0. TypeOK /\ Table /\ Places
  BY DEF IInv
<1>1. /\ ~used[s] => Received(s, r)
      /\ \A p \in Sessions : Live(p) /\ row[p] = s /\ ~PendingTo(p, r) => Received(s, r)
  BY DEF SlotsFree
<1>2. (\A p \in Sessions : ~SendPut(p)) => slot'[r][s] = slot[r][s] \/ slot'[r][s] = None
  BY SlotEffect
<1>3. CASE Quiet
  <2>1. UNCHANGED <<used, sock, row>> /\ \A q \in Sessions : Live(q)' => Live(q)
    BY <1>0, <1>3, QuietLife
  <2>2. \A q \in Sessions : Live(q)' => (PendingTo(q, r)' <=> PendingTo(q, r))
    BY <1>0, <1>3, QuietSending
  <2>3. CASE \A p \in Sessions : ~SendPut(p)
    <3>1. Received(s, r) => Received(s, r)'
      BY <1>2, <2>1, <2>3 DEF Received
    <3> QED BY <1>1, <2>1, <2>2, <3>1
  <2>4. ASSUME NEW p \in Sessions, SendPut(p) PROVE FALSE
    <3>1. pc[p] = "put" /\ pc' = [pc EXCEPT ![p] = "name"]
      BY <2>4 DEF SendPut, At, Goto
    <3>2. pc'[p] = "name" /\ pc'[p] # pc[p]
      BY <1>0, <3>1 DEF TypeOK
    <3>3. ~Stays
      BY <3>2 DEF Stays
    <3>4. ASSUME NEW q \in Sessions, Moves(q) \/ Begins(q) \/ Ends(q) PROVE pc'[p] # "name" \/ q # p
      BY <1>0, <3>4 DEF Moves, Begins, Begin, Ends, Goto, Sending, TypeOK
    <3>5. ASSUME NEW q \in Sessions, Moves(q) \/ Begins(q) \/ Ends(q) PROVE q = p
      BY <1>0, <3>2, <3>5 DEF Moves, Begins, Begin, Ends, Goto, TypeOK
    <3> QED BY <1>3, <3>2, <3>3, <3>4, <3>5 DEF Quiet
  <2> QED BY <2>3, <2>4
<1>4. ASSUME NEW p \in Sessions, NEW a \in Ids, Accept(p, a)
      PROVE  /\ ~used'[s] => Received(s, r)'
             /\ \A q \in Sessions : Live(q)' /\ row'[q] = s /\ ~PendingTo(q, r)' => Received(s, r)'
  <2>1. /\ pc[p] = "none" /\ ~used[a] /\ UNCHANGED <<slot, tgt, job>>
        /\ pc' = [pc EXCEPT ![p] = "accepted"] /\ used' = [used EXCEPT ![a] = TRUE]
        /\ sock' = [sock EXCEPT ![a] = p] /\ row' = [row EXCEPT ![p] = a]
    BY <1>4, Values DEF Accept, FirstFree, Goto, Over, Ids
  <2>2. Received(s, r) => Received(s, r)'
    <3>1. slot[r][s] # None => slot[r][s].to # p
      BY <2>1 DEF SlotsKnown
    <3> QED BY <1>0, <2>1, <3>1 DEF Received, TypeOK
  <2>3. ~used'[s] => ~used[s]
    BY <1>0, <2>1 DEF TypeOK
  <2>4. \A q \in Sessions : q # p /\ Live(q)' /\ row'[q] = s /\ ~PendingTo(q, r)' =>
                             Live(q) /\ row[q] = s /\ ~PendingTo(q, r)
    BY <1>0, <2>1 DEF Live, PendingTo, SignalledTo, TypeOK
  <2>5. row'[p] = s => ~used[s]
    BY <1>0, <2>1 DEF TypeOK
  <2> QED BY <1>1, <2>2, <2>3, <2>4, <2>5
<1>5. ASSUME NEW p \in Sessions, Release(p)
      PROVE  /\ ~used'[s] => Received(s, r)'
             /\ \A q \in Sessions : Live(q)' /\ row'[q] = s /\ ~PendingTo(q, r)' => Received(s, r)'
  <2>1. /\ pc[p] = "release" /\ UNCHANGED <<slot, sock, row>>
        /\ pc' = [pc EXCEPT ![p] = "zombie"] /\ used' = [used EXCEPT ![row[p]] = FALSE]
        /\ tgt' = [tgt EXCEPT ![p] = 1] /\ job' = [job EXCEPT ![p] = "none"]
    BY <1>5 DEF Release, At, End, Goto
  <2>2. Received(s, r) => Received(s, r)'
    BY <1>0, <2>1 DEF Received, TypeOK
  <2>3. ~PendingTo(p, r) /\ Live(p)
    BY <2>1 DEF PendingTo, SignalledTo, Live
  <2>4. ~used'[s] => ~used[s] \/ row[p] = s
    BY <1>0, <2>1 DEF TypeOK
  <2>5. \A q \in Sessions : Live(q)' => /\ Live(q) /\ row'[q] = row[q]
                                        /\ PendingTo(q, r)' <=> PendingTo(q, r)
    BY <1>0, <2>1 DEF Live, PendingTo, SignalledTo, TypeOK
  <2> QED BY <1>1, <2>2, <2>3, <2>4, <2>5
<1>6. ASSUME NEW p \in Sessions, Sends(p)
      PROVE  /\ ~used'[s] => Received(s, r)'
             /\ \A q \in Sessions : Live(q)' /\ row'[q] = s /\ ~PendingTo(q, r)' => Received(s, r)'
  <2>1. /\ pc[p] \in Sending /\ UNCHANGED <<used, sock, row>>
        /\ \A q \in Sessions \ {p} : pc'[q] = pc[q] /\ tgt'[q] = tgt[q] /\ job'[q] = job[q]
    BY <1>0, <1>6, SendsEffect
  <2>2. Live(p) /\ used[row[p]]
    BY <1>0, <2>1 DEF Sending, Live, Table, OwnRow
  <2>3. \A q \in Sessions : q # p /\ Live(q) => row[q] # row[p]
    BY <1>0, <2>2 DEF Table, OwnRow
  <2>4. \A q \in Sessions : q # p => /\ Live(q)' <=> Live(q)
                                     /\ PendingTo(q, r)' <=> PendingTo(q, r)
    BY <2>1 DEF Live, PendingTo, SignalledTo
  <2>5. s # row[p] => slot'[r][s] = slot[r][s] \/ slot'[r][s] = None
    <3>1. ASSUME NEW q \in Sessions, SendPut(q) PROVE s # row[p] => slot'[r][s] = slot[r][s]
      <4>1. SendPut(p) /\ q = p
        BY <1>6, <3>1, PutOnly
      <4>2. \A a, b \in Ids : a # tgt[p] \/ b # row[p] => slot'[a][b] = slot[a][b]
        BY <4>1, PutEffect
      <4> QED BY <4>1, <4>2
    <3> QED BY <1>2, <3>1
  <2>6. CASE s # row[p]
    <3>1. Received(s, r) => Received(s, r)'
      BY <2>1, <2>5, <2>6 DEF Received
    <3> QED BY <1>1, <2>1, <2>4, <2>6, <3>1
  <2>7. CASE s = row[p]
    <3>1. ASSUME ~PendingTo(p, r)' PROVE Received(s, r)'
      <4>1. slot'[r][s] = slot[r][s] \/ slot'[r][s] = None
        <5>1. ASSUME NEW q \in Sessions, SendPut(q) PROVE slot'[r][s] = slot[r][s]
          <6>1. SendPut(p) /\ q = p
            BY <1>6, <5>1, PutOnly
          <6>2. r # tgt[p]
            <7>1. SendPut(p) /\ r = tgt[p] => PendingTo(p, r)'
              BY <1>0, <1>6, SendLoop
            <7> QED BY <3>1, <6>1, <7>1
          <6>3. \A a, b \in Ids : a # tgt[p] \/ b # row[p] => slot'[a][b] = slot[a][b]
            BY <6>1, PutEffect
          <6> QED BY <6>1, <6>2, <6>3
        <5> QED BY <1>2, <5>1
      <4>2. Received(s, r) \/ (used[r] => slot[r][s] = None)
        BY <1>0, <1>1, <1>6, <2>2, <2>7, <3>1, SendLoop
      <4> QED BY <2>1, <4>1, <4>2 DEF Received
    <3> QED BY <2>1, <2>2, <2>3, <2>4, <2>7, <3>1
  <2> QED BY <2>6, <2>7
<1> QED BY <1>0, <1>3, <1>4, <1>5, <1>6, StepEffect DEF Places

\* Slots are empty at first.
LEMMA InitSlots == Init => SlotsKnown /\ SlotsFree
BY Values DEF Init, SlotsKnown, SlotsFree, Received

\* The slots are in order throughout.
LEMMA SlotsHold == Spec => [](IInv /\ SlotsKnown /\ SlotsFree)
<1>1. ASSUME IInv, SlotsKnown, SlotsFree, [Next]_vars PROVE (SlotsKnown /\ SlotsFree)'
  BY <1>1, SlotsKnownStep, SlotsFreeStep
<1> QED BY <1>1, Invariant, InitSlots, PTL DEF Spec

\* ras_send stores no message over one that a user who is there has not taken: it has
\* waited for every row before its process sends again.
THEOREM NothingOverwritten == Spec => []NoneOverwritten
<1>1. ASSUME IInv, SlotsFree PROVE NoneOverwritten
  <2> SUFFICES ASSUME NEW p \in Sessions, pc[p] = "put", used[tgt[p]]
               PROVE  LET m == slot[tgt[p]][row[p]] IN m = None \/ m.to # sock[tgt[p]]
    BY DEF NoneOverwritten
  <2>1. Live(p) /\ row[p] \in Ids /\ tgt[p] \in Ids /\ tgt[p] \in Nat
    BY <1>1, Values DEF IInv, Table, Rowed, Live, TypeOK
  <2>2. ~PendingTo(p, tgt[p])
    BY <2>1 DEF PendingTo, SignalledTo
  <2>3. Received(row[p], tgt[p])
    BY <1>1, <2>1, <2>2 DEF SlotsFree
  <2> QED BY <2>3 DEF Received
<1> QED BY <1>1, SlotsHold, PTL

-----------------------------------------------------------------------------
(* Wakeups *)

\* What the handlers in fs do goes with their signals; one of them is to look for
\* a message from row r.
Kind(fs)   == \A i \in DOMAIN fs : fs[i].at = "show" <=> fs[i].sig = "USR1"
Sees(fs, r) == \E i \in DOMAIN fs : fs[i].sig = "USR1" /\ fs[i].from = r

Kinds == \A p \in Sessions : Kind(frames[p])

\* A pid is stored by its process.
Started == \A r \in Ids : pid[r] # None => pc[pid[r]] \notin {"none", "accepted", "new"}

\* q has sent its own name to itself, or had done so before.
Named(q) ==
  /\ pc[q] \notin {"none", "accepted", "new", "greet"}
  /\ job[q] = "enter" => \/ pc[q] \in {"check", "spin"}
                         \/ tgt[q] > row[q]
                         \/ tgt[q] = row[q] /\ pc[q] = "kill"

\* The user who has row r has a message from p to take, and would find p by senderId.
Waits(p, r) ==
  /\ slot[r][row[p]] # None /\ sender[r] = row[p] /\ used[r] /\ pid[r] = sock[r]
  /\ Alive(sock[r]) /\ Named(sock[r])

\* Whoever p has signalled and who would find p has a signal or a handler for it.
WakesUp ==
  \A p \in Sessions, r \in Ids :
    Live(p) /\ SignalledTo(p, r) /\ Waits(p, r) => Woken(sock[r], row[p])

\* A handler is entered.
LEMMA EnterFrames ==
  ASSUME NEW fs \in Seq(Frame), NEW f \in Frame, NEW r
  PROVE  /\ Kind(fs) /\ (f.at = "show" <=> f.sig = "USR1") => Kind(<<f>> \o fs)
         /\ Sees(fs, r) => Sees(<<f>> \o fs, r)
         /\ f.sig = "USR1" /\ f.from = r => Sees(<<f>> \o fs, r)
<1> DEFINE g == <<f>> \o fs
<1>1. /\ DOMAIN fs = 1..Len(fs) /\ Len(fs) \in Nat /\ g[1] = f
      /\ DOMAIN g = 1..(Len(fs) + 1)
      /\ \A i \in 1..Len(fs) : g[i + 1] = fs[i] /\ i + 1 \in 1..(Len(fs) + 1)
  OBVIOUS
<1>2. \A i \in DOMAIN g : i = 1 \/ (i - 1 \in DOMAIN fs /\ g[i] = fs[i - 1])
  BY <1>1
<1>3. Kind(fs) /\ (f.at = "show" <=> f.sig = "USR1") => Kind(g)
  BY <1>1, <1>2 DEF Kind
<1>4. Sees(fs, r) => Sees(g, r)
  BY <1>1 DEF Sees
<1>5. f.sig = "USR1" /\ f.from = r => Sees(g, r)
  BY <1>1 DEF Sees
<1> QED BY <1>3, <1>4, <1>5

\* A handler returns.
LEMMA ReturnFrames ==
  ASSUME NEW fs \in Seq(Frame), fs # <<>>, NEW r
  PROVE  /\ Kind(fs) => Kind(Tail(fs))
         /\ Sees(fs, r) => Sees(Tail(fs), r) \/ (Head(fs).sig = "USR1" /\ Head(fs).from = r)
         /\ Kind(fs) => (Head(fs).at = "show" <=> Head(fs).sig = "USR1")
<1> DEFINE g == Tail(fs)
<1>1. /\ DOMAIN fs = 1..Len(fs) /\ Len(fs) \in Nat /\ Len(fs) >= 1 /\ Head(fs) = fs[1]
      /\ DOMAIN g = 1..(Len(fs) - 1)
      /\ \A i \in 1..(Len(fs) - 1) : g[i] = fs[i + 1]
  OBVIOUS
<1>2. \A i \in DOMAIN fs : i = 1 \/ (i - 1 \in DOMAIN g /\ g[i - 1] = fs[i])
  BY <1>1
<1>3. Kind(fs) => Kind(g)
  BY <1>1 DEF Kind
<1>4. Sees(fs, r) => Sees(g, r) \/ (Head(fs).sig = "USR1" /\ Head(fs).from = r)
  BY <1>1, <1>2 DEF Sees
<1>5. Kind(fs) => (Head(fs).at = "show" <=> Head(fs).sig = "USR1")
  BY <1>1 DEF Kind
<1> QED BY <1>3, <1>4, <1>5

\* The handler of SIGUSR2 has opened its fifo.
LEMMA OpenFrames ==
  ASSUME NEW fs \in Seq(Frame), fs # <<>>, Head(fs).at = "open", NEW r,
         NEW g, g = [fs EXCEPT ![1] = [fs[1] EXCEPT !.at = "reset"]]
  PROVE  /\ Kind(fs) => Kind(g)
         /\ Sees(fs, r) => Sees(g, r)
<1>1. /\ DOMAIN fs = 1..Len(fs) /\ 1 \in DOMAIN fs /\ fs[1] = Head(fs) /\ fs[1] \in Frame
      /\ DOMAIN g = DOMAIN fs
      /\ \A i \in DOMAIN fs : i # 1 => g[i] = fs[i]
      /\ g[1] = [fs[1] EXCEPT !.at = "reset"]
  OBVIOUS
<1>2. g[1].sig = fs[1].sig /\ g[1].from = fs[1].from /\ g[1].at = "reset"
  BY <1>1 DEF Frame
<1>3. Kind(fs) => Kind(g)
  BY <1>1, <1>2 DEF Kind
<1>4. Sees(fs, r) => Sees(g, r)
  BY <1>1, <1>2 DEF Sees
<1> QED BY <1>3, <1>4

\* What the handlers' steps do to the handlers in progress.
LEMMA ShowsFrames ==
  ASSUME IInv, NEW p \in Sessions
  PROVE  /\ \A s \in {"USR1", "USR2"} : Enter(p, s) =>
              /\ Alive(p) /\ First(s, p) \in Frame
              /\ frames' = [frames EXCEPT ![p] = <<First(s, p)>> \o frames[p]]
              /\ pend' = [pend EXCEPT ![p] = pend[p] \ {s}]
         /\ MsgShow(p) \/ FifoReset(p) =>
              frames[p] # <<>> /\ frames' = [frames EXCEPT ![p] = Tail(frames[p])] /\ UNCHANGED pend
         /\ FifoOpen(p) =>
              /\ frames[p] # <<>> /\ Head(frames[p]).at = "open" /\ UNCHANGED pend
              /\ \E g : /\ g = [frames[p] EXCEPT ![1] = [frames[p][1] EXCEPT !.at = "reset"]]
                        /\ frames' = [frames EXCEPT ![p] = g]
<1>1. TypeUsers /\ TypeSig /\ Rowed
  BY TypeParts DEF IInv, Table
<1>2. ASSUME NEW s \in {"USR1", "USR2"}, Enter(p, s)
      PROVE  /\ Alive(p) /\ First(s, p) \in Frame
             /\ frames' = [frames EXCEPT ![p] = <<First(s, p)>> \o frames[p]]
             /\ pend' = [pend EXCEPT ![p] = pend[p] \ {s}]
  <2>1. row[p] \in Ids
    BY <1>1, <1>2 DEF Enter, Alive, Rowed
  <2>2. First(s, p) \in Frame
    BY <1>1, <2>1, FirstFrame
  <2> QED BY <1>2, <2>2 DEF Enter
<1>3. MsgShow(p) \/ FifoReset(p) =>
        frames[p] # <<>> /\ frames' = [frames EXCEPT ![p] = Tail(frames[p])] /\ UNCHANGED pend
  BY DEF MsgShow, FifoReset, InHandler, Return
<1>4. ASSUME FifoOpen(p)
      PROVE  /\ frames[p] # <<>> /\ Head(frames[p]).at = "open" /\ UNCHANGED pend
             /\ \E g : /\ g = [frames[p] EXCEPT ![1] = [frames[p][1] EXCEPT !.at = "reset"]]
                       /\ frames' = [frames EXCEPT ![p] = g]
  <2>1. frames[p] # <<>> /\ Head(frames[p]).at = "open" /\ UNCHANGED pend
    BY <1>4 DEF FifoOpen, InHandler
  <2>2. frames' = [frames EXCEPT ![p] = [frames[p] EXCEPT ![1] = [frames[p][1] EXCEPT !.at = "reset"]]]
    BY <1>4 DEF FifoOpen
  <2> QED BY <2>1, <2>2
<1> QED BY <1>2, <1>3, <1>4

\* kill() to a signal that is handled at once, and to all others.
LEMMA SignalEffect ==
  ASSUME IInv, NEW p \in Sessions, NEW s \in {"USR1", "USR2"}, NEW r \in Ids, Signal(p, s, r)
  PROVE  /\ \A q \in Sessions : pend[q] \subseteq pend'[q]
         /\ \A q \in Sessions : Alive(q) /\ pid[r] = q /\ q # p => s \in pend'[q]
         /\ pid[r] = p /\ Alive(p) => frames' = [frames EXCEPT ![p] = <<First(s, p)>>]
         /\ \/ UNCHANGED frames
            \/ First(s, p) \in Frame /\ frames' = [frames EXCEPT ![p] = <<First(s, p)>>]
<1>1. TypeUsers /\ TypeSig /\ Rowed
  BY TypeParts DEF IInv, Table
<1>2. Alive(p) => First(s, p) \in Frame
  BY <1>1, FirstFrame DEF Alive, Rowed
<1>3. \/ UNCHANGED frames
      \/ First(s, p) \in Frame /\ frames' = [frames EXCEPT ![p] = <<First(s, p)>>]
  BY <1>2 DEF Signal
<1>4. pid[r] = p /\ Alive(p) => frames' = [frames EXCEPT ![p] = <<First(s, p)>>]
  BY DEF Signal
<1>5. \A q \in Sessions : pend[q] \subseteq pend'[q]
  BY <1>1 DEF Signal
<1>6. \A q \in Sessions : Alive(q) /\ pid[r] = q /\ q # p => s \in pend'[q]
  BY <1>1 DEF Signal
<1> QED BY <1>3, <1>4, <1>5, <1>6

\* A handler that shows is one of SIGUSR1.
LEMMA KindsStep ==
  ASSUME IInv, Kinds, [Next]_vars PROVE Kinds'
<1>0. TypeOK /\ Rowed /\ TypeSig
  BY TypeParts DEF IInv, Table
<1>1. ASSUME NEW p \in Sessions, NEW g, Kind(g), frames' = [frames EXCEPT ![p] = g] PROVE Kinds'
  BY <1>0, <1>1 DEF TypeSig, Kinds
<1>2. UNCHANGED frames => Kinds'
  BY DEF Kinds
<1>3. Kind(<<>>)
  BY DEF Kind
<1>4. \A s, q : First(s, q).at = "show" <=> First(s, q).sig = "USR1"
  BY DEF First
<1>5. ASSUME NEW p \in Sessions, Shows(p) PROVE Kinds'
  <2>1. Kind(frames[p]) /\ frames[p] \in Seq(Frame)
    BY <1>0 DEF Kinds, TypeSig
  <2>2. ASSUME NEW s \in {"USR1", "USR2"}, Enter(p, s) PROVE Kinds'
    <3>1. First(s, p) \in Frame /\ frames' = [frames EXCEPT ![p] = <<First(s, p)>> \o frames[p]]
      BY <2>2, ShowsFrames
    <3>2. Kind(<<First(s, p)>> \o frames[p])
      BY <1>4, <2>1, <3>1, EnterFrames
    <3> QED BY <1>1, <3>1, <3>2
  <2>3. CASE MsgShow(p) \/ FifoReset(p)
    <3>1. frames[p] # <<>> /\ frames' = [frames EXCEPT ![p] = Tail(frames[p])]
      BY <2>3, ShowsFrames
    <3>2. Kind(Tail(frames[p]))
      BY <2>1, <3>1, ReturnFrames
    <3> QED BY <1>1, <3>1, <3>2
  <2>4. CASE FifoOpen(p)
    <3>1. PICK g : /\ g = [frames[p] EXCEPT ![1] = [frames[p][1] EXCEPT !.at = "reset"]]
                   /\ frames' = [frames EXCEPT ![p] = g]
      BY <2>4, ShowsFrames
    <3>2. frames[p] # <<>> /\ Head(frames[p]).at = "open"
      BY <2>4, ShowsFrames
    <3>3. Kind(g)
      BY <2>1, <3>1, <3>2, OpenFrames
    <3> QED BY <1>1, <3>1, <3>3
  <2> QED BY <1>5, <2>2, <2>3, <2>4 DEF Shows
<1>6. ASSUME NEW p \in Sessions, NEW r \in Ids, NEW s \in {"USR1", "USR2"}, Signal(p, s, r)
      PROVE Kinds'
  <2>1. CASE First(s, p) \in Frame /\ frames' = [frames EXCEPT ![p] = <<First(s, p)>>]
    <3>1. Kind(<<First(s, p)>>)
      BY <1>4 DEF Kind
    <3> QED BY <1>1, <2>1, <3>1
  <2> QED BY <1>2, <1>6, <2>1, SignalEffect
<1>7. ASSUME NEW p \in Sessions, SendKill(p) \/ FifoKill(p) PROVE Kinds'
  <2>1. tgt[p] \in Ids /\ (FifoKill(p) => line[p].wr \in Ids)
    BY DEF IInv, TypeOK, Places, LinesNamed, FifoKill, At
  <2>2. Signal(p, "USR1", tgt[p]) \/ (Signal(p, "USR2", line[p].wr) /\ line[p].wr \in Ids)
    BY <1>7, <2>1 DEF SendKill, FifoKill
  <2> QED BY <1>6, <2>1, <2>2
<1>8. ASSUME NEW p \in Sessions, Dead(p) PROVE Kinds'
  BY <1>1, <1>3, <1>8 DEF Dead, End
<1>9. ASSUME NEW p \in Sessions, SendPut(p) \/ SendName(p) \/ Start(p) \/ FifoSender(p) PROVE Kinds'
  BY <1>2, <1>9 DEF SendPut, SendName, Start, FifoSender, sig
<1> QED BY <1>0, <1>2, <1>5, <1>7, <1>8, <1>9, DataEffect DEF sig

\* A process that has stored its pid has started.
LEMMA StartedEffect ==
  ASSUME IInv, [Next]_vars, NEW q \in Sessions, pc[q] \notin {"none", "accepted", "new"}
  PROVE  pc'[q] \notin {"none", "accepted", "new"}
<1>0. TypeOK /\ Places
  BY DEF IInv
<1>1. CASE Quiet
  BY <1>0, <1>1 DEF Quiet, Stays, Moves, Begins, Begin, Ends, Goto, TypeOK
<1>2. ASSUME NEW p \in Sessions, NEW r \in Ids, Accept(p, r)
      PROVE pc'[q] \notin {"none", "accepted", "new"}
  BY <1>0, <1>2 DEF Accept, Goto, TypeOK
<1>3. ASSUME NEW p \in Sessions, Release(p) PROVE pc'[q] \notin {"none", "accepted", "new"}
  BY <1>0, <1>3 DEF Release, End, Goto, TypeOK
<1>4. ASSUME NEW p \in Sessions, Sends(p) PROVE pc'[q] \notin {"none", "accepted", "new"}
  BY <1>0, <1>4, SendsEffect, ThenPlaces, TypeParts DEF Sending
<1> QED BY <1>0, <1>1, <1>2, <1>3, <1>4, StepEffect DEF Places

\* A pid is stored by a process that has started.
LEMMA StartedStep ==
  ASSUME IInv, Started, [Next]_vars PROVE Started'
<1>0. TypeOK /\ Rowed
  BY DEF IInv, Table
<1>1. UNCHANGED pid => Started'
  <2>1. \A r \in Ids : pid[r] \in Sessions \cup {None}
    BY <1>0 DEF TypeOK
  <2> QED BY <2>1, StartedEffect DEF Started
<1>2. ASSUME NEW p \in Sessions, Start(p) PROVE Started'
  <2>1. /\ pid' = [pid EXCEPT ![row[p]] = p] /\ pc' = [pc EXCEPT ![p] = "greet"]
    BY <1>2 DEF Start, Goto
  <2>2. \A r \in Ids : pid[r] \in Sessions \cup {None}
    BY <1>0 DEF TypeOK
  <2> QED BY <1>0, <2>1, <2>2 DEF Started, TypeOK
<1>3. ASSUME NEW p \in Sessions, Shows(p) \/ Dead(p) \/ SendPut(p) \/ SendName(p) \/ SendKill(p)
                                   \/ FifoSender(p) \/ FifoKill(p)
      PROVE UNCHANGED pid
  BY <1>3 DEF Shows, Enter, MsgShow, FifoOpen, FifoReset, Dead, SendPut, SendName, SendKill,
     FifoSender,
              FifoKill, users
<1> QED BY <1>0, <1>1, <1>2, <1>3, DataEffect

\* A user has announced himself to himself before, or just does so.
LEMMA NamedBefore ==
  ASSUME IInv, [Next]_vars, NEW q \in Sessions, Alive(q)', Named(q)'
  PROVE  Alive(q) /\ (Named(q) \/ (SendName(q) /\ tgt[q] = row[q]))
<1>0. TypeOK /\ Table /\ Places /\ Idle
  BY DEF IInv, Places
<1>1. CASE Quiet
  <2>0. UNCHANGED row
    BY <1>1 DEF Quiet, Rows
  <2>1. CASE Stays
    BY <2>0, <2>1 DEF Stays, Alive, Named
  <2>2. ASSUME NEW p \in Sessions, Moves(p), p # q PROVE Alive(q) /\ Named(q)
    BY <1>0, <2>0, <2>2 DEF Moves, Goto, Alive, Named, TypeOK
  <2>3. CASE Moves(q)
    <3>1. job[q] = "none"
      BY <1>0, <2>3 DEF Moves, Idle
    <3>2. pc[q] \notin {"none", "accepted", "new", "greet", "zombie", "gone"}
      BY <1>0, <2>3 DEF Moves, Live, Goto, Fresh, Named, TypeOK
    <3> QED BY <3>1, <3>2 DEF Alive, Named
  <2>4. ASSUME NEW p \in Sessions, Begins(p), p # q PROVE Alive(q) /\ Named(q)
    BY <1>0, <2>0, <2>4 DEF Begins, Begin, Goto, Alive, Named, TypeOK
  <2>5. CASE Begins(q)
    <3>1. PICK j \in {"enter", "yell", "tell", "read", "piped", "left"}, r \in Ids :
            /\ Begin(q, j, r)
            /\ IF j = "tell" THEN used[r] ELSE r = 1
            /\ j = "enter" <=> pc[q] = "greet"
      BY <2>5 DEF Begins
    <3>2. job'[q] = j /\ tgt'[q] = r /\ pc'[q] = "put"
      BY <1>0, <3>1 DEF Begin, Goto, TypeOK
    <3>3. row[q] \in Ids /\ Live(q) /\ pc[q] \notin Sending \cup {"accepted", "new"}
      BY <1>0, <2>5 DEF Begins, Live, Table, Rowed
    <3>4. j # "enter"
      BY <2>0, <3>1, <3>2, <3>3 DEF Named, Ids
    <3>5. job[q] = "none"
      BY <1>0, <3>3 DEF Idle
    <3> QED BY <3>1, <3>3, <3>4, <3>5 DEF Alive, Live, Named
  <2>6. ASSUME NEW p \in Sessions, Ends(p) PROVE Alive(q) /\ Named(q)
    <3>1. p # q
      BY <1>0, <2>6 DEF Ends, Goto, Alive, TypeOK
    <3> QED BY <1>0, <2>0, <2>6, <3>1 DEF Ends, Goto, Alive, Named, TypeOK
  <2> QED BY <1>1, <2>1, <2>2, <2>3, <2>4, <2>5, <2>6 DEF Quiet
<1>2. ASSUME NEW p \in Sessions, NEW r \in Ids, Accept(p, r) PROVE Alive(q) /\ Named(q)
  <2>1. p # q
    BY <1>0, <1>2 DEF Accept, Goto, Alive, TypeOK
  <2> QED BY <1>0, <1>2, <2>1 DEF Accept, Goto, Alive, Named, TypeOK
<1>3. ASSUME NEW p \in Sessions, Release(p) PROVE Alive(q) /\ Named(q)
  <2>1. p # q
    BY <1>0, <1>3 DEF Release, End, Goto, Alive, TypeOK
  <2> QED BY <1>0, <1>3, <2>1 DEF Release, End, Goto, Alive, Named, TypeOK
<1>4. ASSUME NEW p \in Sessions, Sends(p), p # q PROVE Alive(q) /\ Named(q)
  BY <1>0, <1>4, SendsEffect DEF Alive, Named
<1>5. ASSUME Sends(q) PROVE Alive(q) /\ (Named(q) \/ (SendName(q) /\ tgt[q] = row[q]))
  <2>1. pc[q] \in Sending /\ UNCHANGED row /\ (job[q] = "enter" /\ job'[q] # job[q] => pc'[q] = Then(q))
    BY <1>0, <1>5, SendsEffect
  <2>2. /\ TypeWhere /\ tgt[q] \in Nat /\ row[q] \in Nat /\ row[q] <= MaxId /\ used[row[q]]
        /\ pc \in [Sessions -> PCs] /\ tgt \in [Sessions -> Ids] /\ MaxId \in Nat
    BY <1>0, <2>1, TypeParts DEF TypeWhere, Table, Rowed, OwnRow, Live, Sending, Ids
  <2>3. Alive(q)
    BY <2>1 DEF Alive, Sending
  <2>4. CASE job[q] # "enter" \/ pc[q] \in {"check", "spin"}
    BY <2>1, <2>3, <2>4 DEF Named, Sending
  <2>5. CASE job[q] = "enter" /\ pc[q] \in {"put", "name", "kill"}
    <3>0. job'[q] = "enter"
      <4>1. pc'[q] # Then(q) \/ job'[q] = "enter"
        <5>1. CASE SendSkip(q)
          BY <2>2, <2>5, <5>1, AdvanceEffect DEF SendSkip, TypeWhere
        <5>2. CASE SendPut(q) \/ SendName(q)
          BY <2>5, <5>2 DEF SendPut, SendName
        <5>3. CASE SendKill(q)
          BY <2>2, <2>5, <5>3, AdvanceEffect DEF SendKill, TypeWhere
        <5> QED BY <1>5, <2>5, <5>1, <5>2, <5>3 DEF Sends, SendCheck, SendSpin, At
      <4> QED BY <2>1, <2>5, <4>1
    <3>1. CASE SendSkip(q)
      <4>1. tgt[q] # row[q] /\ Advance(q, "put", "check") /\ pc[q] = "put"
        BY <2>2, <3>1 DEF SendSkip, At
      <4>2. CASE /\ tgt[q] < MaxId /\ tgt' = [tgt EXCEPT ![q] = tgt[q] + 1]
                 /\ pc' = [pc EXCEPT ![q] = "put"]
        BY <2>1, <2>2, <2>3, <3>0, <4>1, <4>2 DEF Named
      <4>3. CASE tgt[q] = MaxId
        BY <2>2, <2>3, <4>1, <4>3 DEF Named
      <4> QED BY <2>2, <2>5, <4>1, <4>2, <4>3, AdvanceEffect
    <3>2. CASE SendPut(q)
      <4>1. pc[q] = "put" /\ pc'[q] = "name" /\ UNCHANGED <<tgt, row>>
        BY <2>2, <3>2 DEF SendPut, At, Goto
      <4> QED BY <2>3, <3>0, <4>1 DEF Named
    <3>3. CASE SendName(q)
      <4>1. pc[q] = "name" /\ pc'[q] = "kill" /\ UNCHANGED <<tgt, row>>
        BY <2>2, <3>3 DEF SendName, At, Goto
      <4> QED BY <2>3, <3>0, <3>3, <4>1 DEF Named
    <3>4. CASE SendKill(q)
      <4>1. Advance(q, "put", "check") /\ pc[q] = "kill"
        BY <2>5, <3>4 DEF SendKill, At
      <4>2. CASE /\ tgt[q] < MaxId /\ tgt' = [tgt EXCEPT ![q] = tgt[q] + 1]
                 /\ pc' = [pc EXCEPT ![q] = "put"]
        BY <2>1, <2>2, <2>3, <3>0, <4>1, <4>2 DEF Named
      <4>3. CASE tgt[q] = MaxId
        BY <2>2, <2>3, <4>1, <4>3 DEF Named
      <4> QED BY <2>2, <2>5, <4>1, <4>2, <4>3, AdvanceEffect
    <3> QED BY <1>5, <2>5, <3>1, <3>2, <3>3, <3>4 DEF Sends, SendCheck, SendSpin, At
  <2> QED BY <2>1, <2>4, <2>5 DEF Sending
<1> QED BY <1>0, <1>1, <1>2, <1>3, <1>4, <1>5, StepEffect DEF Places

\* Two rows in use that are the same are one user's.
LEMMA SameRow ==
  ASSUME IInv, NEW p \in Sessions, NEW q \in Sessions, Live(p), Live(q), row[p] = row[q]
  PROVE  p = q
BY DEF IInv, Table, OwnRow

\* Whoever waits with a signal sent waited with it before, or sends it now.
LEMMA WaitsBefore ==
  ASSUME IInv, [Next]_vars, NEW p \in Sessions, NEW r \in Ids,
         Live(p)', SignalledTo(p, r)', Waits(p, r)'
  PROVE  /\ Live(p) /\ row'[p] = row[p] /\ sock'[r] = sock[r] /\ sock[r] \in Sessions /\ row[sock[r]] = r
         /\ Waits(p, r)
         /\ SignalledTo(p, r) \/ (SendKill(p) /\ r = tgt[p])
<1>0. TypeOK /\ Table /\ Places
  BY DEF IInv
<1>1. slot'[r][row'[p]] # None /\ sender'[r] = row'[p] /\ used'[r] /\ pid'[r] = sock'[r]
      /\ Alive(sock[r])' /\ Named(sock[r])'
  BY DEF Waits
<1>2. pc'[p] \in {"put", "name", "kill", "check", "spin"}
      /\ (pc'[p] \in {"put", "name", "kill"} => r < tgt'[p])
  BY DEF SignalledTo
<1>3. /\ Live(p) /\ row'[p] = row[p] /\ sock'[r] = sock[r] /\ used[r]
      /\ SignalledTo(p, r) \/ (SendKill(p) /\ r = tgt[p])
  <2>1. CASE Quiet
    <3>1. SignalledTo(p, r) /\ Live(p)
      BY <1>0, <2>1, QuietLife, QuietSending
    <3> QED BY <1>1, <2>1, <3>1 DEF Quiet, Rows
  <2>2. ASSUME NEW q \in Sessions, NEW a \in Ids, Accept(q, a)
        PROVE  /\ Live(p) /\ row'[p] = row[p] /\ sock'[r] = sock[r] /\ used[r] /\ SignalledTo(p, r)
    <3>1. /\ pc' = [pc EXCEPT ![q] = "accepted"] /\ used' = [used EXCEPT ![a] = TRUE]
          /\ sock' = [sock EXCEPT ![a] = q] /\ row' = [row EXCEPT ![q] = a] /\ UNCHANGED <<tgt,
                job>>
      BY <2>2 DEF Accept, Goto
    <3>2. p # q
      BY <1>0, <1>2, <3>1 DEF TypeOK
    <3>3. pc'[q] = "accepted"
      BY <1>0, <3>1 DEF TypeOK
    <3>4. r # a
      <4>1. r = a => sock'[r] = q
        BY <1>0, <3>1 DEF TypeOK
      <4>2. sock'[r] = q => ~Alive(sock[r])'
        BY <3>3 DEF Alive
      <4> QED BY <1>1, <4>1, <4>2
    <3> QED BY <1>0, <1>1, <1>2, <3>1, <3>2, <3>4 DEF TypeOK, Live, SignalledTo
  <2>3. ASSUME NEW q \in Sessions, Release(q)
        PROVE  /\ Live(p) /\ row'[p] = row[p] /\ sock'[r] = sock[r] /\ used[r] /\ SignalledTo(p, r)
    <3>1. /\ pc' = [pc EXCEPT ![q] = "zombie"] /\ used' = [used EXCEPT ![row[q]] = FALSE]
          /\ tgt' = [tgt EXCEPT ![q] = 1] /\ job' = [job EXCEPT ![q] = "none"]
          /\ UNCHANGED <<sock, row>>
      BY <2>3 DEF Release, End, Goto
    <3>2. p # q
      BY <1>0, <1>2, <3>1 DEF TypeOK
    <3>3. used[r]
      BY <1>0, <1>1, <3>1 DEF TypeOK
    <3> QED BY <1>0, <1>2, <3>1, <3>2, <3>3 DEF TypeOK, Live, SignalledTo
  <2>4. ASSUME NEW q \in Sessions, Sends(q)
        PROVE  /\ Live(p) /\ row'[p] = row[p] /\ sock'[r] = sock[r] /\ used[r]
               /\ SignalledTo(p, r) \/ (SendKill(p) /\ r = tgt[p])
    <3>1. /\ pc[q] \in Sending /\ UNCHANGED <<used, sock, row>>
          /\ \A x \in Sessions \ {q} : pc'[x] = pc[x] /\ tgt'[x] = tgt[x] /\ job'[x] = job[x]
      BY <1>0, <2>4, SendsEffect
    <3>2. CASE p = q
      <4>1. SignalledTo(p, r) \/ (r = tgt[p] /\ (SendKill(p) \/ ~used[r]))
        BY <1>0, <2>4, <3>2, SendLoop
      <4> QED BY <1>1, <3>1, <3>2, <4>1 DEF Live, Sending
    <3>3. CASE p # q
      BY <1>1, <1>2, <3>1, <3>3 DEF Live, SignalledTo
    <3> QED BY <3>2, <3>3
  <2> QED BY <1>0, <2>1, <2>2, <2>3, <2>4, StepEffect DEF Places
<1>4. sock[r] \in Sessions /\ row[sock[r]] = r /\ row[p] \in Ids /\ 0 \notin Ids
  BY <1>0, <1>3, Values DEF Table, UsedRows, Rowed, Live
<1>5. ASSUME NEW q \in Sessions, Live(q), row[q] = row[p] PROVE q = p
  BY <1>3, <1>5, SameRow
<1>6. slot[r][row[p]] # None
  <2>1. CASE \A a, b \in Ids : slot'[a][b] = slot[a][b] \/ slot'[a][b] = None
    BY <1>1, <1>3, <1>4, <2>1
  <2>2. ASSUME NEW q \in Sessions, SendPut(q) PROVE slot[r][row[p]] # None
    <3>1. CASE q = p
      <4>1. pc'[p] = "name" /\ tgt'[p] = tgt[p]
        BY <1>0, <2>2, <3>1 DEF SendPut, Goto, TypeOK
      <4>2. r # tgt[p]
        BY <1>0, <1>2, <4>1 DEF TypeOK, Ids
      <4>3. slot'[r][row[p]] = slot[r][row[p]]
        <5>1. \A a, b \in Ids : a # tgt[q] \/ b # row[q] => slot'[a][b] = slot[a][b]
          BY <2>2, PutEffect
        <5> QED BY <1>4, <3>1, <4>2, <5>1
      <4> QED BY <1>1, <1>3, <4>3
    <3>2. CASE q # p
      <4>1. row[q] # row[p]
        BY <1>5, <2>2, <3>2, PutEffect
      <4>2. slot'[r][row[p]] = slot[r][row[p]]
        <5>1. \A a, b \in Ids : a # tgt[q] \/ b # row[q] => slot'[a][b] = slot[a][b]
          BY <2>2, PutEffect
        <5> QED BY <1>4, <4>1, <5>1
      <4> QED BY <1>1, <1>3, <4>2
    <3> QED BY <3>1, <3>2
  <2> QED BY <2>1, <2>2, SlotEffect
<1>7. sender[r] = row[p] /\ (pid[r] = sock[r] \/ \E q \in Sessions : Start(q) /\ row[q] = r)
  <2>0. sender'[r] = row[p] /\ pid'[r] = sock[r] /\ row[p] # 0
    BY <1>1, <1>3, <1>4
  <2>1. UNCHANGED <<pid, sender>> => sender[r] = row[p] /\ pid[r] = sock[r]
    BY <2>0
  <2>2. ASSUME NEW a \in 0..MaxId, UNCHANGED pid, sender' = [sender EXCEPT ![a] = 0]
        PROVE sender[r] = row[p] /\ pid[r] = sock[r]
    BY <1>0, <2>0, <2>2 DEF TypeOK
  <2>3. ASSUME NEW q \in Sessions, NEW a, Live(q), UNCHANGED pid,
                 sender' = [sender EXCEPT ![a] = row[q]],
               q = p => a # r
        PROVE sender[r] = row[p] /\ pid[r] = sock[r]
    BY <1>0, <1>5, <2>0, <2>3 DEF TypeOK
  <2>4. ASSUME NEW q \in Sessions, SendName(q) PROVE sender[r] = row[p] /\ pid[r] = sock[r]
    <3>1. /\ Live(q) /\ UNCHANGED pid /\ sender' = [sender EXCEPT ![tgt[q]] = row[q]]
          /\ pc'[q] = "kill" /\ tgt'[q] = tgt[q]
      BY <1>0, <2>4 DEF SendName, At, Goto, Live, TypeOK
    <3>2. q = p => tgt[q] # r
      BY <1>0, <1>2, <3>1 DEF TypeOK, Ids
    <3> QED BY <2>3, <3>1, <3>2
  <2>5. ASSUME NEW q \in Sessions, FifoSender(q) PROVE sender[r] = row[p] /\ pid[r] = sock[r]
    <3>1. /\ Live(q) /\ UNCHANGED pid /\ sender' = [sender EXCEPT ![line[q].wr] = row[q]]
          /\ pc'[q] = "fkill"
      BY <1>0, <2>5 DEF FifoSender, At, Goto, Live, TypeOK
    <3> QED BY <1>2, <2>3, <3>1
  <2>6. ASSUME NEW q \in Sessions, Start(q) PROVE sender[r] = row[p] /\ (pid[r] = sock[r]
                 \/ row[q] = r)
    <3>1. pid' = [pid EXCEPT ![row[q]] = q] /\ UNCHANGED sender
      BY <2>6 DEF Start
    <3> QED BY <1>0, <2>0, <3>1 DEF TypeOK
  <2>7. ASSUME NEW q \in Sessions, Shows(q) PROVE sender[r] = row[p] /\ pid[r] = sock[r]
    <3>1. CASE FifoReset(q)
      <4>1. row[q] \in 0..MaxId /\ UNCHANGED pid /\ sender' = [sender EXCEPT ![row[q]] = 0]
        BY <1>0, <3>1 DEF FifoReset, TypeOK
      <4> QED BY <2>2, <4>1
    <3> QED BY <2>1, <2>7, <3>1 DEF Shows, Enter, MsgShow, FifoOpen, users
  <2>8. ASSUME NEW q \in Sessions, Dead(q) \/ SendPut(q) \/ SendKill(q) \/ FifoKill(q)
        PROVE UNCHANGED <<pid, sender>>
    BY <2>8 DEF Dead, SendPut, SendKill, FifoKill, users
  <2> QED BY <1>0, <2>1, <2>2, <2>4, <2>5, <2>6, <2>7, <2>8, DataEffect DEF Table
<1>8. ~\E q \in Sessions : Start(q) /\ row[q] = r
  <2> SUFFICES ASSUME NEW q \in Sessions, Start(q), row[q] = r PROVE FALSE
    OBVIOUS
  <2>1. pc[q] = "new" /\ pc'[q] = "greet"
    BY <1>0 DEF Start, At, Goto, TypeOK
  <2>2. sock[r] = q
    BY <1>0, <2>1 DEF Table, OwnRow, Live
  <2>3. sock'[r] = q
    BY <1>3, <2>2
  <2>4. ~Named(sock[r])'
    BY <2>1, <2>3 DEF Named
  <2> QED BY <1>1, <2>4
<1>9. Alive(sock[r]) /\ Named(sock[r])
  <2>1. PICK q \in Sessions : q = sock[r]
    BY <1>4
  <2>2. Alive(q)' /\ Named(q)'
    BY <1>1, <1>3, <2>1 DEF Alive, Named
  <2>3. Alive(q) /\ (Named(q) \/ (SendName(q) /\ tgt[q] = row[q]))
    BY <2>2, NamedBefore
  <2>4. ASSUME SendName(q), tgt[q] = row[q] PROVE FALSE
    <3>1. /\ sender' = [sender EXCEPT ![r] = r] /\ pc[q] = "name" /\ pc'[q] = "kill"
          /\ tgt'[q] = tgt[q] /\ tgt[q] = r
      BY <1>0, <1>4, <2>1, <2>4 DEF SendName, At, Goto, TypeOK
    <3>2. row[q] = row[p] /\ Live(q)
      BY <1>0, <1>1, <1>3, <1>4, <2>1, <3>1 DEF TypeOK, Live
    <3>3. q = p
      BY <1>5, <3>2
    <3> QED BY <1>2, <3>1, <3>3 DEF Ids
  <2> QED BY <2>1, <2>3, <2>4
<1> QED BY <1>3, <1>4, <1>6, <1>7, <1>8, <1>9 DEF Waits

\* A signal is not lost on the way to the handler, nor a handler on the way to its slot.
LEMMA WakesUpStep ==
  ASSUME IInv, Kinds, WakesUp, [Next]_vars PROVE WakesUp'
<1> SUFFICES ASSUME NEW p \in Sessions, NEW r \in Ids, Live(p)', SignalledTo(p, r)', Waits(p, r)'
             PROVE  Woken(sock[r], row[p])'
  BY DEF WakesUp
<1>0. TypeOK /\ Table /\ Places /\ TypeSig
  BY TypeParts DEF IInv
<1>1. /\ Live(p) /\ row'[p] = row[p] /\ sock'[r] = sock[r] /\ sock[r] \in Sessions /\ row[sock[r]] = r
      /\ Waits(p, r)
      /\ SignalledTo(p, r) \/ (SendKill(p) /\ r = tgt[p])
  BY WaitsBefore
<1>2. PICK q \in Sessions : q = sock[r]
  BY <1>1
<1>3. PICK s \in Ids : s = row[p]
  BY <1>0, <1>1 DEF Table, Rowed, Live
<1>4. /\ slot[r][s] # None /\ sender[r] = s /\ pid[r] = q /\ Alive(q) /\ row[q] = r
      /\ slot'[r][s] # None /\ Alive(q)'
  BY <1>1, <1>2, <1>3 DEF Waits, Alive
<1> DEFINE Awake == "USR1" \in pend[q] \/ Sees(frames[q], s)
<1>5. (Awake => Woken(sock[r], row[p])) /\ (Awake' => Woken(sock[r], row[p])')
  BY <1>1, <1>2, <1>3 DEF Woken, Sees
<1>6. Awake \/ (SendKill(p) /\ r = tgt[p])
  BY <1>1, <1>2, <1>3 DEF WakesUp, Woken, Sees
<1>7. First("USR1", q).sig = "USR1" /\ First("USR1", q).from = s
  BY <1>4 DEF First
<1> HIDE DEF Awake
<1> SUFFICES Awake'
  BY <1>5
<1> USE DEF Awake
<1>8. ASSUME SendKill(p), r = tgt[p] PROVE Awake'
  <2>1. Signal(p, "USR1", r) /\ frames[p] = <<>> /\ UNCHANGED row
    BY <1>8 DEF SendKill, At
  <2>2. CASE q # p
    BY <1>4, <2>1, <2>2, SignalEffect
  <2>3. CASE q = p
    <3>1. frames'[p] = <<First("USR1", q)>>
      BY <1>0, <1>4, <2>1, <2>3, SignalEffect DEF TypeSig
    <3>2. Sees(frames'[q], s)
      BY <1>7, <2>3, <3>1 DEF Sees
    <3> QED BY <3>2
  <2> QED BY <2>2, <2>3
<1> SUFFICES ASSUME Awake PROVE Awake'
  BY <1>6, <1>8
<1>9. CASE UNCHANGED sig
  BY <1>9 DEF sig
<1>10. ASSUME NEW x \in Sessions, Shows(x) PROVE Awake'
  <2>1. CASE x # q
    <3>1. UNCHANGED <<pend, frames>> \/ (\E g, h : frames' = [frames EXCEPT ![x] = g] /\ pend' = [pend EXCEPT ![x] = h])
      <4>1. pend = [pend EXCEPT ![x] = pend[x]]
        BY <1>0 DEF TypeSig
      <4>2. ASSUME NEW u \in {"USR1", "USR2"}, Enter(x, u)
            PROVE \E g, h : frames' = [frames EXCEPT ![x] = g] /\ pend' = [pend EXCEPT ![x] = h]
        <5>1. /\ frames' = [frames EXCEPT ![x] = <<First(u, x)>> \o frames[x]]
              /\ pend' = [pend EXCEPT ![x] = pend[x] \ {u}]
          BY <4>2, ShowsFrames
        <5> QED BY <5>1
      <4>3. MsgShow(x) \/ FifoReset(x) =>
              \E g : frames' = [frames EXCEPT ![x] = g] /\ UNCHANGED pend
        BY ShowsFrames
      <4>4. FifoOpen(x) => UNCHANGED pend /\ \E g : frames' = [frames EXCEPT ![x] = g]
        BY ShowsFrames
      <4> QED BY <1>10, <4>1, <4>2, <4>3, <4>4 DEF Shows
    <3> QED BY <1>0, <2>1, <3>1 DEF TypeSig
  <2>2. CASE x = q
    <3>0. frames[q] \in Seq(Frame) /\ Kind(frames[q])
      BY <1>0 DEF TypeSig, Kinds
    <3>1. ASSUME NEW u \in {"USR1", "USR2"}, Enter(q, u) PROVE Awake'
      <4>1. /\ First(u, q) \in Frame /\ frames'[q] = <<First(u, q)>> \o frames[q]
            /\ pend'[q] = pend[q] \ {u}
        <5>1. /\ First(u, q) \in Frame
              /\ frames' = [frames EXCEPT ![q] = <<First(u, q)>> \o frames[q]]
              /\ pend' = [pend EXCEPT ![q] = pend[q] \ {u}]
          BY <3>1, ShowsFrames
        <5> QED BY <1>0, <5>1 DEF TypeSig
      <4>2. CASE Sees(frames[q], s)
        BY <3>0, <4>1, <4>2, EnterFrames
      <4>3. CASE "USR1" \in pend[q] /\ u = "USR2"
        BY <4>1, <4>3
      <4>4. CASE u = "USR1"
        BY <1>7, <3>0, <4>1, <4>4, EnterFrames
      <4> QED BY <4>2, <4>3, <4>4
    <3>2. CASE MsgShow(q)
      <4>1. frames[q] # <<>> /\ frames'[q] = Tail(frames[q]) /\ UNCHANGED pend
        BY <1>0, <3>2, ShowsFrames DEF TypeSig
      <4>2. Head(frames[q]).from # s
        <5>1. slot' = [slot EXCEPT ![r][Head(frames[q]).from] = None]
          BY <1>4, <3>2 DEF MsgShow, from
        <5>2. Head(frames[q]).from \in 0..MaxId
          BY <1>0, <4>1, Frames DEF Frame
        <5>3. slot \in [Ids -> [0..MaxId -> Message \cup {None}]]
          BY <1>0 DEF TypeOK
        <5>4. slot'[r][Head(frames[q]).from] = None
          BY <5>1, <5>2, <5>3
        <5> QED BY <1>4, <5>4
      <4> QED BY <3>0, <4>1, <4>2, ReturnFrames
    <3>3. CASE FifoReset(q)
      <4>1. frames[q] # <<>> /\ frames'[q] = Tail(frames[q]) /\ UNCHANGED pend
        BY <1>0, <3>3, ShowsFrames DEF TypeSig
      <4>2. Head(frames[q]).sig # "USR1"
        BY <3>0, <3>3, <4>1, ReturnFrames DEF FifoReset, InHandler
      <4> QED BY <3>0, <4>1, <4>2, ReturnFrames
    <3>4. CASE FifoOpen(q)
      <4>1. PICK g : /\ g = [frames[q] EXCEPT ![1] = [frames[q][1] EXCEPT !.at = "reset"]]
                     /\ frames' = [frames EXCEPT ![q] = g]
        BY <3>4, ShowsFrames
      <4>2. frames[q] # <<>> /\ Head(frames[q]).at = "open" /\ UNCHANGED pend
        BY <3>4, ShowsFrames
      <4>3. frames'[q] = g
        BY <1>0, <4>1 DEF TypeSig
      <4>4. Sees(frames[q], s) => Sees(g, s)
        BY <3>0, <4>1, <4>2, OpenFrames
      <4> QED BY <4>2, <4>3, <4>4
    <3> QED BY <1>10, <2>2, <3>1, <3>2, <3>3, <3>4 DEF Shows
  <2> QED BY <2>1, <2>2
<1>11. ASSUME NEW x \in Sessions, SendKill(x) \/ FifoKill(x) PROVE Awake'
  <2>1. tgt[x] \in Ids /\ (FifoKill(x) => line[x].wr \in Ids) /\ frames[x] = <<>>
    BY <1>0, <1>11 DEF TypeOK, Places, LinesNamed, SendKill, FifoKill, At
  <2>2. \E a \in Ids, u \in {"USR1", "USR2"} : Signal(x, u, a)
    BY <1>11, <2>1 DEF SendKill, FifoKill
  <2>3. PICK a \in Ids, u \in {"USR1", "USR2"} : Signal(x, u, a)
    BY <2>2
  <2>4. /\ pend[q] \subseteq pend'[q]
        /\ UNCHANGED frames \/ frames' = [frames EXCEPT ![x] = <<First(u, x)>>]
    BY <2>3, SignalEffect
  <2>5. Sees(frames[q], s) => frames[q] # <<>>
    BY DEF Sees
  <2> QED BY <1>0, <2>1, <2>4, <2>5 DEF TypeSig
<1>12. ASSUME NEW x \in Sessions, Dead(x) PROVE Awake'
  <2>1. PICK k \in 0..MaxId : End(x, k)
    BY <1>12 DEF Dead
  <2>2. x # q
    BY <1>0, <1>4, <2>1 DEF End, Goto, Alive, TypeOK
  <2> QED BY <1>0, <2>1, <2>2 DEF End, TypeSig
<1>13. ASSUME NEW x \in Sessions, SendPut(x) \/ SendName(x) \/ Start(x) \/ FifoSender(x)
       PROVE UNCHANGED sig
  BY <1>13 DEF SendPut, SendName, Start, FifoSender
<1>14. TypeOK /\ Rowed
  BY <1>0 DEF Table
<1> QED BY <1>9, <1>10, <1>11, <1>12, <1>13, <1>14, DataEffect DEF sig

\* At first nobody has been signalled.
LEMMA InitWakes == Init => Kinds /\ Started /\ WakesUp
BY DEF Init, Kinds, Kind, Started, WakesUp, Live

\* The wakeups are in order throughout.
LEMMA WakesHold == Spec => [](IInv /\ Kinds /\ Started /\ WakesUp)
<1>1. ASSUME IInv, Kinds, Started, WakesUp, [Next]_vars PROVE (Kinds /\ Started /\ WakesUp)'
  BY <1>1, KindsStep, StartedStep, WakesUpStep
<1> QED BY <1>1, Invariant, InitWakes, PTL DEF Spec

\* While ras_send spins on a slot, its reader has a signal or is in the handler that
\* will empty it, as long as senderId still names the sender.
THEOREM NoWakeupLost == Spec => []NoLostWakeup
<1>1. ASSUME IInv, Started, WakesUp PROVE NoLostWakeup
  <2> SUFFICES ASSUME NEW p \in Sessions, NEW r, r = tgt[p], NEW q, q = sock[r],
                      pc[p] = "spin", slot[r][row[p]] # None, sender[r] = row[p],
                      used[r], pid[r] = q, Alive(q), Announced(q) \/ p = q
               PROVE  Woken(q, row[p])
    BY DEF NoLostWakeup
  <2>1. r \in Ids /\ r \in Nat /\ q \in Sessions /\ Live(p)
    BY <1>1, Values DEF IInv, TypeOK, Table, UsedRows, Live
  <2>2. SignalledTo(p, r)
    BY <2>1 DEF SignalledTo
  <2>3. pc[q] \notin {"none", "accepted", "new"}
    BY <1>1, <2>1 DEF Started
  <2>4. Named(q)
    BY <2>3 DEF Named, Announced
  <2> QED BY <1>1, <2>1, <2>2, <2>4 DEF WakesUp, Waits
<1> QED BY <1>1, WakesHold, PTL

=====

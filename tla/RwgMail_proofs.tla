--------------------------- MODULE RwgMail_proofs ---------------------------
(***************************************************************************)
(* Theorems about the messages and the user pipes of RwgServer: in which   *)
(* order messages are shown; and while nobody logs out, to whom they are   *)
(* shown, on which pipe the descriptor a user keeps is open, and that each *)
(* fifo in /tmp is the current pipe of its two users.                      *)
(***************************************************************************)
EXTENDS RwgServer_proofs

-----------------------------------------------------------------------------
(* Where the sessions are and where they can go *)

\* p has come out of Login.
Entered(p) == AtShell(p) \/ pc[p] \in Ended

\* The line p is at has still to write to row r.
ToWrite(p, r) ==
  pc[p] \in Talking /\ (r > tgt[p] \/ (r = tgt[p] /\ pc[p] \in {"check", "write"}))

Talks == \A p \in Sessions : pc[p] \in Talking => tgt[p] \in Ids

\* The others stay where they are.
OthersStay(p) ==
  \A q \in Sessions \ {p} :
    pc'[q] = pc[q] /\ tgt'[q] = tgt[q] /\ job'[q] = job[q] /\ shells'[q] = shells[q]

\* p stays or goes on, and has no new row to write to.
GoesOn(p) ==
  /\ OthersStay(p)
  /\ Entered(p) => Entered(p)'
  /\ pc'[p] \in Talking => tgt'[p] \in Ids
  /\ \A r \in Rows : ToWrite(p, r)' => ToWrite(p, r)
  /\ Running(p)' => Running(p)

\* p, in the shell, is given a line.
GetsLine(p) ==
  /\ OthersStay(p)
  /\ pc[p] = "ready" /\ Entered(p)'
  /\ pc'[p] \in Talking => tgt'[p] \in Ids
  /\ Running(p)' <=> Running(p)
  /\ typed' = [typed EXCEPT ![p] = typed[p] + 1]
  /\ UNCHANGED <<self, sig, mail>>

\* A program or a handler that dies goes to no place to write.
LEMMA DyingGoes ==
  ASSUME TypeOK, NEW p \in Sessions, pc[p] \notin {"off"} \cup Ended \/ HandlerDies(p),
         UNCHANGED job, \A q \in Sessions \ {p} : tgt'[q] = tgt[q],
         pc[p] \notin Talking \/ UNCHANGED tgt, Talks,
         ProgramDies(p) \/ HandlerDies(p) \/ End(p, "gone")
  PROVE  GoesOn(p)
<1> USE ShellPlaces DEF TypeOK, TypeSession, GoesOn, OthersStay, Entered, AtShell, ToWrite, Running, Alive
<1>1. ASSUME NEW l \in {"gone", "leaked"}, End(p, l) PROVE GoesOn(p)
  BY <1>1 DEF End, Goto
<1>2. Lost(p) \in {"gone", "leaked"}
  BY DEF Lost
<1>3. CASE shells[p] = "nested" /\ ProgramDies(p) /\ ~HandlerDies(p)
  BY <1>3 DEF ProgramDies, Goto
<1>4. CASE shells[p] = "nested" /\ HandlerDies(p)
  BY <1>4 DEF HandlerDies, Talks
<1> QED BY <1>1, <1>2, <1>3, <1>4 DEF ProgramDies, HandlerDies

\* The end of ras_tell: one row less to write to.
LEMMA TellDoneGoes ==
  ASSUME TypeOK, Talks, NEW p \in Sessions, TellDone(p), UNCHANGED <<shells, myId>>,
         pc[p] = "kill" \/ (pc[p] = "check" /\ UNCHANGED sig)
  PROVE  GoesOn(p)
<1> USE ShellPlaces DEF TypeOK, TypeSession, GoesOn, OthersStay, Entered, AtShell, ToWrite, Running, Alive
<1>0. tgt[p] \in Ids /\ \A q \in Sessions : tgt[q] \in Rows
  BY DEF Talks
<1>1. CASE pc' = [pc EXCEPT ![p] = "enter"] /\ job[p] = "login"
           /\ tgt' = [tgt EXCEPT ![p] = 0] /\ job' = [job EXCEPT ![p] = "none"]
  BY <1>1
<1>2. CASE pc' = [pc EXCEPT ![p] = "prompt"] /\ job[p] # "login"
           /\ tgt' = [tgt EXCEPT ![p] = 0] /\ job' = [job EXCEPT ![p] = "none"]
  BY <1>2
<1>3. CASE pc' = [pc EXCEPT ![p] = "check"] /\ UNCHANGED job /\ tgt[p] # MaxId
           /\ tgt' = [tgt EXCEPT ![p] = tgt[p] + 1]
  <2>1. tgt[p] + 1 \in Ids /\ tgt[p] \in Int
    BY <1>0, <1>3, MaxIdPositive DEF Ids
  <2>2. \A r \in Rows : r >= tgt[p] + 1 => r > tgt[p]
    BY <2>1 DEF Rows
  <2>3. \A r \in Rows : ToWrite(p, r)' => ToWrite(p, r)
    <3>1. tgt'[p] = tgt[p] + 1 /\ pc[p] \in Talking
      BY <1>3
    <3>2. \A r \in Rows : r > tgt'[p] \/ r = tgt'[p] => r > tgt[p]
      BY <2>1, <3>1 DEF Rows
    <3> QED BY <3>1, <3>2
  <2> QED BY <1>0, <1>3, <2>1, <2>3
<1> QED BY <1>1, <1>2, <1>3 DEF TellDone, Goto

\* The client's next line.
LEMMA LineGets ==
  ASSUME TypeOK, ShellRow, NEW p \in Sessions, Line(p) PROVE GetsLine(p)
<1> USE ShellPlaces DEF TypeOK, TypeSession, GetsLine, OthersStay, Entered, AtShell, Running, Alive,
                        Types, At, Goto, Talks, self, mail, term, where, work, sig
<1>1. ASSUME NEW r \in Ids, TypeTell(p, r) PROVE GetsLine(p)
  BY <1>1 DEF TypeTell
<1>2. ASSUME NEW r \in Ids, TypePipe(p, r) PROVE GetsLine(p)
  BY <1>2 DEF TypePipe
<1>3. ASSUME NEW r \in Ids, TypeRead(p, r) PROVE GetsLine(p)
  <2>1. Goto(p, "prompt") \/ Goto(p, "eating")
    BY <1>3 DEF TypeRead
  <2> QED BY <1>3, <2>1 DEF TypeRead
<1>4. ASSUME NEW r \in Ids, TypeReadMissing(p, r) PROVE GetsLine(p)
  BY <1>4 DEF TypeReadMissing, Nest
<1>5. CASE TypeYell(p)
  <2>1. 1 \in Ids
    BY MaxIdPositive DEF Ids
  <2> QED BY <1>5, <2>1 DEF TypeYell
<1>6. CASE TypeName(p)
  BY <1>6 DEF TypeName
<1>7. CASE TypeOrphan(p)
  BY <1>7 DEF TypeOrphan, Nest
<1> QED BY <1>1, <1>2, <1>3, <1>4, <1>5, <1>6, <1>7 DEF Line

\* The steps that move a program, or end it.
LEMMA ControlStep ==
  ASSUME TypeOK, ShellRow, Talks, [Next]_vars
  PROVE  \/ UNCHANGED <<pc, tgt, job, shells>>
         \/ \E p \in Sessions : GoesOn(p)
         \/ \E p \in Sessions :
              OthersStay(p) /\ (Connect(p) \/ LoginFill(p) \/ GetsLine(p))
<1> DEFINE Still == UNCHANGED <<pc, tgt, job, shells>>
<1>1. ASSUME NEW p \in Sessions, Connect(p) \/ LoginFill(p) PROVE OthersStay(p)
  BY <1>1 DEF Connect, LoginFill, OthersStay, Goto, where, work, TypeOK, TypeSession
<1>2. ASSUME NEW p \in Sessions, Line(p) PROVE GetsLine(p)
  BY <1>2, LineGets
<1>3. ASSUME NEW p \in Sessions, Hangup(p) \/ Deliver(p) \/ HandlerEnter(p) \/ MsgSend(p)
               \/ MsgClear(p)
                                   \/ FifoOpen(p) \/ FifoReset(p)
      PROVE Still
  BY <1>3 DEF Hangup, Deliver, HandlerEnter, MsgSend, MsgClear, FifoOpen, FifoReset, where, work
<1>4. ASSUME NEW p \in Sessions, TellSkip(p) \/ TellKill(p) PROVE GoesOn(p)
  BY <1>4, TellDoneGoes DEF TellSkip, TellKill, At, self
<1>5. ASSUME NEW p \in Sessions, MsgSendFails(p) \/ FifoOpenFails(p) PROVE GoesOn(p)
  BY <1>5, DyingGoes DEF MsgSendFails, FifoOpenFails, work
<1>6. ASSUME NEW p \in Sessions, LoginRefused(p) PROVE GoesOn(p)
  <2>1. pc[p] = "probe" /\ End(p, "gone") /\ UNCHANGED <<job, tgt>>
    BY <1>6 DEF LoginRefused, At, work
  <2> QED BY <2>1, ShellPlaces, DyingGoes
<1>7. ASSUME NEW p \in Sessions, WriteFails(p) \/ PipeOpenFails(p) PROVE GoesOn(p)
  <2>1. pc[p] \in {"prompt", "enter", "check", "pcheck", "open"} /\ ProgramDies(p) /\ UNCHANGED <<job, tgt>>
    BY <1>7 DEF WriteFails, PipeOpenFails, Writing, At, work
  <2> QED BY <2>1, ShellPlaces, DyingGoes
<1>8. ASSUME NEW p \in Sessions, Unlink(p) PROVE GoesOn(p)
  <2>1. /\ pc[p] = "unlink" /\ UNCHANGED job /\ \A q \in Sessions \ {p} : tgt'[q] = tgt[q]
        /\ ProgramDies(p) \/ UNCHANGED where
    BY <1>8 DEF Unlink, At, TypeOK, TypeSession
  <2>2. CASE ProgramDies(p)
    BY <2>1, <2>2, ShellPlaces, DyingGoes
  <2>3. CASE UNCHANGED where
    BY <2>1, <2>3, ShellPlaces DEF where, GoesOn, OthersStay, Entered, AtShell, ToWrite, Running,
       Alive
  <2> QED BY <2>1, <2>2, <2>3
<1> USE ShellPlaces
    DEF TypeOK, TypeSession, GoesOn, OthersStay, Entered, AtShell, ToWrite, Running, Alive,
        At, Goto, Talks, self, work, where
<1>9. ASSUME NEW p \in Sessions, LoginFound(p) \/ LoginClaim(p) PROVE GoesOn(p)
  BY <1>9 DEF LoginFound, LoginClaim
<1>10. ASSUME NEW p \in Sessions, LoginProbe(p) PROVE Still
  BY <1>10 DEF LoginProbe
<1>11. ASSUME NEW p \in Sessions, EnterShell(p) \/ Prompt(p) \/ Eof(p)
                \/ EatingEnds(p) PROVE GoesOn(p)
  BY <1>11 DEF EnterShell, Prompt, Eof, EatingEnds
<1>12. ASSUME NEW p \in Sessions, TellCheck(p) \/ TellWrite(p) \/ TellSender(p) PROVE GoesOn(p)
  <2>1. CASE TellCheck(p)
    BY <2>1 DEF TellCheck
  <2>2. CASE TellWrite(p)
    BY <2>2 DEF TellWrite
  <2>3. CASE TellSender(p)
    BY <2>3 DEF TellSender
  <2> QED BY <1>12, <2>1, <2>2, <2>3
<1>13. ASSUME NEW p \in Sessions, PipeOffline(p) \/ PipeOpen(p) PROVE GoesOn(p)
  BY <1>13 DEF PipeOffline, PipeOpen, PipeDone
<1>14. ASSUME NEW p \in Sessions, PipeCheck(p) \/ PipeReuse(p) \/ PipeName(p)
                \/ MkFifo(p) PROVE GoesOn(p)
  BY <1>14 DEF PipeCheck, PipeReuse, PipeName, MkFifo
<1>15. ASSUME NEW p \in Sessions, PipeSender(p) \/ PipeKill(p) \/ PipeSpinEnds(p) PROVE GoesOn(p)
  BY <1>15 DEF PipeSender, PipeKill, PipeSpinEnds
<1>16. ASSUME NEW p \in Sessions, Release(p) \/ Wipe(p) PROVE GoesOn(p)
  BY <1>16 DEF Release, Wipe
<1>17. CASE UNCHANGED vars
  BY <1>17 DEF vars
<1>18. ASSUME NEW p \in Sessions, GetsLine(p) PROVE OthersStay(p)
  BY <1>18 DEF GetsLine
<1> QED
  BY ONLY [Next]_vars, <1>1, <1>2, <1>3, <1>4, <1>5, <1>6, <1>7, <1>8, <1>9, <1>10, <1>11, <1>12,
     <1>13, <1>14,
          <1>15, <1>16, <1>17, <1>18
     DEF Next, Client, Program, Handler

-----------------------------------------------------------------------------
(* What the steps do to signals and messages *)

Letters == <<messages, shown, typed, myId>>

\* Nothing happens to signals and messages.
Still == UNCHANGED <<sig, Letters>> /\ \A q \in Sessions : Running(q) => Running(q)'

\* The process of p that handles signals ends.
Falls(p) ==
  /\ UNCHANGED Letters /\ ~Running(p)'
  /\ frames' = [frames EXCEPT ![p] = <<>>] /\ pend' = [pend EXCEPT ![p] = {}]
  /\ \A q \in Sessions \ {p} : Running(q) => Running(q)'

\* p sends a signal.
Signals(p) ==
  /\ UNCHANGED Letters /\ (shells[p] = "single" => frames[p] = <<>>)
  /\ \E s \in {"USR1", "USR2"}, r \in Rows : Signal(p, s, r)
  /\ \A q \in Sessions : Running(q) => Running(q)'

\* A step of a handler, or the beginning of one.
Handles(p) ==
  Deliver(p) \/ HandlerEnter(p) \/ MsgSend(p) \/ MsgClear(p) \/ FifoOpen(p) \/ FifoReset(p)

\* The end of a program or a handler, with or without the end of the process.
LEMMA DyingFalls ==
  ASSUME TypeOK, NEW p \in Sessions, UNCHANGED Letters, pc[p] \notin {"off"} \cup Ended
           \/ HandlerDies(p),
         ProgramDies(p) \/ HandlerDies(p) \/ End(p, "gone")
  PROVE  Still \/ Falls(p)
<1> USE ShellPlaces DEF TypeOK, TypeSession, Running, Alive
<1>1. ASSUME NEW l \in {"gone", "leaked"}, End(p, l) PROVE Falls(p)
  BY <1>1 DEF End, Goto, Falls
<1>2. Lost(p) \in {"gone", "leaked"}
  BY DEF Lost
<1>3. CASE shells[p] = "nested" /\ ProgramDies(p) /\ ~HandlerDies(p)
  BY <1>3 DEF ProgramDies, Goto, Still
<1>4. CASE shells[p] = "nested" /\ HandlerDies(p)
  BY <1>4 DEF HandlerDies, Falls
<1> QED BY <1>1, <1>2, <1>3, <1>4 DEF ProgramDies, HandlerDies

\* All steps.
LEMMA MailEffect ==
  ASSUME TypeOK, ShellRow, Talks, [Next]_vars
  PROVE  \/ Still
         \/ \E p \in Sessions :
              EnterShell(p) \/ GetsLine(p) \/ TellWrite(p) \/ Falls(p) \/ Signals(p) \/ Handles(p)
<1> USE DEF Letters
<1>1. ASSUME NEW p \in Sessions, Hangup(p) PROVE Still
  BY <1>1 DEF Hangup, Still, where, self, work, mail, Running, Alive
<1>2. ASSUME NEW p \in Sessions, MsgSendFails(p) \/ FifoOpenFails(p) PROVE Still \/ Falls(p)
  BY <1>2, DyingFalls DEF MsgSendFails, FifoOpenFails, self, mail, term
<1>3. ASSUME NEW p \in Sessions, LoginRefused(p) \/ WriteFails(p)
               \/ PipeOpenFails(p) PROVE Still \/ Falls(p)
  <2>1. /\ pc[p] \in {"probe", "prompt", "enter", "check", "pcheck", "open"}
        /\ UNCHANGED <<messages, shown, typed, myId>>
        /\ ProgramDies(p) \/ End(p, "gone")
    BY <1>3 DEF LoginRefused, WriteFails, PipeOpenFails, Writing, At, self, mail, term
  <2> QED BY <2>1, ShellPlaces, DyingFalls
<1>4. ASSUME NEW p \in Sessions, Unlink(p) PROVE Still \/ Falls(p)
  <2>1. /\ pc[p] = "unlink" /\ UNCHANGED <<messages, shown, typed, myId>>
        /\ ProgramDies(p) \/ UNCHANGED <<where, sig>>
    BY <1>4 DEF Unlink, At, self, mail, term
  <2>2. CASE ProgramDies(p)
    BY <2>1, <2>2, ShellPlaces, DyingFalls
  <2>3. CASE UNCHANGED <<where, sig>>
    BY <2>1, <2>3 DEF where, Still, Running, Alive
  <2> QED BY <2>1, <2>2, <2>3
<1>5. ASSUME NEW p \in Sessions, TellKill(p) \/ PipeKill(p) PROVE Signals(p)
  <2>1. /\ UNCHANGED <<messages, shown, typed, myId, shells>> /\ (shells[p] = "single" => frames[p] = <<>>)
        /\ pc[p] \in {"kill", "pkill"} /\ tgt[p] \in Rows
        /\ Signal(p, "USR1", tgt[p]) \/ Signal(p, "USR2", tgt[p])
    BY <1>5 DEF TellKill, PipeKill, At, self, mail, term, TypeOK, TypeSession
  <2>2. \E l \in {"enter", "prompt", "check", "spin"} : pc' = [pc EXCEPT ![p] = l]
    BY <1>5 DEF TellKill, PipeKill, TellDone, Goto
  <2>3. \A q \in Sessions : Running(q) => Running(q)'
    BY <2>1, <2>2, ShellPlaces DEF Running, Alive, TypeOK, TypeSession
  <2> QED BY <2>1, <2>3 DEF Signals
<1>6. ASSUME NEW p \in Sessions, Connect(p) PROVE Still
  BY <1>6 DEF Connect, Still, Goto, self, mail, term, Running, Alive, TypeOK, TypeSession
<1>7. ASSUME NEW p \in Sessions, LoginFound(p) \/ LoginClaim(p) \/ LoginFill(p) \/ Prompt(p)
             \/ Eof(p) \/ EatingEnds(p)
      PROVE Still
  BY <1>7, ShellPlaces DEF LoginFound, LoginClaim, LoginFill, Prompt, Eof, EatingEnds,
         At, Goto, Still, where, self, mail, term, Running, Alive, TypeOK, TypeSession
<1>8. ASSUME NEW p \in Sessions, LoginProbe(p) PROVE Still
  BY <1>8 DEF LoginProbe, Still, where, mail, term, Running, Alive
<1>9. ASSUME NEW p \in Sessions, TellSkip(p) \/ TellCheck(p) \/ TellSender(p) PROVE Still
  <2>1. pc[p] \in Talking /\ UNCHANGED <<messages, shown, typed, myId, sig, shells>>
    BY <1>9, ShellPlaces DEF TellSkip, TellCheck, TellSender, At, self, mail, term
  <2>2. \E l \in {"enter", "prompt", "check", "write", "kill"} : pc' = [pc EXCEPT ![p] = l]
    BY <1>9 DEF TellSkip, TellCheck, TellSender, TellDone, Goto
  <2> QED BY <2>1, <2>2, ShellPlaces DEF Still, Running, Alive, TypeOK, TypeSession
<1>10. ASSUME NEW p \in Sessions, PipeOffline(p) \/ PipeCheck(p) \/ PipeReuse(p) \/ PipeName(p)
              \/ MkFifo(p) \/ PipeSender(p) \/ PipeSpinEnds(p) \/ PipeOpen(p)
       PROVE Still
  <2>1. pc[p] \in Piping /\ UNCHANGED <<messages, shown, typed, myId, sig, shells>>
    BY <1>10 DEF PipeOffline, PipeCheck, PipeReuse, PipeName, MkFifo, PipeSender, PipeSpinEnds,
         PipeOpen, At, self, mail, term, Piping
  <2>2. \E l \in {"prompt", "pname", "mkfifo", "psender", "pkill", "open"} : pc' = [pc EXCEPT ![p] = l]
    BY <1>10 DEF PipeOffline, PipeCheck, PipeReuse, PipeName, MkFifo, PipeSender, PipeSpinEnds,
         PipeOpen, PipeDone, Goto
  <2> QED BY <2>1, <2>2, ShellPlaces DEF Still, Running, Alive, TypeOK, TypeSession
<1>11. ASSUME NEW p \in Sessions, Release(p) \/ Wipe(p) PROVE Still
  BY <1>11, ShellPlaces DEF Release, Wipe, At, Goto, Still, self, mail, term, Running, Alive,
     TypeOK, TypeSession
<1>12. CASE UNCHANGED vars
  BY <1>12 DEF vars, where, self, mail, term, Still, Running, Alive
<1> QED
  BY ONLY TypeOK, ShellRow, [Next]_vars, <1>1, <1>2, <1>3, <1>4, <1>5, <1>6, <1>7, <1>8, <1>9,
     <1>10, <1>11, <1>12, LineGets
     DEF Next, Client, Program, Handler, Handles

-----------------------------------------------------------------------------
(* Where a session is when it has typed, and when it is shown something *)

\* A session types after it entered the shell, and has no id before.
Early == \A p \in Sessions : ~Entered(p) => typed[p] = 0 /\ myId[p] = 0

\* Who has no id has been shown nothing, and row 0 holds no message.
Unread ==
  /\ \A p \in Sessions : myId[p] = 0 => shown[p] = <<>>
  /\ \A s \in Rows : messages[0][s] = None

\* What one step does to what a session has typed and is writing.
Counts(q) ==
  /\ typed'[q] >= typed[q]
  /\ typed'[q] = typed[q] /\ typed[q] > 0 => \A r \in Rows : ToWrite(q, r)' => ToWrite(q, r)
  /\ typed[q] > 0 => myId'[q] = myId[q]
  /\ myId[q] # 0 => myId'[q] = myId[q]
  /\ Running(q)' => Running(q) \/ myId'[q] = 0

\* The places of sessions alone: every step keeps what ControlStep splits.
LEMMA EnteredStays ==
  ASSUME TypeOK, ShellRow, Talks, [Next]_vars
  PROVE  /\ Talks'
         /\ \A q \in Sessions : Entered(q) => Entered(q)'
<1>1. CASE UNCHANGED <<pc, tgt, job, shells>>
  BY <1>1 DEF Talks, Entered, AtShell
<1>2. ASSUME NEW p \in Sessions, OthersStay(p), pc'[p] \in Talking => tgt'[p] \in Ids,
             Entered(p) => Entered(p)'
      PROVE  Talks' /\ \A q \in Sessions : Entered(q) => Entered(q)'
  <2>1. \A q \in Sessions : q = p \/ (pc'[q] = pc[q] /\ tgt'[q] = tgt[q] /\ job'[q] = job[q])
    BY <1>2 DEF OthersStay
  <2>2. \A q \in Sessions : pc'[q] \in Talking => tgt'[q] \in Ids
    BY <1>2, <2>1 DEF Talks
  <2>3. \A q \in Sessions : Entered(q) => Entered(q)'
    BY <1>2, <2>1 DEF Entered, AtShell
  <2> QED BY <2>2, <2>3 DEF Talks
<1>3. ASSUME NEW p \in Sessions, Connect(p) PROVE pc'[p] \notin Talking /\ ~Entered(p)
  BY <1>3, ShellPlaces DEF Connect, Goto, Entered, AtShell, TypeOK, TypeSession
<1>4. ASSUME NEW p \in Sessions, LoginFill(p) PROVE tgt'[p] \in Ids /\ ~Entered(p)
  <2>1. 1 \in Ids
    BY MaxIdPositive DEF Ids
  <2>2. pc[p] = "fill" /\ tgt'[p] = 1
    BY <1>4 DEF LoginFill, At, TypeOK, TypeSession
  <2> QED BY <2>1, <2>2, ShellPlaces DEF Entered, AtShell
<1>5. ASSUME NEW p \in Sessions, GetsLine(p)
      PROVE (pc'[p] \in Talking => tgt'[p] \in Ids) /\ Entered(p)'
  BY <1>5 DEF GetsLine
<1>6. ASSUME NEW p \in Sessions, GoesOn(p)
      PROVE OthersStay(p) /\ (pc'[p] \in Talking => tgt'[p] \in Ids) /\ (Entered(p) => Entered(p)')
  BY <1>6 DEF GoesOn
<1> QED BY <1>1, <1>2, <1>3, <1>4, <1>5, <1>6, ControlStep

\* Which step changes what a session has typed, and its id.
LEMMA CountsStep ==
  ASSUME TypeOK, ShellRow, Talks, Early, [Next]_vars
  PROVE  Early' /\ \A q \in Sessions : Counts(q)
<1> USE DEF TypeOK, TypeSession
<1>1. \A q \in Sessions : Entered(q) => Entered(q)'
  BY EnteredStays
<1>2. \/ UNCHANGED <<typed, myId>>
      \/ \E p \in Sessions : GetsLine(p)
      \/ \E p \in Sessions : EnterShell(p)
  <2>1. ASSUME NEW p \in Sessions, TellWrite(p) \/ Falls(p)
                 \/ Signals(p) PROVE UNCHANGED <<typed, myId>>
    BY <2>1 DEF TellWrite, Falls, Signals, Letters, self, term
  <2>2. ASSUME NEW p \in Sessions, Handles(p) PROVE UNCHANGED <<typed, myId>>
    BY <2>2 DEF Handles, Deliver, HandlerEnter, MsgSend, MsgClear, FifoOpen, FifoReset, self, term
  <2> QED BY <2>1, <2>2, MailEffect DEF Still, Letters
<1>3. ASSUME NEW p \in Sessions, GetsLine(p)
      PROVE  typed' = [typed EXCEPT ![p] = typed[p] + 1] /\ UNCHANGED myId /\ Entered(p)'
  BY <1>3 DEF GetsLine, self
<1>4. ASSUME NEW p \in Sessions, EnterShell(p)
      PROVE  UNCHANGED typed /\ myId' = [myId EXCEPT ![p] = row[p]] /\ Entered(p)' /\ ~Entered(p)
  BY <1>4, ShellPlaces DEF EnterShell, At, Goto, term, Entered, AtShell
<1>5. ASSUME NEW q \in Sessions PROVE ~Entered(q)' => typed'[q] = 0 /\ myId'[q] = 0
  BY <1>1, <1>2, <1>3, <1>4 DEF Early
<1>6. ASSUME NEW q \in Sessions
      PROVE  /\ typed'[q] >= typed[q]
             /\ typed[q] > 0 \/ myId[q] # 0 => Entered(q) /\ myId'[q] = myId[q]
  BY <1>2, <1>3, <1>4 DEF Early
<1>7. ASSUME NEW q \in Sessions
      PROVE  /\ typed'[q] = typed[q] /\ typed[q] > 0 =>
                  \A r \in Rows : ToWrite(q, r)' => ToWrite(q, r)
             /\ Running(q)' => Running(q) \/ myId'[q] = 0
  <2>1. CASE UNCHANGED <<pc, tgt, job, shells>>
    BY <2>1 DEF ToWrite, Running, Alive
  <2>2. ASSUME NEW p \in Sessions, OthersStay(p), q # p
        PROVE /\ \A r \in Rows : ToWrite(q, r)' => ToWrite(q, r)
              /\ Running(q)' => Running(q)
    BY <2>2 DEF OthersStay, ToWrite, Running, Alive
  <2>3. ASSUME GoesOn(q)
        PROVE /\ \A r \in Rows : ToWrite(q, r)' => ToWrite(q, r)
              /\ Running(q)' => Running(q)
    BY <2>3 DEF GoesOn
  <2>4. Connect(q) => typed[q] = 0 /\ myId'[q] = 0
    BY ShellPlaces DEF Connect, Early, Entered, AtShell
  <2>5. LoginFill(q) => typed[q] = 0 /\ myId'[q] = 0
    BY ShellPlaces DEF LoginFill, At, Early, Entered, AtShell, self
  <2>6. GetsLine(q) => typed'[q] = typed[q] + 1 /\ typed[q] \in Int /\ (Running(q)' => Running(q))
    BY DEF GetsLine
  <2>7. \A p \in Sessions : GoesOn(p) => OthersStay(p)
    BY DEF GoesOn
  <2> QED BY <2>1, <2>2, <2>3, <2>4, <2>5, <2>6, <2>7, ControlStep
<1>8. Early'
  BY <1>5 DEF Early
<1>9. \A q \in Sessions : Counts(q)
  BY <1>6, <1>7 DEF Counts
<1> QED BY <1>8, <1>9

-----------------------------------------------------------------------------
(* Handlers in progress *)

\* At most one per signal, and only those of SIGUSR1 send and clear.
FrameKinds ==
  \A p \in Sessions :
    /\ \A i, j \in DOMAIN frames[p] : frames[p][i].sig = frames[p][j].sig => i = j
    /\ \A i \in DOMAIN frames[p] : frames[p][i].at \in {"send", "clear"}
          => frames[p][i].sig = "USR1"

\* A session whose own process has ended handles no signal.
Silent == \A p \in Sessions : ~Running(p) => pend[p] = {} /\ frames[p] = <<>>

\* The handler of q has sent the slot of s and not yet cleared it.
Clearing(q, s) == \E k \in DOMAIN frames[q] : frames[q][k].at = "clear" /\ frames[q][k].from = s

\* A frame pushed onto others.
LEMMA Pushed ==
  ASSUME NEW fs \in Seq(Frame), NEW f \in Frame
  PROVE  /\ DOMAIN (<<f>> \o fs) = 1..(Len(fs) + 1)
         /\ (<<f>> \o fs)[1] = f
         /\ \A k \in DOMAIN fs : k + 1 \in DOMAIN (<<f>> \o fs) /\ (<<f>> \o fs)[k + 1] = fs[k]
         /\ \A k \in DOMAIN (<<f>> \o fs) : k # 1
               => k - 1 \in DOMAIN fs /\ (<<f>> \o fs)[k] = fs[k - 1]
<1>1. Len(fs) \in Nat /\ DOMAIN fs = 1..Len(fs) /\ Len(<<f>>) = 1 /\ <<f>> \in Seq(Frame) /\ <<f>>[1] = f
  OBVIOUS
<1>2. Len(<<f>> \o fs) = Len(fs) + 1 /\ <<f>> \o fs \in Seq(Frame)
  BY <1>1
<1>3. \A k \in 1..(Len(fs) + 1) : (<<f>> \o fs)[k] = IF k <= 1 THEN <<f>>[k] ELSE fs[k - 1]
  BY <1>1
<1> QED BY <1>1, <1>2, <1>3

\* The top frame taken away.
LEMMA Popped ==
  ASSUME NEW fs \in Seq(Frame), fs # <<>>
  PROVE  /\ Tail(fs) \in Seq(Frame) /\ Head(fs) = fs[1] /\ 1 \in DOMAIN fs /\ Head(fs) \in Frame
         /\ \A k \in DOMAIN Tail(fs) : k \in Nat /\ k + 1 \in DOMAIN fs /\ Tail(fs)[k] = fs[k + 1]
         /\ \A k \in DOMAIN fs : k # 1 => k - 1 \in DOMAIN Tail(fs) /\ Tail(fs)[k - 1] = fs[k]
<1>1. Len(fs) \in Nat /\ Len(fs) # 0 /\ DOMAIN fs = 1..Len(fs) /\ Tail(fs) \in Seq(Frame) /\ Len(Tail(fs)) = Len(fs) - 1
  OBVIOUS
<1>2. \A k \in 1..(Len(fs) - 1) : Tail(fs)[k] = fs[k + 1]
  BY <1>1
<1> QED BY <1>1, <1>2

\* The top frame replaced.
LEMMA Replaced ==
  ASSUME NEW fs \in Seq(Frame), fs # <<>>, NEW f \in Frame
  PROVE  /\ DOMAIN (<<f>> \o Tail(fs)) = DOMAIN fs
         /\ (<<f>> \o Tail(fs))[1] = f
         /\ \A k \in DOMAIN fs : k # 1 => (<<f>> \o Tail(fs))[k] = fs[k]
<1>1. Len(fs) \in Nat /\ Len(fs) # 0 /\ DOMAIN fs = 1..Len(fs) /\ Tail(fs) \in Seq(Frame) /\ Len(Tail(fs)) = Len(fs) - 1
  OBVIOUS
<1>2. DOMAIN (<<f>> \o Tail(fs)) = 1..(Len(Tail(fs)) + 1)
  BY <1>1, Pushed
<1>3. \A k \in DOMAIN (<<f>> \o Tail(fs)) : k # 1 =>
        k - 1 \in DOMAIN Tail(fs) /\ (<<f>> \o Tail(fs))[k] = Tail(fs)[k - 1]
  BY <1>1, Pushed
<1>4. \A k \in 1..(Len(fs) - 1) : Tail(fs)[k] = fs[k + 1]
  BY <1>1
<1> QED BY <1>1, <1>2, <1>3, <1>4, Pushed

\* kill() of a session to itself starts a handler where none is in progress.
LEMMA SignalFrames ==
  ASSUME TypeOK, NEW p \in Sessions, Signals(p)
  PROVE  /\ \A q \in Sessions : pend'[q] # pend[q] => Running(q)
         /\ \/ UNCHANGED frames
            \/ /\ frames[p] = <<>> /\ Running(p)
               /\ \E s \in {"USR1", "USR2"} :
                    frames' = [frames EXCEPT ![p] = <<[sig |-> s, from |-> 0, at |-> "enter"]>>]
BY DEF Signals, Signal, Receivers, TypeOK, TypeSignals

\* What a step of a handler does to the frames of its session.
LEMMA HandlesFrames ==
  ASSUME TypeOK, NEW p \in Sessions, Handles(p)
  PROVE  /\ UNCHANGED <<pc, tgt, job, shells, typed, myId>>
         /\ \A q \in Sessions : q # p => frames'[q] = frames[q] /\ pend'[q] = pend[q]
         /\ \/ /\ Deliver(p) /\ pend'[p] \subseteq pend[p] /\ pend[p] # {}
               /\ \E s \in {"USR1", "USR2"} :
                    /\ ~Handling(p, s) /\ Started(p, s) \in Frame
                    /\ frames'[p] = <<Started(p, s)>> \o frames[p]
            \/ /\ frames[p] # <<>> /\ pend'[p] = pend[p]
               /\ \E f \in Frame : f.sig = Head(frames[p]).sig /\ frames'[p] = <<f>> \o Tail(frames[p])
                    /\ \/ f = Started(p, f.sig) /\ HandlerEnter(p) /\ Head(frames[p]).at = "enter"
                       \/ /\ f.at = "clear" /\ MsgSend(p)
                          /\ Head(frames[p]).at = "send" /\ f.from = Head(frames[p]).from
                       \/ f.at = "reset" /\ FifoOpen(p) /\ Head(frames[p]).at = "open"
            \/ /\ frames[p] # <<>> /\ pend'[p] = pend[p] /\ frames'[p] = Tail(frames[p])
               /\ \/ MsgClear(p) /\ Head(frames[p]).at = "clear"
                  \/ FifoReset(p) /\ Head(frames[p]).at = "reset"
<1>1. frames \in [Sessions -> Seq(Frame)] /\ pend \in [Sessions -> SUBSET {"USR1", "USR2"}]
  BY DEF TypeOK, TypeSignals
<1>2. UNCHANGED <<pc, tgt, job, shells, typed, myId>>
  BY DEF Handles, Deliver, HandlerEnter, MsgSend, MsgClear, FifoOpen, FifoReset, where, self,
     work, term
<1>3. \A s \in {"USR1", "USR2"} : Started(p, s) \in Frame /\ Started(p, s).sig = s
  BY DEF Started, Frame, TypeOK, TypeSession, TypeTable
<1>4. frames[p] # <<>> => Head(frames[p]) \in Frame
  BY <1>1, Popped
<1>5. CASE Deliver(p)
  <2>1. PICK s \in pend[p] :
          /\ ~Handling(p, s)
          /\ pend' = [pend EXCEPT ![p] = @ \ {s}]
          /\ frames' = [frames EXCEPT ![p] = <<Started(p, s)>> \o @]
    BY <1>5 DEF Deliver
  <2>2. s \in {"USR1", "USR2"}
    BY <1>1, <2>1
  <2>3. (\A q \in Sessions \ {p} : frames'[q] = frames[q]) /\ frames'[p] = <<Started(p, s)>> \o frames[p]
    BY <1>1, <2>1
  <2>4. (\A q \in Sessions \ {p} : pend'[q] = pend[q]) /\ pend'[p] = pend[p] \ {s}
    BY <1>1, <2>1
  <2> QED BY <1>2, <1>3, <1>5, <2>1, <2>2, <2>3, <2>4
<1>6. CASE HandlerEnter(p)
  <2>1. frames[p] # <<>> /\ Head(frames[p]).at = "enter" /\ UNCHANGED pend
        /\ frames' = [frames EXCEPT ![p] = <<Started(p, Head(frames[p]).sig)>> \o Tail(frames[p])]
    BY <1>6 DEF HandlerEnter, Top, Retop
  <2>2. Head(frames[p]).sig \in {"USR1", "USR2"}
    BY <1>4, <2>1 DEF Frame
  <2> QED BY <1>1, <1>2, <1>3, <1>6, <2>1, <2>2
<1>7. CASE MsgSend(p)
  <2>1. frames[p] # <<>> /\ Head(frames[p]).at = "send" /\ UNCHANGED pend
        /\ frames' = [frames EXCEPT ![p] = <<[Head(frames[p]) EXCEPT !.at = "clear"]>> \o Tail(frames[p])]
    BY <1>7 DEF MsgSend, Top, Retop
  <2> DEFINE f == [Head(frames[p]) EXCEPT !.at = "clear"]
  <2>2. f \in Frame /\ f.sig = Head(frames[p]).sig /\ f.at = "clear" /\ f.from = Head(frames[p]).from
    BY <1>4, <2>1 DEF Frame
  <2> QED BY <1>1, <1>2, <1>7, <2>1, <2>2
<1>8. CASE FifoOpen(p)
  <2>1. frames[p] # <<>> /\ Head(frames[p]).at = "open" /\ UNCHANGED pend
        /\ frames' = [frames EXCEPT ![p] = <<[Head(frames[p]) EXCEPT !.at = "reset"]>> \o Tail(frames[p])]
    BY <1>8 DEF FifoOpen, Top, Retop
  <2> DEFINE f == [Head(frames[p]) EXCEPT !.at = "reset"]
  <2>2. f \in Frame /\ f.sig = Head(frames[p]).sig /\ f.at = "reset"
    BY <1>4, <2>1 DEF Frame
  <2> QED BY <1>1, <1>2, <1>8, <2>1, <2>2
<1>9. CASE MsgClear(p)
  BY <1>1, <1>2, <1>9 DEF MsgClear, Top, Return
<1>10. CASE FifoReset(p)
  BY <1>1, <1>2, <1>10 DEF FifoReset, Top, Return
<1> QED BY <1>5, <1>6, <1>7, <1>8, <1>9, <1>10 DEF Handles

\* Every step keeps one frame per signal.
LEMMA FrameKindsStep ==
  ASSUME TypeOK, ShellRow, Talks, FrameKinds, [Next]_vars
  PROVE  FrameKinds'
<1> DEFINE Good(fs) == /\ \A i, j \in DOMAIN fs : fs[i].sig = fs[j].sig => i = j
                       /\ \A i \in DOMAIN fs : fs[i].at \in {"send", "clear"} => fs[i].sig = "USR1"
<1>0. frames \in [Sessions -> Seq(Frame)]
  BY DEF TypeOK, TypeSignals
<1>1. \A q \in Sessions : Good(frames[q])
  BY DEF FrameKinds
<1>2. SUFFICES ASSUME NEW q \in Sessions PROVE Good(frames'[q])
  BY DEF FrameKinds
<1>3. CASE frames'[q] = frames[q]
  BY <1>1, <1>3
<1>4. CASE frames'[q] = <<>>
  BY <1>4
<1>5. ASSUME NEW p \in Sessions, Signals(p) PROVE Good(frames'[q])
  <2>1. ASSUME NEW s \in {"USR1", "USR2"},
               frames' = [frames EXCEPT ![p] = <<[sig |-> s, from |-> 0, at |-> "enter"]>>]
        PROVE  Good(frames'[q])
    BY <1>0, <1>1, <2>1
  <2> QED BY <1>3, <1>5, <2>1, SignalFrames
<1>6. ASSUME NEW p \in Sessions, Handles(p) PROVE Good(frames'[q])
  <2> DEFINE fs == frames[q]
  <2>0. fs \in Seq(Frame) /\ Good(fs)
    BY <1>0, <1>1
  <2>1. ASSUME NEW s \in {"USR1", "USR2"}, \A k \in DOMAIN fs : fs[k].sig # s,
               Started(q, s) \in Frame,
               frames'[q] = <<Started(q, s)>> \o fs
        PROVE  Good(frames'[q])
    <3>1. Started(q, s).sig = s /\ (Started(q, s).at \in {"send", "clear"} => s = "USR1")
      BY DEF Started
    <3>2. /\ (<<Started(q, s)>> \o fs)[1] = Started(q, s)
          /\ \A k \in DOMAIN (<<Started(q, s)>> \o fs) : k # 1 =>
               k - 1 \in DOMAIN fs /\ k \in Int /\ (<<Started(q, s)>> \o fs)[k] = fs[k - 1]
      BY <2>0, <2>1, Pushed
    <3> QED BY ONLY <2>0, <2>1, <3>1, <3>2
  <2>2. ASSUME fs # <<>>, NEW f \in Frame, f.sig = Head(fs).sig, frames'[q] = <<f>> \o Tail(fs),
               f.at \in {"send", "clear"} => f.sig = "USR1"
        PROVE  Good(frames'[q])
    <3>1. f.sig = fs[1].sig /\ 1 \in DOMAIN fs
      BY <2>0, <2>2, Popped
    <3>2. /\ DOMAIN (<<f>> \o Tail(fs)) = DOMAIN fs
          /\ (<<f>> \o Tail(fs))[1] = f
          /\ \A k \in DOMAIN fs : k # 1 => (<<f>> \o Tail(fs))[k] = fs[k]
      BY <2>0, <2>2, Replaced
    <3>3. \A k \in DOMAIN fs : (<<f>> \o Tail(fs))[k].sig = fs[k].sig
      BY <3>1, <3>2
    <3>4. \A k \in DOMAIN fs : fs[k].at \in {"send", "clear"} => fs[k].sig = "USR1"
      BY <2>0
    <3>5. \A k \in DOMAIN fs : (<<f>> \o Tail(fs))[k].at \in {"send", "clear"} =>
            (<<f>> \o Tail(fs))[k].sig = "USR1"
      BY <2>2, <3>2, <3>4
    <3>6. \A i, j \in DOMAIN fs : fs[i].sig = fs[j].sig => i = j
      BY <2>0
    <3>7. \A i, j \in DOMAIN fs : (<<f>> \o Tail(fs))[i].sig = (<<f>> \o Tail(fs))[j].sig => i = j
      BY <3>3, <3>6
    <3> QED BY ONLY <2>2, <3>2, <3>5, <3>7
  <2>3. ASSUME fs # <<>>, frames'[q] = Tail(fs) PROVE Good(frames'[q])
    <3>1. \A k \in DOMAIN Tail(fs) : k \in Nat /\ k + 1 \in DOMAIN fs /\ Tail(fs)[k] = fs[k + 1]
      BY <2>0, <2>3, Popped
    <3> QED BY ONLY <2>0, <2>3, <3>1
  <2>4. fs # <<>> /\ Head(fs).at = "send" => Head(fs).sig = "USR1"
    BY <2>0, Popped
  <2>5. \A f : f = Started(q, f.sig) /\ f.at \in {"send", "clear"} => f.sig = "USR1"
    BY DEF Started
  <2>6. CASE p = q
    <3>1. CASE \E s \in {"USR1", "USR2"} :
                    /\ ~Handling(p, s) /\ Started(p, s) \in Frame
                    /\ frames'[p] = <<Started(p, s)>> \o frames[p]
      BY <2>1, <2>6, <3>1 DEF Handling
    <3>2. CASE /\ frames[p] # <<>>
               /\ \E f \in Frame : f.sig = Head(frames[p]).sig /\ frames'[p] = <<f>> \o Tail(frames[p])
                    /\ \/ f = Started(p, f.sig)
                       \/ f.at = "clear" /\ Head(frames[p]).at = "send"
                       \/ f.at = "reset"
      <4>1. PICK f \in Frame : f.sig = Head(frames[p]).sig /\ frames'[p] = <<f>> \o Tail(frames[p])
                    /\ \/ f = Started(p, f.sig)
                       \/ f.at = "clear" /\ Head(frames[p]).at = "send"
                       \/ f.at = "reset"
        BY <3>2
      <4>2. f.at \in {"send", "clear"} => f.sig = "USR1"
        BY <2>4, <2>5, <2>6, <3>2, <4>1
      <4> QED BY <2>2, <2>6, <3>2, <4>1, <4>2
    <3>3. CASE frames[p] # <<>> /\ frames'[p] = Tail(frames[p])
      BY <2>3, <2>6, <3>3
    <3> QED BY <1>6, <3>1, <3>2, <3>3, HandlesFrames
  <2>7. CASE p # q
    BY <1>3, <1>6, <2>7, HandlesFrames
  <2> QED BY <2>6, <2>7
<1>7. ASSUME NEW p \in Sessions, EnterShell(p) \/ GetsLine(p) \/ TellWrite(p) PROVE UNCHANGED frames
  BY <1>7 DEF EnterShell, GetsLine, TellWrite, sig
<1>8. ASSUME NEW p \in Sessions, Falls(p) PROVE frames'[q] = frames[q] \/ frames'[q] = <<>>
  BY <1>0, <1>8 DEF Falls
<1> QED BY <1>3, <1>4, <1>5, <1>6, <1>7, <1>8, MailEffect DEF Still, sig

\* Every step keeps the ended sessions silent.
LEMMA SilentStep ==
  ASSUME TypeOK, ShellRow, Talks, Silent, [Next]_vars
  PROVE  Silent'
<1>0. frames \in [Sessions -> Seq(Frame)] /\ pend \in [Sessions -> SUBSET {"USR1", "USR2"}]
  BY DEF TypeOK, TypeSignals
<1>1. SUFFICES ASSUME NEW q \in Sessions, ~Running(q)' PROVE pend'[q] = {} /\ frames'[q] = <<>>
  BY DEF Silent
<1>2. CASE (Running(q) => Running(q)') /\ pend'[q] = pend[q] /\ frames'[q] = frames[q]
  BY <1>1, <1>2 DEF Silent
<1>3. ASSUME NEW p \in Sessions, GetsLine(p) PROVE (Running(q) => Running(q)') /\ UNCHANGED sig
  BY <1>3 DEF GetsLine, OthersStay, Running, Alive
<1>4. ASSUME NEW p \in Sessions, EnterShell(p) \/ TellWrite(p)
      PROVE (Running(q) => Running(q)') /\ UNCHANGED sig
  BY <1>4 DEF EnterShell, TellWrite, At, Goto, Running, Alive, TypeOK, TypeSession, Ended
<1>5. ASSUME NEW p \in Sessions, Falls(p)
      PROVE \/ pend'[q] = {} /\ frames'[q] = <<>>
            \/ (Running(q) => Running(q)') /\ pend'[q] = pend[q] /\ frames'[q] = frames[q]
  BY <1>0, <1>5 DEF Falls
<1>6. ASSUME NEW p \in Sessions, Signals(p)
      PROVE pend'[q] = pend[q] /\ frames'[q] = frames[q] /\ ~Running(q)
  <2>1. ~Running(q)
    BY <1>1, <1>6 DEF Signals
  <2>2. pend'[q] = pend[q]
    BY <1>6, <2>1, SignalFrames
  <2>3. frames'[q] = frames[q]
    BY <1>0, <1>6, <2>1, SignalFrames
  <2> QED BY <2>1, <2>2, <2>3
<1>7. ASSUME NEW p \in Sessions, Handles(p)
      PROVE pend'[q] = pend[q] /\ frames'[q] = frames[q] /\ ~Running(q)
  <2>1. UNCHANGED <<pc, shells>>
    BY <1>7, HandlesFrames
  <2>2. ~Running(q)
    BY <1>1, <2>1 DEF Running, Alive
  <2>3. pend[q] = {} /\ frames[q] = <<>>
    BY <2>2 DEF Silent
  <2>4. q # p
    BY <1>7, <2>3, HandlesFrames
  <2> QED BY <1>7, <2>2, <2>4, HandlesFrames
<1> QED BY <1>2, <1>3, <1>4, <1>5, <1>6, <1>7, MailEffect DEF Still, sig

-----------------------------------------------------------------------------
(* Messages are numbered in the order they were typed *)

\* m was typed, and if it is its author's latest it is not to be written to
\* row r again.
Fine(m, r) == m.n > 0 /\ m.n <= typed[m.by] /\ (m.n = typed[m.by] => ~ToWrite(m.by, r))

\* ToWrite and Fine in the next state, for a p and an m of either state.
WritesNext(p, r) ==
  pc'[p] \in Talking /\ (r > tgt'[p] \/ (r = tgt'[p] /\ pc'[p] \in {"check", "write"}))
FineNext(m, r) == m.n > 0 /\ m.n <= typed'[m.by] /\ (m.n = typed'[m.by] => ~WritesNext(m.by, r))

\* The typed message in a slot comes from the slot's user.
Numbered ==
  \A r, s \in Rows : LET m == messages[r][s] IN
    m # None /\ m.n > 0 => s = myId[m.by] /\ Fine(m, r)

ShownNumbered ==
  \A q \in Sessions : \A i \in DOMAIN shown[q] : Fine(shown[q][i], myId[q])

\* A slot that is about to be cleared may hold what was just shown; any other
\* holds something later than what was shown of its author.
Fresher ==
  \A q \in Sessions : Running(q) => \A s \in Rows : LET m == messages[myId[q]][s] IN
    m # None /\ m.n > 0 =>
      \A i \in DOMAIN shown[q] : shown[q][i].by = m.by =>
        shown[q][i].n < m.n \/ (shown[q][i].n = m.n /\ Clearing(q, s))

\* The handlers' steps with an effect on messages are MsgSend and MsgClear.
LEMMA HandlesMail ==
  ASSUME TypeOK, NEW p \in Sessions, Handles(p)
  PROVE  \/ UNCHANGED <<messages, shown>>
         \/ MsgSend(p) /\ UNCHANGED messages
         \/ MsgClear(p) /\ UNCHANGED shown
<1>2. MsgSend(p) => UNCHANGED messages
  BY DEF MsgSend
<1>3. MsgClear(p) => UNCHANGED shown
  BY DEF MsgClear
<1>4. Deliver(p) \/ HandlerEnter(p) \/ FifoOpen(p) \/ FifoReset(p) => UNCHANGED <<messages, shown>>
  BY DEF Deliver, HandlerEnter, FifoOpen, FifoReset, mail
<1> QED BY <1>2, <1>3, <1>4 DEF Handles

\* MsgSend shows the slot its frame is about, unless it is empty.
LEMMA SendEffect ==
  ASSUME TypeOK, NEW p \in Sessions, MsgSend(p)
  PROVE  \E s \in Rows :
           /\ frames[p] # <<>> /\ frames[p][1].at = "send" /\ frames[p][1].from = s
           /\ \/ UNCHANGED shown /\ (messages[myId[p]][s] = None \/ messages[myId[p]][s].n = 0)
              \/ /\ messages[myId[p]][s] \in Message /\ messages[myId[p]][s] # None
                 /\ messages[myId[p]][s].n > 0
                 /\ shown' = [shown EXCEPT ![p] = Append(shown[p], messages[myId[p]][s])]
<1>1. frames[p] # <<>> /\ Head(frames[p]).at = "send" /\ frames[p] \in Seq(Frame)
  BY DEF MsgSend, Top, TypeOK, TypeSignals
<1>2. Head(frames[p]) = frames[p][1] /\ Head(frames[p]) \in Frame
  BY <1>1, Popped
<1> DEFINE s == Head(frames[p]).from
           m == messages[myId[p]][s]
<1>3. s \in Rows /\ myId[p] \in Rows /\ m \in Message \cup {None}
  BY <1>2 DEF Frame, TypeOK, TypeSession, TypeTable
<1>4. shown' = IF m = None \/ m.n = 0 THEN shown ELSE [shown EXCEPT ![p] = Append(shown[p], m)]
  BY DEF MsgSend
<1>5. m # None => m.n \in Nat
  BY <1>3, MaxTypedNatural DEF Message
<1>6. CASE m = None \/ m.n = 0
  BY <1>1, <1>2, <1>3, <1>4, <1>6
<1>7. CASE m # None /\ m.n # 0
  <2>1. m \in Message /\ m.n > 0
    BY <1>3, <1>5, <1>7
  <2> QED BY <1>1, <1>2, <1>3, <1>4, <1>7, <2>1
<1> QED BY <1>6, <1>7

\* An element appended to a sequence.
LEMMA Appended ==
  ASSUME NEW ms \in Seq(Message), NEW m \in Message
  PROVE  /\ Append(ms, m) \in Seq(Message)
         /\ \A i \in DOMAIN Append(ms, m) :
              (i \in DOMAIN ms /\ Append(ms, m)[i] = ms[i]) \/ (i = Len(ms) + 1 /\ Append(ms, m)[i] = m)
         /\ \A i \in DOMAIN ms : i \in Int /\ i < Len(ms) + 1
         /\ Len(ms) + 1 \notin DOMAIN ms
OBVIOUS

\* Who has no id is shown nothing, in the next state too.
LEMMA UnreadStep ==
  ASSUME TypeOK, ShellRow, Talks, Early, Unread, [Next]_vars
  PROVE  Unread'
<1>0. /\ messages \in [Rows -> [Rows -> Message \cup {None}]] /\ myId \in [Sessions -> Rows]
      /\ shown \in [Sessions -> Seq(Message)]
  BY DEF TypeOK, TypeSession, TypeTable, TypeSystem
<1>1. \A q \in Sessions : myId'[q] = 0 => myId[q] = 0
  BY CountsStep DEF Counts
<1>2. CASE UNCHANGED <<messages, shown>>
  BY <1>1, <1>2 DEF Unread
<1>3. ASSUME NEW p \in Sessions, TellWrite(p) PROVE Unread'
  <2>1. UNCHANGED shown /\ tgt[p] # 0
    BY <1>3, ShellPlaces DEF TellWrite, At, Talks, Ids
  <2>3. messages' = [messages EXCEPT ![tgt[p]] = [messages[tgt[p]] EXCEPT ![myId[p]] =
                      [by |-> p, n |-> typed[p], to |-> aim[p]]]]
    BY <1>3 DEF TellWrite
  <2>2. \A s \in Rows : messages'[0][s] = messages[0][s]
    BY <1>0, <2>1, <2>3
  <2> QED BY <1>1, <2>1, <2>2 DEF Unread
<1>4. ASSUME NEW p \in Sessions, MsgSend(p), UNCHANGED messages PROVE Unread'
  <2>1. \A q \in Sessions : myId'[q] = 0 => shown'[q] = shown[q]
    BY <1>0, <1>1, <1>4, SendEffect DEF Unread
  <2> QED BY <1>1, <1>4, <2>1 DEF Unread
<1>5. ASSUME NEW p \in Sessions, MsgClear(p), UNCHANGED shown PROVE Unread'
  <2>1. \E s : messages' = [messages EXCEPT ![myId[p]] = [messages[myId[p]] EXCEPT ![s] = None]]
    BY <1>5 DEF MsgClear
  <2>2. \A s \in Rows : messages'[0][s] = messages[0][s] \/ messages'[0][s] = None
    BY <1>0, <2>1
  <2> QED BY <1>1, <1>5, <2>2 DEF Unread
<1>6. ASSUME NEW p \in Sessions, EnterShell(p) \/ GetsLine(p) \/ Falls(p) \/ Signals(p)
      PROVE  UNCHANGED <<messages, shown>>
  BY <1>6 DEF EnterShell, GetsLine, Falls, Signals, Letters, mail
<1> QED BY <1>2, <1>3, <1>4, <1>5, <1>6, HandlesMail, MailEffect DEF Still, Letters

\* A slot after a step is as it was, is empty, or was just written.
LEMMA SlotsStep ==
  ASSUME TypeOK, ShellRow, Talks, [Next]_vars, NEW r \in Rows, NEW s \in Rows
  PROVE  \/ messages'[r][s] = messages[r][s]
         \/ messages'[r][s] = None
         \/ \E p \in Sessions :
              /\ TellWrite(p) /\ r = tgt[p] /\ s = myId[p] /\ UNCHANGED <<myId, typed, shown>>
              /\ messages'[r][s] = [by |-> p, n |-> typed[p], to |-> aim[p]]
              /\ pc[p] = "write" /\ ToWrite(p, r) /\ ~ToWrite(p, r)'
<1>0. messages \in [Rows -> [Rows -> Message \cup {None}]]
  BY DEF TypeOK, TypeTable
<1>1. ASSUME NEW p \in Sessions, TellWrite(p)
      PROVE  \/ messages'[r][s] = messages[r][s]
             \/ /\ r = tgt[p] /\ s = myId[p] /\ UNCHANGED <<myId, typed, shown>>
                /\ messages'[r][s] = [by |-> p, n |-> typed[p], to |-> aim[p]]
                /\ pc[p] = "write" /\ ToWrite(p, r) /\ ~ToWrite(p, r)'
  <2>1. /\ messages' = [messages EXCEPT ![tgt[p]] = [messages[tgt[p]] EXCEPT ![myId[p]] =
                         [by |-> p, n |-> typed[p], to |-> aim[p]]]]
        /\ UNCHANGED <<myId, typed, shown, tgt>> /\ pc[p] = "write" /\ pc'[p] = "sender"
    BY <1>1 DEF TellWrite, At, Goto, self, work, term, TypeOK, TypeSession
  <2>2. tgt[p] \in Rows /\ myId[p] \in Rows
    BY DEF TypeOK, TypeSession
  <2>3. CASE r = tgt[p] /\ s = myId[p]
    <3>1. messages'[r][s] = [by |-> p, n |-> typed[p], to |-> aim[p]]
      BY <1>0, <2>1, <2>3
    <3>2. ToWrite(p, r)
      BY <2>1, <2>3, ShellPlaces DEF ToWrite
    <3>3. ~ToWrite(p, r)'
      BY <2>1, <2>2, <2>3, Values DEF ToWrite
    <3> QED BY <2>1, <2>3, <3>1, <3>2, <3>3
  <2>4. CASE ~(r = tgt[p] /\ s = myId[p])
    BY <1>0, <2>1, <2>2, <2>4
  <2> QED BY <2>3, <2>4
<1>2. ASSUME NEW p \in Sessions, MsgClear(p)
      PROVE  messages'[r][s] = messages[r][s] \/ messages'[r][s] = None
  <2>1. \E u : messages' = [messages EXCEPT ![myId[p]] = [messages[myId[p]] EXCEPT ![u] = None]]
    BY <1>2 DEF MsgClear
  <2> QED BY <1>0, <2>1
<1>3. ASSUME NEW p \in Sessions, EnterShell(p) \/ GetsLine(p) \/ Falls(p) \/ Signals(p)
      PROVE  UNCHANGED messages
  BY <1>3 DEF EnterShell, GetsLine, Falls, Signals, Letters, mail
<1> QED BY <1>1, <1>2, <1>3, HandlesMail, MailEffect DEF Still, Letters

\* What a client has been shown after a step: one message more, or the same.
LEMMA ShownStep ==
  ASSUME TypeOK, ShellRow, Talks, Silent, [Next]_vars, NEW q \in Sessions
  PROVE  \/ shown'[q] = shown[q]
         \/ /\ MsgSend(q) /\ Running(q) /\ UNCHANGED <<messages, typed, myId>>
            /\ \E s \in Rows :
                 /\ frames[q] # <<>> /\ frames[q][1].at = "send" /\ frames[q][1].from = s
                 /\ messages[myId[q]][s] \in Message /\ messages[myId[q]][s] # None
                 /\ messages[myId[q]][s].n > 0
                 /\ shown'[q] = Append(shown[q], messages[myId[q]][s])
<1>0. shown \in [Sessions -> Seq(Message)]
  BY DEF TypeOK, TypeSystem
<1>1. ASSUME NEW p \in Sessions, TellWrite(p) \/ EnterShell(p) \/ GetsLine(p) \/ Falls(p)
               \/ Signals(p)
      PROVE  UNCHANGED shown
  BY <1>1 DEF TellWrite, EnterShell, GetsLine, Falls, Signals, Letters, mail
<1>2. ASSUME NEW p \in Sessions, MsgSend(p), p # q PROVE shown'[q] = shown[q]
  BY <1>0, <1>2, SendEffect
<1>3. MsgSend(q) => UNCHANGED <<messages, typed, myId>>
  BY DEF MsgSend, term, self
<1>4. frames[q] # <<>> => Running(q)
  BY DEF Silent
<1>5. ASSUME MsgSend(q), shown'[q] # shown[q]
      PROVE \E s \in Rows :
                 /\ frames[q] # <<>> /\ frames[q][1].at = "send" /\ frames[q][1].from = s
                 /\ messages[myId[q]][s] \in Message /\ messages[myId[q]][s] # None
                 /\ messages[myId[q]][s].n > 0
                 /\ shown'[q] = Append(shown[q], messages[myId[q]][s])
  BY <1>0, <1>5, SendEffect
<1>6. ASSUME NEW p \in Sessions, Handles(p),
             UNCHANGED <<messages, shown>> \/ (MsgClear(p) /\ UNCHANGED shown)
      PROVE  shown'[q] = shown[q]
  BY <1>6
<1> QED BY <1>1, <1>2, <1>3, <1>4, <1>5, <1>6, HandlesMail, MailEffect DEF Still, Letters

-----------------------------------------------------------------------------
(* The order in which messages are shown *)

\* No step makes a typed message wrong.
LEMMA StillFine ==
  ASSUME TypeOK, TypeOK', NEW m \in Message, NEW r \in Rows, Counts(m.by), Fine(m, r)
  PROVE  FineNext(m, r) /\ myId'[m.by] = myId[m.by]
<1>1. m.by \in Sessions /\ m.n \in Nat /\ typed[m.by] \in Nat /\ typed'[m.by] \in Nat
  BY MaxTypedNatural DEF Message, TypeOK, TypeSession
<1>2. typed[m.by] > 0 /\ m.n > 0 /\ m.n <= typed[m.by]
  BY <1>1 DEF Fine
<1>3. typed'[m.by] >= typed[m.by] /\ myId'[m.by] = myId[m.by]
  BY <1>2 DEF Counts
<1>4. CASE typed'[m.by] = typed[m.by]
  <2>1. ~ToWrite(m.by, r) => ~WritesNext(m.by, r)
    BY <1>2, <1>4 DEF Counts, ToWrite, WritesNext
  <2> QED BY <1>3, <1>4, <2>1 DEF Fine, FineNext
<1>5. CASE typed'[m.by] # typed[m.by]
  BY <1>1, <1>2, <1>3, <1>5 DEF FineNext
<1> QED BY <1>4, <1>5

\* Every step keeps the slots numbered.
LEMMA NumberedStep ==
  ASSUME TypeOK, ShellRow, Talks, Early, Numbered, [Next]_vars
  PROVE  Numbered'
<1>0. /\ messages \in [Rows -> [Rows -> Message \cup {None}]] /\ TypeOK'
      /\ myId \in [Sessions -> Rows] /\ typed \in [Sessions -> 0..MaxTyped]
  BY TypeStep DEF TypeOK, TypeSession, TypeTable
<1>1. ASSUME NEW r \in Rows, NEW s \in Rows, messages'[r][s] # None, messages'[r][s].n > 0
      PROVE  s = myId'[messages'[r][s].by] /\ FineNext(messages'[r][s], r)
  <2>1. CASE messages'[r][s] = messages[r][s]
    <3> DEFINE m == messages[r][s]
    <3>1. m \in Message
      BY <1>0, <1>1, <2>1
    <3>2. s = myId[m.by] /\ Fine(m, r)
      BY <1>1, <2>1 DEF Numbered
    <3>3. Counts(m.by)
      BY <3>1, CountsStep DEF Message
    <3>4. FineNext(m, r) /\ myId'[m.by] = myId[m.by]
      BY <1>0, <3>1, <3>2, <3>3, StillFine
    <3> QED BY <2>1, <3>2, <3>4
  <2>2. ASSUME NEW p \in Sessions,
               /\ s = myId[p] /\ UNCHANGED <<myId, typed>>
               /\ messages'[r][s] = [by |-> p, n |-> typed[p], to |-> aim[p]] /\ ~ToWrite(p, r)'
        PROVE  s = myId'[messages'[r][s].by] /\ FineNext(messages'[r][s], r)
    <3>1. ~WritesNext(p, r)
      BY <2>2 DEF ToWrite, WritesNext
    <3>2. typed[p] <= typed[p]
      BY <1>0, MaxTypedNatural
    <3> QED BY <1>1, <2>2, <3>1, <3>2 DEF FineNext
  <2> QED BY <1>1, <2>1, <2>2, SlotsStep
<1> QED BY <1>1 DEF Numbered, Fine, FineNext, ToWrite, WritesNext

\* Every step keeps what was shown numbered.
LEMMA ShownNumberedStep ==
  ASSUME TypeOK, ShellRow, Talks, Early, Unread, Silent, Numbered, ShownNumbered, [Next]_vars
  PROVE  ShownNumbered'
<1>0. /\ shown \in [Sessions -> Seq(Message)] /\ TypeOK' /\ myId \in [Sessions -> Rows]
  BY TypeStep DEF TypeOK, TypeSession, TypeSystem
<1>1. \A m \in Message, r \in Rows : Fine(m, r) => FineNext(m, r)
  <2> SUFFICES ASSUME NEW m \in Message, NEW r \in Rows, Fine(m, r) PROVE FineNext(m, r)
    OBVIOUS
  <2>1. Counts(m.by)
    BY CountsStep DEF Message
  <2> QED BY <1>0, <2>1, StillFine
<1>2. ASSUME NEW q \in Sessions, NEW i \in DOMAIN shown'[q]
      PROVE  FineNext(shown'[q][i], myId'[q])
  <2>1. ASSUME i \in DOMAIN shown[q], shown'[q][i] = shown[q][i]
        PROVE FineNext(shown'[q][i], myId'[q])
    <3>1. Fine(shown[q][i], myId[q]) /\ shown[q][i] \in Message
      BY <1>0, <2>1 DEF ShownNumbered
    <3>2. FineNext(shown[q][i], myId[q])
      BY <1>0, <1>1, <3>1
    <3>3. myId[q] # 0
      BY <2>1 DEF Unread
    <3>4. myId'[q] = myId[q]
      BY <3>3, CountsStep DEF Counts
    <3> QED BY ONLY <2>1, <3>2, <3>4
  <2>2. CASE shown'[q] = shown[q]
    BY <1>2, <2>1, <2>2
  <2>3. ASSUME NEW s \in Rows, UNCHANGED myId,
               messages[myId[q]][s] \in Message, messages[myId[q]][s] # None, messages[myId[q]][s].n > 0,
               shown'[q] = Append(shown[q], messages[myId[q]][s])
        PROVE  FineNext(shown'[q][i], myId'[q])
    <3>1. Fine(messages[myId[q]][s], myId[q])
      BY <1>0, <2>3 DEF Numbered
    <3>2. FineNext(messages[myId[q]][s], myId[q])
      BY <1>0, <1>1, <2>3, <3>1
    <3>3. \/ i \in DOMAIN shown[q] /\ shown'[q][i] = shown[q][i]
          \/ shown'[q][i] = messages[myId[q]][s]
      BY <1>0, <1>2, <2>3, Appended
    <3> QED BY <2>1, <2>3, <3>2, <3>3
  <2> QED BY <2>2, <2>3, ShownStep
<1> QED BY <1>2 DEF ShownNumbered, Fine, FineNext, ToWrite, WritesNext

\* Once it has sent a slot, a handler is about to clear it.
LEMMA SendClears ==
  ASSUME TypeOK, NEW q \in Sessions, MsgSend(q), NEW s \in Rows, s = frames[q][1].from
  PROVE  Clearing(q, s)'
<1> DEFINE f == [Head(frames[q]) EXCEPT !.at = "clear"]
<1>1. frames[q] \in Seq(Frame) /\ frames[q] # <<>> /\ frames' = [frames EXCEPT ![q] = <<f>> \o Tail(frames[q])]
  BY DEF MsgSend, Top, Retop, TypeOK, TypeSignals
<1>2. Head(frames[q]) \in Frame /\ Head(frames[q]) = frames[q][1] /\ 1 \in DOMAIN frames[q]
  BY <1>1, Popped
<1>3. f \in Frame /\ f.at = "clear" /\ f.from = frames[q][1].from
  BY <1>2 DEF Frame
<1>4. 1 \in DOMAIN (<<f>> \o Tail(frames[q])) /\ (<<f>> \o Tail(frames[q]))[1] = f
  BY <1>1, <1>2, <1>3, Replaced
<1>5. frames'[q] = <<f>> \o Tail(frames[q])
  BY <1>1 DEF TypeOK, TypeSignals
<1>7. \E k \in DOMAIN frames'[q] : frames'[q][k].at = "clear" /\ frames'[q][k].from = frames[q][1].from
  BY <1>3, <1>4, <1>5
<1> QED BY <1>7 DEF Clearing

\* A slot that is about to be cleared stays so until it is.
LEMMA ClearingStep ==
  ASSUME TypeOK, ShellRow, Talks, Silent, [Next]_vars, NEW q \in Sessions, NEW s \in Rows,
         Running(q)', Clearing(q, s)
  PROVE  Clearing(q, s)' \/ (MsgClear(q) /\ messages'[myId[q]][s] = None)
<1> DEFINE fs == frames[q]
<1>0. frames \in [Sessions -> Seq(Frame)] /\ fs \in Seq(Frame)
  BY DEF TypeOK, TypeSignals
<1>1. PICK k \in DOMAIN fs : fs[k].at = "clear" /\ fs[k].from = s
  BY DEF Clearing
<1>2. fs # <<>> /\ k \in Nat
  BY <1>0, <1>1
<1>3. CASE frames'[q] = frames[q]
  BY <1>3 DEF Clearing
<1>4. ASSUME NEW p \in Sessions, EnterShell(p) \/ GetsLine(p)
               \/ TellWrite(p) PROVE frames'[q] = frames[q]
  BY <1>4 DEF EnterShell, GetsLine, TellWrite, sig
<1>5. ASSUME NEW p \in Sessions, Falls(p) PROVE frames'[q] = frames[q]
  BY <1>0, <1>5 DEF Falls
<1>6. ASSUME NEW p \in Sessions, Signals(p) PROVE frames'[q] = frames[q]
  BY <1>0, <1>2, <1>5, <1>6, SignalFrames
<1>7. ASSUME NEW f \in Frame, frames'[q] = <<f>> \o fs PROVE Clearing(q, s)'
  <2>1. k + 1 \in DOMAIN frames'[q] /\ frames'[q][k + 1] = fs[k]
    BY <1>0, <1>1, <1>7, Pushed
  <2> QED BY <1>1, <2>1 DEF Clearing
<1>8. ASSUME NEW f \in Frame, Head(fs).at # "clear", frames'[q] = <<f>> \o Tail(fs)
      PROVE Clearing(q, s)'
  <2>1. k # 1
    BY <1>0, <1>1, <1>2, <1>8, Popped
  <2>2. k \in DOMAIN frames'[q] /\ frames'[q][k] = fs[k]
    BY <1>0, <1>1, <1>2, <1>8, <2>1, Replaced
  <2> QED BY <1>1, <2>2 DEF Clearing
<1>9. ASSUME k # 1, frames'[q] = Tail(fs) PROVE Clearing(q, s)'
  <2>1. k - 1 \in DOMAIN frames'[q] /\ frames'[q][k - 1] = fs[k]
    BY <1>0, <1>1, <1>2, <1>9, Popped
  <2> QED BY <1>1, <2>1 DEF Clearing
<1>10. ASSUME k = 1, MsgClear(q) PROVE messages'[myId[q]][s] = None
  <2>1. Head(fs).from = s
    BY <1>0, <1>1, <1>2, <1>10, Popped
  <2>2. messages' = [messages EXCEPT ![myId[q]] = [messages[myId[q]] EXCEPT ![s] = None]]
    BY <1>10, <2>1 DEF MsgClear
  <2> QED BY <2>2 DEF TypeOK, TypeSession, TypeTable
<1>11. Head(fs) = fs[1]
  BY <1>0, <1>2, Popped
<1>12. ASSUME NEW p \in Sessions, Handles(p)
       PROVE  Clearing(q, s)' \/ (MsgClear(q) /\ messages'[myId[q]][s] = None)
  <2>1. CASE p # q
    BY <1>3, <1>12, <2>1, HandlesFrames
  <2>2. CASE p = q
    <3>1. CASE \E u \in {"USR1", "USR2"} : Started(q, u) \in Frame /\ frames'[q] = <<Started(q, u)>> \o fs
      BY <1>7, <3>1
    <3>2. CASE \E f \in Frame : Head(fs).at # "clear" /\ frames'[q] = <<f>> \o Tail(fs)
      BY <1>8, <3>2
    <3>3. CASE frames'[q] = Tail(fs) /\ MsgClear(q)
      BY <1>9, <1>10, <3>3
    <3>4. CASE frames'[q] = Tail(fs) /\ Head(fs).at = "reset"
      BY <1>1, <1>9, <1>11, <3>4
    <3>5. \/ \E u \in {"USR1", "USR2"} : Started(q, u) \in Frame /\ frames'[q] = <<Started(q, u)>> \o fs
          \/ \E f \in Frame : Head(fs).at # "clear" /\ frames'[q] = <<f>> \o Tail(fs)
          \/ frames'[q] = Tail(fs) /\ (MsgClear(q) \/ Head(fs).at = "reset")
      BY <1>12, <2>2, HandlesFrames
    <3> QED BY <3>1, <3>2, <3>3, <3>4, <3>5
  <2> QED BY <2>1, <2>2
<1> QED BY <1>3, <1>4, <1>5, <1>6, <1>12, MailEffect DEF Still, sig

\* Fresher for one client, slot and shown message, and in the next state.
Newer(q, i, s) ==
  LET m == messages[myId[q]][s] IN
  m # None /\ m.n > 0 /\ shown[q][i].by = m.by =>
    shown[q][i].n < m.n \/ (shown[q][i].n = m.n /\ Clearing(q, s))

\* Newer says what Fresher does.
LEMMA FresherIsNewer ==
  Fresher <=> \A q \in Sessions : Running(q) => \A s \in Rows, i \in DOMAIN shown[q] : Newer(q, i, s)
BY DEF Fresher, Newer

\* The same in the next state.
LEMMA FresherIsNewerNext ==
  Fresher' <=> \A q \in Sessions : Running(q)' => \A s \in Rows, i \in DOMAIN shown'[q] : Newer(q, i, s)'
BY DEF Fresher, Newer, Clearing

\* Every step keeps the slots fresher than what was shown.
LEMMA FresherStep ==
  ASSUME TypeOK, ShellRow, Talks, Early, Unread, Silent, Numbered, ShownNumbered, Fresher,
           [Next]_vars
  PROVE  Fresher'
<1>0. /\ messages \in [Rows -> [Rows -> Message \cup {None}]] /\ myId \in [Sessions -> Rows]
      /\ shown \in [Sessions -> Seq(Message)]
  BY DEF TypeOK, TypeSession, TypeTable, TypeSystem
<1>1. SUFFICES ASSUME NEW q \in Sessions, Running(q)', NEW s \in Rows, NEW i \in DOMAIN shown'[q]
               PROVE  Newer(q, i, s)'
  BY FresherIsNewerNext
<1>2. Unread'
  BY UnreadStep
<1>3. CASE myId'[q] = 0
  BY <1>1, <1>2, <1>3 DEF Unread
<1>4. CASE myId'[q] # 0 /\ shown'[q] = shown[q]
  <2>1. Running(q) /\ myId'[q] = myId[q]
    <3>1. Counts(q) /\ shown[q] # <<>>
      BY <1>1, <1>4, CountsStep
    <3>2. myId[q] # 0
      BY <3>1 DEF Unread
    <3> QED BY <1>1, <1>4, <3>1, <3>2 DEF Counts
  <2>2. Newer(q, i, s)
    BY <1>1, <1>4, <2>1, FresherIsNewer
  <2>3. CASE messages'[myId[q]][s] = messages[myId[q]][s]
    <3>1. Clearing(q, s) => Clearing(q, s)' \/ messages'[myId[q]][s] = None
      BY <1>1, ClearingStep
    <3> QED BY <1>4, <2>1, <2>2, <2>3, <3>1 DEF Newer, Clearing
  <2>4. CASE messages'[myId[q]][s] = None
    BY <1>4, <2>1, <2>4 DEF Newer
  <2>5. ASSUME NEW p \in Sessions,
               messages'[myId[q]][s] = [by |-> p, n |-> typed[p], to |-> aim[p]],
               ToWrite(p, myId[q])
        PROVE  Newer(q, i, s)'
    <3>1. Fine(shown[q][i], myId[q]) /\ shown[q][i] \in Message
      BY <1>0, <1>1, <1>4 DEF ShownNumbered
    <3>2. shown[q][i].by = p => shown[q][i].n < typed[p]
      BY <2>5, <3>1, MaxTypedNatural DEF Fine, Message, TypeOK, TypeSession
    <3> QED BY <1>4, <2>1, <2>5, <3>2 DEF Newer
  <2> QED BY <1>0, <2>3, <2>4, <2>5, SlotsStep
<1>5. ASSUME NEW s0 \in Rows, MsgSend(q), Running(q), UNCHANGED <<messages, myId>>,
             frames[q] # <<>>, frames[q][1].at = "send", frames[q][1].from = s0,
             messages[myId[q]][s0] \in Message, messages[myId[q]][s0] # None, messages[myId[q]][s0].n > 0,
             shown'[q] = Append(shown[q], messages[myId[q]][s0])
      PROVE  Newer(q, i, s)'
  <2> DEFINE m0 == messages[myId[q]][s0]
  <2>1. Clearing(q, s) => Clearing(q, s)' \/ messages[myId[q]][s] = None
    BY <1>1, <1>5, ClearingStep
  <2>2. CASE i \in DOMAIN shown[q] /\ shown'[q][i] = shown[q][i]
    <3>1. Newer(q, i, s)
      BY <1>5, <2>2, FresherIsNewer
    <3> QED BY <1>5, <2>1, <2>2, <3>1 DEF Newer, Clearing
  <2>3. CASE shown'[q][i] = m0
    <3>1. Clearing(q, s0)'
      BY <1>5, SendClears
    <3>2. messages[myId[q]][s] # None /\ messages[myId[q]][s].n > 0 /\ messages[myId[q]][s].by = m0.by => s = s0
      BY <1>0, <1>5 DEF Numbered
    <3> QED BY <1>5, <2>3, <3>1, <3>2 DEF Newer, Clearing
  <2> QED BY <1>0, <1>1, <1>5, <2>2, <2>3, Appended
<1> QED BY <1>3, <1>4, <1>5, ShownStep

\* Only something later than what was shown is shown next.
LEMMA ShownInOrderStep ==
  ASSUME TypeOK, ShellRow, Talks, Silent, FrameKinds, Fresher, ShownInOrder, [Next]_vars
  PROVE  ShownInOrder'
<1>0. shown \in [Sessions -> Seq(Message)] /\ frames \in [Sessions -> Seq(Frame)]
  BY DEF TypeOK, TypeSystem, TypeSignals
<1>1. SUFFICES ASSUME NEW q \in Sessions, NEW i \in DOMAIN shown'[q], NEW j \in DOMAIN shown'[q],
                      i < j, shown'[q][i].by = shown'[q][j].by
               PROVE  shown'[q][i].n < shown'[q][j].n
  BY DEF ShownInOrder
<1>2. CASE shown'[q] = shown[q]
  BY <1>1, <1>2 DEF ShownInOrder
<1>3. ASSUME NEW s \in Rows, MsgSend(q), Running(q),
             frames[q] # <<>>, frames[q][1].at = "send", frames[q][1].from = s,
             messages[myId[q]][s] \in Message, messages[myId[q]][s] # None, messages[myId[q]][s].n > 0,
             shown'[q] = Append(shown[q], messages[myId[q]][s])
      PROVE  shown'[q][i].n < shown'[q][j].n
  <2> DEFINE m == messages[myId[q]][s]
  <2>1. ~Clearing(q, s)
    <3>1. 1 \in DOMAIN frames[q]
      BY <1>0, <1>3, Popped
    <3>2. ASSUME NEW k \in DOMAIN frames[q], frames[q][k].at = "clear" PROVE FALSE
      <4>1. frames[q][k].sig = frames[q][1].sig
        BY <1>3, <3>1, <3>2 DEF FrameKinds
      <4>2. k = 1
        BY <3>1, <4>1 DEF FrameKinds
      <4> QED BY <1>3, <3>2, <4>2
    <3> QED BY <3>2 DEF Clearing
  <2>2. \A k \in DOMAIN shown[q] : shown[q][k].by = m.by => shown[q][k].n < m.n
    BY <1>3, <2>1 DEF Fresher
  <2>3. \A k \in DOMAIN shown'[q] :
          \/ k \in DOMAIN shown[q] /\ shown'[q][k] = shown[q][k]
          \/ k = Len(shown[q]) + 1 /\ shown'[q][k] = m
    BY <1>0, <1>3, Appended
  <2>4. \A k \in DOMAIN shown[q] : k \in Int /\ k < Len(shown[q]) + 1
    BY <1>0, <1>3, Appended
  <2>5. Len(shown[q]) \in Int
    BY <1>0
  <2>6. CASE j \in DOMAIN shown[q] /\ shown'[q][j] = shown[q][j]
    <3>1. i \in DOMAIN shown[q] /\ shown'[q][i] = shown[q][i]
      BY <1>1, <2>3, <2>4, <2>5, <2>6
    <3> QED BY <1>1, <2>6, <3>1 DEF ShownInOrder
  <2>7. CASE j = Len(shown[q]) + 1 /\ shown'[q][j] = m
    <3>1. i \in DOMAIN shown[q] /\ shown'[q][i] = shown[q][i]
      BY <1>1, <2>3, <2>5, <2>7
    <3> QED BY <1>1, <2>2, <2>7, <3>1
  <2> QED BY <1>1, <2>3, <2>6, <2>7
<1> QED BY <1>2, <1>3, ShownStep

\* What makes the order inductive.
MailInv ==
  /\ TypeOK /\ ShellRow /\ Talks /\ Early /\ Unread
  /\ FrameKinds /\ Silent /\ Numbered /\ ShownNumbered /\ Fresher

\* Initially nothing is typed, written or shown.
LEMMA MailInit == Init => MailInv /\ ShownInOrder
<1> SUFFICES ASSUME Init PROVE MailInv /\ ShownInOrder
  OBVIOUS
<1>1. TypeOK /\ ShellRow
  BY TypeInit, ShellRowInit
<1>2. Talks /\ Early /\ Unread
  <2>1. Talks /\ Early
    BY ShellPlaces DEF Init, Talks, Early
  <2>2. Unread
    BY Values DEF Init, Unread
  <2> QED BY <2>1, <2>2
<1>3. FrameKinds /\ Silent
  BY DEF Init, FrameKinds, Silent
<1>4. Numbered /\ ShownNumbered /\ Fresher /\ ShownInOrder
  BY DEF Init, Numbered, ShownNumbered, Fresher, ShownInOrder
<1> QED BY <1>1, <1>2, <1>3, <1>4 DEF MailInv

\* Every step keeps it.
LEMMA MailStep ==
  ASSUME MailInv, [Next]_vars
  PROVE  MailInv'
<1> USE DEF MailInv
<1>1. TypeOK' /\ ShellRow'
  BY TypeStep, ShellRowStep
<1>2. Talks' /\ Early' /\ Unread'
  BY EnteredStays, CountsStep, UnreadStep
<1>3. FrameKinds' /\ Silent'
  BY FrameKindsStep, SilentStep
<1>4. Numbered' /\ ShownNumbered' /\ Fresher'
  BY NumberedStep, ShownNumberedStep, FresherStep
<1> QED BY <1>1, <1>2, <1>3, <1>4

\* A client sees the lines of one user in the order they were typed and each at
\* most once, in every behaviour: with coalesced and misread signals, handlers
\* interrupted by handlers, nested shells, crashes, and rows taken twice.
THEOREM MessagesInOrder == Spec => []ShownInOrder
<1>1. MailInv /\ ShownInOrder /\ [Next]_vars => MailInv' /\ ShownInOrder'
  BY MailStep, ShownInOrderStep DEF MailInv
<1> QED BY <1>1, MailInit, PTL DEF Spec

-----------------------------------------------------------------------------
(* While nobody leaves *)

\* No client closes its connection.  Logout is what leaves pipes behind.
Stay == "hangup" \notin Commands

Stayed == \A p \in Sessions : client[p] # "closed" /\ pc[p] \notin {"release", "wipe", "unlink"}

\* A session that has a row or had one.
Seated(p) == pc[p] \notin Choosing \cup {"off"}

\* What a session about to write a message or make a pipe works with is
\* unchanged.
Same(p) == /\ pc'[p] = pc[p] /\ tgt'[p] = tgt[p] /\ aim'[p] = aim[p] /\ typed'[p] = typed[p]
           /\ row'[p] = row[p] /\ myId'[p] = myId[p] /\ client'[p] = client[p]

\* Everybody stays where he is but p, and p does not leave.
Moves(p) ==
  /\ \A q \in Sessions \ {p} : Same(q)
  /\ pc'[p] \in Piping => tgt'[p] \in Ids
  /\ pc'[p] = "mkfifo" => PipeName(p) \/ Same(p)
  /\ pc'[p] = "write" => TellCheck(p) \/ Same(p)
  /\ Seated(p) => Seated(p)' /\ row'[p] = row[p]
  /\ pc'[p] \notin {"release", "wipe", "unlink"} /\ client'[p] # "closed"

Pipes == \A p \in Sessions : pc[p] \in Piping => tgt[p] \in Ids

\* The end of a program or a handler is not the end of the user's stay.
LEMMA DyingMoves ==
  ASSUME TypeOK, Stayed, Pipes, NEW p \in Sessions, UNCHANGED <<self, work, term>>,
         ProgramDies(p) \/ HandlerDies(p) \/ End(p, "gone")
  PROVE  Moves(p)
<1> USE DEF TypeOK, TypeSession, Moves, Same, self, work, term, Choosing, Piping, Seated
<1>1. ASSUME NEW l \in {"gone", "leaked", "prompt"}, Goto(p, l) PROVE Moves(p)
  BY <1>1 DEF Goto, Stayed
<1>2. CASE UNCHANGED pc
  BY <1>2 DEF Stayed, Pipes
<1>3. \/ UNCHANGED pc \/ \E l \in {"gone", "leaked", "prompt"} : Goto(p, l)
  BY DEF ProgramDies, HandlerDies, End, Lost
<1> QED BY <1>1, <1>2, <1>3

\* Who moves in a step.
LEMMA MovesStep ==
  ASSUME Stay, TypeOK, ShellRow, Stayed, Pipes, Talks, [Next]_vars
  PROVE  (\A q \in Sessions : Same(q)) \/ \E p \in Sessions : Moves(p)
<1> USE DEF TypeOK, TypeSession, Moves, Same, where, self, work, term, Goto, At, Choosing, Piping, Seated
<1>1. ASSUME NEW p \in Sessions, Hangup(p) \/ Eof(p) \/ EatingEnds(p) \/ Release(p) \/ Wipe(p)
               \/ Unlink(p) PROVE FALSE
  BY <1>1 DEF Hangup, Eof, EatingEnds, Release, Wipe, Unlink, Stay, Stayed
<1>2. ASSUME NEW p \in Sessions, MsgSendFails(p) \/ FifoOpenFails(p) \/ LoginRefused(p)
               \/ WriteFails(p) \/ PipeOpenFails(p)
      PROVE  Moves(p)
  <2>1. UNCHANGED <<self, work, term>> /\ (ProgramDies(p) \/ HandlerDies(p) \/ End(p, "gone"))
    BY <1>2 DEF MsgSendFails, FifoOpenFails, LoginRefused, WriteFails, PipeOpenFails
  <2> QED BY <2>1, DyingMoves
<1>3. ASSUME NEW p \in Sessions, Connect(p) \/ LoginFound(p) \/ LoginProbe(p) \/ LoginClaim(p)
               \/ LoginFill(p) \/ EnterShell(p)
      PROVE  Moves(p)
  BY <1>3 DEF Connect, LoginFound, LoginProbe, LoginClaim, LoginFill, EnterShell, Stayed
<1>4. ASSUME NEW p \in Sessions, NEW r \in Ids, TypeTell(p, r) \/ TypePipe(p, r)
               \/ TypeRead(p, r) \/ TypeReadMissing(p, r)
      PROVE  Moves(p)
  BY <1>4 DEF TypeTell, TypePipe, TypeRead, TypeReadMissing, Types, Nest, Stayed
<1>5. ASSUME NEW p \in Sessions, TypeYell(p) \/ TypeName(p) \/ TypeOrphan(p) \/ Prompt(p)
      PROVE  Moves(p)
  BY <1>5 DEF TypeYell, TypeName, TypeOrphan, Types, Nest, Prompt, Stayed
<1>6. ASSUME NEW p \in Sessions, TellSkip(p) \/ TellKill(p) PROVE Moves(p)
  <2>1. \E l \in {"enter", "prompt", "check"} : Goto(p, l)
    BY <1>6 DEF TellSkip, TellKill, TellDone
  <2>2. UNCHANGED <<self, term, row>> /\ pc[p] \in {"check", "kill"}
        /\ \A q \in Sessions \ {p} : tgt'[q] = tgt[q] /\ aim'[q] = aim[q]
    BY <1>6 DEF TellSkip, TellKill, TellDone
  <2> QED BY <2>1, <2>2 DEF Stayed
<1>7. ASSUME NEW p \in Sessions, TellCheck(p) \/ TellWrite(p) \/ TellSender(p) PROVE Moves(p)
  BY <1>7 DEF TellCheck, TellWrite, TellSender, Stayed
<1>8. ASSUME NEW p \in Sessions, PipeOffline(p) \/ PipeCheck(p) \/ PipeReuse(p) \/ PipeName(p)
               \/ MkFifo(p) PROVE Moves(p)
  BY <1>8 DEF PipeOffline, PipeCheck, PipeReuse, PipeName, MkFifo, PipeDone, Stayed, Pipes
<1>9. ASSUME NEW p \in Sessions, PipeSender(p) \/ PipeKill(p) \/ PipeSpinEnds(p)
               \/ PipeOpen(p) PROVE Moves(p)
  BY <1>9 DEF PipeSender, PipeKill, PipeSpinEnds, PipeOpen, PipeDone, Stayed, Pipes
<1>10. ASSUME NEW p \in Sessions, Handles(p) PROVE \A q \in Sessions : Same(q)
  BY <1>10 DEF Handles, Deliver, HandlerEnter, MsgSend, MsgClear, FifoOpen, FifoReset
<1>11. CASE UNCHANGED vars
  BY <1>11 DEF vars
<1> QED
  BY ONLY [Next]_vars, <1>1, <1>2, <1>3, <1>4, <1>5, <1>6, <1>7, <1>8, <1>9, <1>10, <1>11
     DEF Next, Client, Line, Program, Handler, Handles

-----------------------------------------------------------------------------
(* What the steps do to pipes *)

\* Descriptors are only lost by sessions whose own process has ended.
Closes ==
  /\ UNCHANGED <<fifoName, readFifoFd, files>>
  /\ \A o \in openRd : Running(o.rd)' => o \in openRd'

\* A program or a handler that dies, or a step that is not about pipes.
LEMMA DyingCloses ==
  ASSUME TypeOK, NEW p \in Sessions, UNCHANGED <<fifoName, readFifoFd, files>>,
         ProgramDies(p) \/ HandlerDies(p) \/ End(p, "gone")
  PROVE  Closes
<1> USE DEF TypeOK, TypeSession, Closes, Running, Alive, Ended
<1>1. \A l \in {"gone", "leaked"} : End(p, l) => Closes
  BY DEF End, Goto
<1>2. Lost(p) \in {"gone", "leaked"}
  BY DEF Lost
<1>3. CASE shells[p] = "nested" /\ ProgramDies(p) /\ ~HandlerDies(p)
  BY <1>3 DEF ProgramDies
<1>4. CASE shells[p] = "nested" /\ HandlerDies(p)
  BY <1>4 DEF HandlerDies
<1> QED BY <1>1, <1>2, <1>3, <1>4 DEF ProgramDies, HandlerDies

\* Only three steps change pipes while nobody leaves.
LEMMA PipesEffect ==
  ASSUME Stay, TypeOK, Stayed, [Next]_vars
  PROVE  Closes \/ \E p \in Sessions : PipeName(p) \/ MkFifo(p) \/ FifoOpen(p)
<1>1. ASSUME NEW p \in Sessions, MsgSendFails(p) \/ FifoOpenFails(p) \/ LoginRefused(p)
               \/ WriteFails(p) \/ PipeOpenFails(p)
      PROVE  Closes
  <2>1. UNCHANGED <<fifoName, readFifoFd, files>> /\ (ProgramDies(p) \/ HandlerDies(p) \/ End(p, "gone"))
    BY <1>1 DEF MsgSendFails, FifoOpenFails, LoginRefused, WriteFails, PipeOpenFails
  <2> QED BY <2>1, DyingCloses
<1>2. ASSUME NEW p \in Sessions, Unlink(p) PROVE FALSE
  BY <1>2 DEF Unlink, At, Stayed
<1>3. ASSUME UNCHANGED pipes PROVE Closes
  BY <1>3 DEF pipes, Closes
<1>4. ASSUME NEW p \in Sessions, Client(p) PROVE UNCHANGED pipes
  BY <1>4 DEF Client, Connect, Hangup, Line, TypeTell, TypePipe, TypeRead, TypeReadMissing,
     TypeYell, TypeOrphan, TypeName, Types
<1>5. ASSUME NEW p \in Sessions,
             \/ LoginFound(p) \/ LoginProbe(p) \/ LoginClaim(p) \/ LoginFill(p)
             \/ EnterShell(p) \/ Prompt(p) \/ Eof(p) \/ EatingEnds(p)
             \/ TellSkip(p) \/ TellCheck(p) \/ TellWrite(p) \/ TellSender(p) \/ TellKill(p)
      PROVE UNCHANGED pipes
  BY <1>5 DEF LoginFound, LoginProbe, LoginClaim, LoginFill, EnterShell, Prompt, Eof, EatingEnds,
              TellSkip, TellCheck, TellWrite, TellSender, TellKill
<1>6. ASSUME NEW p \in Sessions,
             \/ PipeOffline(p) \/ PipeCheck(p) \/ PipeReuse(p)
             \/ PipeSender(p) \/ PipeKill(p) \/ PipeSpinEnds(p) \/ PipeOpen(p) \/ Release(p)
                   \/ Wipe(p)
      PROVE UNCHANGED pipes
  BY <1>6 DEF PipeOffline, PipeCheck, PipeReuse, PipeSender, PipeKill, PipeSpinEnds, PipeOpen,
     Release, Wipe
<1>7. ASSUME NEW p \in Sessions, Deliver(p) \/ HandlerEnter(p) \/ MsgSend(p) \/ MsgClear(p)
               \/ FifoReset(p)
      PROVE UNCHANGED pipes
  BY <1>7 DEF Deliver, HandlerEnter, MsgSend, MsgClear, FifoReset
<1>8. CASE UNCHANGED vars
  BY <1>3, <1>8 DEF vars
<1> QED
  BY ONLY [Next]_vars, <1>1, <1>2, <1>3, <1>4, <1>5, <1>6, <1>7, <1>8 DEF Next, Program, Handler

-----------------------------------------------------------------------------
(* Fifos and names *)

\* No pipe to or from row 0 has a name, and a fifo is made with the name that
\* the table has.
Making ==
  /\ \A s \in Rows : fifoName[s][0] = None
  /\ \A p \in Sessions : pc[p] = "mkfifo" => fifoName[myId[p]][tgt[p]] = NewFifo(p)

\* FilesNamed, with what makes it inductive: the maker of a fifo has a row.
Made == \A f \in files : Seated(f.by) /\ f = fifoName[row[f.by]][f.to]

\* A name in the table is not replaced.
LEMMA NamesStay ==
  ASSUME Stay, TypeOK, ShellRow, Stayed, Pipes, [Next]_vars, NEW s \in Rows, NEW r \in Rows
  PROVE  \/ fifoName'[s][r] = fifoName[s][r]
         \/ fifoName[s][r] = None /\ r # 0
<1>0. fifoName \in [Rows -> [Rows -> Fifo \cup {None}]]
  BY DEF TypeOK, TypeTable
<1>1. ASSUME NEW p \in Sessions, PipeName(p)
      PROVE  fifoName'[s][r] = fifoName[s][r] \/ (fifoName[s][r] = None /\ r # 0)
  <2>1. /\ fifoName[myId[p]][tgt[p]] = None /\ pc[p] = "pname"
        /\ fifoName' = [fifoName EXCEPT ![myId[p]] = [fifoName[myId[p]] EXCEPT ![tgt[p]] = NewFifo(p)]]
    BY <1>1 DEF PipeName, At
  <2>2. tgt[p] # 0
    BY <2>1 DEF Pipes, Piping, Ids
  <2> QED BY <1>0, <2>1, <2>2
<1> QED BY <1>1, PipesEffect DEF Closes, MkFifo, FifoOpen

\* PipeName puts the name into the table that MkFifo then makes a fifo with.
LEMMA MakingStep ==
  ASSUME Stay, TypeOK, ShellRow, Stayed, Pipes, Talks, Making, [Next]_vars
  PROVE  Making'
<1>0. 0 \in Rows /\ TypeOK'
  BY Values, TypeStep
<1>1. \A s \in Rows : fifoName'[s][0] = None
  BY <1>0, NamesStay DEF Making
<1>2. ASSUME NEW p \in Sessions, pc'[p] = "mkfifo", Same(p)
      PROVE  fifoName'[myId'[p]][tgt'[p]] = NewFifo(p)'
  <2>1. fifoName[myId[p]][tgt[p]] = NewFifo(p) /\ NewFifo(p)' = NewFifo(p)
    BY <1>2 DEF Same, Making, NewFifo
  <2>2. NewFifo(p) # None /\ myId[p] \in Rows /\ tgt[p] \in Rows
    BY NoneIsNoFifo DEF NewFifo, Fifo, TypeOK, TypeSession
  <2>3. fifoName'[myId[p]][tgt[p]] = fifoName[myId[p]][tgt[p]]
    BY <2>1, <2>2, NamesStay
  <2> QED BY <1>2, <2>1, <2>3 DEF Same
<1>3. ASSUME NEW p \in Sessions, PipeName(p)
      PROVE  fifoName'[myId'[p]][tgt'[p]] = NewFifo(p)'
  <2>1. /\ fifoName' = [fifoName EXCEPT ![myId[p]] = [fifoName[myId[p]] EXCEPT ![tgt[p]] = NewFifo(p)]]
        /\ UNCHANGED <<myId, tgt, typed>>
    BY <1>3 DEF PipeName, self, work, term
  <2> QED BY <2>1 DEF NewFifo, TypeOK, TypeSession, TypeTable
<1>4. ASSUME NEW p \in Sessions, pc'[p] = "mkfifo" PROVE PipeName(p) \/ Same(p)
  BY <1>4, MovesStep DEF Moves
<1> QED BY <1>1, <1>2, <1>3, <1>4 DEF Making

\* A new fifo has its maker's row and id in its name.
LEMMA MadeStep ==
  ASSUME Stay, TypeOK, ShellRow, Stayed, Pipes, Talks, Making, Made, [Next]_vars
  PROVE  Made'
<1>0. files \subseteq Fifo /\ TypeOK'
  BY TypeStep DEF TypeOK, TypeSystem
<1>1. SUFFICES ASSUME NEW f \in Fifo, f \in files'
      PROVE Seated(f.by)' /\ f = fifoName'[row'[f.by]][f.to]
  BY <1>0 DEF Made, TypeOK, TypeSystem, Seated
<1>2. f.by \in Sessions /\ f.to \in Rows /\ row[f.by] \in Rows /\ f # None
  BY NoneIsNoFifo DEF Fifo, TypeOK, TypeSession
<1>3. CASE f \in files
  <2>1. Seated(f.by) /\ f = fifoName[row[f.by]][f.to]
    BY <1>3 DEF Made
  <2>2. Seated(f.by)' /\ row'[f.by] = row[f.by]
    BY <1>2, <2>1, MovesStep DEF Moves, Same, Seated
  <2>3. fifoName'[row[f.by]][f.to] = fifoName[row[f.by]][f.to]
    BY <1>2, <2>1, NamesStay
  <2> QED BY <2>1, <2>2, <2>3
<1>4. ASSUME NEW p \in Sessions, MkFifo(p), f = NewFifo(p)
      PROVE  Seated(f.by)' /\ f = fifoName'[row'[f.by]][f.to]
  <2>1. /\ pc[p] = "mkfifo" /\ pc' = [pc EXCEPT ![p] = "psender"]
        /\ UNCHANGED <<fifoName, row, myId, tgt>>
    BY <1>4 DEF MkFifo, At, Goto, self, work
  <2>2. f.by = p /\ f.to = tgt[p]
    BY <1>4 DEF NewFifo
  <2>3. myId[p] = row[p]
    BY <2>1, ShellPlaces DEF ShellRow, AtShell
  <2>4. Seated(p)'
    BY <2>1 DEF Seated, Choosing, TypeOK, TypeSession
  <2> QED BY <1>4, <2>1, <2>2, <2>3, <2>4 DEF Making
<1>5. f \in files \/ \E p \in Sessions : MkFifo(p) /\ f = NewFifo(p)
  BY <1>1, PipesEffect DEF Closes, PipeName, MkFifo, FifoOpen
<1> QED BY <1>3, <1>4, <1>5

\* Only a client that closed its connection is logged out.
LEMMA StayedStep ==
  ASSUME Stay, TypeOK, ShellRow, Stayed, Pipes, Talks, [Next]_vars
  PROVE  Stayed' /\ Pipes'
<1>1. ASSUME NEW q \in Sessions
      PROVE  /\ client'[q] # "closed" /\ pc'[q] \notin {"release", "wipe", "unlink"}
             /\ pc'[q] \in Piping => tgt'[q] \in Ids
  BY MovesStep DEF Moves, Same, Stayed, Pipes
<1> QED BY <1>1 DEF Stayed, Pipes

-----------------------------------------------------------------------------
(* Descriptors *)

\* ReadsItsPipe for one descriptor, and in the next state for a descriptor of
\* either.
Reads(fd, r, s) ==
  /\ fd.fifo = fifoName[s][r] /\ myId[fd.rd] = r
  /\ Running(fd.rd) => fd \in openRd

RunsNext(q) == pc'[q] \notin {"off"} \cup Ended /\ shells'[q] # "headless"

ReadsNext(fd, r, s) ==
  /\ fd.fifo = fifoName'[s][r] /\ myId'[fd.rd] = r
  /\ RunsNext(fd.rd) => fd \in openRd'

\* A descriptor that was there before.
LEMMA ReadsKept ==
  ASSUME Stay, TypeOK, ShellRow, Stayed, Pipes, Talks, Early, Making, [Next]_vars,
         NEW r \in Rows, NEW s \in Rows, NEW fd \in Reader, Reads(fd, r, s)
  PROVE  ReadsNext(fd, r, s)
<1>1. fd.rd \in Sessions /\ fd.fifo \in Fifo /\ fd.fifo # None
  BY NoneIsNoFifo DEF Reader
<1>2. fifoName[s][r] # None /\ r # 0
  BY <1>1 DEF Reads, Making
<1>3. fifoName'[s][r] = fifoName[s][r]
  BY <1>2, NamesStay
<1>4. Counts(fd.rd)
  BY <1>1, CountsStep
<1>5. myId'[fd.rd] = r
  BY <1>2, <1>4 DEF Reads, Counts
<1>6. ASSUME RunsNext(fd.rd) PROVE fd \in openRd'
  <2>1. Running(fd.rd)'
    BY <1>6 DEF RunsNext, Running, Alive
  <2>2. fd \in openRd
    BY <1>2, <1>4, <1>5, <2>1 DEF Reads, Counts
  <2>3. ASSUME NEW p \in Sessions, PipeName(p) \/ MkFifo(p) PROVE UNCHANGED openRd
    BY <2>3 DEF PipeName, MkFifo
  <2>4. ASSUME NEW p \in Sessions, FifoOpen(p) PROVE openRd \subseteq openRd'
    BY <2>4 DEF FifoOpen
  <2> QED BY <2>1, <2>2, <2>3, <2>4, PipesEffect DEF Closes
<1> QED BY <1>3, <1>5, <1>6 DEF Reads, ReadsNext

\* A step keeps the descriptors it does not store, and stores one that is open.
LEMMA ReadsStep ==
  ASSUME Stay, TypeOK, ShellRow, Stayed, Pipes, Talks, Early, Making, Made, ReadsItsPipe,
           [Next]_vars
  PROVE  ReadsItsPipe'
<1>0. /\ readFifoFd \in [Rows -> [Rows -> Reader \cup {None}]] /\ myId \in [Sessions -> Rows]
      /\ frames \in [Sessions -> Seq(Frame)] /\ files \subseteq Fifo
  BY DEF TypeOK, TypeSession, TypeTable, TypeSignals, TypeSystem
<1>1. ASSUME NEW r \in Rows, NEW s \in Rows, readFifoFd'[r][s] # None
      PROVE  ReadsNext(readFifoFd'[r][s], r, s)
  <2>1. CASE readFifoFd'[r][s] = readFifoFd[r][s]
    <3>1. readFifoFd[r][s] \in Reader /\ Reads(readFifoFd[r][s], r, s)
      BY <1>0, <1>1, <2>1 DEF ReadsItsPipe, Reads
    <3> QED BY <2>1, <3>1, ReadsKept
  <2>2. ASSUME NEW p \in Sessions, FifoOpen(p), readFifoFd'[r][s] # readFifoFd[r][s]
        PROVE  ReadsNext(readFifoFd'[r][s], r, s)
    <3> DEFINE fd == [rd |-> p, fifo |-> Named(p)]
    <3>1. /\ UNCHANGED <<fifoName, myId>> /\ openRd' = openRd \cup {fd}
          /\ readFifoFd' = [readFifoFd EXCEPT ![myId[p]] = [readFifoFd[myId[p]] EXCEPT ![Head(frames[p]).from] = fd]]
      BY <2>2 DEF FifoOpen, self
    <3>2. r = myId[p] /\ s = Head(frames[p]).from /\ readFifoFd'[r][s] = fd
      BY <1>0, <2>2, <3>1
    <3>3. Named(p) = fifoName[s][r]
      BY <3>2 DEF Named
    <3> QED BY <3>1, <3>2, <3>3 DEF ReadsNext
  <2>3. UNCHANGED readFifoFd \/ \E p \in Sessions : FifoOpen(p)
    BY PipesEffect DEF Closes, PipeName, MkFifo
  <2> QED BY <2>1, <2>2, <2>3
<1> QED BY <1>1 DEF ReadsItsPipe, ReadsNext, RunsNext, Running, Alive

-----------------------------------------------------------------------------
(* While nobody leaves *)

PipesInv == MailInv /\ Stayed /\ Pipes /\ Making /\ Made

\* Initially there is no pipe, and nobody has left.
LEMMA PipesInit == Init => PipesInv /\ ReadsItsPipe
<1> SUFFICES ASSUME Init PROVE PipesInv /\ ReadsItsPipe
  OBVIOUS
<1>1. MailInv
  BY MailInit
<1>2. Stayed /\ Pipes /\ Made
  BY DEF Init, Stayed, Pipes, Made, Piping
<1>3. Making /\ ReadsItsPipe
  BY Values DEF Init, Making, ReadsItsPipe
<1> QED BY <1>1, <1>2, <1>3 DEF PipesInv

\* Every step keeps it.
LEMMA PipesStep ==
  ASSUME Stay, PipesInv, [Next]_vars
  PROVE  PipesInv'
BY MailStep, StayedStep, MakingStep, MadeStep DEF PipesInv, MailInv

\* PipesInv and ReadsItsPipe hold while nobody leaves.
LEMMA PipesHold ==
  ASSUME Stay PROVE Spec => [](PipesInv /\ ReadsItsPipe)
<1>1. PipesInv /\ ReadsItsPipe /\ [Next]_vars => (PipesInv /\ ReadsItsPipe)'
  BY PipesStep, ReadsStep DEF PipesInv, MailInv
<1> QED BY <1>1, PipesInit, PTL DEF Spec

\* While no client leaves, every fifo in /tmp is the current pipe of its two
\* users, however many sessions took the same row and whatever processes die.
THEOREM FifosAreNamed ==
  ASSUME Stay PROVE Spec => []FilesNamed
<1>1. PipesInv => FilesNamed
  BY DEF PipesInv, Made, FilesNamed
<1> QED BY <1>1, PipesHold, PTL

\* The descriptor a user keeps for the pipe from user s is one of its own, open
\* on the very fifo user s writes to, although the handler reads the sender from
\* a field that a later signal may have overwritten.
THEOREM DescriptorsAreOfThePipe ==
  ASSUME Stay PROVE Spec => []ReadsItsPipe
BY PipesHold, PTL

-----------------------------------------------------------------------------
(* Messages are shown to those they were meant for *)

\* Nobody can log in to a row a message was aimed at: it is marked, and those who
\* have it are among those the message is for.
IsFor(r, to) == isUsed[r] /\ \A q \in Sessions : Holds(q) /\ row[q] = r => q \in to

Aimed ==
  /\ \A r, s \in Rows : messages[r][s] # None => IsFor(r, messages[r][s].to)
  /\ \A p \in Sessions : pc[p] = "write" => IsFor(tgt[p], aim[p])

\* Marks stay, and a marked row gets no new holder.
LEMMA HoldersStep ==
  ASSUME Stay, TypeOK, ShellRow, Stayed, RowsOwned, [Next]_vars, NEW r \in Rows, isUsed[r]
  PROVE  /\ isUsed'[r]
         /\ \A q \in Sessions : Holds(q)' /\ row'[q] = r => Holds(q) /\ row[q] = r
<1>0. isUsed \in [Rows -> BOOLEAN] /\ row \in [Sessions -> Rows]
  BY DEF TypeOK, TypeSession, TypeTable
<1>1. CASE Keeps
  BY <1>1 DEF Keeps
<1>2. ASSUME NEW p \in Sessions, Chooses(p)
      PROVE  /\ isUsed'[r]
             /\ \A q \in Sessions : Holds(q)' /\ row'[q] = r => Holds(q) /\ row[q] = r
  <2>1. \A q \in Sessions : Holds(q) => Owns(q)
    BY Places DEF Holds, Owns
  <2> QED BY <1>2, <2>1, ChoosesEffect
<1>3. ASSUME NEW p \in Sessions, LoginClaim(p)
      PROVE  /\ isUsed'[r]
             /\ \A q \in Sessions : Holds(q)' /\ row'[q] = r => Holds(q) /\ row[q] = r
  <2>1. ~isUsed[row[p]] /\ row'[p] = row[p]
    BY <1>3, ClaimEffect DEF RowsOwned, ClaimFree
  <2> QED BY <1>0, <1>3, <2>1, ClaimEffect
<1>4. ASSUME NEW p \in Sessions, LoginFill(p)
      PROVE  /\ isUsed'[r]
             /\ \A q \in Sessions : Holds(q)' /\ row'[q] = r => Holds(q) /\ row[q] = r
  BY <1>4, FillEffect
<1>5. ASSUME NEW p \in Sessions, Release(p) \/ Unlink(p) PROVE FALSE
  BY <1>5 DEF Release, Unlink, At, Stayed
<1> QED BY <1>1, <1>2, <1>3, <1>4, <1>5, StepEffect

\* IsFor in the next state, for a row and a set of either state.
ForNext(r, to) == isUsed'[r] /\ \A q \in Sessions : (Holds(q)' /\ row'[q] = r) => q \in to

\* Whom a message is for stays so, as a marked row gets no new holder.
LEMMA ForStep ==
  ASSUME Stay, TypeOK, ShellRow, Stayed, RowsOwned, [Next]_vars,
         NEW r \in Rows, NEW to \in SUBSET Sessions, IsFor(r, to)
  PROVE  ForNext(r, to)
BY HoldersStep DEF IsFor, ForNext

\* TellCheck aims at the holders of the row, and TellWrite writes what it aimed.
LEMMA AimedStep ==
  ASSUME Stay, TypeOK, ShellRow, Stayed, Pipes, Talks, RowsOwned, Aimed, [Next]_vars
  PROVE  Aimed'
<1>0. /\ messages \in [Rows -> [Rows -> Message \cup {None}]]
      /\ tgt \in [Sessions -> Rows] /\ aim \in [Sessions -> SUBSET Sessions]
  BY DEF TypeOK, TypeSession, TypeTable
<1>1. ASSUME NEW r \in Rows, NEW s \in Rows, messages'[r][s] # None
      PROVE  ForNext(r, messages'[r][s].to)
  <2>1. CASE messages'[r][s] = messages[r][s]
    <3>1. messages[r][s].to \in SUBSET Sessions /\ IsFor(r, messages[r][s].to)
      BY <1>0, <1>1, <2>1 DEF Aimed, Message
    <3>2. ForNext(r, messages[r][s].to)
      BY <3>1, ForStep
    <3> QED BY <2>1, <3>2
  <2>2. ASSUME NEW p \in Sessions, pc[p] = "write", r = tgt[p],
               messages'[r][s] = [by |-> p, n |-> typed[p], to |-> aim[p]]
        PROVE  ForNext(r, messages'[r][s].to)
    <3>1. ForNext(r, aim[p])
      BY <1>0, <2>2, ForStep DEF Aimed
    <3> QED BY <2>2, <3>1
  <2> QED BY <1>1, <2>1, <2>2, SlotsStep
<1>2. ASSUME NEW p \in Sessions, pc'[p] = "write"
      PROVE  ForNext(tgt'[p], aim'[p])
  <2>1. CASE Same(p)
    <3>1. ForNext(tgt[p], aim[p])
      BY <1>0, <1>2, <2>1, ForStep DEF Aimed, Same
    <3> QED BY <2>1, <3>1 DEF Same
  <2>2. CASE TellCheck(p)
    <3>1. /\ isUsed[tgt[p]] /\ UNCHANGED <<tgt, isUsed, row>>
          /\ aim'[p] = {q \in Sessions : Holds(q) /\ row[q] = tgt[p]}
      BY <1>0, <2>2 DEF TellCheck, users, self
    <3>2. \A q \in Sessions : (Holds(q)' /\ row'[q] = tgt[p]) => (Holds(q) /\ row[q] = tgt[p])
      BY <1>0, <3>1, HoldersStep
    <3> QED BY <3>1, <3>2 DEF ForNext
  <2> QED BY <1>2, <2>1, <2>2, MovesStep DEF Moves
<1> QED BY <1>1, <1>2 DEF Aimed, IsFor, ForNext, Holds

\* Who shows a message has the row it was written to.
LEMMA ShownToUserStep ==
  ASSUME Stay, TypeOK, ShellRow, Stayed, Talks, Early, Unread, Silent, Aimed, ShownToUserOnly,
           [Next]_vars
  PROVE  ShownToUserOnly'
<1>0. shown \in [Sessions -> Seq(Message)] /\ myId \in [Sessions -> Rows]
  BY DEF TypeOK, TypeSession, TypeSystem
<1>1. SUFFICES ASSUME NEW q \in Sessions, NEW i \in DOMAIN shown'[q] PROVE q \in shown'[q][i].to
  BY DEF ShownToUserOnly
<1>2. CASE i \in DOMAIN shown[q] /\ shown'[q][i] = shown[q][i]
  BY <1>2 DEF ShownToUserOnly
<1>3. ASSUME NEW s \in Rows, Running(q), messages[myId[q]][s] # None
      PROVE  q \in messages[myId[q]][s].to
  <2>1. myId[q] # 0
    BY <1>3 DEF Unread
  <2>2. AtShell(q)
    BY <1>3, <2>1 DEF Early, Entered, Running, Alive
  <2>3. Holds(q) /\ row[q] = myId[q]
    BY <2>2 DEF ShellRow, AtShell, Holds, Holding, Leaving, Stayed
  <2> QED BY <1>0, <1>3, <2>3 DEF Aimed, IsFor
<1>4. ASSUME NEW s \in Rows, messages[myId[q]][s] \in Message,
             shown'[q] = Append(shown[q], messages[myId[q]][s])
      PROVE  \/ i \in DOMAIN shown[q] /\ shown'[q][i] = shown[q][i]
             \/ shown'[q][i] = messages[myId[q]][s]
  BY <1>0, <1>1, <1>4, Appended
<1> QED BY <1>1, <1>2, <1>3, <1>4, ShownStep

AimedInv == PipesInv /\ RowsOwned /\ Aimed

\* A client is shown only messages that were meant for it, provided nobody gives
\* back a row, so that no id passes to a second user, and connections are
\* accepted one at a time, so that none is given to two.
THEOREM MessagesAreForTheirUser ==
  ASSUME Stay, ~Overlap PROVE Spec => []ShownToUserOnly
<1>1. Init => AimedInv /\ ShownToUserOnly
  <2>1. Init => Aimed /\ ShownToUserOnly
    BY DEF Init, Aimed, ShownToUserOnly
  <2> QED BY <2>1, PipesInit, RowsOwnedInit DEF AimedInv
<1>2. AimedInv /\ ShownToUserOnly /\ [Next]_vars => AimedInv' /\ ShownToUserOnly'
  <2> SUFFICES ASSUME AimedInv, ShownToUserOnly, [Next]_vars PROVE AimedInv' /\ ShownToUserOnly'
    OBVIOUS
  <2> USE DEF AimedInv, PipesInv, MailInv
  <2>1. PipesInv'
    BY PipesStep
  <2>2. \A p \in Sessions : ~Unlink(p)
    BY DEF Unlink, At, Stayed
  <2>3. RowsOwned'
    BY <2>2, RowsOwnedStep
  <2>4. Aimed'
    BY AimedStep
  <2>5. ShownToUserOnly'
    BY ShownToUserStep
  <2> QED BY <2>1, <2>3, <2>4, <2>5
<1> QED BY <1>1, <1>2, PTL DEF Spec
=============================================================================

-------------------------- MODULE RwgServer_proofs --------------------------
(***************************************************************************)
(* Theorems about RwgServer for any number of sessions, ids and typed      *)
(* lines.                                                                  *)
(***************************************************************************)
EXTENDS RwgServer, TLAPS

USE MaxIdPositive, MaxTypedNatural

-----------------------------------------------------------------------------
(* Type correctness *)

\* The initial state is well typed.
LEMMA TypeInit == Init => TypeOK
BY DEF Init, TypeSession, TypeSignals, TypeTable, TypeSystem, TypeOK, PCs, Holding, InShell, Piping, Talking, Leaving, Choosing, Ended, Owning, Ids, Rows, Message, Fifo, Reader, Frame

\* What the steps need to know of the sets of values.
LEMMA Values ==
  /\ {"probe", "claim", "fill", "enter", "check", "write", "sender", "kill", "prompt",
      "ready", "eating", "release", "wipe", "unlink", "gone", "leaked", "pcheck", "pname",
      "mkfifo", "psender", "pkill", "spin", "open"} \subseteq PCs
  /\ 0 \in Rows /\ 1 \in Rows /\ Ids \subseteq Rows /\ MaxId \in Rows
  /\ \A r \in Rows : r # MaxId => r + 1 \in Rows
  /\ \A r \in Rows : r \in Int
BY DEF PCs, Holding, InShell, Piping, Talking, Leaving, Choosing, Ended, Owning, Ids, Rows

\* Handlers in progress form a sequence of frames.
LEMMA Frames ==
  ASSUME TypeOK, NEW p \in Sessions
  PROVE  /\ frames[p] \in Seq(Frame)
         /\ \A f \in Frame : <<f>> \in Seq(Frame) /\ <<f>> \o frames[p] \in Seq(Frame)
         /\ frames[p] # <<>> =>
              /\ Head(frames[p]) \in Frame
              /\ Tail(frames[p]) \in Seq(Frame)
              /\ \A f \in Frame : <<f>> \o Tail(frames[p]) \in Seq(Frame)
BY DEF TypeOK, TypeSignals

\* A process that ends, or a nested shell that does, keeps the types.
LEMMA DyingTypes ==
  ASSUME TypeOK, NEW p \in Sessions,
         ProgramDies(p) \/ HandlerDies(p) \/ End(p, "gone")
  PROVE  /\ pc' \in [Sessions -> PCs]
         /\ shells' \in [Sessions -> {"single", "nested", "headless"}]
         /\ TypeSignals'
         /\ openRd' \subseteq Reader
<1> USE Values DEF TypeOK, TypeSession, TypeSignals, TypeSystem
<1>1. ASSUME NEW l \in {"gone", "leaked"}, End(p, l)
      PROVE  /\ pc' \in [Sessions -> PCs]
             /\ shells' \in [Sessions -> {"single", "nested", "headless"}]
             /\ TypeSignals'
             /\ openRd' \subseteq Reader
  <2>1. pc' \in [Sessions -> PCs] /\ UNCHANGED shells /\ openRd' \subseteq openRd
    BY <1>1 DEF End, Goto
  <2>2. pend' \in [Sessions -> SUBSET {"USR1", "USR2"}]
    BY <1>1 DEF End
  <2>3. <<>> \in Seq(Frame)
    OBVIOUS
  <2>4. frames' \in [Sessions -> Seq(Frame)]
    BY <1>1, <2>3 DEF End
  <2> QED BY <2>1, <2>2, <2>4
<1>2. Lost(p) \in {"gone", "leaked"}
  BY DEF Lost
<1>3. CASE ProgramDies(p)
  <2>1. CASE shells[p] = "nested"
    <3>1. /\ pc' = [pc EXCEPT ![p] = "prompt"]
          /\ shells' = [shells EXCEPT ![p] = "single"]
          /\ UNCHANGED <<sig, openRd>>
      BY ONLY <1>3, <2>1 DEF ProgramDies, Goto
    <3>2. UNCHANGED <<pend, frames, openRd>>
      BY <3>1 DEF sig
    <3> QED BY <3>1, <3>2
  <2>2. CASE shells[p] # "nested"
    BY <1>1, <1>2, <1>3, <2>2 DEF ProgramDies
  <2> QED BY <2>1, <2>2
<1>4. CASE HandlerDies(p)
  <2>1. CASE shells[p] = "nested"
    <3>1. UNCHANGED pc /\ shells' \in [Sessions -> {"single", "nested", "headless"}]
      BY <1>4, <2>1 DEF HandlerDies
    <3>2. pend' \in [Sessions -> SUBSET {"USR1", "USR2"}]
      BY <1>4, <2>1, ZenonT(40) DEF HandlerDies
    <3>3. <<>> \in Seq(Frame)
      OBVIOUS
    <3>4. frames' \in [Sessions -> Seq(Frame)]
      BY <1>4, <2>1, <3>3, ZenonT(40) DEF HandlerDies
    <3>5. openRd' \subseteq openRd
      BY <1>4, <2>1 DEF HandlerDies
    <3> QED BY <3>1, <3>2, <3>4, <3>5
  <2>2. CASE shells[p] # "nested"
    BY <1>1, <1>2, <1>4, <2>2 DEF HandlerDies
  <2> QED BY <2>1, <2>2
<1> QED BY <1>1, <1>3, <1>4

\* kill() keeps the types.
LEMMA SignalTypes ==
  ASSUME TypeOK, NEW p \in Sessions, NEW r \in Rows,
         Signal(p, "USR1", r) \/ Signal(p, "USR2", r)
  PROVE  TypeSignals' /\ serverUp' \in BOOLEAN
<1>1. PICK s \in {"USR1", "USR2"} : Signal(p, s, r)
  OBVIOUS
<1>2. pend' \in [Sessions -> SUBSET {"USR1", "USR2"}]
  BY <1>1 DEF Signal, TypeOK, TypeSignals
<1>3. <<[sig |-> s, from |-> 0, at |-> "enter"]>> \in Seq(Frame)
  BY Values DEF Frame
<1>4. frames' \in [Sessions -> Seq(Frame)]
  BY <1>1, <1>3 DEF Signal, TypeOK, TypeSignals
<1>5. serverUp' \in BOOLEAN
  BY <1>1 DEF Signal
<1> QED BY <1>2, <1>4, <1>5 DEF TypeSignals

\* The broadcast loop stays within the rows.
LEMMA TellDoneTypes ==
  ASSUME TypeOK, NEW p \in Sessions, TellDone(p)
  PROVE  pc' \in [Sessions -> PCs] /\ tgt' \in [Sessions -> Rows]
<1> USE DEF TypeOK, TypeSession
<1>1. CASE job[p] = "tell" \/ tgt[p] = MaxId
  <2>1. tgt' = [tgt EXCEPT ![p] = 0]
    BY <1>1 DEF TellDone
  <2>2. pc' = [pc EXCEPT ![p] = "enter"] \/ pc' = [pc EXCEPT ![p] = "prompt"]
    BY <1>1 DEF TellDone, Goto
  <2> QED BY <2>1, <2>2, Values
<1>2. CASE ~(job[p] = "tell" \/ tgt[p] = MaxId)
  <2>1. tgt' = [tgt EXCEPT ![p] = tgt[p] + 1] /\ pc' = [pc EXCEPT ![p] = "check"]
    BY <1>2 DEF TellDone, Goto
  <2>2. tgt[p] + 1 \in Rows
    BY <1>2, Values
  <2> QED BY <2>1, <2>2, Values
<1> QED BY <1>1, <1>2

\* Every step keeps the types.
LEMMA TypeStep == TypeOK /\ [Next]_vars => TypeOK'
<1> SUFFICES ASSUME TypeOK, [Next]_vars PROVE TypeOK'
  OBVIOUS
<1> USE Values
    DEF TypeOK, TypeSession, TypeSignals, TypeTable, TypeSystem,
            vars, where, self, work, term, sig, users, mail, pipes
<1>1. ASSUME NEW p \in Sessions, Connect(p) PROVE TypeOK'
  BY <1>1 DEF Connect, Goto
<1>2. ASSUME NEW p \in Sessions, LoginFound(p) PROVE TypeOK'
  BY <1>2 DEF LoginFound, At, Goto
<1>3. ASSUME NEW p \in Sessions, LoginProbe(p) PROVE TypeOK'
  <2>1. row[p] \in Rows
    OBVIOUS
  <2>2. row[p] < MaxId
    BY <1>3 DEF LoginProbe
  <2>3. row[p] + 1 \in Rows
    BY ONLY <2>1, <2>2, MaxIdPositive DEF Rows
  <2> QED BY <1>3, <2>3 DEF LoginProbe
<1>4. ASSUME NEW p \in Sessions, LoginRefused(p) PROVE TypeOK'
  BY <1>4, DyingTypes DEF LoginRefused
<1>5. ASSUME NEW p \in Sessions, LoginClaim(p) PROVE TypeOK'
  BY <1>5 DEF LoginClaim, At, Goto
<1>6. ASSUME NEW p \in Sessions, LoginFill(p) PROVE TypeOK'
  BY <1>6 DEF LoginFill, At, Goto
<1>7. ASSUME NEW p \in Sessions, EnterShell(p) PROVE TypeOK'
  BY <1>7 DEF EnterShell, At, Goto
<1>8. ASSUME NEW p \in Sessions, Prompt(p) PROVE TypeOK'
  BY <1>8 DEF Prompt, At, Goto
<1>9. ASSUME NEW p \in Sessions, Eof(p) PROVE TypeOK'
  BY <1>9 DEF Eof, At, Goto
<1>10. ASSUME NEW p \in Sessions, EatingEnds(p) PROVE TypeOK'
  BY <1>10 DEF EatingEnds, At, Goto
<1>11. ASSUME NEW p \in Sessions, WriteFails(p) PROVE TypeOK'
  BY <1>11, DyingTypes DEF WriteFails
<1>12. ASSUME NEW p \in Sessions, TellSkip(p) PROVE TypeOK'
  <2>1. pc' \in [Sessions -> PCs] /\ tgt' \in [Sessions -> Rows]
    BY <1>12, TellDoneTypes DEF TellSkip
  <2>2. aim' \in [Sessions -> SUBSET Sessions]
        /\ job' \in [Sessions -> {"login", "yell", "tell", "none"}]
    BY <1>12 DEF TellSkip, TellDone
  <2> QED BY <1>12, <2>1, <2>2 DEF TellSkip
<1>13. ASSUME NEW p \in Sessions, TellCheck(p) PROVE TypeOK'
  BY <1>13 DEF TellCheck, At, Goto
<1>14. ASSUME NEW p \in Sessions, TellWrite(p) PROVE TypeOK'
  BY <1>14 DEF TellWrite, Message, At, Goto
<1>15. ASSUME NEW p \in Sessions, TellSender(p) PROVE TypeOK'
  BY <1>15 DEF TellSender, At, Goto
<1>16. ASSUME NEW p \in Sessions, TellKill(p) PROVE TypeOK'
  <2>1. pc' \in [Sessions -> PCs] /\ tgt' \in [Sessions -> Rows]
    BY <1>16, TellDoneTypes DEF TellKill
  <2>2. aim' \in [Sessions -> SUBSET Sessions]
        /\ job' \in [Sessions -> {"login", "yell", "tell", "none"}]
    BY <1>16 DEF TellKill, TellDone
  <2>3. TypeSignals' /\ serverUp' \in BOOLEAN
    BY <1>16, SignalTypes DEF TellKill
  <2> QED BY <1>16, <2>1, <2>2, <2>3 DEF TellKill
<1>17. ASSUME NEW p \in Sessions, PipeOffline(p) PROVE TypeOK'
  BY <1>17 DEF PipeOffline, PipeDone, At, Goto
<1>18. ASSUME NEW p \in Sessions, PipeCheck(p) PROVE TypeOK'
  BY <1>18 DEF PipeCheck, At, Goto
<1>19. ASSUME NEW p \in Sessions, PipeReuse(p) PROVE TypeOK'
  BY <1>19 DEF PipeReuse, At, Goto
<1>20. ASSUME NEW p \in Sessions, PipeName(p) PROVE TypeOK'
  BY <1>20 DEF PipeName, Fifo, NewFifo, At, Goto
<1>21. ASSUME NEW p \in Sessions, MkFifo(p) PROVE TypeOK'
  BY <1>21, SMTT(30) DEF MkFifo, Fifo, NewFifo, At, Goto
<1>22. ASSUME NEW p \in Sessions, PipeSender(p) PROVE TypeOK'
  BY <1>22 DEF PipeSender, At, Goto
<1>23. ASSUME NEW p \in Sessions, PipeKill(p) PROVE TypeOK'
  <2>1. TypeSignals' /\ serverUp' \in BOOLEAN
    BY <1>23, SignalTypes DEF PipeKill
  <2> QED BY <1>23, <2>1 DEF PipeKill, Goto
<1>24. ASSUME NEW p \in Sessions, PipeSpinEnds(p) PROVE TypeOK'
  BY <1>24 DEF PipeSpinEnds, At, Goto
<1>25. ASSUME NEW p \in Sessions, PipeOpen(p) PROVE TypeOK'
  BY <1>25 DEF PipeOpen, PipeDone, At, Goto
<1>26. ASSUME NEW p \in Sessions, PipeOpenFails(p) PROVE TypeOK'
  BY <1>26, DyingTypes DEF PipeOpenFails
<1>27. ASSUME NEW p \in Sessions, Release(p) PROVE TypeOK'
  BY <1>27 DEF Release, At, Goto
<1>28. ASSUME NEW p \in Sessions, Wipe(p) PROVE TypeOK'
  BY <1>28 DEF Wipe, At, Goto
<1>29. ASSUME NEW p \in Sessions, Unlink(p) PROVE TypeOK'
  <2>1. files' \subseteq files
    BY <1>29 DEF Unlink
  <2>2. fifoName' \in [Rows -> [Rows -> Fifo \cup {None}]]
    BY <1>29 DEF Unlink
  <2>3. CASE tgt[p] < MaxId
    <3>1. tgt[p] \in Rows
      OBVIOUS
    <3>2. tgt[p] + 1 \in Rows
      BY ONLY <2>3, <3>1, MaxIdPositive DEF Rows
    <3>3. tgt' = [tgt EXCEPT ![p] = tgt[p] + 1] /\ UNCHANGED <<where, sig, openRd>>
      BY <1>29, <2>3 DEF Unlink
    <3> QED BY <1>29, <2>1, <2>2, <3>2, <3>3 DEF Unlink
  <2>4. CASE ~(tgt[p] < MaxId)
    <3>1. ProgramDies(p) /\ UNCHANGED tgt
      BY <1>29, <2>4 DEF Unlink
    <3> QED BY <1>29, <2>1, <2>2, <3>1, DyingTypes DEF Unlink
  <2> QED BY <2>3, <2>4
<1>30. ASSUME NEW p \in Sessions, TypeYell(p) PROVE TypeOK'
  BY <1>30, SMTT(30) DEF TypeYell, Types, At, Goto
<1>31. ASSUME NEW p \in Sessions, TypeName(p) PROVE TypeOK'
  BY <1>31 DEF TypeName, At, Goto
<1>32. ASSUME NEW p \in Sessions, TypeOrphan(p) PROVE TypeOK'
  BY <1>32, SMTT(30) DEF TypeOrphan, Types, Nest, At, Goto
<1>33. ASSUME NEW p \in Sessions, Hangup(p) PROVE TypeOK'
  BY <1>33 DEF Hangup
<1>34. ASSUME NEW p \in Sessions, Deliver(p) PROVE TypeOK'
  <2>1. PICK s \in pend[p] :
           /\ pend' = [pend EXCEPT ![p] = @ \ {s}]
           /\ frames' = [frames EXCEPT ![p] = <<Started(p, s)>> \o @]
    BY <1>34 DEF Deliver
  <2>2. Started(p, s) \in Frame
    BY DEF Started, Frame
  <2>3. frames' \in [Sessions -> Seq(Frame)]
    BY <2>1, <2>2, Frames
  <2>4. pend' \in [Sessions -> SUBSET {"USR1", "USR2"}]
    BY <2>1
  <2> QED BY <1>34, <2>3, <2>4 DEF Deliver
<1>35. ASSUME NEW p \in Sessions, HandlerEnter(p) PROVE TypeOK'
  <2>1. Started(p, Head(frames[p]).sig) \in Frame
    BY <1>35, Frames DEF HandlerEnter, Top, Started, Frame
  <2>2. frames' \in [Sessions -> Seq(Frame)]
    BY <1>35, <2>1, Frames DEF HandlerEnter, Top, Retop
  <2> QED BY <1>35, <2>2 DEF HandlerEnter
<1>36. ASSUME NEW p \in Sessions, MsgSend(p) PROVE TypeOK'
  <2>1. Head(frames[p]) \in Frame
    BY <1>36, Frames DEF MsgSend, Top
  <2>2. [Head(frames[p]) EXCEPT !.at = "clear"] \in Frame
    BY <2>1 DEF Frame
  <2>3. frames' \in [Sessions -> Seq(Frame)]
    BY <1>36, <2>2, Frames DEF MsgSend, Top, Retop
  <2>4. messages[myId[p]][Head(frames[p]).from] \in Message \cup {None}
    <3>1. Head(frames[p]).from \in Rows
      BY <2>1 DEF Frame
    <3>2. myId[p] \in Rows /\ messages \in [Rows -> [Rows -> Message \cup {None}]]
      OBVIOUS
    <3> QED BY ONLY <3>1, <3>2
  <2>5. shown' \in [Sessions -> Seq(Message)]
    <3> DEFINE m == messages[myId[p]][Head(frames[p]).from]
    <3>1. \/ shown' = shown
          \/ m # None /\ shown' = [shown EXCEPT ![p] = Append(shown[p], m)]
      BY <1>36 DEF MsgSend
    <3>2. shown \in [Sessions -> Seq(Message)]
      OBVIOUS
    <3>3. CASE m # None
      <4>1. m \in Message
        BY <2>4, <3>3
      <4>2. Append(shown[p], m) \in Seq(Message)
        BY ONLY <3>2, <4>1, p \in Sessions
      <4> QED BY ONLY <3>1, <3>2, <4>2
    <3> QED BY ONLY <3>1, <3>2, <3>3
  <2> QED BY <1>36, <2>3, <2>5 DEF MsgSend
<1>37. ASSUME NEW p \in Sessions, MsgSendFails(p) PROVE TypeOK'
  BY <1>37, DyingTypes DEF MsgSendFails
<1>38. ASSUME NEW p \in Sessions, MsgClear(p) PROVE TypeOK'
  <2>1. frames' \in [Sessions -> Seq(Frame)]
    BY <1>38, Frames DEF MsgClear, Top, Return
  <2>2. messages' \in [Rows -> [Rows -> Message \cup {None}]]
    BY <1>38 DEF MsgClear
  <2> QED BY <1>38, <2>1, <2>2 DEF MsgClear
<1>39. ASSUME NEW p \in Sessions, FifoOpen(p) PROVE TypeOK'
  <2>1. Head(frames[p]) \in Frame
    BY <1>39, Frames DEF FifoOpen, Top
  <2>2. [Head(frames[p]) EXCEPT !.at = "reset"] \in Frame
    BY <2>1 DEF Frame
  <2>3. frames' \in [Sessions -> Seq(Frame)]
    BY <1>39, <2>2, Frames DEF FifoOpen, Top, Retop
  <2>4. [rd |-> p, fifo |-> Named(p)] \in Reader
    BY <1>39 DEF FifoOpen, Reader
  <2>5. openRd' \subseteq Reader
    BY <1>39, <2>4 DEF FifoOpen
  <2>6. readFifoFd' \in [Rows -> [Rows -> Reader \cup {None}]]
    BY <1>39, <2>4 DEF FifoOpen
  <2> QED BY <1>39, <2>3, <2>5, <2>6 DEF FifoOpen
<1>40. ASSUME NEW p \in Sessions, FifoOpenFails(p) PROVE TypeOK'
  BY <1>40, DyingTypes DEF FifoOpenFails
<1>41. ASSUME NEW p \in Sessions, FifoReset(p) PROVE TypeOK'
  <2>1. frames' \in [Sessions -> Seq(Frame)]
    BY <1>41, Frames DEF FifoReset, Top, Return
  <2> QED BY <1>41, <2>1 DEF FifoReset
<1>42. ASSUME NEW p \in Sessions, NEW r \in Ids, TypeTell(p, r) PROVE TypeOK'
  BY <1>42, SMTT(30) DEF TypeTell, Types, At, Goto
<1>43. ASSUME NEW p \in Sessions, NEW r \in Ids, TypePipe(p, r) PROVE TypeOK'
  BY <1>43, SMTT(30) DEF TypePipe, Types, At, Goto
<1>44. ASSUME NEW p \in Sessions, NEW r \in Ids, TypeRead(p, r) PROVE TypeOK'
  <2>1. pc' \in [Sessions -> PCs]
    BY <1>44, ZenonT(40) DEF TypeRead, Goto
  <2>2. typed' \in [Sessions -> 0..MaxTyped]
    BY <1>44 DEF TypeRead, Types
  <2> QED BY <1>44, <2>1, <2>2 DEF TypeRead, Types
<1>45. ASSUME NEW p \in Sessions, NEW r \in Ids, TypeReadMissing(p, r) PROVE TypeOK'
  BY <1>45, SMTT(30) DEF TypeReadMissing, Types, Nest, At, Goto
<1>46. CASE UNCHANGED vars
  BY <1>46
<1> QED
  BY <1>1, <1>2, <1>3, <1>4, <1>5, <1>6, <1>7, <1>8, <1>9, <1>10, <1>11, <1>12, <1>13, <1>14, <1>15, <1>16, <1>17, <1>18, <1>19, <1>20, <1>21, <1>22, <1>23, <1>24, <1>25, <1>26, <1>27, <1>28, <1>29, <1>30, <1>31, <1>32, <1>33, <1>34, <1>35, <1>36, <1>37, <1>38, <1>39, <1>40, <1>41, <1>42, <1>43, <1>44, <1>45, <1>46
     DEF Next, Client, Line, Program, Handler

\* Every state of the specification is well typed.
THEOREM TypeCorrect == Spec => []TypeOK
BY TypeInit, TypeStep, PTL DEF Spec

-----------------------------------------------------------------------------
(* How a step can touch the ownership of rows *)

\* The step leaves every row with its owner, lets no new session choose a row,
\* hold one or be listed under one, and keeps the pids.
Listed(p) == Holds(p) /\ pc[p] # "fill"

Keeps ==
  /\ UNCHANGED <<row, isUsed, pid>>
  /\ \A q \in Sessions :
       /\ Owns(q)' <=> Owns(q)
       /\ Holds(q)' => Holds(q)
       /\ Listed(q)' => Listed(q)
       /\ pc'[q] \in Choosing => pc'[q] = pc[q]

\* How the sets of places lie to each other.
LEMMA Places ==
  /\ {"fill", "enter", "check", "write", "sender", "kill", "prompt", "ready", "eating",
      "release", "pcheck", "pname", "mkfifo", "psender", "pkill", "spin", "open",
      "leaked"} \subseteq Owning
  /\ Owning \cap Choosing = {} /\ Owning = Holding \cup {"leaked"} /\ "leaked" \notin Holding
  /\ {"gone", "wipe", "unlink", "off", "probe", "claim"} \cap Owning = {}
  /\ {"gone", "wipe", "unlink", "off"} \cap Choosing = {}
BY DEF Owning, Holding, InShell, Piping, Talking, Choosing

\* A session that only moves within its own side of ownership keeps everything.
LEMMA MoveKeeps ==
  ASSUME TypeOK, NEW p \in Sessions, NEW l \in Owning, pc[p] \in Owning,
         (pc[p] # "fill" /\ pc[p] # "leaked") \/ l = "leaked",
         Goto(p, l), UNCHANGED <<row, isUsed, pid>>
  PROVE  Keeps
BY Places DEF Keeps, Goto, Owns, Holds, Listed, TypeOK, TypeSession

\* A step that moves nobody keeps everything.
LEMMA StayKeeps ==
  ASSUME UNCHANGED <<pc, row, isUsed, pid>>
  PROVE  Keeps
BY DEF Keeps, Owns, Holds, Listed

\* So does a program or a handler that dies: a leaked row stays owned.
LEMMA DyingKeeps ==
  ASSUME TypeOK, NEW p \in Sessions, UNCHANGED <<row, isUsed, pid>>,
         \/ HandlerDies(p)
         \/ ProgramDies(p) /\ (shells[p] # "nested" \/ Listed(p))
  PROVE  Keeps
<1>1. CASE Goto(p, Lost(p))
  <2>1. CASE Owns(p)
    BY <1>1, <2>1, MoveKeeps, Places DEF Lost, Owns
  <2>2. CASE ~Owns(p)
    <3>1. Goto(p, "gone")
      BY <1>1, <2>2 DEF Lost
    <3> QED BY <2>2, <3>1, Places DEF Keeps, Goto, Owns, Holds, Listed, TypeOK, TypeSession
  <2> QED BY <2>1, <2>2
<1>2. CASE UNCHANGED pc
  BY <1>2, StayKeeps
<1>3. CASE Goto(p, "prompt") /\ Listed(p)
  BY <1>3, MoveKeeps, Places DEF Listed, Holds
<1> QED BY <1>1, <1>2, <1>3 DEF HandlerDies, ProgramDies, End

\* Only the steps named here change who owns what or who is choosing.
Chooses(p) == Connect(p) \/ LoginFound(p) \/ LoginProbe(p) \/ LoginRefused(p)

\* Every step keeps owners, marks and rows, or is one of the few that do not.
LEMMA StepEffect ==
  ASSUME TypeOK, [Next]_vars
  PROVE  \/ Keeps
         \/ \E p \in Sessions :
              Chooses(p) \/ LoginClaim(p) \/ LoginFill(p) \/ Release(p) \/ Unlink(p)
<1> USE Places DEF vars, where, self, work, term, sig, users, mail, pipes
<1>1. ASSUME NEW p \in Sessions, EnterShell(p) PROVE Keeps
  BY <1>1, MoveKeeps DEF EnterShell, At
<1>2. ASSUME NEW p \in Sessions, Prompt(p) PROVE Keeps
  BY <1>2, MoveKeeps DEF Prompt, At
<1>3. ASSUME NEW p \in Sessions, Eof(p) PROVE Keeps
  BY <1>3, MoveKeeps DEF Eof, At
<1>4. ASSUME NEW p \in Sessions, EatingEnds(p) PROVE Keeps
  BY <1>4, MoveKeeps DEF EatingEnds, At
<1>5. ASSUME NEW p \in Sessions, TellSkip(p) PROVE Keeps
  BY <1>5, MoveKeeps DEF TellSkip, TellDone, At
<1>6. ASSUME NEW p \in Sessions, TellCheck(p) PROVE Keeps
  BY <1>6, MoveKeeps DEF TellCheck, At
<1>7. ASSUME NEW p \in Sessions, TellWrite(p) PROVE Keeps
  BY <1>7, MoveKeeps DEF TellWrite, At
<1>8. ASSUME NEW p \in Sessions, TellSender(p) PROVE Keeps
  BY <1>8, MoveKeeps DEF TellSender, At
<1>9. ASSUME NEW p \in Sessions, TellKill(p) PROVE Keeps
  BY <1>9, MoveKeeps DEF TellKill, TellDone, At
<1>10. ASSUME NEW p \in Sessions, PipeOffline(p) PROVE Keeps
  BY <1>10, MoveKeeps DEF PipeOffline, PipeDone, At
<1>11. ASSUME NEW p \in Sessions, PipeCheck(p) PROVE Keeps
  BY <1>11, MoveKeeps DEF PipeCheck, At
<1>12. ASSUME NEW p \in Sessions, PipeReuse(p) PROVE Keeps
  BY <1>12, MoveKeeps DEF PipeReuse, At
<1>13. ASSUME NEW p \in Sessions, PipeName(p) PROVE Keeps
  BY <1>13, MoveKeeps DEF PipeName, At
<1>14. ASSUME NEW p \in Sessions, MkFifo(p) PROVE Keeps
  BY <1>14, MoveKeeps DEF MkFifo, At
<1>15. ASSUME NEW p \in Sessions, PipeSender(p) PROVE Keeps
  BY <1>15, MoveKeeps DEF PipeSender, At
<1>16. ASSUME NEW p \in Sessions, PipeKill(p) PROVE Keeps
  BY <1>16, MoveKeeps DEF PipeKill, At
<1>17. ASSUME NEW p \in Sessions, PipeSpinEnds(p) PROVE Keeps
  BY <1>17, MoveKeeps DEF PipeSpinEnds, At
<1>18. ASSUME NEW p \in Sessions, PipeOpen(p) PROVE Keeps
  BY <1>18, MoveKeeps DEF PipeOpen, PipeDone, At
<1>19. ASSUME NEW p \in Sessions, TypeYell(p) PROVE Keeps
  BY <1>19, MoveKeeps DEF TypeYell, Types, At
<1>20. ASSUME NEW p \in Sessions, TypeName(p) PROVE Keeps
  BY <1>20, MoveKeeps DEF TypeName, At
<1>21. ASSUME NEW p \in Sessions, TypeOrphan(p) PROVE Keeps
  BY <1>21, MoveKeeps DEF TypeOrphan, Types, Nest, At
<1>22. ASSUME NEW p \in Sessions, NEW r \in Ids, TypeTell(p, r) PROVE Keeps
  BY <1>22, MoveKeeps DEF TypeTell, Types, At
<1>23. ASSUME NEW p \in Sessions, NEW r \in Ids, TypePipe(p, r) PROVE Keeps
  BY <1>23, MoveKeeps DEF TypePipe, Types, At
<1>24. ASSUME NEW p \in Sessions, NEW r \in Ids, TypeRead(p, r) PROVE Keeps
  BY <1>24, MoveKeeps DEF TypeRead, Types, At
<1>25. ASSUME NEW p \in Sessions, NEW r \in Ids, TypeReadMissing(p, r) PROVE Keeps
  BY <1>25, MoveKeeps DEF TypeReadMissing, Types, Nest, At
<1>26. ASSUME NEW p \in Sessions, Wipe(p) PROVE Keeps
  BY <1>26 DEF Wipe, At, Goto, Keeps, Owns, Holds, Listed, TypeOK, TypeSession
<1>27. ASSUME NEW p \in Sessions, Hangup(p) PROVE Keeps
  BY <1>27, StayKeeps DEF Hangup
<1>28. ASSUME NEW p \in Sessions, Deliver(p) PROVE Keeps
  BY <1>28, StayKeeps DEF Deliver
<1>29. ASSUME NEW p \in Sessions, HandlerEnter(p) PROVE Keeps
  BY <1>29, StayKeeps DEF HandlerEnter
<1>30. ASSUME NEW p \in Sessions, MsgSend(p) PROVE Keeps
  BY <1>30, StayKeeps DEF MsgSend
<1>31. ASSUME NEW p \in Sessions, MsgClear(p) PROVE Keeps
  BY <1>31, StayKeeps DEF MsgClear
<1>32. ASSUME NEW p \in Sessions, FifoOpen(p) PROVE Keeps
  BY <1>32, StayKeeps DEF FifoOpen
<1>33. ASSUME NEW p \in Sessions, FifoReset(p) PROVE Keeps
  BY <1>33, StayKeeps DEF FifoReset
<1>34. ASSUME NEW p \in Sessions, MsgSendFails(p) PROVE Keeps
  BY <1>34, DyingKeeps DEF MsgSendFails
<1>35. ASSUME NEW p \in Sessions, FifoOpenFails(p) PROVE Keeps
  BY <1>35, DyingKeeps DEF FifoOpenFails
<1>36. ASSUME NEW p \in Sessions, WriteFails(p) PROVE Keeps
  <2>1. Listed(p)
    BY <1>36 DEF WriteFails, Writing, At, Listed, Holds
  <2> QED BY <1>36, <2>1, DyingKeeps DEF WriteFails
<1>37. ASSUME NEW p \in Sessions, PipeOpenFails(p) PROVE Keeps
  <2>1. Listed(p)
    BY <1>37 DEF PipeOpenFails, At, Listed, Holds
  <2> QED BY <1>37, <2>1, DyingKeeps DEF PipeOpenFails
<1>38. CASE UNCHANGED vars
  BY <1>38, StayKeeps
<1> QED
  BY <1>1, <1>2, <1>3, <1>4, <1>5, <1>6, <1>7, <1>8, <1>9, <1>10, <1>11, <1>12, <1>13, <1>14, <1>15, <1>16, <1>17, <1>18, <1>19, <1>20, <1>21, <1>22, <1>23, <1>24, <1>25, <1>26, <1>27, <1>28, <1>29, <1>30, <1>31, <1>32, <1>33, <1>34, <1>35, <1>36, <1>37, <1>38
     DEF Next, Client, Line, Program, Handler, Chooses

-----------------------------------------------------------------------------
(* A session in the shell works on the row it logged in to *)

AtShell(p) ==
  \/ pc[p] \in InShell \cup Leaving
  \/ pc[p] \in Talking /\ job[p] # "login"

ShellRow ==
  \A p \in Sessions :
    /\ pc[p] \notin {"off", "gone"} => row[p] \in Ids
    /\ AtShell(p) => myId[p] = row[p]
    /\ shells[p] # "single" => AtShell(p) \/ pc[p] \in Ended

\* No session is in the shell initially.
LEMMA ShellRowInit == Init => ShellRow
BY DEF Init, ShellRow, AtShell, InShell, Piping, Leaving, Talking, Ended

\* The places in the shell and those where a message is sent.
LEMMA ShellPlaces ==
  /\ {"prompt", "ready", "eating", "release", "pcheck", "pname", "mkfifo", "psender",
      "pkill", "spin", "open", "wipe", "unlink"} = InShell \cup Leaving
  /\ Talking = {"check", "write", "sender", "kill"}
  /\ Ended = {"gone", "leaked"}
BY DEF InShell, Piping, Leaving, Talking, Ended

\* A program or a handler that dies keeps ShellRow.
LEMMA ShellRowDying ==
  ASSUME TypeOK, ShellRow, NEW p \in Sessions, UNCHANGED <<self, job>>,
         HandlerDies(p) \/ (ProgramDies(p) /\ pc[p] \notin Ended)
  PROVE  ShellRow'
<1> USE ShellPlaces DEF ShellRow, AtShell, TypeOK, TypeSession, self, Goto
<1>1. CASE Goto(p, Lost(p)) /\ UNCHANGED shells
  <2>1. CASE Owns(p)
    BY <1>1, <2>1, Places DEF Lost, Owns
  <2>2. CASE ~Owns(p)
    BY <1>1, <2>2 DEF Lost
  <2> QED BY <2>1, <2>2
<1>2. CASE shells[p] = "nested" /\ UNCHANGED pc /\ shells' = [shells EXCEPT ![p] = "headless"]
  BY <1>2
<1>3. CASE shells[p] = "nested" /\ Goto(p, "prompt") /\ shells' = [shells EXCEPT ![p] = "single"]
           /\ pc[p] \notin Ended
  BY <1>3
<1> QED BY <1>1, <1>2, <1>3 DEF HandlerDies, ProgramDies, End

\* So does the end of ras_tell.
LEMMA ShellRowTellDone ==
  ASSUME TypeOK, ShellRow, NEW p \in Sessions, pc[p] \in Talking, TellDone(p),
         UNCHANGED <<shells, row, myId>>
  PROVE  ShellRow'
<1> USE ShellPlaces DEF ShellRow, AtShell, TypeOK, TypeSession
<1>1. CASE pc' = [pc EXCEPT ![p] = "enter"] /\ job[p] = "login"
           /\ job' = [job EXCEPT ![p] = "none"]
  BY <1>1
<1>2. CASE pc' = [pc EXCEPT ![p] = "prompt"] /\ job[p] # "login"
           /\ job' = [job EXCEPT ![p] = "none"]
  BY <1>2
<1>3. CASE pc' = [pc EXCEPT ![p] = "check"] /\ UNCHANGED job
  BY <1>3
<1> QED BY <1>1, <1>2, <1>3 DEF TellDone, Goto

\* So does every step.
LEMMA ShellRowStep ==
  ASSUME TypeOK, ShellRow, [Next]_vars
  PROVE  ShellRow'
<1>1. ASSUME NEW p \in Sessions, WriteFails(p) PROVE ShellRow'
  <2>1. pc[p] \notin Ended
    BY <1>1, ShellPlaces DEF WriteFails, Writing, At
  <2> QED BY <1>1, <2>1, ShellRowDying DEF WriteFails, work
<1>2. ASSUME NEW p \in Sessions, PipeOpenFails(p) PROVE ShellRow'
  <2>1. pc[p] \notin Ended
    BY <1>2, ShellPlaces DEF PipeOpenFails, At
  <2> QED BY <1>2, <2>1, ShellRowDying DEF PipeOpenFails, work
<1>3. ASSUME NEW p \in Sessions, MsgSendFails(p) PROVE ShellRow'
  BY <1>3, ShellRowDying DEF MsgSendFails, work
<1>4. ASSUME NEW p \in Sessions, FifoOpenFails(p) PROVE ShellRow'
  BY <1>4, ShellRowDying DEF FifoOpenFails, work
<1> USE ShellPlaces
    DEF vars, where, self, work, term, sig, users, mail, pipes,
        ShellRow, AtShell, TypeOK, TypeSession
<1>5. ASSUME NEW p \in Sessions, Connect(p) PROVE ShellRow'
  BY <1>5, MaxIdPositive DEF Connect, Goto, Ids
<1>6. ASSUME NEW p \in Sessions, LoginFound(p) PROVE ShellRow'
  BY <1>6, ZenonT(40) DEF LoginFound, At, Goto
<1>7. ASSUME NEW p \in Sessions, LoginProbe(p) PROVE ShellRow'
  <2>1. pc[p] = "probe" /\ row[p] \in Ids /\ row[p] < MaxId
    BY <1>7 DEF LoginProbe, At
  <2>2. row[p] + 1 \in Ids
    BY ONLY <2>1, MaxIdPositive DEF Ids
  <2> QED BY <1>7, <2>1, <2>2 DEF LoginProbe
<1>8. ASSUME NEW p \in Sessions, LoginRefused(p) PROVE ShellRow'
  BY <1>8, ZenonT(40) DEF LoginRefused, End, At, Goto
<1>9. ASSUME NEW p \in Sessions, LoginClaim(p) PROVE ShellRow'
  BY <1>9, ZenonT(40) DEF LoginClaim, At, Goto
<1>10. ASSUME NEW p \in Sessions, LoginFill(p) PROVE ShellRow'
  BY <1>10, ZenonT(40) DEF LoginFill, At, Goto
<1>11. ASSUME NEW p \in Sessions, EnterShell(p) PROVE ShellRow'
  BY <1>11 DEF EnterShell, At, Goto
<1>12. ASSUME NEW p \in Sessions, Prompt(p) PROVE ShellRow'
  BY <1>12 DEF Prompt, At, Goto
<1>13. ASSUME NEW p \in Sessions, Eof(p) PROVE ShellRow'
  BY <1>13 DEF Eof, At, Goto
<1>14. ASSUME NEW p \in Sessions, EatingEnds(p) PROVE ShellRow'
  BY <1>14 DEF EatingEnds, At, Goto
<1>15. ASSUME NEW p \in Sessions, TellSkip(p) PROVE ShellRow'
  <2>1. pc[p] \in Talking /\ TellDone(p) /\ UNCHANGED <<shells, row, myId>>
    BY <1>15 DEF TellSkip, At
  <2> QED BY <2>1, ShellRowTellDone
<1>16. ASSUME NEW p \in Sessions, TellCheck(p) PROVE ShellRow'
  BY <1>16, ZenonT(40) DEF TellCheck, At, Goto
<1>17. ASSUME NEW p \in Sessions, TellWrite(p) PROVE ShellRow'
  BY <1>17, ZenonT(40) DEF TellWrite, At, Goto
<1>18. ASSUME NEW p \in Sessions, TellSender(p) PROVE ShellRow'
  BY <1>18, ZenonT(40) DEF TellSender, At, Goto
<1>19. ASSUME NEW p \in Sessions, TellKill(p) PROVE ShellRow'
  <2>1. pc[p] \in Talking /\ TellDone(p) /\ UNCHANGED <<shells, row, myId>>
    BY <1>19 DEF TellKill, At
  <2> QED BY <2>1, ShellRowTellDone
<1>20. ASSUME NEW p \in Sessions, PipeOffline(p) PROVE ShellRow'
  BY <1>20 DEF PipeOffline, PipeDone, At, Goto
<1>21. ASSUME NEW p \in Sessions, PipeCheck(p) PROVE ShellRow'
  BY <1>21 DEF PipeCheck, At, Goto
<1>22. ASSUME NEW p \in Sessions, PipeReuse(p) PROVE ShellRow'
  BY <1>22 DEF PipeReuse, At, Goto
<1>23. ASSUME NEW p \in Sessions, PipeName(p) PROVE ShellRow'
  BY <1>23 DEF PipeName, At, Goto
<1>24. ASSUME NEW p \in Sessions, MkFifo(p) PROVE ShellRow'
  BY <1>24 DEF MkFifo, At, Goto
<1>25. ASSUME NEW p \in Sessions, PipeSender(p) PROVE ShellRow'
  BY <1>25 DEF PipeSender, At, Goto
<1>26. ASSUME NEW p \in Sessions, PipeKill(p) PROVE ShellRow'
  BY <1>26 DEF PipeKill, At, Goto
<1>27. ASSUME NEW p \in Sessions, PipeSpinEnds(p) PROVE ShellRow'
  BY <1>27 DEF PipeSpinEnds, At, Goto
<1>28. ASSUME NEW p \in Sessions, PipeOpen(p) PROVE ShellRow'
  BY <1>28 DEF PipeOpen, PipeDone, At, Goto
<1>29. ASSUME NEW p \in Sessions, Release(p) PROVE ShellRow'
  BY <1>29 DEF Release, At, Goto
<1>30. ASSUME NEW p \in Sessions, Wipe(p) PROVE ShellRow'
  BY <1>30 DEF Wipe, At, Goto
<1>31. ASSUME NEW p \in Sessions, TypeYell(p) PROVE ShellRow'
  BY <1>31 DEF TypeYell, Types, At, Goto
<1>32. ASSUME NEW p \in Sessions, TypeName(p) PROVE ShellRow'
  BY <1>32 DEF TypeName, At, Goto
<1>33. ASSUME NEW p \in Sessions, TypeOrphan(p) PROVE ShellRow'
  BY <1>33 DEF TypeOrphan, Types, Nest, At, Goto
<1>34. ASSUME NEW p \in Sessions, NEW r \in Ids, TypeTell(p, r) PROVE ShellRow'
  BY <1>34 DEF TypeTell, Types, At, Goto
<1>35. ASSUME NEW p \in Sessions, NEW r \in Ids, TypePipe(p, r) PROVE ShellRow'
  BY <1>35 DEF TypePipe, Types, At, Goto
<1>36. ASSUME NEW p \in Sessions, NEW r \in Ids, TypeRead(p, r) PROVE ShellRow'
  <2>1. /\ pc[p] = "ready" /\ UNCHANGED <<shells, row, myId, job>>
        /\ \/ pc' = [pc EXCEPT ![p] = "prompt"]
           \/ pc' = [pc EXCEPT ![p] = "eating"]
    BY <1>36 DEF TypeRead, Types, At, Goto
  <2> QED BY <2>1
<1>37. ASSUME NEW p \in Sessions, NEW r \in Ids, TypeReadMissing(p, r) PROVE ShellRow'
  BY <1>37 DEF TypeReadMissing, Types, Nest, At, Goto
<1>38. ASSUME NEW p \in Sessions, Hangup(p) PROVE ShellRow'
  BY <1>38 DEF Hangup
<1>39. ASSUME NEW p \in Sessions, Deliver(p) PROVE ShellRow'
  BY <1>39 DEF Deliver
<1>40. ASSUME NEW p \in Sessions, HandlerEnter(p) PROVE ShellRow'
  BY <1>40 DEF HandlerEnter
<1>41. ASSUME NEW p \in Sessions, MsgSend(p) PROVE ShellRow'
  BY <1>41 DEF MsgSend
<1>42. ASSUME NEW p \in Sessions, MsgClear(p) PROVE ShellRow'
  BY <1>42 DEF MsgClear
<1>43. ASSUME NEW p \in Sessions, FifoOpen(p) PROVE ShellRow'
  BY <1>43 DEF FifoOpen
<1>44. ASSUME NEW p \in Sessions, FifoReset(p) PROVE ShellRow'
  BY <1>44 DEF FifoReset
<1>45. ASSUME NEW p \in Sessions, Unlink(p) PROVE ShellRow'
  BY <1>45, ShellRowDying, ZenonT(40) DEF Unlink, At
<1>46. CASE UNCHANGED vars
  BY <1>46
<1> QED
  BY <1>1, <1>2, <1>3, <1>4, <1>5, <1>6, <1>7, <1>8, <1>9, <1>10, <1>11, <1>12, <1>13, <1>14, <1>15, <1>16, <1>17, <1>18, <1>19, <1>20, <1>21, <1>22, <1>23, <1>24, <1>25, <1>26, <1>27, <1>28, <1>29, <1>30, <1>31, <1>32, <1>33, <1>34, <1>35, <1>36, <1>37, <1>38, <1>39, <1>40, <1>41, <1>42, <1>43, <1>44, <1>45, <1>46
     DEF Next, Client, Line, Program, Handler

\* In the shell, gMyId is the row Login took.
LEMMA ShellRowHolds == Spec => [](TypeOK /\ ShellRow)
<1>1. Init => TypeOK /\ ShellRow
  BY TypeInit, ShellRowInit
<1>2. TypeOK /\ ShellRow /\ [Next]_vars => (TypeOK /\ ShellRow)'
  BY TypeStep, ShellRowStep
<1> QED BY <1>1, <1>2, PTL DEF Spec

-----------------------------------------------------------------------------
(* A marked row has an owner, whatever the clients do *)

\* The effect of the steps that Keeps does not describe.
LEMMA ClaimEffect ==
  ASSUME TypeOK, NEW p \in Sessions, LoginClaim(p)
  PROVE  /\ pc[p] = "claim" /\ UNCHANGED <<row, pid>>
         /\ isUsed' = [isUsed EXCEPT ![row[p]] = TRUE]
         /\ \A q \in Sessions : Owns(q)' <=> Owns(q) \/ q = p
         /\ \A q \in Sessions : Holds(q)' <=> Holds(q) \/ q = p
         /\ \A q \in Sessions : Listed(q)' <=> Listed(q)
         /\ \A q \in Sessions : pc'[q] \in Choosing => pc'[q] = pc[q] /\ q # p
<1>1. /\ pc[p] = "claim" /\ pc' = [pc EXCEPT ![p] = "fill"] /\ UNCHANGED <<row, pid>>
      /\ isUsed' = [isUsed EXCEPT ![row[p]] = TRUE]
  BY DEF LoginClaim, At, Goto, self
<1>2. pc \in [Sessions -> PCs]
  BY DEF TypeOK, TypeSession
<1> QED BY ONLY <1>1, <1>2, Places DEF Owns, Holds, Listed

\* LoginFill changes neither marks nor owners; only its own row is then listed.
LEMMA FillEffect ==
  ASSUME TypeOK, NEW p \in Sessions, LoginFill(p)
  PROVE  /\ pc[p] = "fill" /\ UNCHANGED <<row, isUsed>>
         /\ pid' = [pid EXCEPT ![row[p]] = p]
         /\ \A q \in Sessions : Owns(q)' <=> Owns(q)
         /\ \A q \in Sessions : Holds(q)' <=> Holds(q)
         /\ \A q \in Sessions : Listed(q)' <=> Listed(q) \/ q = p
         /\ \A q \in Sessions : pc'[q] \in Choosing => pc'[q] = pc[q]
<1>1. /\ pc[p] = "fill" /\ pc' = [pc EXCEPT ![p] = "check"] /\ UNCHANGED <<row, isUsed>>
      /\ pid' = [pid EXCEPT ![row[p]] = p]
  BY DEF LoginFill, At, Goto, self
<1>2. pc \in [Sessions -> PCs]
  BY DEF TypeOK, TypeSession
<1> QED BY ONLY <1>1, <1>2, Places DEF Owns, Holds, Listed

\* Release clears the mark of the row the session gives up, and no other.
LEMMA ReleaseEffect ==
  ASSUME TypeOK, ShellRow, NEW p \in Sessions, Release(p)
  PROVE  /\ pc[p] = "release" /\ UNCHANGED <<row, pid>>
         /\ isUsed' = [isUsed EXCEPT ![row[p]] = FALSE]
         /\ \A q \in Sessions : Owns(q)' <=> (Owns(q) /\ q # p)
         /\ \A q \in Sessions : Listed(q)' => Listed(q)
         /\ \A q \in Sessions : pc'[q] \in Choosing => pc'[q] = pc[q]
<1>1. pc[p] = "release" /\ myId[p] = row[p]
  BY ShellPlaces DEF Release, At, ShellRow, AtShell
<1>2. /\ pc' = [pc EXCEPT ![p] = "wipe"] /\ UNCHANGED <<row, pid>>
      /\ isUsed' = [isUsed EXCEPT ![row[p]] = FALSE]
  BY <1>1 DEF Release, Goto, self
<1>3. pc \in [Sessions -> PCs]
  BY DEF TypeOK, TypeSession
<1> QED BY ONLY <1>1, <1>2, <1>3, Places DEF Owns, Holds, Listed

\* A session that looks for a row owns none, before and after.
LEMMA ChoosesEffect ==
  ASSUME TypeOK, NEW p \in Sessions, Chooses(p)
  PROVE  /\ UNCHANGED <<isUsed, pid>>
         /\ pc[p] \in {"off", "probe"} /\ pc'[p] \in {"probe", "claim", "gone"}
         /\ \A q \in Sessions : q # p => pc'[q] = pc[q] /\ row'[q] = row[q]
         /\ \A q \in Sessions : Owns(q)' <=> Owns(q)
         /\ \A q \in Sessions : Owns(q) => row'[q] = row[q]
         /\ \A q \in Sessions : Holds(q)' <=> Holds(q)
         /\ \A q \in Sessions : Listed(q)' <=> Listed(q)
<1>1. pc \in [Sessions -> PCs] /\ row \in [Sessions -> Rows]
  BY DEF TypeOK, TypeSession
<1>2. /\ UNCHANGED <<isUsed, pid>> /\ pc[p] \in {"off", "probe"}
      /\ \E l \in {"probe", "claim", "gone"} : pc' = [pc EXCEPT ![p] = l]
      /\ \E r : row' = [row EXCEPT ![p] = r]
  <2>1. CASE Connect(p)
    BY <2>1 DEF Connect, Goto, users
  <2>2. CASE LoginFound(p)
    <3>1. row' = [row EXCEPT ![p] = row[p]]
      BY <1>1, <2>2 DEF LoginFound, self
    <3> QED BY <2>2, <3>1 DEF LoginFound, At, Goto, users
  <2>3. CASE LoginProbe(p)
    <3>1. pc[p] = "probe" /\ pc' = [pc EXCEPT ![p] = "probe"]
      BY <1>1, <2>3 DEF LoginProbe, At, where
    <3> QED BY <2>3, <3>1 DEF LoginProbe, users
  <2>4. CASE LoginRefused(p)
    <3>1. row' = [row EXCEPT ![p] = row[p]]
      BY <1>1, <2>4 DEF LoginRefused, self
    <3> QED BY <2>4, <3>1 DEF LoginRefused, At, End, Goto, users
  <2> QED BY <2>1, <2>2, <2>3, <2>4 DEF Chooses
<1> QED BY ONLY <1>1, <1>2, Places DEF Owns, Holds, Listed

\* A nested shell that logged out gives control back to a process that still
\* believes to own the row.
LEMMA UnlinkEffect ==
  ASSUME TypeOK, NEW p \in Sessions, Unlink(p)
  PROVE  \/ Keeps
         \/ /\ shells[p] = "nested" /\ UNCHANGED <<row, isUsed, pid>>
            /\ \A q \in Sessions : Owns(q) => Owns(q)'
<1>1. UNCHANGED <<row, isUsed, pid>>
  BY DEF Unlink, self, users
<1>2. UNCHANGED pc \/ ProgramDies(p)
  BY DEF Unlink, where
<1>3. CASE UNCHANGED pc
  BY <1>1, <1>3, StayKeeps
<1>4. CASE ProgramDies(p) /\ shells[p] # "nested"
  BY <1>1, <1>4, DyingKeeps
<1>5. CASE ProgramDies(p) /\ shells[p] = "nested"
  BY <1>1, <1>5, Places DEF ProgramDies, Goto, Owns, TypeOK, TypeSession
<1> QED BY <1>2, <1>3, <1>4, <1>5

\* No step but LoginClaim marks a row, and the owner of a marked row keeps it
\* until it has cleared the mark: every step of the program, with nested shells
\* and crashes, preserves MarkedIsOwned.
THEOREM MarkedRowsAreOwned == Spec => []MarkedIsOwned
<1>1. Init => MarkedIsOwned
  BY DEF Init, MarkedIsOwned, Rows, Ids
<1>2. ASSUME TypeOK, ShellRow, MarkedIsOwned, [Next]_vars PROVE MarkedIsOwned'
  <2>1. CASE Keeps
    BY <1>2, <2>1 DEF Keeps, MarkedIsOwned
  <2>2. ASSUME NEW p \in Sessions, Chooses(p) PROVE MarkedIsOwned'
    BY <1>2, <2>2, ChoosesEffect DEF MarkedIsOwned
  <2>3. ASSUME NEW p \in Sessions, LoginClaim(p) PROVE MarkedIsOwned'
    <3> SUFFICES ASSUME NEW r \in Ids, isUsed'[r]
                 PROVE  \E q \in Sessions : Owns(q)' /\ row'[q] = r
      BY DEF MarkedIsOwned
    <3>1. CASE r = row[p]
      BY <1>2, <2>3, <3>1, ClaimEffect
    <3>2. CASE r # row[p]
      <4>1. isUsed[r]
        BY <1>2, <2>3, <3>2, ClaimEffect, Values DEF TypeOK, TypeTable
      <4> QED BY <1>2, <2>3, <4>1, ClaimEffect DEF MarkedIsOwned
    <3> QED BY <3>1, <3>2
  <2>4. ASSUME NEW p \in Sessions, LoginFill(p) PROVE MarkedIsOwned'
    BY <1>2, <2>4, FillEffect DEF MarkedIsOwned
  <2>5. ASSUME NEW p \in Sessions, Release(p) PROVE MarkedIsOwned'
    <3> SUFFICES ASSUME NEW r \in Ids, isUsed'[r]
                 PROVE  \E q \in Sessions : Owns(q)' /\ row'[q] = r
      BY DEF MarkedIsOwned
    <3>1. r # row[p] /\ isUsed[r]
      BY <1>2, <2>5, ReleaseEffect, Values DEF TypeOK, TypeTable
    <3>2. PICK q \in Sessions : Owns(q) /\ row[q] = r
      BY <1>2, <3>1 DEF MarkedIsOwned
    <3> QED BY <1>2, <2>5, <3>1, <3>2, ReleaseEffect
  <2>6. ASSUME NEW p \in Sessions, Unlink(p) PROVE MarkedIsOwned'
    BY <1>2, <2>1, <2>6, UnlinkEffect DEF MarkedIsOwned
  <2> QED BY <1>2, <2>1, <2>2, <2>3, <2>4, <2>5, <2>6, StepEffect
<1> QED BY <1>1, <1>2, ShellRowHolds, PTL DEF Spec

-----------------------------------------------------------------------------
(* Ids are distinct when connections come one at a time and no command's     *)
(* child falls back into the loop                                            *)

Serial == ~Overlap /\ Commands \cap {"orphan", "read"} = {}

Singles == \A p \in Sessions : shells[p] = "single"

\* Without lines that leave a child in the loop there is no second shell.
LEMMA SinglesStep ==
  ASSUME Serial, Singles, [Next]_vars
  PROVE  Singles'
<1> USE DEF Singles, Serial, vars, where, self, work, term, sig, users, mail, pipes
<1>1. ASSUME NEW p \in Sessions, Line(p) PROVE Singles'
  BY <1>1 DEF Line, TypeTell, TypePipe, TypeRead, TypeReadMissing, TypeYell, TypeName,
              TypeOrphan, Types
<1>2. ASSUME NEW p \in Sessions, Connect(p) \/ Hangup(p) PROVE Singles'
  BY <1>2 DEF Connect, Hangup
<1>3. ASSUME NEW p \in Sessions, ProgramDies(p) \/ HandlerDies(p) \/ End(p, "gone")
      PROVE  Singles'
  BY <1>3 DEF ProgramDies, HandlerDies, End
<1>4. ASSUME NEW p \in Sessions, Program(p) PROVE Singles'
  <2>1. \/ UNCHANGED shells
        \/ ProgramDies(p) \/ End(p, "gone")
    BY <1>4 DEF Program, LoginFound, LoginProbe, LoginRefused, LoginClaim, LoginFill,
         EnterShell, Prompt, Eof, EatingEnds, WriteFails, TellSkip, TellCheck, TellWrite,
         TellSender, TellKill, PipeOffline, PipeCheck, PipeReuse, PipeName, MkFifo,
         PipeSender, PipeKill, PipeSpinEnds, PipeOpen, PipeOpenFails, Release, Wipe, Unlink
  <2> QED BY <2>1, <1>3
<1>5. ASSUME NEW p \in Sessions, Deliver(p) \/ Handler(p) PROVE Singles'
  <2>1. UNCHANGED shells \/ HandlerDies(p)
    BY <1>5 DEF Deliver, Handler, HandlerEnter, MsgSend, MsgSendFails, MsgClear,
                FifoOpen, FifoOpenFails, FifoReset
  <2> QED BY <2>1, <1>3
<1>6. CASE UNCHANGED vars
  BY <1>6
<1> QED BY <1>1, <1>2, <1>4, <1>5, <1>6 DEF Next, Client

\* SerialInv without its first part.
OneChooser == \A p, q \in Sessions : pc[p] \in Choosing /\ pc[q] \in Choosing => p = q
ClaimFree  == \A p \in Sessions : pc[p] = "claim" => ~isUsed[row[p]]
Marked     == \A p \in Sessions : Owns(p) => isUsed[row[p]]
Distinct   == \A p, q \in Sessions : Owns(p) /\ Owns(q) /\ row[p] = row[q] => p = q
RowsOwned  == OneChooser /\ ClaimFree /\ Marked /\ Distinct

LEMMA SerialIsOwned == (SerialInv <=> Singles /\ RowsOwned) /\ (SerialInv' <=> Singles' /\ RowsOwned')
BY DEF SerialInv, Singles, RowsOwned, OneChooser, ClaimFree, Marked, Distinct

\* Initially nobody has a row.
LEMMA RowsOwnedInit == Init => RowsOwned
BY Places DEF Init, RowsOwned, OneChooser, ClaimFree, Marked, Distinct, Owns, Choosing

\* When connections are accepted one at a time, RowsOwned only fails if a nested
\* shell has logged out and its parent goes on with the row it has no more.
LEMMA RowsOwnedStep ==
  ASSUME ~Overlap, TypeOK, ShellRow, RowsOwned, [Next]_vars,
         \A p \in Sessions : Unlink(p) => shells[p] # "nested"
  PROVE  RowsOwned'
<1>2. OneChooser /\ ClaimFree /\ Marked /\ Distinct
  BY DEF RowsOwned
<1> SUFFICES (OneChooser /\ ClaimFree /\ Marked /\ Distinct)'
  BY DEF RowsOwned
<1> USE DEF OneChooser, ClaimFree, Marked, Distinct
<1>3. isUsed \in [Rows -> BOOLEAN] /\ row \in [Sessions -> Rows] /\ pc \in [Sessions -> PCs]
  BY DEF TypeOK, TypeTable, TypeSession
<1>4. {"probe", "claim"} = Choosing
  BY DEF Choosing
<1>5. CASE Keeps
  BY ONLY <1>2, <1>4, <1>5 DEF Keeps
<1>6. ASSUME NEW p \in Sessions, Chooses(p)
      PROVE  (OneChooser /\ ClaimFree /\ Marked /\ Distinct)'
  <2>1. /\ Owns(p)' <=> Owns(p)
        /\ Marked' /\ Distinct'
    BY ONLY <1>2, <1>6, TypeOK, ChoosesEffect
  <2>2. \A q \in Sessions : q # p => pc[q] \notin Choosing
    <3>1. CASE Connect(p)
      BY <3>1 DEF Connect
    <3>2. CASE pc[p] = "probe"
      BY <1>2, <1>4, <3>2
    <3> QED BY <1>6, <3>1, <3>2 DEF Chooses, LoginFound, LoginProbe, LoginRefused, At
  <2>3. OneChooser'
    BY <1>6, <2>2, ChoosesEffect
  <2>4. pc'[p] = "claim" => ~isUsed[row[p]] /\ row'[p] = row[p]
    BY <1>3, <1>6 DEF Chooses, Connect, LoginFound, LoginProbe, LoginRefused, End, At, Goto,
                      self, where
  <2>5. ClaimFree'
    BY <1>4, <1>6, <2>2, <2>4, ChoosesEffect
  <2> QED BY <2>1, <2>3, <2>5
<1>7. ASSUME NEW p \in Sessions, LoginClaim(p)
      PROVE  (OneChooser /\ ClaimFree /\ Marked /\ Distinct)'
  <2>1. pc[p] = "claim" /\ \A q \in Sessions : pc[q] \in Choosing => q = p
    BY <1>2, <1>4, <1>7, ClaimEffect
  <2>2. OneChooser' /\ ClaimFree'
    BY <1>4, <1>7, <2>1, ClaimEffect
  <2>3. \A q \in Sessions : Owns(q) => row[q] # row[p]
    BY <1>2, <2>1
  <2>4. Marked'
    BY <1>2, <1>3, <1>7, ClaimEffect
  <2>5. Distinct'
    BY <1>2, <1>7, <2>3, ClaimEffect
  <2> QED BY <2>2, <2>4, <2>5
<1>8. ASSUME NEW p \in Sessions, LoginFill(p)
      PROVE  (OneChooser /\ ClaimFree /\ Marked /\ Distinct)'
  BY <1>2, <1>4, <1>8, FillEffect
<1>9. ASSUME NEW p \in Sessions, Release(p)
      PROVE  (OneChooser /\ ClaimFree /\ Marked /\ Distinct)'
  <2>1. OneChooser' /\ Distinct'
    BY <1>2, <1>9, ReleaseEffect
  <2>2. ClaimFree'
    BY <1>2, <1>3, <1>4, <1>9, ReleaseEffect
  <2>3. Owns(p)
    BY <1>9, ReleaseEffect, Places DEF Owns
  <2>4. Marked'
    BY <1>2, <1>3, <1>9, <2>3, ReleaseEffect
  <2> QED BY <2>1, <2>2, <2>4
<1>10. ASSUME NEW p \in Sessions, Unlink(p)
       PROVE  (OneChooser /\ ClaimFree /\ Marked /\ Distinct)'
  BY <1>5, <1>10, UnlinkEffect
<1> QED BY <1>5, <1>6, <1>7, <1>8, <1>9, <1>10, StepEffect

\* SerialInv holds initially.
LEMMA SerialInit == Init => SerialInv
BY RowsOwnedInit, SerialIsOwned DEF Init, Singles

\* SerialInv is inductive when connections are accepted one at a time.
LEMMA SerialStep ==
  ASSUME Serial, TypeOK, ShellRow, SerialInv, [Next]_vars
  PROVE  SerialInv'
<1>1. Singles /\ RowsOwned
  BY SerialIsOwned
<1>2. Singles'
  BY <1>1, SinglesStep
<1>3. RowsOwned'
  BY <1>1, RowsOwnedStep DEF Serial, Singles
<1> QED BY <1>2, <1>3, SerialIsOwned

\* SerialInv holds throughout.
LEMMA SerialHolds ==
  ASSUME Serial PROVE Spec => [](TypeOK /\ ShellRow /\ SerialInv)
<1>1. Init => TypeOK /\ ShellRow /\ SerialInv
  BY TypeInit, ShellRowInit, SerialInit
<1>2. TypeOK /\ ShellRow /\ SerialInv /\ [Next]_vars => (TypeOK /\ ShellRow /\ SerialInv)'
  BY TypeStep, ShellRowStep, SerialStep
<1> QED BY <1>1, <1>2, PTL DEF Spec

\* One session at a time is between the test and the mark of a row, and a row
\* that is owned is marked and has one owner.
THEOREM LoginsAreSerial ==
  ASSUME Serial PROVE Spec => []SerialInv
BY SerialHolds, PTL

\* Login gives an id to one session at a time, provided main() accepts the next
\* connection only after the row is marked and no command leaves a second shell.
THEOREM IdsAreDistinct ==
  ASSUME Serial PROVE Spec => []IdsDistinct
<1>1. SerialInv => IdsDistinct
  BY Places DEF SerialInv, IdsDistinct, Owns, Holds
<1> QED BY <1>1, SerialHolds, PTL

\* The mark of a row and its ownership are the same thing.
THEOREM MarksAreOwnership ==
  ASSUME Serial PROVE Spec => []MarkedIffOwned
<1>1. TypeOK /\ ShellRow /\ SerialInv /\ MarkedIsOwned => MarkedIffOwned
  BY DEF SerialInv, MarkedIsOwned, MarkedIffOwned
<1> QED BY <1>1, SerialHolds, MarkedRowsAreOwned, PTL

\* PidOfHolder in terms of Listed.
LEMMA PidsListed ==
  PidOfHolder <=> \A p \in Sessions : Listed(p) => pid[row[p]] = p
BY DEF PidOfHolder, Listed

\* The same in the next state.
LEMMA PidsListedNext ==
  PidOfHolder' <=> \A p \in Sessions : Listed(p)' => pid'[row'[p]] = p
BY DEF PidOfHolder, Listed

\* Signals to a user's pid reach the session that has the id.
THEOREM PidsAreHolders ==
  ASSUME Serial PROVE Spec => []PidOfHolder
<1>1. Init => PidOfHolder
  BY Places DEF Init, PidOfHolder, Holds
<1>2. ASSUME TypeOK, ShellRow, SerialInv, PidOfHolder, [Next]_vars PROVE PidOfHolder'
  <2> USE PidsListed, PidsListedNext
  <2>1. \A q \in Sessions : Listed(q) => Owns(q)
    BY Places DEF Listed, Holds, Owns
  <2>2. CASE Keeps
    BY <1>2, <2>2 DEF Keeps
  <2>3. ASSUME NEW p \in Sessions, Chooses(p) PROVE PidOfHolder'
    BY <1>2, <2>1, <2>3, ChoosesEffect
  <2>4. ASSUME NEW p \in Sessions, LoginClaim(p) PROVE PidOfHolder'
    BY <1>2, <2>4, ClaimEffect
  <2>5. ASSUME NEW p \in Sessions, LoginFill(p) PROVE PidOfHolder'
    <3>1. \A q \in Sessions : Listed(q) /\ q # p => row[q] # row[p]
      <4>1. Owns(p)
        BY <1>2, <2>5, FillEffect, Places DEF Owns
      <4> QED BY <1>2, <2>1, <4>1 DEF SerialInv
    <3>2. row[p] \in Rows /\ pid \in [Rows -> Sessions \cup {None}]
      BY <1>2 DEF TypeOK, TypeSession, TypeTable
    <3>3. /\ UNCHANGED row /\ pid' = [pid EXCEPT ![row[p]] = p]
          /\ \A q \in Sessions : Listed(q)' <=> Listed(q) \/ q = p
      BY <1>2, <2>5, FillEffect
    <3> QED BY <1>2, <3>1, <3>2, <3>3
  <2>6. ASSUME NEW p \in Sessions, Release(p) PROVE PidOfHolder'
    BY <1>2, <2>6, ReleaseEffect
  <2>7. ASSUME NEW p \in Sessions, Unlink(p) PROVE PidOfHolder'
    BY <1>2, <2>2, <2>7, UnlinkEffect DEF SerialInv
  <2> QED BY <1>2, <2>2, <2>3, <2>4, <2>5, <2>6, <2>7, StepEffect
<1> QED BY <1>1, <1>2, SerialHolds, PTL DEF Spec

-----------------------------------------------------------------------------
(* The table implements the registry of ids *)

HolderIsOwner ==
  \A r \in Ids :
    /\ \A p \in Sessions : holder[r] = p <=> Owns(p) /\ row[p] = r
    /\ holder[r] = None <=> ~isUsed[r]
    /\ holder[r] \in Sessions \cup {None}

\* The owner of a marked row is the one the refinement mapping chooses.
LEMMA HolderOf == SerialInv /\ MarkedIsOwned => HolderIsOwner
<1> SUFFICES ASSUME SerialInv, MarkedIsOwned, NEW r \in Ids
             PROVE  /\ \A p \in Sessions : holder[r] = p <=> Owns(p) /\ row[p] = r
                    /\ holder[r] = None <=> ~isUsed[r]
                    /\ holder[r] \in Sessions \cup {None}
  BY DEF HolderIsOwner
<1>1. CASE isUsed[r]
  <2>1. PICK p \in Sessions : Owns(p) /\ row[p] = r
    BY <1>1 DEF MarkedIsOwned
  <2>2. \A q \in Sessions : Owns(q) /\ row[q] = r <=> q = p
    BY <2>1 DEF SerialInv
  <2>3. holder[r] = p
    BY <1>1, <2>1, <2>2 DEF holder
  <2> QED BY <1>1, <2>2, <2>3, NoneIsNoSession
<1>2. CASE ~isUsed[r]
  <2>1. \A p \in Sessions : ~(Owns(p) /\ row[p] = r)
    BY <1>2 DEF SerialInv
  <2>2. holder[r] = None
    BY <2>1 DEF holder
  <2> QED BY <1>2, <2>1, <2>2, NoneIsNoSession
<1> QED BY <1>1, <1>2

\* The same in the next state.
LEMMA HolderOfNext == (SerialInv /\ MarkedIsOwned)' => HolderIsOwner'
BY HolderOf, PTL

\* Every step of the server is a step of the registry or leaves it alone.
THEOREM ServerImplementsRegistry ==
  ASSUME Serial PROVE Spec => RegistrySpec
<1> DEFINE Good == TypeOK /\ ShellRow /\ SerialInv /\ MarkedIsOwned
<1>1. Init => Registry!Init
  <2> SUFFICES ASSUME Init PROVE holder = [r \in Ids |-> None]
    BY DEF Registry!Init
  <2>1. \A p \in Sessions : ~Owns(p)
    BY DEF Init, Owns, Owning, Holding, Talking, InShell, Piping
  <2> QED BY <2>1 DEF holder
<1>2. ASSUME Good, Good', [Next]_vars PROVE [Registry!Next]_holder
  <2>1. /\ DOMAIN holder = Ids /\ holder = [r \in Ids |-> holder[r]]
        /\ DOMAIN holder' = Ids /\ holder' = [r \in Ids |-> holder'[r]]
    BY DEF holder
  <2>2. \A r \in Ids :
          /\ \A p \in Sessions : holder[r] = p <=> Owns(p) /\ row[p] = r
          /\ holder[r] = None <=> ~isUsed[r]
          /\ holder[r] \in Sessions \cup {None}
    BY <1>2, HolderOf DEF HolderIsOwner
  <2>3. \A r \in Ids :
          /\ \A p \in Sessions : holder'[r] = p <=> Owns(p)' /\ row'[p] = r
          /\ holder'[r] = None <=> ~isUsed'[r]
          /\ holder'[r] \in Sessions \cup {None}
    BY <1>2, HolderOfNext DEF HolderIsOwner
  <2>4. ASSUME isUsed' = isUsed, \A q \in Sessions : Owns(q)' <=> Owns(q),
               \A q \in Sessions : Owns(q) => row'[q] = row[q]
        PROVE  holder' = holder
    <3>1. \A r \in Ids : holder'[r] = holder[r]
      BY <2>2, <2>3, <2>4
    <3> QED BY <2>1, <3>1
  <2>5. ASSUME Keeps PROVE holder' = holder
    BY <2>4, <2>5 DEF Keeps
  <2>6. ASSUME NEW p \in Sessions, Chooses(p) PROVE holder' = holder
    BY <1>2, <2>4, <2>6, ChoosesEffect
  <2>7. ASSUME NEW p \in Sessions, LoginFill(p) PROVE holder' = holder
    BY <1>2, <2>4, <2>7, FillEffect
  <2>8. ASSUME NEW p \in Sessions, Unlink(p) PROVE holder' = holder
    BY <1>2, <2>5, <2>8, UnlinkEffect DEF SerialInv
  <2>9. ASSUME NEW p \in Sessions, LoginClaim(p) PROVE Registry!Acquire(p, row[p])
    <3>1. pc[p] = "claim" /\ row[p] \in Ids /\ row[p] \in Rows /\ ~isUsed[row[p]]
      BY <1>2, <2>9, ClaimEffect, Values DEF ShellRow, SerialInv
    <3>2. ~Owns(p)
      BY <3>1, Places DEF Owns
    <3>3. holder[row[p]] = None /\ \A j \in Ids : holder[j] # p
      BY <2>2, <3>1, <3>2
    <3>4. holder'[row[p]] = p
      BY <1>2, <2>3, <2>9, <3>1, ClaimEffect
    <3>5. \A r \in Ids : r # row[p] => holder'[r] = holder[r]
      <4>1. \A r \in Ids : r # row[p] => isUsed'[r] = isUsed[r]
        BY <1>2, <2>9, <3>1, ClaimEffect, Values DEF TypeOK, TypeTable
      <4>2. /\ UNCHANGED row
            /\ \A q \in Sessions : Owns(q)' <=> Owns(q) \/ q = p
         /\ \A q \in Sessions : Holds(q)' <=> Holds(q) \/ q = p
        BY <1>2, <2>9, ClaimEffect
      <4> QED BY <2>2, <2>3, <4>1, <4>2
    <3>6. holder' = [holder EXCEPT ![row[p]] = p]
      BY <2>1, <3>1, <3>4, <3>5
    <3> QED BY <3>3, <3>6 DEF Registry!Acquire
  <2>10. ASSUME NEW p \in Sessions, Release(p) PROVE Registry!Release(row[p])
    <3>1. pc[p] = "release" /\ row[p] \in Ids /\ row[p] \in Rows
      BY <1>2, <2>10, ReleaseEffect, Values DEF ShellRow
    <3>2. Owns(p) /\ isUsed[row[p]]
      BY <1>2, <3>1, Places DEF Owns, SerialInv
    <3>3. holder[row[p]] # None
      BY <2>2, <3>1, <3>2
    <3>4. ~isUsed'[row[p]] /\ \A r \in Ids : r # row[p] => isUsed'[r] = isUsed[r]
      BY <1>2, <2>10, <3>1, ReleaseEffect, Values DEF TypeOK, TypeTable
    <3>5. \A r \in Ids : r # row[p] => holder'[r] = holder[r]
      <4>1. /\ UNCHANGED row
            /\ \A q \in Sessions : Owns(q)' <=> (Owns(q) /\ q # p)
        BY <1>2, <2>10, ReleaseEffect
      <4> QED BY <2>2, <2>3, <3>4, <4>1
    <3>6. holder' = [holder EXCEPT ![row[p]] = None]
      BY <2>1, <2>3, <3>1, <3>4, <3>5
    <3> QED BY <3>3, <3>6 DEF Registry!Release
  <2>11. \A p \in Sessions : LoginClaim(p) \/ Release(p) => row[p] \in Ids
    BY <1>2, ClaimEffect, ReleaseEffect DEF ShellRow
  <2> QED
    BY <1>2, <2>5, <2>6, <2>7, <2>8, <2>9, <2>10, <2>11, <2>4, StepEffect
       DEF Registry!Next, Keeps
<1> QED
  BY <1>1, <1>2, SerialHolds, MarkedRowsAreOwned, PTL DEF Spec, RegistrySpec, Registry!Spec

=============================================================================

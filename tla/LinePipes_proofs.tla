--------------------------- MODULE LinePipes_proofs ---------------------------
(***************************************************************************)
(* That each of the three shells implements LinePipes: every step of a     *)
(* shell is a step of LinePipes or changes nothing that is promised.       *)
(***************************************************************************)
EXTENDS Shells_proofs

USE MaxNPositive, MaxFdNatural, ProgramsNatural, NoneIsNoEnd, BoundsNatural

-----------------------------------------------------------------------------
(* What the shells promise *)

\* The variables of LinePipes.
Dues  == Own(Ras!due, Rwg!due, Abbie!due)
Input == Own(Ras!input, Rwg!input, Abbie!input)
promised == <<line, Dues, Input, got, count, starved>>

\* A pipe that is not made yet holds nothing.
Untouched == \A p \in Pipes : p > count => data[p] = <<>>

\* The steps of LinePipes, in the words of this module.
LEMMA PromiseIs ==
  /\ /\ line = <<>> /\ line' \in Seq(Command) /\ Legal(line') /\ Input' = Dues[1]
     /\ Dues' = [k \in 1..MaxN |-> IF k < MaxN THEN Dues[k + 1] ELSE <<>>]
     /\ UNCHANGED <<got, count, starved>>
     => Promise!Next
  /\ /\ line # <<>> /\ Head(line).kind = "builtin" /\ line' = Tail(line)
     /\ UNCHANGED <<Dues, Input, got, count, starved>>
     => Promise!Next
  /\ /\ line # <<>> /\ Head(line).kind # "builtin" /\ count' = count + 1 /\ line' = Tail(line)
     /\ got' = IF Head(line).kind = "prog" THEN Input ELSE got
     /\ Input' = IF Head(line).link = "pipe" THEN <<count + 1>> ELSE <<>>
     /\ Dues' = IF Numbered(Head(line).link)
                THEN [Dues EXCEPT ![Head(line).n] = Append(@, count + 1)] ELSE Dues
     /\ starved' = starved
     => Promise!Next
  /\ /\ line # <<>> /\ ((Head(line).kind = "unknown" /\ starved' = starved) \/ starved' = TRUE)
     /\ line' = <<>> /\ Input' = <<>> /\ UNCHANGED <<Dues, got, count>>
     => Promise!Next
  /\ /\ line = <<>> /\ Input' = <<>> /\ UNCHANGED <<line, Dues, got, count, starved>>
     => Promise!Next
<1>1. /\ Promise!Command = Command /\ \A l : Promise!Legal(l) <=> Legal(l)
      /\ \A k : Promise!Numbered(k) <=> Numbered(k)
  BY DEF Promise!Command, Command, Promise!Legal, Legal, Promise!Numbered, Numbered
<1>2. ASSUME line = <<>>, line' \in Seq(Command), Legal(line'), Input' = Dues[1],
             Dues' = [k \in 1..MaxN |-> IF k < MaxN THEN Dues[k + 1] ELSE <<>>],
             UNCHANGED <<got, count, starved>>
      PROVE  Promise!NextLine
  BY <1>1, <1>2 DEF Promise!NextLine, Dues, Input
<1>3. ASSUME line # <<>>, Head(line).kind = "builtin", line' = Tail(line),
             UNCHANGED <<Dues, Input, got, count, starved>>
      PROVE  Promise!Builtin
  BY <1>3 DEF Promise!Builtin, Dues, Input
<1>4. ASSUME line # <<>>, Head(line).kind # "builtin", count' = count + 1, line' = Tail(line),
             got' = IF Head(line).kind = "prog" THEN Input ELSE got,
             Input' = IF Head(line).link = "pipe" THEN <<count + 1>> ELSE <<>>,
             Dues' = IF Numbered(Head(line).link)
                     THEN [Dues EXCEPT ![Head(line).n] = Append(@, count + 1)] ELSE Dues,
             starved' = starved
      PROVE  Promise!Run
  BY <1>1, <1>4 DEF Promise!Run, Dues, Input
<1>5. ASSUME line # <<>>, (Head(line).kind = "unknown" /\ starved' = starved) \/ starved' = TRUE,
             line' = <<>>, Input' = <<>>, UNCHANGED <<Dues, got, count>>
      PROVE  Promise!GiveUp
  BY <1>5 DEF Promise!GiveUp, Dues, Input
<1>6. ASSUME line = <<>>, Input' = <<>>, UNCHANGED <<line, Dues, got, count, starved>>
      PROVE  Promise!EndLine
  BY <1>6 DEF Promise!EndLine, Dues, Input
<1> QED BY <1>2, <1>3, <1>4, <1>5, <1>6 DEF Promise!Next

\* What is due in a line is what is in the pipe that waits for it.
LEMMA SentIs ==
  ASSUME Apart, NEW d \in Int, NEW k \in 1..MaxN
  PROVE  /\ \A e \in queue : e.remains = k - d => Sent(d)[k] = Content(e.rd)
         /\ (\A e \in queue : e.remains # k - d) => Sent(d)[k] = <<>>
<1> DEFINE es == {e \in queue : e.remains = k - d}
<1>1. Sent(d)[k] = IF es = {} THEN <<>> ELSE Content((CHOOSE e \in es : TRUE).rd)
  BY DEF Sent
<1>2. ASSUME NEW e \in queue, e.remains = k - d PROVE Sent(d)[k] = Content(e.rd)
  <2>1. e \in es
    BY <1>2
  <2>2. (CHOOSE x \in es : TRUE) \in es
    BY <2>1
  <2>3. (CHOOSE x \in es : TRUE) = e
    BY <1>2, <2>2 DEF Apart
  <2> QED BY <1>1, <2>1, <2>3
<1>3. ASSUME \A e \in queue : e.remains # k - d PROVE Sent(d)[k] = <<>>
  <2>1. es = {}
    BY <1>3
  <2> QED BY <1>1, <2>1
<1> QED BY <1>2, <1>3

LEMMA SentIsNext ==
  ASSUME Apart', NEW d \in Int, NEW k \in 1..MaxN
  PROVE  /\ \A e \in queue' : e.remains = k - d => Sent(d)'[k] = Content(e.rd)'
         /\ (\A e \in queue' : e.remains # k - d) => Sent(d)'[k] = <<>>
<1> DEFINE es == {e \in queue : e.remains = k - d}
           rd == (CHOOSE e \in es : TRUE).rd
<1>1. Sent(d)'[k] = IF es' = {} THEN <<>> ELSE Content(rd)'
  BY DEF Sent
<1>2. ASSUME NEW e \in queue', e.remains = k - d PROVE Sent(d)'[k] = Content(e.rd)'
  <2>1. e \in es'
    BY <1>2
  <2>2. (CHOOSE x \in es' : TRUE) \in es'
    BY <2>1
  <2>3. (CHOOSE x \in es' : TRUE) = e
    BY <1>2, <2>2 DEF Apart
  <2>4. rd' = e.rd
    BY <2>3
  <2>5. Content(rd)' = Content(e.rd)'
    BY <2>4 DEF Content, Ends
  <2> QED BY <1>1, <2>1, <2>5
<1>3. ASSUME \A e \in queue' : e.remains # k - d PROVE Sent(d)'[k] = <<>>
  <2>1. es' = {}
    BY <1>3
  <2> QED BY <1>1, <2>1
<1> QED BY <1>2, <1>3

\* How what is due follows the pipes that wait.
LEMMA SentMoves ==
  ASSUME Apart, Apart', NEW d \in Int, NEW c \in Int, NEW k \in 1..MaxN, NEW j \in 1..MaxN,
         \A e \in queue : e.remains = k - d =>
           \E x \in queue' : x.remains = j - c /\ Content(x.rd)' = Content(e.rd),
         \A x \in queue' : x.remains = j - c =>
           Content(x.rd)' = <<>> \/ \E e \in queue : e.remains = k - d
  PROVE  Sent(c)'[j] = Sent(d)[k]
<1>1. CASE \E e \in queue : e.remains = k - d
  <2>1. PICK e \in queue : e.remains = k - d
    BY <1>1
  <2>2. PICK x \in queue' : x.remains = j - c /\ Content(x.rd)' = Content(e.rd)
    BY <2>1
  <2> QED BY <2>1, <2>2, SentIs, SentIsNext
<1>2. CASE \A e \in queue : e.remains # k - d
  <2>1. CASE \E x \in queue' : x.remains = j - c
    <3>1. PICK x \in queue' : x.remains = j - c
      BY <2>1
    <3> QED BY <1>2, <3>1, SentIs, SentIsNext
  <2>2. CASE \A x \in queue' : x.remains # j - c
    BY <1>2, <2>2, SentIs, SentIsNext
  <2> QED BY <2>1, <2>2
<1> QED BY <1>1, <1>2

\* What waits for lines is a function of their numbers.
LEMMA SentForLines ==
  /\ \A d, c : Sent(d)' = Sent(c) <=> \A k \in 1..MaxN : Sent(d)'[k] = Sent(c)[k]
  /\ \A d : Sent(d) = [k \in 1..MaxN |-> Sent(d)[k]]
  /\ \A d : Sent(d)' = [k \in 1..MaxN |-> Sent(d)'[k]]
BY DEF Sent

\* A pipe holds the same as long as nobody runs.
LEMMA ContentStays ==
  ASSUME NEW f, Ends(f, "r"), open'[f] = open[f], data' = data PROVE Content(f)' = Content(f)
BY DEF Content, Ends

\* The two ways to count.
LEMMA SentNow ==
  ASSUME Apart
  PROVE  \A k \in 1..MaxN :
           /\ \A e \in queue : e.remains = k => Sent(0)[k] = Content(e.rd)
           /\ (\A e \in queue : e.remains # k) => Sent(0)[k] = <<>>
           /\ \A e \in queue : e.remains = k - 1 => Sent(1)[k] = Content(e.rd)
           /\ (\A e \in queue : e.remains # k - 1) => Sent(1)[k] = <<>>
<1>1. 0 \in Int /\ 1 \in Int /\ \A k \in 1..MaxN : k - 0 = k
  OBVIOUS
<1>2. ASSUME NEW k \in 1..MaxN
      PROVE  /\ \A e \in queue : e.remains = k - 0 => Sent(0)[k] = Content(e.rd)
             /\ (\A e \in queue : e.remains # k - 0) => Sent(0)[k] = <<>>
  BY <1>1, SentIs
<1>3. ASSUME NEW k \in 1..MaxN
      PROVE  /\ \A e \in queue : e.remains = k - 1 => Sent(1)[k] = Content(e.rd)
             /\ (\A e \in queue : e.remains # k - 1) => Sent(1)[k] = <<>>
  BY <1>1, SentIs
<1> QED BY <1>1, <1>2, <1>3

LEMMA SentNext ==
  ASSUME Apart'
  PROVE  \A k \in 1..MaxN :
           /\ \A e \in queue' : e.remains = k => Sent(0)'[k] = Content(e.rd)'
           /\ (\A e \in queue' : e.remains # k) => Sent(0)'[k] = <<>>
           /\ \A e \in queue' : e.remains = k - 1 => Sent(1)'[k] = Content(e.rd)'
           /\ (\A e \in queue' : e.remains # k - 1) => Sent(1)'[k] = <<>>
<1>1. 0 \in Int /\ 1 \in Int /\ \A k \in 1..MaxN : k - 0 = k
  OBVIOUS
<1>2. ASSUME NEW k \in 1..MaxN
      PROVE  /\ \A e \in queue' : e.remains = k - 0 => Sent(0)'[k] = Content(e.rd)'
             /\ (\A e \in queue' : e.remains # k - 0) => Sent(0)'[k] = <<>>
  BY <1>1, SentIsNext
<1>3. ASSUME NEW k \in 1..MaxN
      PROVE  /\ \A e \in queue' : e.remains = k - 1 => Sent(1)'[k] = Content(e.rd)'
             /\ (\A e \in queue' : e.remains # k - 1) => Sent(1)'[k] = <<>>
  BY <1>1, SentIsNext
<1> QED BY <1>1, <1>2, <1>3

\* Nothing moves between them.
LEMMA SentKept ==
  ASSUME UNCHANGED <<queue, open, data>>
  PROVE  Sent(0)' = Sent(0) /\ Sent(1)' = Sent(1) /\ \A f : Content(f)' = Content(f)
<1>1. \A f : Content(f)' = Content(f)
  BY DEF Content, Ends
<1>2. Sent(0)' = Sent(0) /\ Sent(1)' = Sent(1)
  BY DEF Sent, Content, Ends
<1> QED BY <1>1, <1>2

\* What a program does to the pipes.
LEMMA ContentRuns ==
  ASSUME KernelTypeOK, NEW reads, NEW in, NEW out, Run(reads, in, out),
         NEW f, Ends(f, "r"), open'[f] = open[f]
  PROVE  /\ Ends(out, "w") /\ open[out].pipe = open[f].pipe =>
              Content(f)' = Append(Content(f), count + 1)
         /\ (Ends(out, "w") => open[out].pipe # open[f].pipe) =>
              IF reads /\ Ends(in, "r") /\ open[in].pipe = open[f].pipe
              THEN Content(f)' = <<>> ELSE Content(f)' = Content(f)
<1>1. open[f].pipe \in Pipes /\ Content(f) = data[open[f].pipe] /\ Content(f)' = data'[open[f].pipe]
  BY DEF KernelTypeOK, PipeEnd, Content, Ends
<1> QED BY <1>1 DEF Run

\* Where no pipe is read, nothing is.
LEMMA NoContent == \A f : (~Ends(f, "r") => Content(f) = <<>>) /\ (~Ends(f, "r")' => Content(f)' = <<>>)
BY DEF Content

\* A program writes into a pipe that is made.
LEMMA UntouchedStays ==
  ASSUME KernelTypeOK, Untouched, Old, pc = "fork", NEW reads, NEW in, NEW out, Run(reads, in, out)
  PROVE  Untouched'
<1> SUFFICES ASSUME NEW p \in Pipes, p > count + 1 PROVE data'[p] = <<>>
  BY DEF Untouched, Run
<1>1. count \in Nat /\ p \in Nat /\ p > count
  BY DEF KernelTypeOK, Pipes
<1>2. Ends(out, "w") => open[out].pipe # p
  <2> SUFFICES ASSUME Ends(out, "w") PROVE open[out].pipe # p
    OBVIOUS
  <2>1. open[out].pipe <= count + 1
    BY DEF Old, Open, Ends
  <2> QED BY <1>1, <2>1
<1> QED BY <1>1, <1>2 DEF Untouched, Run

-----------------------------------------------------------------------------
(* RasShell keeps the promise *)

RasStdin ==
  IF Ends(locals.npipeIn, "r") THEN locals.npipeIn
  ELSE IF locals.previousPipe /\ Ends(locals.pipeNext, "r") THEN locals.pipeNext ELSE 0

\* What RasShell makes of the variables of LinePipes.
LEMMA RasPromised ==
  ASSUME shell = "ras", shell' = "ras"
  PROVE  /\ Dues = Sent(0) /\ Dues' = Sent(0)' /\ Ras!Stdin = RasStdin
         /\ Input = IF pc \in {"run", "fork"} THEN Content(RasStdin) ELSE <<>>
         /\ Input' = IF pc' \in {"run", "fork"} THEN Content(RasStdin)' ELSE <<>>
<1>1. Dues = Ras!due /\ Dues' = Ras!due' /\ Input = Ras!input /\ Input' = Ras!input'
  BY DEF Dues, Input, Own
<1>2. Ras!due = Sent(0) /\ Ras!due' = Sent(0)'
  BY DEF Ras!due, Ras!Sent, Sent, Ras!Content, Content, Ras!Ends, Ends, Ras!Fds, Fds
<1>3. Ras!Stdin = RasStdin
  BY RasKernel DEF Ras!Stdin, RasStdin
<1>4. /\ Ras!input = IF pc \in {"run", "fork"} THEN Content(RasStdin) ELSE <<>>
      /\ Ras!input' = IF pc' \in {"run", "fork"} THEN Content(RasStdin)' ELSE <<>>
  BY DEF Ras!input, Ras!Stdin, RasStdin, Ras!Content, Content, Ras!Ends, Ends, Ras!Fds, Fds
<1> QED BY <1>1, <1>2, <1>3, <1>4

\* Where nothing moves, nothing is promised.
LEMMA RasIdles ==
  ASSUME shell = "ras", shell' = "ras", UNCHANGED <<pc, queue, locals, open, data>>
  PROVE  Dues' = Dues /\ Input' = Input
<1>1. Dues' = Dues
  BY RasPromised, SentKept
<1>2. PICK f : f = RasStdin
  OBVIOUS
<1>3. RasStdin' = f
  BY <1>2 DEF RasStdin, Ends
<1>4. Content(RasStdin)' = Content(f)'
  BY <1>3 DEF Content, Ends
<1>5. Content(f)' = Content(f)
  BY SentKept
<1> QED BY <1>1, <1>2, <1>4, <1>5, RasPromised

\* What the promise's steps need of the invariant.
LEMMA RasFacts ==
  ASSUME RasInv
  PROVE  /\ KernelTypeOK /\ Apart /\ Sole /\ Old /\ count \in Nat
         /\ \A e \in queue : e.remains \in Int /\ Ends(e.rd, "r") /\ e.remains <= MaxN
         /\ Sent(0) \in [1..MaxN -> Seq(Pipes)]
<1>1. /\ KernelTypeOK /\ Apart /\ Sole /\ Old /\ count \in Nat
      /\ \A e \in queue : e.remains \in Int /\ Ends(e.rd, "r") /\ e.remains <= MaxN
  BY RasTypesAre DEF RasInv, RasQueue
<1>2. ASSUME NEW k \in 1..MaxN PROVE Sent(0)[k] \in Seq(Pipes)
  <2>1. \A f : Content(f) \in Seq(Pipes)
    BY <1>1 DEF Content, Ends, KernelTypeOK, PipeEnd
  <2>2. CASE \E e \in queue : e.remains = k - 0
    BY <1>1, <2>1, <2>2, SentIs
  <2>3. CASE \A e \in queue : e.remains # k - 0
    <3>1. Sent(0)[k] = <<>>
      BY <1>1, <2>3, SentIs
    <3>2. <<>> \in Seq(Pipes)
      OBVIOUS
    <3> QED BY <3>1, <3>2
  <2> QED BY <2>2, <2>3
<1> QED BY <1>1, <1>2, SentForLines

\* A line that comes takes what was sent to it.
LEMMA RasEnterKeeps ==
  ASSUME RasInv, RasInv', shell = "ras", shell' = "ras", pc = "prompt", NEW l \in Lines, Ras!Enter(l)
  PROVE  Promise!Next
<1> DEFINE past == {e \in queue : e.remains = 1}
<1>1. /\ Typed(l) /\ queue' = Down(queue) /\ pc' = "run"
      /\ open' = Closed({e.wr : e \in past}, open)
      /\ \E in \in (IF past = {} THEN {0} ELSE {e.rd : e \in past}), prev \in BOOLEAN :
           locals' = [npipeIn |-> in, pipeCurr |-> <<0, 0>>, pipeNext |-> 0,
                      previousPipe |-> prev, elementExist |-> FALSE]
      /\ UNCHANGED <<data, got, count, starved>>
  BY RasKernel DEF Ras!Enter, Down, Less
<1>2. PICK in : /\ in \in (IF past = {} THEN {0} ELSE {e.rd : e \in past})
                /\ locals'.npipeIn = in /\ locals'.pipeNext = 0
  BY <1>1
<1>3. /\ KernelTypeOK /\ Apart /\ queue \subseteq Waiting
      /\ \A e \in queue : e.remains \in Int /\ Ends(e.rd, "r") /\ e.remains <= MaxN
      /\ \A e \in queue : e.remains = 1 => Ends(e.wr, "w")
  BY RasFacts, RasTypesAre DEF RasInv, RasQueue, Whole
<1>4. line = <<>> /\ line' = l /\ l \in Seq(Command) /\ Legal(l) /\ Apart'
  BY <1>1, LinesLegal, RasFacts DEF RasInv, RasWords, RasQueue, Typed
<1>5. ASSUME NEW e \in queue PROVE Ends(e.rd, "r")' /\ Content(e.rd)' = Content(e.rd)
  <2>1. e.rd \in Fds /\ e.rd \notin {x.wr : x \in past}
    BY <1>3 DEF Ends
  <2>2. open'[e.rd] = open[e.rd]
    BY <1>1, <2>1 DEF Closed
  <2>3. Content(e.rd)' = Content(e.rd)
    BY <1>1, <1>3, <2>2, ContentStays
  <2> QED BY <1>3, <2>2, <2>3 DEF Ends
<1>6. /\ \A x \in queue' : \E e \in queue : e.remains = x.remains + 1 /\ e.rd = x.rd
      /\ \A e \in queue : \E x \in queue' : e.remains = x.remains + 1 /\ e.rd = x.rd
      /\ \A x \in queue' : x.remains \in Int
  BY <1>1, <1>3, CountedDown DEF Waiting
<1>7. Input' = Dues[1]
  <2>1. MaxN \in Nat /\ 1 \in 1..MaxN
    BY MaxNPositive
  <2>2. Input' = Content(RasStdin)' /\ Dues = Sent(0)
    BY <1>1, RasPromised
  <2>3. CASE past = {}
    <3>1. in = 0 /\ RasStdin' = 0
      BY <1>2, <2>3, ZeroIsNoFd DEF RasStdin, Ends
    <3>2. Content(RasStdin)' = <<>>
      BY <3>1, ZeroIsNoFd DEF Content, Ends
    <3>3. Sent(0)[1] = <<>>
      BY <1>3, <2>1, <2>3, SentIs
    <3> QED BY <2>2, <3>2, <3>3
  <2>4. CASE past # {}
    <3>1. PICK e \in queue : e.remains = 1 /\ in = e.rd
      BY <1>2, <2>4
    <3>2. RasStdin' = e.rd
      BY <1>2, <1>5, <3>1 DEF RasStdin, Ends
    <3>3. Content(RasStdin)' = Content(e.rd)'
      BY <3>2 DEF Content, Ends
    <3>4. Sent(0)[1] = Content(e.rd)
      BY <1>3, <2>1, <3>1, SentIs
    <3> QED BY <1>5, <2>2, <3>3, <3>4
  <2> QED BY <2>3, <2>4
<1>8. Dues' = [k \in 1..MaxN |-> IF k < MaxN THEN Dues[k + 1] ELSE <<>>]
  <2>1. ASSUME NEW k \in 1..MaxN PROVE Sent(0)'[k] = IF k < MaxN THEN Sent(0)[k + 1] ELSE <<>>
    <3>1. CASE k < MaxN
      <4>1. k + 1 \in 1..MaxN
        BY <3>1
      <4>2. \A e \in queue : e.remains = k + 1 - 0 =>
              \E x \in queue' : x.remains = k - 0 /\ Content(x.rd)' = Content(e.rd)
        BY <1>3, <1>5, <1>6
      <4>3. \A x \in queue' : x.remains = k - 0 => \E e \in queue : e.remains = k + 1 - 0
        BY <1>6
      <4>4. Sent(0)'[k] = Sent(0)[k + 1]
        BY <1>3, <1>4, <4>1, <4>2, <4>3, SentMoves
      <4> QED BY <3>1, <4>4
    <3>2. CASE ~(k < MaxN)
      <4>1. \A x \in queue' : x.remains # k - 0
        BY <1>3, <1>6, <3>2
      <4> QED BY <1>4, <3>2, <4>1, SentIsNext
    <3> QED BY <3>1, <3>2
  <2>2. Dues = Sent(0) /\ Dues' = Sent(0)'
    BY RasPromised
  <2>3. Sent(0)' = [k \in 1..MaxN |-> Sent(0)'[k]]
    BY SentForLines
  <2> QED BY <2>1, <2>2, <2>3
<1> QED BY <1>1, <1>4, <1>7, <1>8, PromiseIs


\* A built-in command changes nothing that is promised.
LEMMA RasBuiltinKeeps ==
  ASSUME RasInv, shell = "ras", shell' = "ras", Ras!Builtin PROVE Promise!Next
<1>1. /\ pc = "run" /\ cmds # <<>> /\ Ras!curr.y[1] = "builtin" /\ line' = Tail(line)
      /\ UNCHANGED <<pc, queue, locals, open, data, got, count, starved>>
  BY DEF Ras!Builtin, Ras!InLoop, Ras!world
<1>2. line # <<>> /\ Head(line).kind = "builtin"
  BY <1>1, RasTypesAre, RasNext DEF RasInv, RasWords
<1>3. Dues' = Dues
  BY <1>1, RasIdles
<1>4. Input' = Input
  BY <1>1, RasIdles
<1> QED BY <1>1, <1>2, <1>3, <1>4, PromiseIs

\* Nor does the preparation of a program, as the pipes that are read stay as they are.
LEMMA RasPreparesKeeps ==
  ASSUME RasInv, RasInv', shell = "ras", shell' = "ras", Ras!MakePipe \/ Ras!NoPipe PROVE UNCHANGED promised
<1>1. /\ pc = "run" /\ pc' = "fork" /\ UNCHANGED <<line, queue, data, got, count, starved>>
      /\ locals'.npipeIn = locals.npipeIn /\ locals'.pipeNext = locals.pipeNext
      /\ locals'.previousPipe = locals.previousPipe
      /\ \A f : Ends(f, "r") => open'[f] = open[f]
  <2>0. locals \in [npipeIn : Descr, pipeCurr : Descr \X Descr, pipeNext : Descr,
                    previousPipe : BOOLEAN, elementExist : BOOLEAN]
    BY RasTypesAre DEF RasInv
  <2>1. CASE Ras!MakePipe
    <3>1. PICK r, w \in Fds :
            /\ open[r] = None /\ open[w] = None
            /\ pc = "run" /\ pc' = "fork" /\ UNCHANGED <<line, queue, data, got, count, starved>>
            /\ \/ /\ locals' = [locals EXCEPT !.pipeCurr = <<r, w>>]
                  /\ open' = [open EXCEPT ![r] = [pipe |-> count + 1, end |-> "r"],
                                          ![w] = [pipe |-> count + 1, end |-> "w"]]
               \/ \E e \in queue :
                    /\ locals' = [locals EXCEPT !.pipeCurr = <<r, e.wr>>, !.elementExist = TRUE]
                    /\ open' = [open EXCEPT ![r] = [pipe |-> count + 1, end |-> "r"]]
      BY <2>1, RasMakes
    <3>2. ASSUME NEW f, Ends(f, "r") PROVE open'[f] = open[f]
      BY <3>1, <3>2, RasTypesAre DEF RasInv, Ends
    <3> QED BY <2>0, <3>1, <3>2
  <2>2. CASE Ras!NoPipe
    BY <2>2 DEF Ras!NoPipe, Ras!Program, Ras!InLoop, Ras!world
  <2> QED BY <2>1, <2>2
<1>2. /\ Apart /\ Apart' /\ \A e \in queue : e.remains \in Int /\ Ends(e.rd, "r")
  BY RasFacts DEF RasInv, RasQueue
<1>3. ASSUME NEW f, Ends(f, "r") PROVE Ends(f, "r")' /\ Content(f)' = Content(f)
  BY <1>1, <1>3, ContentStays DEF Ends
<1>4. Dues' = Dues
  <2>1. ASSUME NEW k \in 1..MaxN PROVE Sent(0)'[k] = Sent(0)[k]
    BY <1>1, <1>2, <1>3, SentMoves
  <2> QED BY <2>1, RasPromised, SentForLines
<1>5. Input' = Input
  <2>1. /\ locals.npipeIn = 0 \/ Ends(locals.npipeIn, "r")
        /\ locals.pipeNext = 0 \/ Ends(locals.pipeNext, "r")
        /\ \A end : ~Ends(0, end) /\ ~Ends(0, end)'
    <3>1. line # <<>>
      <4>1. cmds # <<>> /\ RasFinds(cmds, line) /\ line \in Seq(Command) /\ Legal(line)
        BY <1>1, RasTypesAre DEF Ras!MakePipe, Ras!NoPipe, Ras!Program, Ras!InLoop, RasInv, RasWords
      <4> QED BY <4>1, RasNext
    <3> QED BY <1>1, <3>1, ZeroIsNoFd DEF RasInv, RasInput, RasQueue, Ends
  <2>2. RasStdin' = RasStdin /\ (RasStdin = 0 \/ Ends(RasStdin, "r"))
    BY <1>1, <1>3, <2>1 DEF RasStdin
  <2>3. Content(RasStdin)' = Content(RasStdin)
    <3>1. CASE RasStdin = 0
      BY <2>1, <2>2, <3>1 DEF Content
    <3>2. CASE Ends(RasStdin, "r")
      BY <1>3, <2>2, <3>2 DEF Content, Ends
    <3> QED BY <2>2, <3>1, <3>2
  <2> QED BY <1>1, <2>3, RasPromised
<1> QED BY <1>1, <1>4, <1>5 DEF promised

\* A line that is given up, or ends, takes its input with it.
LEMMA RasStopsKeeps ==
  ASSUME RasInv, RasInv', shell = "ras", shell' = "ras", Ras!PipeFails \/ Ras!EndLine \/ Ras!Exit
  PROVE  Promise!Next \/ UNCHANGED promised
<1>0. Input' = <<>>
  BY RasPromised DEF Ras!PipeFails, Ras!EndLine, Ras!Exit
<1>1. CASE Ras!PipeFails
  <2>1. /\ pc = "run" /\ cmds # <<>> /\ line' = <<>> /\ starved' = TRUE
        /\ UNCHANGED <<queue, open, data, got, count>>
    BY <1>1 DEF Ras!PipeFails, Ras!Program, Ras!InLoop
  <2>2. line # <<>>
    BY <2>1, RasTypesAre, RasNext DEF RasInv, RasWords
  <2>3. Dues' = Dues
    BY <2>1, RasPromised DEF Sent, Content, Ends
  <2> QED BY <1>0, <2>1, <2>2, <2>3, PromiseIs
<1>2. CASE Ras!EndLine
  <2> DEFINE gone == {e \in queue : e.remains = 0}
  <2>1. /\ pc = "run" /\ cmds = <<>> /\ queue' = queue \ gone
        /\ open' = Closed({e.rd : e \in gone}, open)
        /\ UNCHANGED <<line, data, got, count, starved>>
    BY <1>2, RasKernel DEF Ras!EndLine
  <2>2. line = <<>>
    BY <2>1, RasTypesAre, RasNext DEF RasInv, RasWords
  <2>3. /\ Apart /\ Apart' /\ \A e \in queue : e.remains \in Int /\ Ends(e.rd, "r")
    BY RasFacts DEF RasInv, RasQueue
  <2>4. ASSUME NEW e \in queue, e.remains # 0 PROVE e \in queue' /\ Content(e.rd)' = Content(e.rd)
    <3>1. e.rd \in Fds /\ e.rd \notin {x.rd : x \in gone}
      BY <2>3, <2>4 DEF Apart, Ends
    <3>2. open'[e.rd] = open[e.rd]
      BY <2>1, <3>1 DEF Closed
    <3> QED BY <2>1, <2>3, <2>4, <3>2, ContentStays
  <2>5. Dues' = Dues
    <3>1. ASSUME NEW k \in 1..MaxN PROVE Sent(0)'[k] = Sent(0)[k]
      <4>1. k - 0 = k /\ k # 0
        OBVIOUS
      <4>2. \A e \in queue : e.remains = k - 0 =>
              \E x \in queue' : x.remains = k - 0 /\ Content(x.rd)' = Content(e.rd)
        BY <2>4, <4>1
      <4>3. \A x \in queue' : x.remains = k - 0 => \E e \in queue : e.remains = k - 0
        BY <2>1
      <4> QED BY <2>3, <4>2, <4>3, SentMoves
    <3> QED BY <3>1, RasPromised, SentForLines
  <2> QED BY <1>0, <2>1, <2>2, <2>5, PromiseIs
<1>3. CASE Ras!Exit
  <2>1. pc = "prompt" /\ UNCHANGED <<line, queue, open, data, got, count, starved>>
    BY <1>3 DEF Ras!Exit, Ras!world
  <2>2. Input = <<>> /\ Dues' = Dues
    BY <2>1, RasPromised DEF Sent, Content, Ends
  <2> QED BY <1>0, <2>1, <2>2 DEF promised
<1> QED BY <1>1, <1>2, <1>3


\* A program reads its input and writes where the sign behind it says.
LEMMA RasRunKeeps ==
  ASSUME RasInv, RasInv', Untouched, shell = "ras", shell' = "ras", Ras!RunProgram
  PROVE  Promise!Next /\ Untouched'
<1> DEFINE h == Head(line)
<1>0. PICK r, w, in, out, next :
        /\ r = locals.pipeCurr[1] /\ w = locals.pipeCurr[2] /\ next = locals.pipeNext /\ in = RasStdin
        /\ out = IF h.link = "file" THEN 0 ELSE IF h.link = "end" THEN 0 ELSE w
  OBVIOUS
<1>1. /\ pc = "fork" /\ pc' = "run" /\ line # <<>> /\ h.kind # "builtin"
      /\ Run(h.kind = "prog", in, out)
      /\ locals'.npipeIn = 0
      /\ h.link = "pipe" => locals'.pipeNext = r /\ locals'.previousPipe
  <2>1. locals \in [npipeIn : Descr, pipeCurr : Descr \X Descr, pipeNext : Descr,
                    previousPipe : BOOLEAN, elementExist : BOOLEAN]
    BY RasTypesAre DEF RasInv
  <2>2. Ras!Stdin = RasStdin
    BY RasPromised
  <2> QED BY <1>0, <2>1, <2>2, RasRuns
<1>2. \E fds :
        /\ open' = Closed(fds, open)
        /\ \/ /\ h.link \in {"end", "file"} /\ line' = <<>> /\ queue' = queue
              /\ fds = {next, r, w}
           \/ /\ h.link = "pipe" /\ line' # <<>> /\ queue' = queue
              /\ fds = {next, w}
           \/ /\ Numbered(h.link) /\ line' = <<>> /\ locals.elementExist /\ queue' = queue
              /\ fds = {next, r}
           \/ /\ Numbered(h.link) /\ line' = <<>> /\ ~locals.elementExist
              /\ queue' = queue \cup {[remains |-> h.n, rd |-> r, wr |-> w]}
              /\ fds = {next}
  BY <1>0, RasRuns, Zenon
<1>3. PICK fds :
        /\ open' = Closed(fds, open)
        /\ \/ /\ h.link \in {"end", "file"} /\ line' = <<>> /\ queue' = queue
              /\ fds = {next, r, w}
           \/ /\ h.link = "pipe" /\ line' # <<>> /\ queue' = queue
              /\ fds = {next, w}
           \/ /\ Numbered(h.link) /\ line' = <<>> /\ locals.elementExist /\ queue' = queue
              /\ fds = {next, r}
           \/ /\ Numbered(h.link) /\ line' = <<>> /\ ~locals.elementExist
              /\ queue' = queue \cup {[remains |-> h.n, rd |-> r, wr |-> w]}
              /\ fds = {next}
  BY <1>2
<1>4. /\ KernelTypeOK /\ Apart /\ Sole /\ Old /\ count \in Nat /\ Apart'
      /\ \A e \in queue : e.remains \in Int /\ Ends(e.rd, "r") /\ e.remains <= MaxN
      /\ Sent(0) \in [1..MaxN -> Seq(Pipes)]
  BY RasFacts DEF RasInv, RasQueue
<1>5. /\ count + 1 \in Pipes /\ line' = Tail(line) /\ count' = count + 1 /\ starved' = starved
      /\ got' = IF h.kind = "prog" THEN Content(in) ELSE got
  BY <1>1, <1>4, NextPipe DEF Run, RasInv, RasWords
<1>6. /\ h.link \in {"end", "pipe", "num", "err", "file"} /\ h.n \in 0..MaxN
      /\ (Numbered(h.link) <=> h.n # 0)
      /\ h.link = "pipe" <=> Tail(line) # <<>>
  <2>1. h \in Command /\ (Numbered(h.link) <=> h.n # 0) /\ (h.link = "pipe" <=> Tail(line) # <<>>)
    BY <1>1, <1>4, RestOfLine DEF KernelTypeOK, RasInv, RasWords
  <2> QED BY <2>1 DEF Command
<1>7. /\ h.link # "file" =>
           /\ Ends(r, "r") /\ open[r].pipe = count + 1 /\ r # next
           /\ Ends(w, "w")
           /\ locals.elementExist =>
                Numbered(h.link) /\ \E e \in queue : e.remains = h.n /\ e.wr = w
           /\ ~locals.elementExist =>
                /\ open[w].pipe = count + 1
                /\ Numbered(h.link) => \A e \in queue : e.remains # h.n
      /\ \A e \in queue : e.remains > 0 => Whole(e)
  BY <1>0, <1>1 DEF RasInv, RasMade, RasQueue
<1>8. Untouched'
  BY <1>1, <1>4, UntouchedStays
<1>9. in = 0 \/ \A e \in queue : e.remains > 0 => open[e.rd].pipe # open[in].pipe
  <2>1. CASE Ends(locals.npipeIn, "r")
    <3>1. PICK d \in queue : d.remains = 0 /\ d.rd = in
      BY <1>0, <1>1, <2>1, ZeroIsNoFd DEF RasInv, RasInput, RasStdin
    <3>2. ASSUME NEW e \in queue, e.remains > 0 PROVE open[e.rd].pipe # open[in].pipe
      <4>1. e.rd # d.rd
        BY <1>4, <3>1, <3>2 DEF Apart
      <4>2. Ends(e.rd, "r") /\ Ends(d.rd, "r")
        BY <1>4
      <4> QED BY <1>4, <3>1, <4>1, <4>2 DEF Sole, Open, Ends
    <3> QED BY <3>2
  <2>2. CASE ~Ends(locals.npipeIn, "r") /\ Ends(next, "r")
    <3>1. \A e \in queue : e.rd # next
      BY <1>0, <1>1, <2>2, ZeroIsNoFd DEF RasInv, RasInput
    <3>2. in \in {0, next}
      BY <1>0, <2>2 DEF RasStdin
    <3> QED BY <1>4, <2>2, <3>1, <3>2 DEF Sole, Open, Ends
  <2>3. CASE ~Ends(locals.npipeIn, "r") /\ ~Ends(next, "r")
    BY <1>0, <2>3 DEF RasStdin
  <2> QED BY <2>1, <2>2, <2>3
<1>10. Input = Content(in) /\ Input' = Content(RasStdin)' /\ Dues = Sent(0) /\ Dues' = Sent(0)'
  BY <1>0, <1>1, RasPromised
<1> HIDE DEF h
<1>11. ASSUME NEW e \in queue, e.remains > 0 PROVE e \in queue' /\ open'[e.rd] = open[e.rd]
  <2>1. e \in queue' /\ Ends(e.rd, "r") /\ Ends(e.rd, "r")'
    <3>1. e \in queue' /\ Ends(e.rd, "r")
      BY <1>3, <1>4
    <3> QED BY <3>1 DEF RasInv, RasQueue
  <2> QED BY <1>3, <2>1 DEF Closed, Ends
<1>12. Input' = IF h.link = "pipe" THEN <<count + 1>> ELSE <<>>
  <2>1. ~Ends(0, "r") /\ ~Ends(0, "r")'
    BY ZeroIsNoFd DEF Ends
  <2>2. CASE h.link = "pipe"
    <3>1. /\ Ends(r, "r") /\ open[r].pipe = count + 1 /\ r # next /\ Ends(w, "w")
          /\ open[w].pipe = count + 1 /\ out = w /\ fds = {next, w}
      BY <1>0, <1>3, <1>7, <2>2 DEF Numbered
    <3>2. r \notin fds
      BY <3>1 DEF Ends
    <3>3. open'[r] = open[r] /\ Ends(r, "r")'
      BY <1>3, <3>1, <3>2 DEF Closed, Ends
    <3>4. RasStdin' = r
      BY <1>1, <2>1, <2>2, <3>3 DEF RasStdin
    <3>5. Content(r)' = Append(Content(r), count + 1)
      BY <1>1, <1>4, <3>1, <3>3, ContentRuns
    <3>6. Content(r) = <<>>
      BY <1>4, <1>5, <3>1 DEF Content, Untouched
    <3>7. Input' = Content(r)'
      BY <1>10, <3>4 DEF Content, Ends
    <3> QED BY <2>2, <3>5, <3>6, <3>7
  <2>3. CASE h.link # "pipe"
    <3>1. line' = <<>>
      BY <1>5, <1>6, <2>3
    <3>2. ~Ends(locals.pipeNext, "r")'
      BY <1>1, <3>1 DEF RasInv, RasInput
    <3>3. ~Ends(RasStdin, "r")'
      BY <1>1, <2>1, <3>2 DEF RasStdin, Ends
    <3> QED BY <1>10, <2>3, <3>3 DEF Content, Ends
  <2> QED BY <2>2, <2>3
<1>13. ASSUME NEW e \in queue, e.remains > 0
       PROVE  Content(e.rd)' = IF Numbered(h.link) /\ e.remains = h.n
                               THEN Append(Content(e.rd), count + 1) ELSE Content(e.rd)
  <2>1. Ends(e.rd, "r") /\ open'[e.rd] = open[e.rd] /\ Whole(e)
    BY <1>4, <1>7, <1>11, <1>13
  <2>2. CASE Numbered(h.link) /\ e.remains = h.n
    <3>1. out = w /\ locals.elementExist
      BY <1>0, <1>7, <1>13, <2>2 DEF Numbered
    <3>2. PICK x \in queue : x.remains = h.n /\ x.wr = w
      BY <1>7, <2>2, <3>1 DEF Numbered
    <3>3. x = e
      BY <1>4, <2>2, <3>2 DEF Apart
    <3>4. Ends(out, "w") /\ open[out].pipe = open[e.rd].pipe
      BY <2>1, <3>1, <3>2, <3>3 DEF Whole
    <3>5. Content(e.rd)' = Append(Content(e.rd), count + 1)
      BY <1>1, <1>4, <2>1, <3>4, ContentRuns
    <3> QED BY <2>2, <3>5
  <2>3. CASE ~(Numbered(h.link) /\ e.remains = h.n)
    <3>1. Ends(out, "w") => open[out].pipe # open[e.rd].pipe
      <4> SUFFICES ASSUME Ends(out, "w"), open[out].pipe = open[e.rd].pipe PROVE FALSE
        OBVIOUS
      <4>1. h.link # "file" /\ out = w
        BY <1>0, ZeroIsNoFd
      <4>2. CASE locals.elementExist
        <5>1. PICK x \in queue : x.remains = h.n /\ x.wr = w
          BY <1>7, <4>1, <4>2
        <5>2. w = e.wr
          BY <1>4, <2>1, <4>1 DEF Whole, Sole, Open, Ends
        <5>3. Numbered(h.link) /\ h.n > 0 /\ Whole(x)
          BY <1>4, <1>6, <1>7, <4>1, <4>2, <5>1
        <5>4. x.rd = e.rd
          BY <1>4, <2>1, <5>1, <5>2, <5>3 DEF Whole, Sole, Open, Ends
        <5>5. x = e
          BY <1>4, <5>4 DEF Apart
        <5> QED BY <2>3, <5>1, <5>3, <5>5
      <4>3. CASE ~locals.elementExist
        <5>1. open[e.rd].pipe = count + 1
          BY <1>7, <4>1, <4>3
        <5>2. open[e.rd].pipe <= count
          BY DEF RasInv, RasQueue
        <5> QED BY <1>4, <5>1, <5>2
      <4> QED BY <4>2, <4>3
    <3>2. ~(Ends(in, "r") /\ open[in].pipe = open[e.rd].pipe)
      BY <1>9, <1>13, ZeroIsNoFd
    <3>3. Content(e.rd)' = Content(e.rd)
      BY <1>1, <1>4, <2>1, <3>1, <3>2, ContentRuns
    <3> QED BY <2>3, <3>3
  <2> QED BY <2>2, <2>3
<1>14. ASSUME NEW x \in queue', x \notin queue
       PROVE  /\ Numbered(h.link) /\ x.remains = h.n /\ \A e \in queue : e.remains # h.n
              /\ Content(x.rd)' = <<count + 1>>
  <2>1. /\ Numbered(h.link) /\ ~locals.elementExist /\ x = [remains |-> h.n, rd |-> r, wr |-> w]
        /\ fds = {next}
    BY <1>3, <1>14
  <2>2. /\ Ends(r, "r") /\ open[r].pipe = count + 1 /\ r # next /\ Ends(w, "w")
        /\ open[w].pipe = count + 1 /\ out = w /\ \A e \in queue : e.remains # h.n
    BY <1>0, <1>7, <2>1 DEF Numbered
  <2>3. open'[r] = open[r]
    BY <1>3, <2>1, <2>2 DEF Closed, Ends
  <2>4. Content(r)' = Append(Content(r), count + 1)
    BY <1>1, <1>4, <2>2, <2>3, ContentRuns
  <2>5. Content(r) = <<>>
    BY <1>4, <1>5, <2>2 DEF Content, Untouched
  <2> QED BY <2>1, <2>2, <2>4, <2>5
<1>15. ASSUME NEW k \in 1..MaxN
       PROVE  Sent(0)'[k] = IF Numbered(h.link) /\ k = h.n THEN Append(Sent(0)[k], count + 1) ELSE Sent(0)[k]
  <2>1. k - 0 = k /\ k > 0
    OBVIOUS
  <2>2. CASE \E e \in queue : e.remains = k
    <3>1. PICK e \in queue : e.remains = k - 0 /\ e.remains > 0 /\ e.remains = k
      BY <2>1, <2>2
    <3>2. Sent(0)[k] = Content(e.rd) /\ Sent(0)'[k] = Content(e.rd)'
      BY <1>4, <1>11, <3>1, SentNow, SentNext
    <3> QED BY <1>13, <3>1, <3>2
  <2>3. CASE \A e \in queue : e.remains # k
    <3>1. Sent(0)[k] = <<>>
      BY <1>4, <2>3, SentNow
    <3>2. CASE \E x \in queue' : x.remains = k
      <4>1. PICK x \in queue' : x.remains = k - 0 /\ x.remains = k
        BY <2>1, <3>2
      <4>2. Numbered(h.link) /\ k = h.n /\ Content(x.rd)' = <<count + 1>>
        BY <1>14, <2>3, <4>1
      <4>3. Sent(0)'[k] = Content(x.rd)'
        BY <1>4, <4>1, SentNext
      <4>4. Append(<<>>, count + 1) = <<count + 1>>
        OBVIOUS
      <4> QED BY <3>1, <4>2, <4>3, <4>4
    <3>3. CASE \A x \in queue' : x.remains # k
      <4>1. Sent(0)'[k] = <<>>
        BY <1>4, <3>3, SentNext
      <4>2. ~(Numbered(h.link) /\ k = h.n)
        <5> SUFFICES ASSUME Numbered(h.link), k = h.n PROVE FALSE
          OBVIOUS
        <5>1. ~locals.elementExist
          BY <1>7, <2>3 DEF Numbered
        <5>2. [remains |-> h.n, rd |-> r, wr |-> w] \in queue'
          BY <1>3, <5>1 DEF Numbered
        <5> QED BY <3>3, <5>2
      <4> QED BY <3>1, <4>1, <4>2
    <3> QED BY <3>2, <3>3
  <2> QED BY <2>2, <2>3
<1>16. Dues' = IF Numbered(h.link) THEN [Dues EXCEPT ![h.n] = Append(@, count + 1)] ELSE Dues
  <2>1. Sent(0)' = [k \in 1..MaxN |-> Sent(0)'[k]] /\ Sent(0) = [k \in 1..MaxN |-> Sent(0)[k]]
    BY SentForLines
  <2>2. CASE Numbered(h.link)
    BY <1>10, <1>15, <2>1, <2>2
  <2>3. CASE ~Numbered(h.link)
    BY <1>10, <1>15, <2>1, <2>3
  <2> QED BY <2>2, <2>3
<1> QED BY <1>1, <1>5, <1>8, <1>10, <1>12, <1>16, PromiseIs DEF h

\* Each step of RasShell is one of the promise, or none.
LEMMA RasKeepsPromise ==
  ASSUME RasInv, RasInv', Untouched, shell = "ras", shell' = "ras", Ras!Next \/ UNCHANGED vars
  PROVE  (Promise!Next \/ UNCHANGED promised) /\ Untouched'
<1>1. Ras!RunProgram \/ (data' = data /\ count' = count)
  BY DEF Ras!Next, Ras!Enter, Ras!Builtin, Ras!MakePipe, Ras!PipeFails, Ras!NoPipe, Ras!EndLine, Ras!Exit,
         Ras!world, vars, world
<1>2. Untouched'
  BY <1>1, RasRunKeeps DEF Untouched
<1>3. CASE UNCHANGED vars
  <2>1. /\ pc' = pc /\ UNCHANGED <<line, queue, locals, open, data, got, count, starved>>
    BY <1>3 DEF vars, world
  <2>2. Dues' = Dues
    BY <2>1, RasIdles
  <2>3. Input' = Input
    BY <2>1, RasIdles
  <2> QED BY <1>2, <2>1, <2>2, <2>3 DEF promised
<1>4. CASE \E l \in Lines : pc = "prompt" /\ Ras!Enter(l)
  BY <1>2, <1>4, RasEnterKeeps
<1> QED
  BY <1>2, <1>3, <1>4, RasBuiltinKeeps, RasPreparesKeeps, RasStopsKeeps, RasRunKeeps DEF Ras!Next

-----------------------------------------------------------------------------
(* RwgShell keeps the promise *)

\* At the prompt the queue has been counted down, and no line asks for a command
\* that does not exist.
RwgAhead ==
  /\ pc \in {"prompt", "exited"} => \A e \in queue : e.remains < MaxN
  /\ \A i \in 1..Len(line) : line[i].kind # "unknown"

\* By how much the shell has counted down what the client has not typed yet.
RwgDone  == IF pc \in {"prompt", "exited"} THEN 1 ELSE 0
RwgStdin ==
  IF {e \in queue : e.remains = 0} = {} THEN locals.prev[1]
  ELSE (CHOOSE e \in {x \in queue : x.remains = 0} : TRUE).rd

\* What RwgShell makes of the variables of LinePipes.
LEMMA RwgPromised ==
  ASSUME shell = "rwg", shell' = "rwg"
  PROVE  /\ Dues = Sent(RwgDone) /\ Dues' = Sent(RwgDone)' /\ Rwg!Stdin = RwgStdin
         /\ Input = IF pc \in {"run", "fork"} THEN Content(RwgStdin) ELSE <<>>
         /\ Input' = IF pc' \in {"run", "fork"} THEN Content(RwgStdin)' ELSE <<>>
<1>1. Dues = Rwg!due /\ Dues' = Rwg!due' /\ Input = Rwg!input /\ Input' = Rwg!input'
  BY DEF Dues, Input, Own
<1>2. Rwg!due = Sent(RwgDone) /\ Rwg!due' = Sent(RwgDone)'
  BY DEF Rwg!due, Rwg!Sent, Sent, Rwg!Content, Content, Rwg!Ends, Ends, Rwg!Fds, Fds, RwgDone
<1>3. Rwg!Stdin = RwgStdin
  BY DEF Rwg!Stdin, RwgStdin, Rwg!Due
<1>4. /\ Rwg!input = IF pc \in {"run", "fork"} THEN Content(RwgStdin) ELSE <<>>
      /\ Rwg!input' = IF pc' \in {"run", "fork"} THEN Content(RwgStdin)' ELSE <<>>
  BY DEF Rwg!input, Rwg!Stdin, RwgStdin, Rwg!Due, Rwg!Content, Content, Rwg!Ends, Ends, Rwg!Fds, Fds
<1> QED BY <1>1, <1>2, <1>3, <1>4

\* Of a line that runs the queue is still to be counted down.
LEMMA RwgCounts ==
  ASSUME shell = "rwg", shell' = "rwg"
  PROVE  /\ Dues = IF pc \in {"prompt", "exited"} THEN Sent(1) ELSE Sent(0)
         /\ Dues' = IF pc' \in {"prompt", "exited"} THEN Sent(1)' ELSE Sent(0)'
<1>1. Dues = Rwg!due /\ Dues' = Rwg!due'
  BY DEF Dues, Own
<1>2. ASSUME NEW c, c = IF pc \in {"prompt", "exited"} THEN 1 ELSE 0 PROVE Rwg!due = Sent(c)
  BY <1>2 DEF Rwg!due, Rwg!Sent, Sent, Rwg!Content, Content, Rwg!Ends, Ends, Rwg!Fds, Fds
<1>3. ASSUME NEW c, c = IF pc' \in {"prompt", "exited"} THEN 1 ELSE 0 PROVE Rwg!due' = Sent(c)'
  BY <1>3 DEF Rwg!due, Rwg!Sent, Sent, Rwg!Content, Content, Rwg!Ends, Ends, Rwg!Fds, Fds
<1> QED BY <1>1, <1>2, <1>3

\* Where nothing moves, nothing is promised.
LEMMA RwgIdles ==
  ASSUME shell = "rwg", shell' = "rwg", UNCHANGED <<pc, queue, locals, open, data>>
  PROVE  Dues' = Dues /\ Input' = Input
<1>1. Dues' = Dues
  BY RwgCounts, SentKept
<1>2. PICK f : f = RwgStdin
  OBVIOUS
<1>3. RwgStdin' = f
  BY <1>2 DEF RwgStdin
<1>4. Content(RwgStdin)' = Content(f)'
  BY <1>3 DEF Content, Ends
<1>5. Content(f)' = Content(f)
  BY SentKept
<1> QED BY <1>1, <1>2, <1>4, <1>5, RwgPromised

\* What the promise's steps need of the invariant.
LEMMA RwgFacts ==
  ASSUME RwgInv
  PROVE  /\ KernelTypeOK /\ Apart /\ Sole /\ Old /\ count \in Nat /\ queue \subseteq Waiting
         /\ \A e \in queue : e.remains \in 0..MaxN /\ Ends(e.rd, "r")
         /\ \A e \in queue : e.remains # 0 => Whole(e)
         /\ \A d \in Int : Sent(d) \in [1..MaxN -> Seq(Pipes)]
<1>1. /\ KernelTypeOK /\ Apart /\ Sole /\ Old /\ count \in Nat /\ queue \subseteq Waiting
      /\ \A e \in queue : e.remains \in 0..MaxN /\ Ends(e.rd, "r")
      /\ \A e \in queue : e.remains # 0 => Whole(e)
  BY RwgTypesAre DEF RwgInv, RwgQueue
<1>2. ASSUME NEW d \in Int, NEW k \in 1..MaxN PROVE Sent(d)[k] \in Seq(Pipes)
  <2>1. \A f : Content(f) \in Seq(Pipes)
    BY <1>1 DEF Content, Ends, KernelTypeOK, PipeEnd
  <2>2. CASE \E e \in queue : e.remains = k - d
    BY <1>1, <2>1, <2>2, SentIs
  <2>3. CASE \A e \in queue : e.remains # k - d
    <3>1. Sent(d)[k] = <<>>
      BY <1>1, <2>3, SentIs
    <3>2. <<>> \in Seq(Pipes)
      OBVIOUS
    <3> QED BY <3>1, <3>2
  <2> QED BY <2>2, <2>3
<1> QED BY <1>1, <1>2, SentForLines

\* The next input is what waits for this line, or what the "|" before left.
LEMMA RwgStdinIs ==
  ASSUME RwgInv
  PROVE  /\ \A e \in queue : e.remains = 0 => RwgStdin = e.rd
         /\ (\A e \in queue : e.remains # 0) => RwgStdin = locals.prev[1]
<1>1. ASSUME NEW e \in queue, e.remains = 0 PROVE RwgStdin = e.rd
  <2> DEFINE es == {x \in queue : x.remains = 0}
  <2>1. e \in es /\ (CHOOSE x \in es : TRUE) \in es
    BY <1>1
  <2>2. (CHOOSE x \in es : TRUE) = e
    BY <1>1, <2>1, RwgFacts DEF Apart
  <2> QED BY <2>1, <2>2 DEF RwgStdin
<1>2. ASSUME \A e \in queue : e.remains # 0 PROVE RwgStdin = locals.prev[1]
  BY <1>2 DEF RwgStdin
<1> QED BY <1>1, <1>2

LEMMA RwgStdinIsNext ==
  ASSUME RwgInv'
  PROVE  /\ \A e \in queue' : e.remains = 0 => RwgStdin' = e.rd
         /\ (\A e \in queue' : e.remains # 0) => RwgStdin' = locals'.prev[1]
<1>1. ASSUME NEW e \in queue', e.remains = 0 PROVE RwgStdin' = e.rd
  <2> DEFINE es == {x \in queue' : x.remains = 0}
  <2>1. e \in es /\ (CHOOSE x \in es : TRUE) \in es
    BY <1>1
  <2>2. (CHOOSE x \in es : TRUE) = e
    BY <1>1, <2>1 DEF RwgInv, RwgQueue, Apart
  <2> QED BY <2>1, <2>2 DEF RwgStdin
<1>2. ASSUME \A e \in queue' : e.remains # 0 PROVE RwgStdin' = locals'.prev[1]
  BY <1>2 DEF RwgStdin
<1> QED BY <1>1, <1>2

\* A line that comes takes what was sent to it.
LEMMA RwgEnterKeeps ==
  ASSUME RwgInv, RwgInv', RwgAhead, shell = "rwg", shell' = "rwg", pc = "prompt",
         NEW l \in Lines, Rwg!Enter(l)
  PROVE  Promise!Next /\ RwgAhead'
<1>1. /\ Typed(l) /\ pc' = "run" /\ locals' = [locals EXCEPT !.prev = <<0, 0>>, !.next = <<0, 0>>]
      /\ \A i \in 1..Len(l) : l[i].kind # "unknown"
      /\ UNCHANGED <<queue, open, data, got, count, starved>>
  BY RwgKernel DEF Rwg!Enter, Rwg!world
<1>2. /\ line = <<>> /\ line' = l /\ l \in Seq(Command) /\ Legal(l) /\ Apart /\ Apart'
      /\ locals'.prev[1] = 0
      /\ \A e \in queue : e.remains \in 0..MaxN /\ e.remains < MaxN /\ Ends(e.rd, "r")
  <2>1. locals'.prev = <<0, 0>>
    BY <1>1, RwgTypesAre DEF RwgInv
  <2> QED BY <1>1, <2>1, LinesLegal, RwgFacts DEF RwgInv, RwgWords, RwgQueue, Typed, RwgAhead
<1>3. RwgAhead'
  BY <1>1, <1>2 DEF RwgAhead
<1>4. Dues = Sent(1) /\ Dues' = Sent(0)' /\ Input' = Content(RwgStdin)'
  BY <1>1, RwgPromised, RwgCounts
<1>5. ASSUME NEW f, Ends(f, "r") PROVE Content(f)' = Content(f)
  BY <1>1, <1>5, ContentStays
<1>6. Input' = Dues[1]
  <2>1. MaxN \in Nat /\ 1 \in 1..MaxN /\ 1 - 1 = 0
    BY MaxNPositive
  <2>2. CASE \E e \in queue : e.remains = 0
    <3>1. PICK e \in queue : e.remains = 0
      BY <2>2
    <3>2. RwgStdin' = e.rd
      BY <1>1, <3>1, RwgStdinIsNext
    <3>3. Content(RwgStdin)' = Content(e.rd)'
      BY <3>2 DEF Content, Ends
    <3>4. Sent(1)[1] = Content(e.rd)
      BY <1>2, <2>1, <3>1, SentIs
    <3> QED BY <1>2, <1>4, <1>5, <3>1, <3>3, <3>4
  <2>3. CASE \A e \in queue : e.remains # 0
    <3>1. RwgStdin' = 0
      BY <1>1, <1>2, <2>3, RwgStdinIsNext
    <3>2. Content(RwgStdin)' = <<>>
      BY <3>1, ZeroIsNoFd DEF Content, Ends
    <3>3. Sent(1)[1] = <<>>
      BY <1>2, <2>1, <2>3, SentIs
    <3> QED BY <1>4, <3>2, <3>3
  <2> QED BY <2>2, <2>3
<1>7. Dues' = [k \in 1..MaxN |-> IF k < MaxN THEN Dues[k + 1] ELSE <<>>]
  <2>1. ASSUME NEW k \in 1..MaxN PROVE Sent(0)'[k] = IF k < MaxN THEN Sent(1)[k + 1] ELSE <<>>
    <3>1. CASE k < MaxN
      <4>1. k + 1 \in 1..MaxN /\ k + 1 - 1 = k
        BY <3>1
      <4>2. CASE \E e \in queue : e.remains = k
        <5>1. PICK e \in queue : e.remains = k
          BY <4>2
        <5>2. Sent(1)[k + 1] = Content(e.rd)
          BY <1>2, <4>1, <5>1, SentNow
        <5>3. e \in queue' /\ Sent(0)'[k] = Content(e.rd)'
          BY <1>1, <1>2, <5>1, SentNext
        <5> QED BY <1>2, <1>5, <3>1, <5>1, <5>2, <5>3
      <4>3. CASE \A e \in queue : e.remains # k
        <5>1. Sent(1)[k + 1] = <<>>
          BY <1>2, <4>1, <4>3, SentNow
        <5>2. Sent(0)'[k] = <<>>
          BY <1>1, <1>2, <4>3, SentNext
        <5> QED BY <3>1, <5>1, <5>2
      <4> QED BY <4>2, <4>3
    <3>2. CASE ~(k < MaxN)
      <4>1. \A x \in queue' : x.remains # k - 0
        BY <1>1, <1>2, <3>2
      <4> QED BY <1>2, <3>2, <4>1, SentNext
    <3> QED BY <3>1, <3>2
  <2> QED BY <1>4, <2>1, SentForLines
<1> QED BY <1>1, <1>2, <1>3, <1>6, <1>7, PromiseIs

\* A built-in command changes nothing that is promised.
LEMMA RwgBuiltinKeeps ==
  ASSUME RwgInv, RwgAhead, shell = "rwg", shell' = "rwg", Rwg!Builtin PROVE Promise!Next /\ RwgAhead'
<1>1. /\ pc = "run" /\ cmds # <<>> /\ Rwg!curr.words[1] = "builtin" /\ line' = Tail(line)
      /\ UNCHANGED <<pc, queue, locals, open, data, got, count, starved>>
  BY DEF Rwg!Builtin, Rwg!InLoop, Rwg!world
<1>2. line # <<>> /\ Head(line).kind = "builtin" /\ line \in Seq(Command) /\ Legal(line)
  BY <1>1, RwgTypesAre, RwgNext DEF RwgInv, RwgWords
<1>3. Dues' = Dues
  BY <1>1, RwgIdles
<1>4. Input' = Input
  BY <1>1, RwgIdles
<1>5. RwgAhead'
  <2>1. Tail(line) = <<>>
    BY <1>2, RestOfLine
  <2> QED BY <1>1, <2>1 DEF RwgAhead
<1> QED BY <1>1, <1>2, <1>3, <1>4, <1>5, PromiseIs

\* Nor does the preparation of a program: a new pipe holds nothing.
LEMMA RwgPreparesKeeps ==
  ASSUME RwgInv, RwgInv', RwgAhead, Untouched, shell = "rwg", shell' = "rwg",
         Rwg!PrepareLast \/ Rwg!PreparePipe \/ Rwg!PrepareNumbered \/ Rwg!PrepareFile
  PROVE  UNCHANGED promised /\ RwgAhead'
<1> DEFINE h == Head(line)
           dry == {e.wr : e \in Rwg!Due}
<1>1. /\ KernelTypeOK /\ Apart /\ Apart' /\ Sole /\ Old /\ count \in Nat
      /\ \A e \in queue : e.remains \in 0..MaxN /\ Ends(e.rd, "r")
  BY RwgFacts DEF RwgInv, RwgQueue
<1>2. PICK r \in Descr, w \in Descr, f \in Descr, out \in Descr : \E new : RwgPrepared(r, w, f, out, new)
  BY RwgPrepares
<1>3. PICK new : RwgPrepared(r, w, f, out, new)
  BY <1>2
<1>4. /\ pc = "run" /\ pc' = "fork" /\ line # <<>> /\ h.kind # "builtin"
      /\ UNCHANGED <<line, cmds, data, got, count, starved>>
      /\ IsFree(r, dry) /\ IsFree(w, dry) /\ IsFree(f, dry)
      /\ r = w => r = 0
      /\ f = 0 \/ (r = 0 /\ w = 0)
      /\ open' = Table(r, w, f, dry)
      /\ locals'.prev = locals.prev
      /\ \/ queue' = queue
         \/ /\ Numbered(h.link) /\ r # 0
            /\ \A e \in queue : e.remains # h.n
            /\ new = [remains |-> h.n, rd |-> r, wr |-> w] /\ queue' = queue \cup {new}
  BY <1>3 DEF RwgPrepared
<1>5. h.n \in 0..MaxN /\ (Numbered(h.link) <=> h.n # 0)
  <2>1. h \in Command /\ (Numbered(h.link) <=> h.n # 0)
    BY <1>4, RwgTypesAre, RestOfLine DEF RwgInv, RwgWords
  <2> QED BY <2>1 DEF Command
<1>6. count + 1 \in Pipes
  BY <1>1, <1>4, NextPipe DEF RwgInv, RwgWords
<1>7. \A e \in queue : Whole(e)
  BY <1>4 DEF RwgInv, RwgQueue
<1>8. \A g \in dry : Ends(g, "w")
  BY <1>7 DEF Rwg!Due, Whole
<1> HIDE DEF h, dry
<1>9. /\ r # 0 => Ends(r, "r")' /\ open'[r].pipe = count + 1
      /\ \A g, end : Ends(g, end) /\ g \notin dry => Ends(g, end)' /\ open'[g] = open[g]
  BY <1>1, <1>4, <1>6, Preparing
<1>10. ASSUME NEW g, Ends(g, "r") PROVE Ends(g, "r")' /\ Content(g)' = Content(g)
  <2>1. g \notin dry
    BY <1>8, <1>10 DEF Ends
  <2> QED BY <1>4, <1>9, <1>10, <2>1, ContentStays
<1>11. Dues' = Dues
  <2>1. ASSUME NEW k \in 1..MaxN PROVE Sent(0)'[k] = Sent(0)[k]
    <3>1. ASSUME NEW x \in queue', x \notin queue PROVE Content(x.rd)' = <<>>
      <4>1. x.rd = r /\ r # 0
        BY <1>4, <3>1
      <4>2. Content(r)' = data'[count + 1]
        BY <1>9, <4>1 DEF Content
      <4> QED BY <1>1, <1>4, <1>6, <4>1, <4>2 DEF Untouched
    <3>2. \A e \in queue : e \in queue'
      BY <1>4
    <3>3. CASE \E e \in queue : e.remains = k
      <4>1. PICK e \in queue : e.remains = k
        BY <3>3
      <4>2. Sent(0)[k] = Content(e.rd) /\ Sent(0)'[k] = Content(e.rd)'
        BY <1>1, <3>2, <4>1, SentNow, SentNext
      <4> QED BY <1>1, <1>10, <4>1, <4>2
    <3>4. CASE \A e \in queue : e.remains # k
      <4>1. Sent(0)[k] = <<>>
        BY <1>1, <3>4, SentNow
      <4>2. CASE \E x \in queue' : x.remains = k
        <5>1. PICK x \in queue' : x.remains = k
          BY <4>2
        <5>2. Sent(0)'[k] = Content(x.rd)'
          BY <1>1, <5>1, SentNext
        <5> QED BY <3>1, <3>4, <4>1, <5>1, <5>2
      <4>3. CASE \A x \in queue' : x.remains # k
        BY <1>1, <4>1, <4>3, SentNext
      <4> QED BY <4>2, <4>3
    <3> QED BY <3>3, <3>4
  <2>2. Dues = Sent(0) /\ Dues' = Sent(0)'
    BY <1>4, RwgCounts
  <2> QED BY <2>1, <2>2, SentForLines
<1>12. Input' = Input
  <2>1. CASE \E e \in queue : e.remains = 0
    <3>1. PICK e \in queue : e.remains = 0
      BY <2>1
    <3>2. e \in queue' /\ RwgStdin = e.rd /\ RwgStdin' = e.rd
      BY <1>4, <3>1, RwgStdinIs, RwgStdinIsNext
    <3>3. Content(e.rd)' = Content(e.rd)
      BY <1>1, <1>10
    <3>4. Content(RwgStdin)' = Content(e.rd)'
      BY <3>2 DEF Content, Ends
    <3> QED BY <1>4, <3>2, <3>3, <3>4, RwgPromised
  <2>2. CASE \A e \in queue : e.remains # 0
    <3>1. \A e \in queue' : e.remains # 0
      BY <1>4, <1>5, <2>2
    <3>2. PICK p : p = locals.prev[1]
      OBVIOUS
    <3>3. RwgStdin = p /\ RwgStdin' = p
      BY <1>4, <2>2, <3>1, <3>2, RwgStdinIs, RwgStdinIsNext
    <3>4. p = 0 \/ Ends(p, "r")
      BY <1>4, <3>2 DEF RwgInv, RwgBars, Bar
    <3>5. Content(p)' = Content(p)
      BY <1>10, <3>4, ZeroIsNoFd DEF Content, Ends
    <3>6. Content(RwgStdin)' = Content(p)'
      BY <3>3 DEF Content, Ends
    <3> QED BY <1>4, <3>3, <3>5, <3>6, RwgPromised
  <2> QED BY <2>1, <2>2
<1>13. RwgAhead'
  BY <1>4 DEF RwgAhead
<1> QED BY <1>4, <1>11, <1>12, <1>13 DEF promised


\* A line that ends, or a session, takes its input with it.
LEMMA RwgStopsKeeps ==
  ASSUME RwgInv, RwgInv', RwgAhead, shell = "rwg", shell' = "rwg", Rwg!EndLine \/ Rwg!Exit
  PROVE  (Promise!Next \/ UNCHANGED promised) /\ RwgAhead'
<1>0. Input' = <<>>
  BY RwgPromised DEF Rwg!EndLine, Rwg!Exit
<1>1. CASE Rwg!EndLine
  <2> DEFINE past == {e \in queue : e.remains = 0}
  <2>1. /\ pc = "run" /\ cmds = <<>> /\ pc' = "prompt" /\ queue' = Down(queue \ past)
        /\ open' = Closed({e.rd : e \in past}, open)
        /\ UNCHANGED <<line, data, got, count, starved>>
    BY <1>1, RwgKernel DEF Rwg!EndLine, Rwg!Due, Down, Less
  <2>2. line = <<>>
    BY <2>1, RwgTypesAre, RwgNext DEF RwgInv, RwgWords
  <2>3. /\ Apart /\ Apart' /\ queue \subseteq Waiting
        /\ \A e \in queue : e.remains \in 0..MaxN /\ Ends(e.rd, "r")
    BY RwgFacts DEF RwgInv, RwgQueue
  <2>4. ASSUME NEW e \in queue, e.remains # 0 PROVE Content(e.rd)' = Content(e.rd)
    <3>1. e.rd \in Fds /\ e.rd \notin {x.rd : x \in past}
      BY <2>3, <2>4 DEF Apart, Ends
    <3>2. open'[e.rd] = open[e.rd]
      BY <2>1, <3>1 DEF Closed
    <3> QED BY <2>1, <2>3, <2>4, <3>2, ContentStays
  <2>5. /\ \A x \in queue' : \E e \in queue : e.remains # 0 /\ e.remains = x.remains + 1 /\ e.rd = x.rd
        /\ \A e \in queue : e.remains # 0 =>
             \E x \in queue' : e.remains = x.remains + 1 /\ e.rd = x.rd
        /\ \A x \in queue' : x.remains \in Int
    <3> DEFINE rest == queue \ past
    <3>1. queue' = Down(rest) /\ \A e : e \in rest <=> e \in queue /\ e.remains # 0
      BY <2>1
    <3> HIDE DEF past, rest
    <3>2. queue \subseteq Waiting /\ rest \subseteq queue
      BY <2>3, <3>1
    <3>3. /\ Down(rest) \subseteq Waiting
          /\ \A x \in Down(rest) : \E e \in rest : e.remains = x.remains + 1 /\ e.rd = x.rd /\ e.wr = x.wr
          /\ \A e \in rest : \E x \in Down(rest) : e.remains = x.remains + 1 /\ e.rd = x.rd /\ e.wr = x.wr
      BY <3>2, CountedDown
    <3> QED BY <3>1, <3>3 DEF Waiting
  <2>6. Dues' = Dues
    <3>1. ASSUME NEW k \in 1..MaxN PROVE Sent(1)'[k] = Sent(0)[k]
      <4>1. k - 0 = k /\ k # 0 /\ k - 1 + 1 = k
        OBVIOUS
      <4>2. \A e \in queue : e.remains = k - 0 =>
              \E x \in queue' : x.remains = k - 1 /\ Content(x.rd)' = Content(e.rd)
        <5> SUFFICES ASSUME NEW e \in queue, e.remains = k - 0
                     PROVE  \E x \in queue' : x.remains = k - 1 /\ Content(x.rd)' = Content(e.rd)
          OBVIOUS
        <5>1. PICK x \in queue' : e.remains = x.remains + 1 /\ e.rd = x.rd
          BY <2>5, <4>1
        <5> QED BY <2>4, <2>5, <4>1, <5>1
      <4>3. \A x \in queue' : x.remains = k - 1 => \E e \in queue : e.remains = k - 0
        BY <2>5, <4>1
      <4> QED BY <2>3, <4>2, <4>3, SentMoves
    <3>2. Dues = Sent(0) /\ Dues' = Sent(1)'
      BY <2>1, RwgCounts
    <3> QED BY <3>1, <3>2, SentForLines
  <2>7. RwgAhead'
    BY <2>1, <2>2, <2>3, <2>5 DEF RwgAhead
  <2> QED BY <1>0, <2>1, <2>2, <2>6, <2>7, PromiseIs
<1>2. CASE Rwg!Exit
  <2>1. pc = "prompt" /\ pc' = "exited" /\ UNCHANGED <<line, queue, open, data, got, count, starved>>
    BY <1>2 DEF Rwg!Exit, Rwg!world
  <2>2. Input = <<>> /\ Dues' = Dues
    BY <2>1, RwgPromised, RwgCounts, SentKept
  <2> QED BY <1>0, <2>1, <2>2 DEF promised, RwgAhead
<1> QED BY <1>1, <1>2

\* A program reads its input and writes where the sign behind it says.
LEMMA RwgRunKeeps ==
  ASSUME RwgInv, RwgInv', RwgAhead, Untouched, shell = "rwg", shell' = "rwg", Rwg!RunProgram
  PROVE  Promise!Next /\ Untouched' /\ RwgAhead'
<1> DEFINE h == Head(line)
<1>0. PICK in, out, p1, p2, n1, n2, reads :
        /\ reads = TRUE /\ in = RwgStdin /\ out = locals.fdout
        /\ p1 = locals.prev[1] /\ p2 = locals.prev[2] /\ n1 = locals.next[1] /\ n2 = locals.next[2]
  OBVIOUS
<1>1. /\ pc = "fork" /\ pc' = "run" /\ Run(reads, in, out)
      /\ open' = Closed({p1, p2}, open) /\ queue' = queue
      /\ locals'.prev[1] = n1
  <2>1. /\ pc = "fork" /\ pc' = "run" /\ Run(TRUE, locals.fdin, locals.fdout)
        /\ open' = Closed({locals.prev[1], locals.prev[2]}, open) /\ queue' = queue
        /\ locals' = [locals EXCEPT !.prev = locals.next]
    BY RwgKernel DEF Rwg!RunProgram, Rwg!Drops
  <2>2. locals.fdin = in
    BY <1>0, <2>1, RwgPromised DEF RwgInv, RwgReady
  <2>3. locals' = [locals EXCEPT !.prev = locals.next] => locals'.prev = locals.next
    BY RwgTypesAre DEF RwgInv
  <2> QED BY <1>0, <2>1, <2>2, <2>3
<1>2. /\ KernelTypeOK /\ Apart /\ Apart' /\ Sole /\ Old /\ count \in Nat
      /\ \A e \in queue : e.remains \in 0..MaxN /\ Ends(e.rd, "r")
      /\ \A e \in queue : e.remains # 0 => Whole(e)
      /\ \A e \in queue : e.remains = 0 => Dry(e.rd)
      /\ Sent(0) \in [1..MaxN -> Seq(Pipes)]
  <2>1. 0 \in Int
    OBVIOUS
  <2>2. \A e \in queue : e.remains = 0 => Dry(e.rd)
    BY <1>1 DEF RwgInv, RwgQueue
  <2>3. Apart'
    BY DEF RwgInv, RwgQueue
  <2> QED BY <2>1, <2>2, <2>3, RwgFacts
<1>3. line # <<>> /\ line \in Seq(Command) /\ Legal(line) /\ h.kind # "builtin"
  BY <1>1, RwgTypesAre DEF RwgInv, RwgWords
<1>4. /\ count + 1 \in Pipes /\ line' = Tail(line) /\ count' = count + 1 /\ starved' = starved
      /\ got' = Content(in)
  BY <1>0, <1>1, <1>2, <1>3, NextPipe DEF Run, RwgInv, RwgWords
<1>5. /\ h.link \in {"end", "pipe", "num", "err", "file"} /\ h.n \in 0..MaxN /\ h.kind = "prog"
      /\ (Numbered(h.link) <=> h.n # 0)
      /\ h.link = "pipe" <=> Tail(line) # <<>>
      /\ h.link = "pipe" => Len(line) >= 2
      /\ \A i \in 1..Len(line') : line'[i].kind # "unknown"
  <2>1. /\ h \in Command /\ (Numbered(h.link) <=> h.n # 0) /\ (h.link = "pipe" <=> Tail(line) # <<>>)
        /\ h = line[1] /\ Len(line) \in Nat /\ Len(line) >= 1 /\ Len(Tail(line)) = Len(line) - 1
        /\ Tail(line) \in Seq(Command)
        /\ \A i \in 1..Len(line) - 1 : Tail(line)[i] = line[i + 1]
    BY <1>3, RestOfLine
  <2>2. Tail(line) # <<>> => Len(line) >= 2
    BY <2>1, EmptyIs
  <2>3. h.kind # "unknown"
    BY <2>1 DEF RwgAhead
  <2>4. ASSUME NEW i \in 1..Len(line') PROVE line'[i].kind # "unknown"
    <3>1. i \in 1..Len(line) - 1 /\ i + 1 \in 1..Len(line) /\ line'[i] = line[i + 1]
      BY <1>4, <2>1
    <3> QED BY <3>1 DEF RwgAhead
  <2> QED BY <1>3, <2>1, <2>2, <2>3, <2>4 DEF Command
<1>6. /\ h.link = "pipe" =>
           /\ \A e \in queue : e.remains # 0 /\ e.rd # n1
           /\ Ends(n1, "r") /\ Ends(n2, "w") /\ open[n1].pipe = open[n2].pipe
           /\ open[n1].pipe = count + 1 /\ out = n2 /\ n1 # p1 /\ n2 # p2
      /\ Numbered(h.link) => \E e \in queue : e.remains = h.n /\ e.wr = out
      /\ h.link \in {"end", "file"} => ~Ends(out, "w")
  BY <1>0, <1>1 DEF RwgInv, RwgReady, Bar
<1>7. \/ p1 = 0 /\ p2 = 0
      \/ /\ Ends(p1, "r") /\ Ends(p2, "w") /\ \A e \in queue : e.remains # 0 => e.rd # p1
         /\ open[p1].pipe = open[p2].pipe
  BY <1>0, <1>1, <1>3 DEF RwgInv, RwgBars, Bar
<1>8. Untouched'
  BY <1>1, <1>2, UntouchedStays
<1>9. Input = Content(in) /\ Input' = Content(RwgStdin)' /\ Dues = Sent(0) /\ Dues' = Sent(0)'
  BY <1>0, <1>1, RwgPromised, RwgCounts
<1> HIDE DEF h
<1>10. ASSUME NEW e \in queue PROVE open'[e.rd] = open[e.rd] /\ Ends(e.rd, "r")'
  <2>1. Ends(e.rd, "r") /\ Ends(e.rd, "r")'
    BY <1>1, <1>2 DEF RwgInv, RwgQueue
  <2> QED BY <1>1, <2>1 DEF Closed, Ends
<1>11. ASSUME NEW e \in queue, e.remains # 0
       PROVE  Content(e.rd)' = IF Numbered(h.link) /\ e.remains = h.n
                               THEN Append(Content(e.rd), count + 1) ELSE Content(e.rd)
  <2>1. Ends(e.rd, "r") /\ open'[e.rd] = open[e.rd] /\ Whole(e)
    BY <1>2, <1>10, <1>11
  <2>2. CASE Numbered(h.link) /\ e.remains = h.n
    <3>1. PICK x \in queue : x.remains = h.n /\ x.wr = out
      BY <1>6, <2>2
    <3>2. x = e
      BY <1>2, <2>2, <3>1 DEF Apart
    <3>3. Ends(out, "w") /\ open[out].pipe = open[e.rd].pipe
      BY <2>1, <3>1, <3>2 DEF Whole
    <3>4. Content(e.rd)' = Append(Content(e.rd), count + 1)
      <4>1. KernelTypeOK /\ Run(reads, in, out)
        BY <1>1, <1>2
      <4> QED BY <2>1, <3>3, <4>1, ContentRuns
    <3> QED BY <2>2, <3>4
  <2>3. CASE ~(Numbered(h.link) /\ e.remains = h.n)
    <3>1. Ends(out, "w") => open[out].pipe # open[e.rd].pipe
      <4> SUFFICES ASSUME Ends(out, "w"), open[out].pipe = open[e.rd].pipe PROVE FALSE
        OBVIOUS
      <4>1. out = e.wr
        BY <1>2, <2>1 DEF Whole, Sole, Open, Ends
      <4>2. CASE h.link = "pipe"
        <5>1. Ends(n1, "r") /\ open[n1].pipe = open[e.rd].pipe /\ e.rd # n1
          BY <1>6, <4>2
        <5> QED BY <1>2, <2>1, <5>1 DEF Sole, Open, Ends
      <4>3. CASE Numbered(h.link)
        <5>1. PICK x \in queue : x.remains = h.n /\ x.wr = out
          BY <1>6, <4>3
        <5>2. Whole(x)
          BY <1>2, <1>5, <4>3, <5>1
        <5>3. x.rd = e.rd
          <6>1. Ends(x.rd, "r") /\ open[x.rd].pipe = open[e.rd].pipe
            BY <2>1, <4>1, <5>1, <5>2 DEF Whole
          <6> QED BY <1>2, <2>1, <6>1 DEF Sole, Open, Ends
        <5>4. x = e
          BY <1>2, <5>3 DEF Apart
        <5> QED BY <2>3, <4>3, <5>1, <5>4
      <4> QED BY <1>5, <1>6, <4>2, <4>3 DEF Numbered
    <3>2. ~(Ends(in, "r") /\ open[in].pipe = open[e.rd].pipe)
      <4> SUFFICES ASSUME Ends(in, "r"), open[in].pipe = open[e.rd].pipe PROVE FALSE
        OBVIOUS
      <4>1. in = e.rd
        BY <1>2, <2>1 DEF Sole, Open, Ends
      <4>2. CASE \E d \in queue : d.remains = 0
        <5>1. PICK d \in queue : d.remains = 0
          BY <4>2
        <5>2. d.rd = e.rd
          BY <1>0, <4>1, <5>1, RwgStdinIs
        <5> QED BY <1>2, <1>11, <5>1, <5>2 DEF Apart
      <4>3. CASE \A d \in queue : d.remains # 0
        <5>1. p1 = e.rd
          BY <1>0, <4>1, <4>3, RwgStdinIs
        <5> QED BY <1>7, <1>11, <2>1, <5>1, ZeroIsNoFd
      <4> QED BY <4>2, <4>3
    <3>3. Content(e.rd)' = Content(e.rd)
      <4>1. KernelTypeOK /\ Run(reads, in, out)
        BY <1>1, <1>2
      <4> QED BY <2>1, <3>1, <3>2, <4>1, ContentRuns
    <3> QED BY <2>3, <3>3
  <2> QED BY <2>2, <2>3
<1>12. Input' = IF h.link = "pipe" THEN <<count + 1>> ELSE <<>>
  <2>1. CASE \E e \in queue : e.remains = 0
    <3>1. PICK e \in queue : e.remains = 0
      BY <2>1
    <3>2. in = e.rd /\ RwgStdin' = e.rd
      BY <1>0, <1>1, <3>1, RwgStdinIs, RwgStdinIsNext
    <3>3. Ends(out, "w") => open[out].pipe # open[e.rd].pipe
      BY <1>2, <3>1 DEF Dry, Ends
    <3>4. Content(e.rd)' = <<>>
      <4>1. KernelTypeOK /\ Run(reads, in, out) /\ reads = TRUE
        BY <1>0, <1>1, <1>2
      <4>2. Ends(e.rd, "r") /\ open'[e.rd] = open[e.rd]
        BY <1>2, <1>10, <3>1
      <4> QED BY <3>2, <3>3, <4>1, <4>2, ContentRuns
    <3>5. Content(RwgStdin)' = Content(e.rd)'
      BY <3>2 DEF Content, Ends
    <3> QED BY <1>6, <1>9, <3>1, <3>4, <3>5
  <2>2. CASE \A e \in queue : e.remains # 0
    <3>1. RwgStdin' = n1
      BY <1>1, <2>2, RwgStdinIsNext
    <3>2. Content(RwgStdin)' = Content(n1)'
      BY <3>1 DEF Content, Ends
    <3>3. CASE h.link = "pipe"
      <4>1. n1 \notin {p1, p2} /\ n1 \in Fds
        BY <1>6, <1>7, <3>3, ZeroIsNoFd DEF Ends
      <4>2. open'[n1] = open[n1]
        BY <1>1, <4>1 DEF Closed
      <4>3. Content(n1)' = Append(Content(n1), count + 1)
        <5>1. KernelTypeOK /\ Run(reads, in, out)
          BY <1>1, <1>2
        <5>2. Ends(out, "w") /\ open[out].pipe = open[n1].pipe /\ Ends(n1, "r")
          BY <1>6, <3>3
        <5> QED BY <4>2, <5>1, <5>2, ContentRuns
      <4>4. Content(n1) = <<>>
        BY <1>2, <1>4, <1>6, <3>3 DEF Content, Untouched
      <4> QED BY <1>9, <3>2, <3>3, <4>3, <4>4
    <3>4. CASE h.link # "pipe"
      <4>1. line' = <<>>
        BY <1>4, <1>5, <3>4
      <4>2. ~Open(locals.prev[1])'
        BY <1>1, <4>1 DEF RwgInv, RwgBars
      <4>3. ~Ends(n1, "r")'
        BY <1>1, <4>2 DEF Open, Ends
      <4> QED BY <1>9, <3>2, <3>4, <4>3, NoContent
    <3> QED BY <3>3, <3>4
  <2> QED BY <2>1, <2>2
<1>13. ASSUME NEW k \in 1..MaxN
       PROVE  Sent(0)'[k] = IF Numbered(h.link) /\ k = h.n THEN Append(Sent(0)[k], count + 1) ELSE Sent(0)[k]
  <2>1. k - 0 = k /\ k # 0
    OBVIOUS
  <2>2. CASE \E e \in queue : e.remains = k
    <3>1. PICK e \in queue : e.remains = k - 0 /\ e.remains # 0 /\ e.remains = k
      BY <2>1, <2>2
    <3>2. Sent(0)[k] = Content(e.rd) /\ Sent(0)'[k] = Content(e.rd)'
      BY <1>1, <1>2, <3>1, SentNow, SentNext
    <3> QED BY <1>11, <3>1, <3>2
  <2>3. CASE \A e \in queue : e.remains # k
    <3>1. Sent(0)[k] = <<>>
      BY <1>2, <2>3, SentNow
    <3>2. Sent(0)'[k] = <<>>
      BY <1>1, <1>2, <2>3, SentNext
    <3>3. ~(Numbered(h.link) /\ k = h.n)
      BY <1>6, <2>3
    <3> QED BY <3>1, <3>2, <3>3
  <2> QED BY <2>2, <2>3
<1>14. Dues' = IF Numbered(h.link) THEN [Dues EXCEPT ![h.n] = Append(@, count + 1)] ELSE Dues
  <2>1. Sent(0)' = [k \in 1..MaxN |-> Sent(0)'[k]] /\ Sent(0) = [k \in 1..MaxN |-> Sent(0)[k]]
    BY SentForLines
  <2>2. CASE Numbered(h.link)
    BY <1>9, <1>13, <2>1, <2>2
  <2>3. CASE ~Numbered(h.link)
    BY <1>9, <1>13, <2>1, <2>3
  <2> QED BY <2>2, <2>3
<1>15. RwgAhead'
  BY <1>1, <1>5 DEF RwgAhead
<1> QED BY <1>3, <1>4, <1>5, <1>8, <1>9, <1>12, <1>14, <1>15, PromiseIs DEF h

\* Each step of RwgShell is one of the promise, or none.
LEMMA RwgKeepsPromise ==
  ASSUME RwgInv, RwgInv', RwgAhead, Untouched, shell = "rwg", shell' = "rwg", Rwg!Next \/ UNCHANGED vars
  PROVE  (Promise!Next \/ UNCHANGED promised) /\ Untouched' /\ RwgAhead'
<1>1. Rwg!RunProgram \/ (data' = data /\ count' = count)
  BY DEF Rwg!Next, Rwg!Enter, Rwg!Builtin, Rwg!PrepareLast, Rwg!PreparePipe, Rwg!PrepareNumbered,
         Rwg!PrepareFile, Rwg!Prepare, Rwg!EndLine, Rwg!Exit, Rwg!world, vars, world
<1>2. Untouched'
  BY <1>1, RwgRunKeeps DEF Untouched
<1>3. CASE UNCHANGED vars
  <2>1. /\ pc' = pc /\ UNCHANGED <<line, queue, locals, open, data, got, count, starved>>
    BY <1>3 DEF vars, world
  <2>2. Dues' = Dues
    BY <2>1, RwgIdles
  <2>3. Input' = Input
    BY <2>1, RwgIdles
  <2> QED BY <1>2, <2>1, <2>2, <2>3 DEF promised, RwgAhead
<1>4. CASE \E l \in Lines : pc = "prompt" /\ Rwg!Enter(l)
  BY <1>2, <1>4, RwgEnterKeeps
<1> QED
  BY <1>2, <1>3, <1>4, RwgBuiltinKeeps, RwgPreparesKeeps, RwgStopsKeeps, RwgRunKeeps DEF Rwg!Next

-----------------------------------------------------------------------------
(* AbbieShell keeps the promise *)

\* What AbbieShell makes of the variables of LinePipes.
LEMMA AbbiePromised ==
  ASSUME shell = "abbie", shell' = "abbie"
  PROVE  /\ Dues = Sent(0) /\ Dues' = Sent(0)'
         /\ Input = IF pc \in {"run", "fork"} THEN Content(locals.fdIn) ELSE <<>>
         /\ Input' = IF pc' \in {"run", "fork"} THEN Content(locals.fdIn)' ELSE <<>>
<1>1. Dues = Abbie!due /\ Dues' = Abbie!due' /\ Input = Abbie!input /\ Input' = Abbie!input'
  BY DEF Dues, Input, Own
<1>2. Abbie!due = Sent(0) /\ Abbie!due' = Sent(0)'
  BY DEF Abbie!due, Abbie!Sent, Sent, Abbie!Content, Content, Abbie!Ends, Ends, Abbie!Fds, Fds
<1>3. /\ Abbie!input = IF pc \in {"run", "fork"} THEN Content(locals.fdIn) ELSE <<>>
      /\ Abbie!input' = IF pc' \in {"run", "fork"} THEN Content(locals.fdIn)' ELSE <<>>
  BY DEF Abbie!input, Abbie!Content, Content, Abbie!Ends, Ends, Abbie!Fds, Fds
<1> QED BY <1>1, <1>2, <1>3

\* What the promise's steps need of the invariant.
LEMMA AbbieFacts ==
  ASSUME AbbieInv
  PROVE  /\ KernelTypeOK /\ Apart /\ Sole /\ Old /\ count \in Nat /\ queue \subseteq Waiting
         /\ \A e \in queue : e.remains \in 1..MaxN /\ Whole(e) /\ Ends(e.rd, "r") /\ e.rd \in Fds
         /\ Sent(0) \in [1..MaxN -> Seq(Pipes)]
<1>1. /\ KernelTypeOK /\ Apart /\ Sole /\ Old /\ count \in Nat /\ queue \subseteq Waiting
      /\ \A e \in queue : e.remains \in 1..MaxN /\ Whole(e) /\ Ends(e.rd, "r") /\ e.rd \in Fds
  BY AbbieTypesAre DEF AbbieInv, AbbieQueue, Whole, Ends
<1>2. ASSUME NEW k \in 1..MaxN PROVE Sent(0)[k] \in Seq(Pipes)
  <2>1. \A f : Content(f) \in Seq(Pipes)
    BY <1>1 DEF Content, Ends, KernelTypeOK, PipeEnd
  <2>2. CASE \E e \in queue : e.remains = k
    BY <1>1, <2>1, <2>2, SentNow
  <2>3. CASE \A e \in queue : e.remains # k
    <3>1. Sent(0)[k] = <<>>
      BY <1>1, <2>3, SentNow
    <3>2. <<>> \in Seq(Pipes)
      OBVIOUS
    <3> QED BY <3>1, <3>2
  <2> QED BY <2>2, <2>3
<1> QED BY <1>1, <1>2, SentForLines

\* A line that comes takes what was sent to it.
LEMMA AbbieEnterKeeps ==
  ASSUME AbbieInv, AbbieInv', shell = "abbie", shell' = "abbie", pc = "prompt",
         NEW l \in Lines, Abbie!Enter(l)
  PROVE  Promise!Next
<1> DEFINE past == {e \in queue : e.remains = 1}
           dry  == {e.wr : e \in past}
<1>1. /\ Typed(l) /\ pc' = "run" /\ queue' = Down(queue \ past) /\ open' = Closed(dry, open)
      /\ \E in \in (IF past = {} THEN {0} ELSE {e.rd : e \in past}) :
           locals' = [fdIn |-> in, fdOut |-> 0, pipeFd |-> <<0, 0>>, link |-> "NONE"]
      /\ UNCHANGED <<data, got, count, starved>>
  BY AbbieKernel DEF Abbie!Enter, Down, Less, Abbie!Idle, Abbie!Due
<1>2. PICK in : /\ in \in (IF past = {} THEN {0} ELSE {e.rd : e \in past})
                /\ locals'.fdIn = in
  BY <1>1
<1>3. /\ KernelTypeOK /\ Apart /\ Apart' /\ Sole /\ queue \subseteq Waiting
      /\ \A e \in queue : e.remains \in 1..MaxN /\ Whole(e) /\ Ends(e.rd, "r") /\ e.rd \in Fds
  BY AbbieFacts DEF AbbieInv, AbbieQueue
<1>4. line = <<>> /\ line' = l /\ l \in Seq(Command) /\ Legal(l)
  BY <1>1, LinesLegal DEF AbbieInv, AbbieWords, Typed
<1>5. ASSUME NEW e \in queue PROVE Content(e.rd)' = Content(e.rd)
  <2>1. e.rd \notin dry
    BY <1>3 DEF Whole, Ends
  <2> HIDE DEF dry
  <2>2. open'[e.rd] = open[e.rd] /\ Ends(e.rd, "r") /\ data' = data
    BY <1>1, <1>3, <2>1 DEF Closed
  <2> QED BY <2>2, ContentStays
<1>6. /\ past = {} => \A e \in queue : e.remains # 1
      /\ past = {} => in = 0
      /\ past # {} => \E e \in queue : e.remains = 1 /\ in = e.rd
  BY <1>2
<1>7. /\ \A x \in queue' : \E e \in queue : e.remains = x.remains + 1 /\ e.remains # 1 /\ e.rd = x.rd
      /\ \A e \in queue : e.remains # 1 =>
           \E x \in queue' : e.remains = x.remains + 1 /\ e.rd = x.rd
      /\ \A x \in queue' : x.remains \in Int
  <2> DEFINE rest == queue \ past
  <2>1. queue' = Down(rest) /\ \A e : e \in rest <=> e \in queue /\ e.remains # 1
    BY <1>1
  <2> HIDE DEF past, rest
  <2>2. queue \subseteq Waiting /\ rest \subseteq queue
    BY <1>3, <2>1
  <2>3. /\ Down(rest) \subseteq Waiting
        /\ \A x \in Down(rest) : \E e \in rest : e.remains = x.remains + 1 /\ e.rd = x.rd /\ e.wr = x.wr
        /\ \A e \in rest : \E x \in Down(rest) : e.remains = x.remains + 1 /\ e.rd = x.rd /\ e.wr = x.wr
    BY <2>2, CountedDown
  <2> QED BY <2>1, <2>3 DEF Waiting
<1> HIDE DEF past, dry
<1>8. Dues = Sent(0) /\ Dues' = Sent(0)' /\ Input' = Content(locals.fdIn)'
  BY <1>1, AbbiePromised
<1>9. Content(locals.fdIn)' = Content(in)'
  BY <1>2 DEF Content, Ends
<1>10. Input' = Dues[1]
  <2>1. 1 \in 1..MaxN
    BY MaxNPositive
  <2>2. CASE past # {}
    <3>1. PICK e \in queue : e.remains = 1 /\ in = e.rd
      BY <1>6, <2>2
    <3>2. Sent(0)[1] = Content(e.rd)
      BY <1>3, <2>1, <3>1, SentNow
    <3> QED BY <1>5, <1>8, <1>9, <3>1, <3>2
  <2>3. CASE past = {}
    <3>1. Sent(0)[1] = <<>>
      BY <1>3, <1>6, <2>1, <2>3, SentNow
    <3>2. Content(in)' = <<>>
      BY <1>6, <2>3, ZeroIsNoFd DEF Content, Ends
    <3> QED BY <1>8, <1>9, <3>1, <3>2
  <2> QED BY <2>2, <2>3
<1>11. Dues' = [k \in 1..MaxN |-> IF k < MaxN THEN Dues[k + 1] ELSE <<>>]
  <2>1. ASSUME NEW k \in 1..MaxN PROVE Sent(0)'[k] = IF k < MaxN THEN Sent(0)[k + 1] ELSE <<>>
    <3>1. CASE k < MaxN
      <4>1. k + 1 \in 1..MaxN /\ k + 1 # 1
        BY <3>1
      <4>2. CASE \E e \in queue : e.remains = k + 1
        <5>1. PICK e \in queue : e.remains = k + 1
          BY <4>2
        <5>2. Sent(0)[k + 1] = Content(e.rd)
          BY <1>3, <4>1, <5>1, SentNow
        <5>3. PICK x \in queue' : e.remains = x.remains + 1 /\ e.rd = x.rd
          BY <1>7, <4>1, <5>1
        <5>4. x.remains = k
          BY <1>7, <5>1, <5>3
        <5>5. Sent(0)'[k] = Content(x.rd)'
          BY <1>3, <5>3, <5>4, SentNext
        <5>6. Content(x.rd)' = Content(e.rd)'
          BY <5>3
        <5> QED BY <1>5, <3>1, <5>1, <5>2, <5>5, <5>6
      <4>3. CASE \A e \in queue : e.remains # k + 1
        <5>1. Sent(0)[k + 1] = <<>>
          BY <1>3, <4>1, <4>3, SentNow
        <5>2. \A x \in queue' : x.remains # k
          BY <1>7, <4>3
        <5>3. Sent(0)'[k] = <<>>
          BY <1>3, <5>2, SentNext
        <5> QED BY <3>1, <5>1, <5>3
      <4> QED BY <4>2, <4>3
    <3>2. CASE ~(k < MaxN)
      <4>1. \A x \in queue' : x.remains # k
        BY <1>3, <1>7, <3>2
      <4>2. Sent(0)'[k] = <<>>
        BY <1>3, <4>1, SentNext
      <4> QED BY <3>2, <4>2
    <3> QED BY <3>1, <3>2
  <2> QED BY <1>8, <2>1, SentForLines
<1> QED BY <1>1, <1>4, <1>10, <1>11, PromiseIs

\* Nothing is promised of the preparation of a program: a new pipe holds nothing.
LEMMA AbbiePreparesKeeps ==
  ASSUME AbbieInv, AbbieInv', Untouched, shell = "abbie", shell' = "abbie",
         Abbie!PrepareLast \/ Abbie!PreparePipe \/ Abbie!PrepareNumbered \/ Abbie!PrepareFile
  PROVE  UNCHANGED promised
<1> DEFINE h == Head(line)
<1>1. /\ KernelTypeOK /\ Apart /\ Apart' /\ Sole /\ Old /\ count \in Nat
      /\ \A e \in queue : e.remains \in 1..MaxN /\ Ends(e.rd, "r")
  BY AbbieFacts DEF AbbieInv, AbbieQueue
<1>2. PICK r \in Descr, w \in Descr, f \in Descr, out \in Descr :
        \E fd \in Descr \X Descr : \E new : AbbiePrepared(r, w, f, out, fd, new)
  BY AbbiePrepares
<1>3. PICK fd \in Descr \X Descr : \E new : AbbiePrepared(r, w, f, out, fd, new)
  BY <1>2
<1>4. PICK new : AbbiePrepared(r, w, f, out, fd, new)
  BY <1>3
<1>5. /\ pc = "run" /\ pc' = "fork" /\ line # <<>> /\ h.kind = "prog"
      /\ UNCHANGED <<line, data, got, count, starved>>
      /\ IsFree(r, {}) /\ IsFree(w, {}) /\ IsFree(f, {})
      /\ r = w => r = 0
      /\ f = 0 \/ (r = 0 /\ w = 0)
      /\ open' = Table(r, w, f, {})
      /\ locals'.fdIn = locals.fdIn
      /\ \/ queue' = queue
         \/ /\ r # 0
            /\ \A e \in queue : e.remains # h.n
            /\ new = [remains |-> h.n, rd |-> r, wr |-> w] /\ queue' = queue \cup {new}
  BY <1>4 DEF AbbiePrepared
<1>6. count + 1 \in Pipes
  BY <1>1, <1>5, NextPipe DEF AbbieInv, AbbieWords
<1> HIDE DEF h
<1>7. /\ r # 0 => Ends(r, "r")' /\ open'[r].pipe = count + 1
      /\ \A g, end : Ends(g, end) /\ g \notin {} => Ends(g, end)' /\ open'[g] = open[g]
  BY <1>1, <1>5, <1>6, Preparing
<1>8. ASSUME NEW g, Ends(g, "r") PROVE Content(g)' = Content(g)
  BY <1>5, <1>7, <1>8, ContentStays
<1>9. Dues' = Dues
  <2>1. ASSUME NEW k \in 1..MaxN PROVE Sent(0)'[k] = Sent(0)[k]
    <3>1. ASSUME NEW x \in queue', x \notin queue PROVE Content(x.rd)' = <<>>
      <4>1. x.rd = r /\ r # 0
        BY <1>5, <3>1
      <4>2. Content(r)' = data'[count + 1]
        BY <1>7, <4>1 DEF Content
      <4> QED BY <1>1, <1>5, <1>6, <4>1, <4>2 DEF Untouched
    <3>2. \A e \in queue : e \in queue'
      BY <1>5
    <3>3. CASE \E e \in queue : e.remains = k
      <4>1. PICK e \in queue : e.remains = k
        BY <3>3
      <4>2. Sent(0)[k] = Content(e.rd) /\ Sent(0)'[k] = Content(e.rd)'
        BY <1>1, <3>2, <4>1, SentNow, SentNext
      <4> QED BY <1>1, <1>8, <4>1, <4>2
    <3>4. CASE \A e \in queue : e.remains # k
      <4>1. Sent(0)[k] = <<>>
        BY <1>1, <3>4, SentNow
      <4>2. CASE \E x \in queue' : x.remains = k
        <5>1. PICK x \in queue' : x.remains = k
          BY <4>2
        <5>2. Sent(0)'[k] = Content(x.rd)'
          BY <1>1, <5>1, SentNext
        <5> QED BY <3>1, <3>4, <4>1, <5>1, <5>2
      <4>3. CASE \A x \in queue' : x.remains # k
        BY <1>1, <4>1, <4>3, SentNext
      <4> QED BY <4>2, <4>3
    <3> QED BY <3>3, <3>4
  <2> QED BY <2>1, AbbiePromised, SentForLines
<1>10. Input' = Input
  <2>1. PICK in : in = locals.fdIn
    OBVIOUS
  <2>2. in = 0 \/ Ends(in, "r")
    BY <1>5, <2>1 DEF AbbieInv, AbbieInput
  <2>3. Content(in)' = Content(in)
    BY <1>8, <2>2, ZeroIsNoFd DEF Content, Ends
  <2>4. Content(locals.fdIn)' = Content(in)'
    BY <1>5, <2>1 DEF Content, Ends
  <2> QED BY <1>5, <2>1, <2>3, <2>4, AbbiePromised
<1> QED BY <1>5, <1>9, <1>10 DEF promised

\* A line that is given up, or ends, or a session, takes its input with it.
LEMMA AbbieStopsKeeps ==
  ASSUME AbbieInv, shell = "abbie", shell' = "abbie",
         Abbie!Unknown \/ Abbie!PrepareFails \/ Abbie!EndLine \/ Abbie!Exit
  PROVE  Promise!Next \/ UNCHANGED promised
<1>1. /\ pc' \in {"prompt", "exited"} /\ pc \in {"run", "prompt"}
      /\ UNCHANGED <<queue, open, data, got, count>>
  BY DEF Abbie!Unknown, Abbie!PrepareFails, Abbie!Program, Abbie!EndLine, Abbie!Exit, Abbie!InLoop, Abbie!world
<1>2. Dues' = Dues /\ Input' = <<>>
  BY <1>1, AbbiePromised, SentKept
<1>3. /\ pc = "run" => (cmds = <<>> <=> line = <<>>)
      /\ pc = "run" /\ line # <<>> => Head(cmds) = <<Name(Head(line).kind)>>
  BY AbbieTypesAre, AbbieNext DEF AbbieInv, AbbieWords
<1>4. CASE Abbie!Unknown
  <2>1. pc = "run" /\ cmds # <<>> /\ Head(cmds)[1].is = "unknown" /\ line' = <<>> /\ starved' = starved
    BY <1>4 DEF Abbie!Unknown, Abbie!InLoop, Abbie!exists, Abbie!world
  <2>2. line # <<>> /\ Head(line).kind = "unknown"
    <3>1. line # <<>> /\ Head(cmds) = <<Name(Head(line).kind)>>
      BY <1>3, <2>1
    <3>2. Head(cmds)[1] = Name(Head(line).kind)
      BY <3>1
    <3>3. Name(Head(line).kind).is = "unknown"
      BY <2>1, <3>2
    <3> QED BY <3>1, <3>3 DEF Name
  <2> QED BY <1>1, <1>2, <2>1, <2>2, PromiseIs
<1>5. CASE Abbie!PrepareFails
  <2>1. pc = "run" /\ cmds # <<>> /\ line' = <<>> /\ starved' = TRUE
    BY <1>5 DEF Abbie!PrepareFails, Abbie!Program, Abbie!InLoop
  <2> QED BY <1>1, <1>2, <1>3, <2>1, PromiseIs
<1>6. CASE Abbie!EndLine
  <2>1. pc = "run" /\ cmds = <<>> /\ line' = line /\ starved' = starved
    BY <1>6 DEF Abbie!EndLine, Abbie!world
  <2> QED BY <1>1, <1>2, <1>3, <2>1, PromiseIs
<1>7. CASE Abbie!Exit
  <2>1. pc = "prompt" /\ line' = line /\ starved' = starved
    BY <1>7 DEF Abbie!Exit, Abbie!world
  <2>2. Input = <<>>
    BY <2>1, AbbiePromised
  <2> QED BY <1>1, <1>2, <2>1, <2>2 DEF promised
<1> QED BY <1>4, <1>5, <1>6, <1>7

\* A program reads its input and writes where the sign behind it says.
LEMMA AbbieRunKeeps ==
  ASSUME AbbieInv, AbbieInv', Untouched, shell = "abbie", shell' = "abbie", Abbie!RunProgram
  PROVE  Promise!Next /\ Untouched'
<1> DEFINE h == Head(line)
<1>0. PICK in, out, fd, kept, reads :
        /\ in = locals.fdIn /\ out = locals.fdOut /\ fd = locals.pipeFd[1]
        /\ kept = {locals.fdIn} \cup (IF Abbie!Kept THEN {} ELSE {locals.fdOut}) /\ reads = TRUE
  OBVIOUS
<1>1. /\ pc = "fork" /\ pc' = "run" /\ Run(reads, in, out) /\ kept \subseteq {in, out}
      /\ open' = Closed(kept, open) /\ queue' = queue
      /\ locals'.fdIn = IF locals.link = "PIPE" THEN fd ELSE in
  <2>1. /\ pc = "fork" /\ pc' = "run" /\ Run(TRUE, locals.fdIn, locals.fdOut)
        /\ open' = Closed(Abbie!Drops, open) /\ queue' = queue
        /\ locals' = [locals EXCEPT !.fdIn = IF locals.link = "PIPE" THEN locals.pipeFd[1] ELSE @]
    BY AbbieKernel DEF Abbie!RunProgram
  <2>2. \A v : locals' = [locals EXCEPT !.fdIn = v] => locals'.fdIn = v
    BY AbbieTypesAre DEF AbbieInv
  <2>3. locals'.fdIn = IF locals.link = "PIPE" THEN fd ELSE in
    BY <1>0, <2>1, <2>2
  <2> QED BY <1>0, <2>1, <2>3 DEF Abbie!Drops
<1>2. /\ KernelTypeOK /\ Apart /\ Apart' /\ Sole /\ Old /\ count \in Nat
      /\ \A e \in queue : e.remains \in 1..MaxN /\ Ends(e.rd, "r") /\ Whole(e)
      /\ Sent(0) \in [1..MaxN -> Seq(Pipes)]
  BY AbbieFacts DEF AbbieInv, AbbieQueue
<1>3. /\ line # <<>> /\ line \in Seq(Command) /\ Legal(line) /\ h.kind = "prog"
      /\ locals.link = AbbieCode(h.link)
  BY <1>1, AbbieTypesAre DEF AbbieInv, AbbieWords
<1>4. /\ count + 1 \in Pipes /\ line' = Tail(line) /\ count' = count + 1 /\ starved' = starved
      /\ got' = Content(in)
  BY <1>0, <1>1, <1>2, <1>3, NextPipe DEF Run, AbbieInv, AbbieWords
<1>5. /\ h.link \in {"end", "pipe", "num", "err", "file"} /\ h.n \in 0..MaxN
      /\ (Numbered(h.link) <=> h.n # 0)
      /\ h.link = "pipe" <=> Tail(line) # <<>>
      /\ locals.link = "PIPE" <=> h.link = "pipe"
  <2>1. /\ h \in Command /\ (Numbered(h.link) <=> h.n # 0) /\ (h.link = "pipe" <=> Tail(line) # <<>>)
    BY <1>3, RestOfLine
  <2> QED BY <1>3, <2>1 DEF Command, AbbieCode
<1>6. /\ h.link = "pipe" =>
           /\ Ends(fd, "r") /\ open[fd].pipe = count + 1
           /\ Ends(out, "w") /\ open[out].pipe = count + 1
           /\ fd # in /\ \A e \in queue : e.rd # fd
      /\ Numbered(h.link) => \E e \in queue : e.remains = h.n /\ e.wr = out
      /\ h.link \in {"end", "file"} => ~Ends(out, "w")
  BY <1>0, <1>1, ZeroIsNoFd DEF AbbieInv, AbbieReady, Ends
<1>7. in = 0 \/ (Ends(in, "r") /\ \A e \in queue : e.rd # in)
  BY <1>0, <1>1, <1>3 DEF AbbieInv, AbbieInput
<1>8. Untouched'
  BY <1>1, <1>2, UntouchedStays
<1>9. Input = Content(in) /\ Input' = Content(locals.fdIn)' /\ Dues = Sent(0) /\ Dues' = Sent(0)'
  BY <1>0, <1>1, AbbiePromised
<1> HIDE DEF h
<1>10. ASSUME NEW e \in queue PROVE open'[e.rd] = open[e.rd]
  <2>1. Ends(e.rd, "r") /\ Ends(e.rd, "r")'
    BY <1>1, <1>2 DEF AbbieInv, AbbieQueue, Whole
  <2> QED BY <1>1, <2>1 DEF Closed, Ends
<1>11. ASSUME NEW e \in queue
       PROVE  Content(e.rd)' = IF Numbered(h.link) /\ e.remains = h.n
                               THEN Append(Content(e.rd), count + 1) ELSE Content(e.rd)
  <2>1. /\ Ends(e.rd, "r") /\ open'[e.rd] = open[e.rd] /\ Whole(e)
        /\ KernelTypeOK /\ Run(reads, in, out)
    BY <1>1, <1>2, <1>10
  <2>2. CASE Numbered(h.link) /\ e.remains = h.n
    <3>1. PICK x \in queue : x.remains = h.n /\ x.wr = out
      BY <1>6, <2>2
    <3>2. x = e
      BY <1>2, <2>2, <3>1 DEF Apart
    <3>3. Ends(out, "w") /\ open[out].pipe = open[e.rd].pipe
      BY <2>1, <3>1, <3>2 DEF Whole
    <3>4. Content(e.rd)' = Append(Content(e.rd), count + 1)
      BY <2>1, <3>3, ContentRuns
    <3> QED BY <2>2, <3>4
  <2>3. CASE ~(Numbered(h.link) /\ e.remains = h.n)
    <3>1. Ends(out, "w") => open[out].pipe # open[e.rd].pipe
      <4> SUFFICES ASSUME Ends(out, "w"), open[out].pipe = open[e.rd].pipe PROVE FALSE
        OBVIOUS
      <4>1. out = e.wr
        BY <1>2, <2>1 DEF Whole, Sole, Open, Ends
      <4>2. CASE h.link = "pipe"
        <5>1. Ends(fd, "r") /\ open[fd].pipe = open[e.rd].pipe /\ e.rd # fd
          BY <1>6, <4>2
        <5> QED BY <1>2, <2>1, <5>1 DEF Sole, Open, Ends
      <4>3. CASE Numbered(h.link)
        <5>1. PICK x \in queue : x.remains = h.n /\ x.wr = out
          BY <1>6, <4>3
        <5>2. x.rd = e.rd
          <6>1. Ends(x.rd, "r") /\ open[x.rd].pipe = open[e.rd].pipe
            BY <1>2, <2>1, <4>1, <5>1 DEF Whole
          <6> QED BY <1>2, <2>1, <6>1 DEF Sole, Open, Ends
        <5>3. x = e
          BY <1>2, <5>2 DEF Apart
        <5> QED BY <2>3, <4>3, <5>1, <5>3
      <4> QED BY <1>5, <1>6, <4>2, <4>3 DEF Numbered
    <3>2. ~(Ends(in, "r") /\ open[in].pipe = open[e.rd].pipe)
      <4> SUFFICES ASSUME Ends(in, "r"), open[in].pipe = open[e.rd].pipe PROVE FALSE
        OBVIOUS
      <4>1. in = e.rd
        BY <1>2, <2>1 DEF Sole, Open, Ends
      <4> QED BY <1>7, <2>1, <4>1, ZeroIsNoFd DEF Ends
    <3>3. Content(e.rd)' = Content(e.rd)
      BY <2>1, <3>1, <3>2, ContentRuns
    <3> QED BY <2>3, <3>3
  <2> QED BY <2>2, <2>3
<1>12. Input' = IF h.link = "pipe" THEN <<count + 1>> ELSE <<>>
  <2>1. CASE h.link = "pipe"
    <3>1. locals'.fdIn = fd
      BY <1>1, <1>5, <2>1
    <3>2. Content(locals.fdIn)' = Content(fd)'
      BY <3>1 DEF Content, Ends
    <3>3. open'[fd] = open[fd]
      <4>1. fd \in Fds /\ fd # in /\ fd # out
        BY <1>6, <2>1 DEF Ends
      <4>2. fd \notin kept
        BY <1>1, <4>1
      <4> QED BY <1>1, <4>1, <4>2 DEF Closed
    <3>4. Content(fd)' = Append(Content(fd), count + 1)
      <4>1. KernelTypeOK /\ Run(reads, in, out)
        BY <1>1, <1>2
      <4>2. Ends(out, "w") /\ open[out].pipe = open[fd].pipe /\ Ends(fd, "r")
        BY <1>6, <2>1
      <4> QED BY <3>3, <4>1, <4>2, ContentRuns
    <3>5. Content(fd) = <<>>
      BY <1>2, <1>4, <1>6, <2>1 DEF Content, Untouched
    <3> QED BY <1>9, <2>1, <3>2, <3>4, <3>5
  <2>2. CASE h.link # "pipe"
    <3>1. line' = <<>>
      BY <1>4, <1>5, <2>2
    <3>2. ~Open(locals.fdIn)'
      BY <1>1, <3>1 DEF AbbieInv, AbbieInput
    <3>3. Content(locals.fdIn)' = <<>>
      BY <3>2 DEF Content, Open, Ends
    <3> QED BY <1>9, <2>2, <3>3
  <2> QED BY <2>1, <2>2
<1>13. ASSUME NEW k \in 1..MaxN
       PROVE  Sent(0)'[k] = IF Numbered(h.link) /\ k = h.n THEN Append(Sent(0)[k], count + 1) ELSE Sent(0)[k]
  <2>1. CASE \E e \in queue : e.remains = k
    <3>1. PICK e \in queue : e.remains = k
      BY <2>1
    <3>2. Sent(0)[k] = Content(e.rd)
      BY <1>2, <3>1, SentNow
    <3>3. Sent(0)'[k] = Content(e.rd)'
      BY <1>1, <1>2, <3>1, SentNext
    <3> QED BY <1>11, <3>1, <3>2, <3>3
  <2>2. CASE \A e \in queue : e.remains # k
    <3>1. Sent(0)[k] = <<>>
      BY <1>2, <2>2, SentNow
    <3>2. Sent(0)'[k] = <<>>
      BY <1>1, <1>2, <2>2, SentNext
    <3>3. ~(Numbered(h.link) /\ k = h.n)
      BY <1>6, <2>2
    <3> QED BY <3>1, <3>2, <3>3
  <2> QED BY <2>1, <2>2
<1>14. Dues' = IF Numbered(h.link) THEN [Dues EXCEPT ![h.n] = Append(@, count + 1)] ELSE Dues
  <2>1. Sent(0)' = [k \in 1..MaxN |-> Sent(0)'[k]] /\ Sent(0) = [k \in 1..MaxN |-> Sent(0)[k]]
    BY SentForLines
  <2>2. CASE Numbered(h.link)
    BY <1>9, <1>13, <2>1, <2>2
  <2>3. CASE ~Numbered(h.link)
    BY <1>9, <1>13, <2>1, <2>3
  <2> QED BY <2>2, <2>3
<1> QED BY <1>3, <1>4, <1>5, <1>8, <1>9, <1>12, <1>14, PromiseIs DEF h

\* Each step of AbbieShell is one of the promise, or none.
LEMMA AbbieKeepsPromise ==
  ASSUME AbbieInv, AbbieInv', Untouched, shell = "abbie", shell' = "abbie", Abbie!Next \/ UNCHANGED vars
  PROVE  (Promise!Next \/ UNCHANGED promised) /\ Untouched'
<1>1. Abbie!RunProgram \/ (data' = data /\ count' = count)
  BY DEF Abbie!Next, Abbie!Enter, Abbie!Unknown, Abbie!PrepareLast, Abbie!PreparePipe, Abbie!PrepareNumbered,
         Abbie!PrepareFile, Abbie!PrepareFails, Abbie!Prepare, Abbie!EndLine, Abbie!Exit, Abbie!world, vars, world
<1>2. Untouched'
  BY <1>1, AbbieRunKeeps DEF Untouched
<1>3. CASE UNCHANGED vars
  <2>1. /\ pc' = pc /\ UNCHANGED <<line, queue, locals, open, data, got, count, starved>>
    BY <1>3 DEF vars, world
  <2>2. Dues' = Dues
    BY <2>1, AbbiePromised, SentKept
  <2>3. Input' = Input
    BY <2>1, AbbiePromised DEF Content, Ends
  <2> QED BY <1>2, <2>1, <2>2, <2>3 DEF promised
<1>4. CASE \E l \in Lines : pc = "prompt" /\ Abbie!Enter(l)
  BY <1>2, <1>4, AbbieEnterKeeps
<1>5. CASE pc = "prompt" /\ \E l \in Lines : Abbie!Enter(l)
  BY <1>4, <1>5
<1> QED
  BY <1>2, <1>3, <1>5, AbbiePreparesKeeps, AbbieStopsKeeps, AbbieRunKeeps DEF Abbie!Next

-----------------------------------------------------------------------------
(* All three *)

\* Nothing is sent before the first line.
LEMMA PromiseStarts == ASSUME Init PROVE Promise!Init /\ Untouched /\ (shell = "rwg" => RwgAhead)
<1>1. shell \in {"ras", "rwg", "abbie"}
  BY ShellsNamed DEF Init
<1>2. /\ pc = "prompt" /\ line = <<>> /\ queue = {} /\ got = <<>> /\ count = 0 /\ starved = FALSE
      /\ data = [p \in Pipes |-> <<>>]
  <2>1. CASE shell = "ras"
    BY <2>1 DEF Init, Own, Ras!Init, Ras!Fresh, Ras!Pipes, Pipes
  <2>2. CASE shell = "rwg"
    BY <2>2 DEF Init, Own, Rwg!Init, Rwg!Fresh, Rwg!Pipes, Pipes
  <2>3. CASE shell = "abbie"
    BY <2>3 DEF Init, Own, Abbie!Init, Abbie!Fresh, Abbie!Pipes, Pipes
  <2> QED BY <1>1, <2>1, <2>2, <2>3
<1>3. Dues = [k \in 1..MaxN |-> <<>>]
  <2>1. CASE shell = "ras"
    BY <1>2, <2>1 DEF Dues, Own, Ras!due, Ras!Sent
  <2>2. CASE shell = "rwg"
    BY <1>2, <2>2 DEF Dues, Own, Rwg!due, Rwg!Sent
  <2>3. CASE shell = "abbie"
    BY <1>2, <2>3 DEF Dues, Own, Abbie!due, Abbie!Sent
  <2> QED BY <1>1, <2>1, <2>2, <2>3
<1>4. Input = <<>>
  <2>1. CASE shell = "ras"
    BY <1>2, <2>1 DEF Input, Own, Ras!input
  <2>2. CASE shell = "rwg"
    BY <1>2, <2>2 DEF Input, Own, Rwg!input
  <2>3. CASE shell = "abbie"
    BY <1>2, <2>3 DEF Input, Own, Abbie!input
  <2> QED BY <1>1, <2>1, <2>2, <2>3
<1>5. Promise!Init
  BY <1>2, <1>3, <1>4 DEF Promise!Init, Dues, Input
<1>6. Untouched
  BY <1>2 DEF Untouched
<1>7. RwgAhead
  <2>1. Len(line) = 0
    BY <1>2
  <2> QED BY <1>2, <2>1 DEF RwgAhead
<1> QED BY <1>5, <1>6, <1>7

\* Each of the shells implements LinePipes: a program runs in the order of its line
\* and reads exactly what "|" and the numbered pipes of the lines before have sent
\* to it, whatever descriptors, pipes and queue the shell keeps to bring it there.
THEOREM PromisesAreKept == ASSUME OneReads PROVE Spec => PromiseKept
<1>1. ASSUME Init PROVE Promise!Init /\ Untouched /\ (shell = "rwg" => RwgAhead)
  BY <1>1, PromiseStarts
<1>2. ASSUME Inv, Inv', Untouched, shell = "rwg" => RwgAhead, [Next]_<<vars, shell>>
      PROVE  /\ Promise!Next \/ UNCHANGED promised
             /\ Untouched' /\ (shell = "rwg" => RwgAhead)'
  <2>1. /\ shell' = shell /\ shell \in {"ras", "rwg", "abbie"}
        /\ shell = "ras" => Ras!Next \/ UNCHANGED vars
        /\ shell = "rwg" => Rwg!Next \/ UNCHANGED vars
        /\ shell = "abbie" => Abbie!Next \/ UNCHANGED vars
    BY <1>2 DEF Next, Inv
  <2>2. CASE shell = "ras"
    <3>1. RasInv /\ RasInv' /\ shell' = "ras"
      BY <1>2, <2>1, <2>2 DEF Inv
    <3> QED BY <1>2, <2>1, <2>2, <3>1, RasKeepsPromise
  <2>3. CASE shell = "rwg"
    <3>1. RwgInv /\ RwgInv' /\ shell' = "rwg"
      BY <1>2, <2>1, <2>3 DEF Inv
    <3> QED BY <1>2, <2>1, <2>3, <3>1, RwgKeepsPromise
  <2>4. CASE shell = "abbie"
    <3>1. AbbieInv /\ AbbieInv' /\ shell' = "abbie"
      BY <1>2, <2>1, <2>4 DEF Inv
    <3> QED BY <1>2, <2>1, <2>4, <3>1, AbbieKeepsPromise
  <2> QED BY <2>1, <2>2, <2>3, <2>4
<1>3. UNCHANGED promised <=>
        UNCHANGED <<line, Own(Ras!due, Rwg!due, Abbie!due), Own(Ras!input, Rwg!input, Abbie!input),
                    got, count, starved>>
  BY DEF promised, Dues, Input
<1>4. ASSUME Inv, Inv', Untouched, shell = "rwg" => RwgAhead, [Next]_<<vars, shell>>
      PROVE  /\ [Promise!Next]_<<line, Own(Ras!due, Rwg!due, Abbie!due),
                                 Own(Ras!input, Rwg!input, Abbie!input), got, count, starved>>
             /\ Untouched' /\ (shell = "rwg" => RwgAhead)'
  BY <1>2, <1>3, <1>4
<1> QED BY <1>1, <1>4, InvHolds, PTL DEF Spec, PromiseKept, Promise!Spec
=============================================================================

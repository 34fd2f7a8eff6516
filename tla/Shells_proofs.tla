---------------------------- MODULE Shells_proofs ----------------------------
(***************************************************************************)
(* Theorems about the three shells, for any number of descriptors, any     *)
(* length of a session and any lines in which the parsers find what is     *)
(* meant: every program sees the end of its input, and nothing stays open  *)
(* but what a shell is known to forget.                                    *)
(***************************************************************************)
EXTENDS RasShell_proofs

USE MaxNPositive, MaxFdNatural, ProgramsNatural, NoneIsNoEnd, BoundsNatural

-----------------------------------------------------------------------------
(* RwgShell *)

RwgWords ==
  /\ Legal(line) /\ count + Programs(line) <= MaxPrograms
  /\ pc \in {"prompt", "exited"} => line = <<>> /\ cmds = <<>>
  /\ pc \in {"run", "fork"} => RwgFinds(cmds, line)
  /\ pc = "fork" => line # <<>> /\ Head(line).kind # "builtin"

\* A queued pipe has both its ends, until a program of the line that it is due for
\* is started: nobody writes into it any more then.
RwgQueue ==
  /\ Apart
  /\ \A e \in queue :
       /\ e.remains \in 0..MaxN /\ Ends(e.rd, "r")
       /\ \/ Whole(e)
          \/ e.remains = 0 /\ Dry(e.rd) /\ (pc = "fork" \/ (pc = "run" /\ line = <<>>))
       /\ pc = "fork" /\ e.remains = 0 => Dry(e.rd)

\* The pipe of a "|": no line that has one was sent anything.
Bar(p) ==
  /\ Ends(p[1], "r") /\ Ends(p[2], "w") /\ open[p[1]].pipe = open[p[2]].pipe
  /\ \A e \in queue : e.remains # 0 /\ e.rd # p[1]

RwgBars ==
  pc \in {"run", "fork"} =>
    /\ Len(line) >= 2 => \A e \in queue : e.remains # 0
    /\ line # <<>> => locals.prev = <<0, 0>> \/ Bar(locals.prev)
    /\ line # <<>> /\ Head(line).kind = "builtin" => locals.prev = <<0, 0>>
    /\ line = <<>> => ~Open(locals.prev[1]) /\ ~Open(locals.prev[2])
    /\ pc = "run" => locals.next = locals.prev

\* What has been prepared for the program that is forked.
RwgReady ==
  pc = "fork" =>
    LET h == Head(line) IN
    /\ locals.fdin = Rwg!Stdin
    /\ h.link # "pipe" => locals.next = locals.prev
    /\ h.link = "pipe" =>
         /\ Bar(locals.next) /\ open[locals.next[1]].pipe = count + 1
         /\ locals.fdout = locals.next[2]
         /\ locals.next[1] # locals.prev[1] /\ locals.next[2] # locals.prev[2]
    /\ Numbered(h.link) => \E e \in queue : e.remains = h.n /\ e.wr = locals.fdout
    /\ h.link \in {"end", "file"} => ~Ends(locals.fdout, "w")

\* What is forgotten: files, and writing ends of pipes whose other end is closed.
Lone(f) == \A g \in Fds \ {f} : Open(g) /\ open[g].end # "f" => open[g].pipe # open[f].pipe
RwgHeld(f) ==
  \/ open[f].end = "f"
  \/ \E e \in queue : f = e.rd \/ (f = e.wr /\ Whole(e))
  \/ /\ pc \in {"run", "fork"} /\ line # <<>>
     /\ f \in {locals.prev[1], locals.prev[2], locals.next[1], locals.next[2]}
  \/ open[f].end = "w" /\ Lone(f)
RwgKeeps == \A f \in Fds : Open(f) => RwgHeld(f)

RwgTypes == KernelTypeOK /\ locals \in Rwg!Locals
RwgInv   == RwgTypes /\ RwgWords /\ Sole /\ Old /\ RwgQueue /\ RwgBars /\ RwgReady /\ RwgKeeps

LEMMA RwgKernel ==
  /\ Rwg!Fds = Fds /\ Rwg!Descr = Descr /\ Rwg!Pipes = Pipes
  /\ (Rwg!CanPipe <=> CanPipe) /\ Rwg!NewPipe = NewPipe /\ Rwg!Piped = Piped
  /\ \A fds, table : Rwg!Closed(fds, table) = Closed(fds, table)
  /\ \A fs : Rwg!Lowest(fs) = Lowest(fs)
  /\ \A f, end : Rwg!Ends(f, end) <=> Ends(f, end)
  /\ \A f : Rwg!Content(f) = Content(f)
  /\ \A l : Rwg!Typed(l) <=> Typed(l)
  /\ \A reads, in, out : Rwg!Run(reads, in, out) <=> Run(reads, in, out)
<1>1. Rwg!Fds = Fds /\ Rwg!Descr = Descr /\ Rwg!Free = Free /\ Rwg!Pipes = Pipes
  BY DEF Rwg!Fds, Fds, Rwg!Descr, Descr, Rwg!Free, Free, Rwg!Pipes, Pipes
<1>2. \A fs : Rwg!Lowest(fs) = Lowest(fs)
  BY DEF Rwg!Lowest, Lowest
<1>3. Rwg!NewPipe = NewPipe
  BY <1>1 DEF Rwg!NewPipe, NewPipe, Rwg!Lowest, Lowest
<1>4. \A f, end : Rwg!Ends(f, end) <=> Ends(f, end)
  BY <1>1 DEF Rwg!Ends, Ends
<1>5. \A fds, table : Rwg!Closed(fds, table) = Closed(fds, table)
  BY <1>1 DEF Rwg!Closed, Closed
<1>6. \A f : Rwg!Content(f) = Content(f)
  BY <1>4 DEF Rwg!Content, Content
<1>7. Rwg!CanPipe <=> CanPipe
  <2>1. Rwg!Cardinality(Free) = Cardinality(Free)
    BY DEF Rwg!Cardinality, Cardinality
  <2> QED BY <1>1, <2>1 DEF Rwg!CanPipe, CanPipe
<1>8. Rwg!Piped = Piped
  BY <1>3 DEF Rwg!Piped, Piped
<1>9. \A l : Rwg!Typed(l) <=> Typed(l)
  <2>1. \A l : Rwg!Programs(l) = Programs(l)
    BY DEF Rwg!Programs, Programs
  <2> QED BY <2>1 DEF Rwg!Typed, Typed
<1>10. \A reads, in, out : Rwg!Run(reads, in, out) <=> Run(reads, in, out)
  BY <1>1, <1>4, <1>6 DEF Rwg!Run, Run
<1> QED BY <1>1, <1>2, <1>3, <1>4, <1>5, <1>6, <1>7, <1>8, <1>9, <1>10

LEMMA RwgNext ==
  ASSUME line \in Seq(Command), Legal(line), RwgFinds(cmds, line)
  PROVE  /\ cmds = <<>> <=> line = <<>>
         /\ line # <<>> =>
              /\ Rwg!curr.words[1] = Head(line).kind /\ Rwg!curr.type = RwgCode(Head(line).link)
              /\ Rwg!curr.n = Head(line).n
              /\ Head(line).link # "file" => RwgFinds(Tail(cmds), Tail(line))
              /\ Head(line).link = "file" =>
                   Tail(line) = <<>> /\ SubSeq(cmds, 3, Len(cmds)) = <<>>
<1> DEFINE C == [type : 1..4, n : 0..MaxN, words : Names]
<1>1. cmds \in Seq(C) /\ Len(cmds) = IF ToFile(line) THEN Len(line) + 1 ELSE Len(line)
  BY DEF RwgFinds
<1> HIDE DEF C
<1>2. /\ cmds = <<>> <=> Len(cmds) = 0
      /\ line = <<>> <=> Len(line) = 0
      /\ Len(line) \in Nat
  BY <1>1, EmptyIs
<1>3. cmds = <<>> <=> line = <<>>
  BY <1>1, <1>2 DEF ToFile
<1>4. ASSUME line # <<>>
      PROVE  /\ Rwg!curr.words[1] = Head(line).kind /\ Rwg!curr.type = RwgCode(Head(line).link)
             /\ Rwg!curr.n = Head(line).n
  <2>1. 1 \in 1..Len(line) /\ Head(line) = line[1] /\ Head(cmds) = cmds[1]
    BY <1>1, <1>2, <1>3, <1>4
  <2> QED BY <2>1 DEF RwgFinds, Rwg!curr
<1>5. ASSUME line # <<>>, Head(line).link # "file" PROVE RwgFinds(Tail(cmds), Tail(line))
  <2>1. /\ Tail(cmds) \in Seq(C) /\ Len(Tail(cmds)) = Len(cmds) - 1
        /\ \A i \in 1..Len(cmds) - 1 : Tail(cmds)[i] = cmds[i + 1]
    BY <1>1, <1>3, <1>5
  <2>2. ToFile(Tail(line)) = ToFile(line)
    <3>1. CASE Tail(line) = <<>>
      BY <1>5, <3>1, RestOfLine DEF ToFile
    <3>2. CASE Tail(line) # <<>>
      BY <1>5, <3>2, RestOfLine
    <3> QED BY <3>1, <3>2
  <2>3. /\ Len(Tail(line)) = Len(line) - 1
        /\ \A i \in 1..Len(line) - 1 : Tail(line)[i] = line[i + 1]
    BY <1>5, RestOfLine
  <2>4. Len(Tail(cmds)) = IF ToFile(Tail(line)) THEN Len(Tail(line)) + 1 ELSE Len(Tail(line))
    BY <1>1, <1>2, <2>1, <2>2, <2>3
  <2>5. ASSUME NEW i \in 1..Len(Tail(line))
        PROVE  Tail(cmds)[i] = cmds[i + 1] /\ Tail(line)[i] = line[i + 1] /\ i + 1 \in 1..Len(line)
    <3>1. i \in 1..Len(line) - 1 /\ i + 1 \in 1..Len(line)
      BY <1>2, <2>3
    <3>2. Len(cmds) \in Nat /\ Len(cmds) >= Len(line)
      BY <1>1, <1>2
    <3>3. i \in 1..Len(cmds) - 1
      BY <1>2, <3>1, <3>2
    <3>4. Tail(cmds)[i] = cmds[i + 1]
      BY <2>1, <3>3
    <3>5. Tail(line)[i] = line[i + 1]
      BY <2>3, <3>1
    <3> QED BY <3>1, <3>4, <3>5
  <2>6. ASSUME NEW i \in 1..Len(Tail(line))
        PROVE  Tail(cmds)[i].words = <<Tail(line)[i].kind>> /\ Tail(cmds)[i].type = RwgCode(Tail(line)[i].link)
               /\ Tail(cmds)[i].n = Tail(line)[i].n
    BY <2>5 DEF RwgFinds
  <2> QED BY <2>1, <2>4, <2>6 DEF RwgFinds, C
<1>6. ASSUME line # <<>>, Head(line).link = "file"
      PROVE  Tail(line) = <<>> /\ SubSeq(cmds, 3, Len(cmds)) = <<>>
  <2>1. Tail(line) = <<>> /\ Last(line) = Head(line) /\ Len(line) = 1
    BY <1>6, RestOfLine
  <2>2. Len(cmds) = 2
    BY <1>1, <1>6, <2>1 DEF ToFile
  <2> QED BY <2>1, <2>2
<1> QED BY <1>3, <1>4, <1>5, <1>6

LEMMA RwgTypesAre ==
  ASSUME RwgTypes
  PROVE  /\ KernelTypeOK /\ queue \subseteq Waiting /\ line \in Seq(Command)
         /\ open \in [Fds -> PipeEnd \cup {None}] /\ count \in Nat /\ starved \in BOOLEAN
         /\ locals \in [prev : Descr \X Descr, next : Descr \X Descr, fdin : Descr, fdout : Descr]
         /\ \A e \in queue : e.remains \in Int /\ e.rd \in Fds /\ e.wr \in Fds
BY RwgKernel DEF RwgTypes, KernelTypeOK, Waiting, Rwg!Locals

\* How a program is prepared: a pipe r, w or a file f is opened.
RwgPrepared(r, w, f, out, new) ==
  LET h   == Head(line)
      dry == {e.wr : e \in Rwg!Due}
  IN
  /\ pc = "run" /\ pc' = "fork" /\ line # <<>> /\ h.kind # "builtin"
  /\ UNCHANGED <<line, cmds, data, got, count, starved>>
  /\ IsFree(r, dry) /\ IsFree(w, dry) /\ IsFree(f, dry)
  /\ r = w => r = 0
  /\ f = 0 \/ (r = 0 /\ w = 0)
  /\ open' = Table(r, w, f, dry)
  /\ locals' = [prev |-> locals.prev, next |-> IF h.link = "pipe" THEN <<r, w>> ELSE locals.next,
                fdin |-> Rwg!Stdin, fdout |-> out]
  /\ \/ h.link = "end" /\ r = 0 /\ w = 0 /\ f = 0 /\ out = 0 /\ queue' = queue
     \/ h.link = "pipe" /\ r # 0 /\ w # 0 /\ out = w /\ queue' = queue
     \/ /\ Numbered(h.link) /\ r = 0 /\ w = 0 /\ f = 0 /\ queue' = queue
        /\ \E e \in queue : e.remains = h.n /\ e.wr = out
     \/ /\ Numbered(h.link) /\ r # 0 /\ w # 0 /\ out = w
        /\ \A e \in queue : e.remains # h.n
        /\ new = [remains |-> h.n, rd |-> r, wr |-> w] /\ queue' = queue \cup {new}
     \/ h.link = "file" /\ r = 0 /\ w = 0 /\ f # 0 /\ out = f /\ queue' = queue

LEMMA RwgPrepares ==
  ASSUME RwgInv, Rwg!PrepareLast \/ Rwg!PreparePipe \/ Rwg!PrepareNumbered \/ Rwg!PrepareFile
  PROVE  \E r, w, f, out \in Descr : \E new : RwgPrepared(r, w, f, out, new)
<1> DEFINE h == Head(line)
           dry == {e.wr : e \in Rwg!Due}
<1>1. /\ KernelTypeOK /\ open \in [Fds -> PipeEnd \cup {None}] /\ count \in Nat
      /\ locals \in [prev : Descr \X Descr, next : Descr \X Descr, fdin : Descr, fdout : Descr]
      /\ \A e \in queue : e.remains \in Int /\ e.rd \in Fds /\ e.wr \in Fds
      /\ line \in Seq(Command)
  BY RwgTypesAre DEF RwgInv
<1>2. pc = "run" /\ cmds # <<>> /\ Rwg!curr.words[1] # "builtin"
  BY DEF Rwg!PrepareLast, Rwg!PreparePipe, Rwg!PrepareNumbered, Rwg!PrepareFile, Rwg!Program, Rwg!InLoop
<1>3. Legal(line) /\ RwgFinds(cmds, line)
  BY <1>2 DEF RwgInv, RwgWords
<1>4. line # <<>> /\ h.kind # "builtin" /\ Rwg!curr.type = RwgCode(h.link) /\ Rwg!curr.n = h.n
  BY <1>1, <1>2, <1>3, RwgNext
<1>5. h.link \in {"end", "pipe", "num", "err", "file"} /\ h.n \in Nat /\ (Numbered(h.link) <=> h.n # 0)
  <2>1. h \in Command /\ (Numbered(h.link) <=> h.n # 0)
    BY <1>1, <1>3, <1>4, RestOfLine
  <2> QED BY <2>1 DEF Command
<1>6. /\ Rwg!curr.type = 1 <=> h.link = "end"
      /\ Rwg!curr.type = 4 <=> h.link = "file"
      /\ Rwg!curr.type = 2 /\ h.n = 0 <=> h.link = "pipe"
      /\ Rwg!curr.type \in {2, 3} /\ h.n # 0 <=> Numbered(h.link)
  BY <1>4, <1>5 DEF RwgCode, Numbered
<1>7. \A g \in dry : g \in Fds /\ open[g] # None
  <2>1. \A e \in queue : e.remains = 0 => Whole(e)
    BY <1>2, <1>4 DEF RwgInv, RwgQueue
  <2> QED BY <2>1 DEF Rwg!Due, Whole, Ends
<1> HIDE DEF h
<1>8. ASSUME NEW next \in Descr \X Descr, NEW out \in Descr, NEW table, Rwg!Prepare(next, out, table)
      PROVE  /\ pc' = "fork" /\ UNCHANGED <<line, cmds, data, got, count, starved>>
             /\ locals' = [prev |-> locals.prev, next |-> next, fdin |-> Rwg!Stdin, fdout |-> out]
             /\ open' = table
  BY <1>1, <1>8 DEF Rwg!Prepare
<1>9. \A table : Rwg!FedFrom(table) = Closed(dry, table)
  BY RwgKernel DEF Rwg!FedFrom
<1> HIDE DEF dry
<1>10. 0 \in Descr /\ 0 \notin Fds /\ \A g \in Fds : g \in Descr
  BY DEF Descr, Fds
<1>11. Closed(dry, open) = Table(0, 0, 0, dry)
  BY <1>10 DEF Closed, Table
<1>12. IsFree(0, dry)
  BY <1>10 DEF IsFree
<1>13. CASE Rwg!PrepareLast
  <2>1. h.link = "end" /\ queue' = queue /\ Rwg!Prepare(locals.next, 0, Closed(dry, open))
    BY <1>6, <1>9, <1>13 DEF Rwg!PrepareLast
  <2>2. RwgPrepared(0, 0, 0, 0, 0)
    BY <1>1, <1>2, <1>4, <1>8, <1>10, <1>11, <1>12, <2>1 DEF RwgPrepared, h, dry
  <2> QED BY <1>10, <2>2
<1>14. CanPipe => \E r, w \in Fds :
         /\ NewPipe = <<r, w>> /\ r # w /\ open[r] = None /\ open[w] = None
         /\ Closed(dry, Piped) = Table(r, w, 0, dry)
  <2> SUFFICES ASSUME CanPipe PROVE \E r, w \in Fds :
         /\ NewPipe = <<r, w>> /\ r # w /\ open[r] = None /\ open[w] = None
         /\ Closed(dry, Piped) = Table(r, w, 0, dry)
    OBVIOUS
  <2> DEFINE r == NewPipe[1]  w == NewPipe[2]
  <2>1. r \in Fds /\ w \in Fds /\ r # w /\ open[r] = None /\ open[w] = None
    BY PipeOpens
  <2>2. Piped = [open EXCEPT ![r] = Reading, ![w] = Writing]
    BY DEF Piped, Reading, Writing
  <2>3. NewPipe = <<r, w>>
    BY DEF NewPipe
  <2> HIDE DEF r, w
  <2>4. \A g \in Fds : (IF g \in dry THEN None ELSE Piped[g])
            = IF g = r THEN Reading ELSE IF g = w THEN Writing ELSE IF g = 0 THEN File
              ELSE IF g \in dry THEN None ELSE open[g]
    BY <1>1, <1>7, <1>10, <2>1, <2>2
  <2>5. Closed(dry, Piped) = Table(r, w, 0, dry)
    BY <2>4 DEF Closed, Table
  <2> QED BY <2>1, <2>3, <2>5
<1>15. CASE Rwg!PreparePipe
  <2>1. CanPipe /\ h.link = "pipe" /\ queue' = queue
        /\ Rwg!Prepare(NewPipe, NewPipe[2], Closed(dry, Piped))
    BY <1>4, <1>6, <1>9, <1>15, RwgKernel DEF Rwg!PreparePipe
  <2>2. PICK r \in Fds, w \in Fds :
          /\ NewPipe = <<r, w>> /\ r # w /\ open[r] = None /\ open[w] = None
          /\ Closed(dry, Piped) = Table(r, w, 0, dry)
    BY <1>14, <2>1
  <2>3. <<r, w>> \in Descr \X Descr /\ <<r, w>>[2] = w /\ IsFree(r, dry) /\ IsFree(w, dry) /\ r # 0 /\ w # 0
    BY <1>10, <2>2 DEF IsFree
  <2>4. RwgPrepared(r, w, 0, w, 0)
    BY <1>2, <1>4, <1>8, <1>10, <1>12, <2>1, <2>2, <2>3 DEF RwgPrepared, h, dry
  <2> QED BY <1>10, <2>4
<1>16. CASE Rwg!PrepareNumbered
  <2>1. Numbered(h.link)
    BY <1>4, <1>6, <1>16 DEF Rwg!PrepareNumbered
  <2>2. ASSUME NEW e \in queue, e.remains = h.n, queue' = queue,
               Rwg!Prepare(locals.next, e.wr, Closed(dry, open))
        PROVE  RwgPrepared(0, 0, 0, e.wr, 0)
    <3>1. h.link # "pipe" /\ locals.next \in Descr \X Descr /\ e.wr \in Descr
      BY <1>1, <1>10, <2>1 DEF Numbered
    <3> QED BY <1>2, <1>4, <1>8, <1>10, <1>11, <1>12, <2>1, <2>2, <3>1 DEF RwgPrepared, h, dry
  <2>3. ASSUME \A e \in queue : e.remains # h.n, CanPipe,
               Rwg!Prepare(locals.next, NewPipe[2], Closed(dry, Piped)),
               queue' = queue \cup {[remains |-> h.n, rd |-> NewPipe[1], wr |-> NewPipe[2]]}
        PROVE  \E r, w \in Descr : \E new : RwgPrepared(r, w, 0, w, new)
    <3>1. PICK r \in Fds, w \in Fds :
            /\ NewPipe = <<r, w>> /\ r # w /\ open[r] = None /\ open[w] = None
            /\ Closed(dry, Piped) = Table(r, w, 0, dry)
      BY <1>14, <2>3
    <3>2. /\ NewPipe[1] = r /\ NewPipe[2] = w /\ IsFree(r, dry) /\ IsFree(w, dry) /\ r # 0 /\ w # 0
          /\ r \in Descr /\ w \in Descr
      BY <1>10, <3>1 DEF IsFree
    <3>3. PICK new : new = [remains |-> h.n, rd |-> r, wr |-> w]
      OBVIOUS
    <3>4. queue' = queue \cup {new}
      BY <2>3, <3>2, <3>3
    <3>5. h.link # "pipe" /\ locals.next \in Descr \X Descr
      BY <1>1, <2>1 DEF Numbered
    <3>6. /\ pc' = "fork" /\ UNCHANGED <<line, cmds, data, got, count, starved>>
          /\ locals' = [prev |-> locals.prev, next |-> locals.next, fdin |-> Rwg!Stdin, fdout |-> w]
          /\ open' = Table(r, w, 0, dry)
      BY <1>8, <2>3, <3>1, <3>2, <3>5
    <3>7. RwgPrepared(r, w, 0, w, new)
      BY <1>2, <1>4, <1>12, <2>1, <2>3, <3>1, <3>2, <3>3, <3>4, <3>5, <3>6 DEF RwgPrepared, h, dry
    <3> QED BY <3>2, <3>7
  <2>4. \/ \E e \in queue : /\ e.remains = h.n /\ queue' = queue
                            /\ Rwg!Prepare(locals.next, e.wr, Closed(dry, open))
        \/ /\ \A e \in queue : e.remains # h.n
           /\ CanPipe /\ Rwg!Prepare(locals.next, NewPipe[2], Closed(dry, Piped))
           /\ queue' = queue \cup {[remains |-> h.n, rd |-> NewPipe[1], wr |-> NewPipe[2]]}
    BY <1>4, <1>9, <1>16, RwgKernel DEF Rwg!PrepareNumbered
  <2> QED BY <1>1, <1>10, <2>2, <2>3, <2>4
<1>17. CASE Rwg!PrepareFile
  <2> DEFINE table == Closed(dry, open)
             free  == {g \in Fds : table[g] = None}
             f     == Lowest(free)
  <2>1. /\ h.link = "file" /\ queue' = queue /\ free # {}
        /\ Rwg!Prepare(locals.next, f, [table EXCEPT ![f] = File])
    BY <1>6, <1>9, <1>17, RwgKernel DEF Rwg!PrepareFile, File
  <2>2. f \in Fds /\ table[f] = None
    BY <2>1, LowestIs
  <2> HIDE DEF f
  <2>3. IsFree(f, dry) /\ f # 0 /\ f \in Descr
    BY <1>10, <2>2 DEF IsFree, Closed
  <2>4. [table EXCEPT ![f] = File] = Table(0, 0, f, dry)
    BY <1>10 DEF Closed, Table
  <2>5. /\ pc' = "fork" /\ UNCHANGED <<line, cmds, data, got, count, starved>>
        /\ locals' = [prev |-> locals.prev, next |-> locals.next, fdin |-> Rwg!Stdin, fdout |-> f]
        /\ open' = Table(0, 0, f, dry)
    BY <1>1, <1>8, <2>1, <2>3, <2>4
  <2>6. RwgPrepared(0, 0, f, f, 0)
    BY <1>2, <1>4, <1>10, <1>12, <2>1, <2>3, <2>5 DEF RwgPrepared, h, dry
  <2> QED BY <1>10, <2>3, <2>6
<1> QED BY <1>13, <1>15, <1>16, <1>17

LEMMA RwgPreparesOne ==
  ASSUME RwgInv, Rwg!PrepareLast \/ Rwg!PreparePipe \/ Rwg!PrepareNumbered \/ Rwg!PrepareFile
  PROVE  RwgInv'
<1> DEFINE h == Head(line)
           dry == {e.wr : e \in Rwg!Due}
<1>1. /\ KernelTypeOK /\ open \in [Fds -> PipeEnd \cup {None}] /\ count \in Nat
      /\ locals \in [prev : Descr \X Descr, next : Descr \X Descr, fdin : Descr, fdout : Descr]
      /\ \A e \in queue : e.remains \in Int /\ e.rd \in Fds /\ e.wr \in Fds
      /\ queue \subseteq Waiting /\ line \in Seq(Command)
      /\ Sole /\ Old /\ Apart
  BY RwgTypesAre DEF RwgInv, RwgQueue
<1>2. PICK r \in Descr, w \in Descr, f \in Descr, out \in Descr : \E new : RwgPrepared(r, w, f, out, new)
  BY RwgPrepares
<1>3. PICK new : RwgPrepared(r, w, f, out, new)
  BY <1>2
<1>4. /\ pc = "run" /\ pc' = "fork" /\ line # <<>> /\ h.kind # "builtin"
      /\ UNCHANGED <<line, cmds, data, got, count, starved>>
      /\ IsFree(r, dry) /\ IsFree(w, dry) /\ IsFree(f, dry)
      /\ r = w => r = 0
      /\ f = 0 \/ (r = 0 /\ w = 0)
      /\ open' = Table(r, w, f, dry)
      /\ locals' = [prev |-> locals.prev, next |-> IF h.link = "pipe" THEN <<r, w>> ELSE locals.next,
                    fdin |-> Rwg!Stdin, fdout |-> out]
      /\ \/ h.link = "end" /\ r = 0 /\ w = 0 /\ f = 0 /\ out = 0 /\ queue' = queue
         \/ h.link = "pipe" /\ r # 0 /\ w # 0 /\ out = w /\ queue' = queue
         \/ /\ Numbered(h.link) /\ r = 0 /\ w = 0 /\ f = 0 /\ queue' = queue
            /\ \E e \in queue : e.remains = h.n /\ e.wr = out
         \/ /\ Numbered(h.link) /\ r # 0 /\ w # 0 /\ out = w
            /\ \A e \in queue : e.remains # h.n
            /\ new = [remains |-> h.n, rd |-> r, wr |-> w] /\ queue' = queue \cup {new}
         \/ h.link = "file" /\ r = 0 /\ w = 0 /\ f # 0 /\ out = f /\ queue' = queue
  BY <1>3 DEF RwgPrepared
<1>5. /\ h.n \in 0..MaxN /\ (Numbered(h.link) <=> h.n # 0)
      /\ Legal(line) /\ (h.link = "pipe" => Len(line) >= 2)
  <2>1. Legal(line)
    BY DEF RwgInv, RwgWords
  <2>2. h \in Command /\ (Numbered(h.link) <=> h.n # 0) /\ (h.link = "pipe" <=> Tail(line) # <<>>)
        /\ (Tail(line) # <<>> <=> Len(line) # 1) /\ Len(line) \in Nat /\ Len(line) >= 1
    <3>1. /\ h \in Command /\ (Numbered(h.link) <=> h.n # 0) /\ (h.link = "pipe" <=> Tail(line) # <<>>)
          /\ Tail(line) \in Seq(Command) /\ Len(line) \in Nat /\ Len(line) >= 1
          /\ Len(Tail(line)) = Len(line) - 1
      BY <1>1, <1>4, <2>1, RestOfLine
    <3> QED BY <3>1, EmptyIs
  <2> QED BY <2>1, <2>2 DEF Command
<1>6. count + 1 \in Pipes
  BY <1>1, <1>4, NextPipe DEF RwgInv, RwgWords
<1>7. \A g : g \in dry <=> \E e \in queue : e.remains = 0 /\ g = e.wr
  BY DEF Rwg!Due
<1>8. \A e \in queue : Whole(e) /\ e.remains \in 0..MaxN
  BY <1>4 DEF RwgInv, RwgQueue
<1> HIDE DEF h, dry
<1>9. /\ open' \in [Fds -> PipeEnd \cup {None}]
      /\ Old' /\ Sole'
      /\ \A g : Open(g) /\ g \notin dry => open'[g] = open[g] /\ Open(g)' /\ g # r /\ g # w /\ g # f
      /\ r # 0 => Ends(r, "r")' /\ open'[r].pipe = count + 1
      /\ w # 0 => Ends(w, "w")' /\ open'[w].pipe = count + 1
      /\ \A g, end : Ends(g, end) /\ g \notin dry => Ends(g, end)' /\ open'[g] = open[g]
      /\ \A g : Open(g)' /\ g # r /\ g # w /\ g # f => Open(g) /\ g \notin dry /\ open'[g] = open[g]
      /\ \A g : Open(g)' /\ g = f => open'[g] = File
      /\ \A g : Open(g) /\ g \notin dry /\ Dry(g) => Dry(g)'
      /\ \A g : Open(g) => open[g].pipe \in 0..count /\ (open[g].end # "f" => open[g].pipe \in Pipes)
  BY <1>1, <1>4, <1>6, Preparing
<1>10. ASSUME NEW e \in queue
       PROVE  /\ Ends(e.rd, "r") /\ Open(e.rd) /\ e.rd \notin dry /\ e.rd # r /\ e.rd # w
              /\ e.remains # 0 => e.wr \notin dry /\ Whole(e)'
              /\ e.remains = 0 => Dry(e.rd)'
              /\ Ends(e.rd, "r")' /\ open'[e.rd] = open[e.rd]
  <2>1. Ends(e.rd, "r") /\ Open(e.rd) /\ e.rd \notin dry
    BY <1>7, <1>8 DEF Whole, Ends, Open
  <2>2. Ends(e.rd, "r")' /\ open'[e.rd] = open[e.rd] /\ e.rd # r /\ e.rd # w
    BY <1>9, <2>1
  <2>3. ASSUME e.remains # 0 PROVE e.wr \notin dry
    <3> SUFFICES ASSUME NEW d \in queue, d.remains = 0, d.wr = e.wr PROVE FALSE
      BY <1>7
    <3>1. d.rd = e.rd
      BY <1>1, <1>8 DEF Whole, Ends, Sole, Open
    <3> QED BY <1>1, <2>3, <3>1 DEF Apart
  <2>4. ASSUME e.remains # 0 PROVE Whole(e)'
    <3>1. Ends(e.wr, "w")' /\ open'[e.wr] = open[e.wr]
      BY <1>8, <1>9, <2>3, <2>4 DEF Whole
    <3> QED BY <1>8, <2>2, <3>1 DEF Whole, Ends
  <2>5. ASSUME e.remains = 0 PROVE Dry(e.rd)'
    <3> SUFFICES ASSUME NEW g \in Fds, open'[g] # None, open'[g].end = "w", open'[g].pipe = open[e.rd].pipe
                 PROVE  FALSE
      BY <2>2 DEF Dry, Ends
    <3>1. Open(g)' /\ open[e.rd].pipe <= count
      BY <1>9, <2>1 DEF Open
    <3>2. g # w
      BY <1>1, <1>9, <3>1, ZeroIsNoFd
    <3>3. g # r /\ g # f
      BY <1>9, <3>1, ZeroIsNoFd DEF File, Ends
    <3>4. Open(g) /\ g \notin dry /\ open'[g] = open[g]
      BY <1>9, <3>1, <3>2, <3>3
    <3>5. g = e.wr
      BY <1>1, <1>8, <3>4 DEF Whole, Ends, Sole, Open
    <3> QED BY <1>7, <2>5, <3>4, <3>5
  <2> QED BY <2>1, <2>2, <2>3, <2>4, <2>5
<1>11. \/ queue' = queue
       \/ /\ queue' = queue \cup {new} /\ new = [remains |-> h.n, rd |-> r, wr |-> w]
          /\ new \in Waiting /\ new.remains \in 1..MaxN /\ Whole(new)' /\ new.rd = r
          /\ \A e \in queue : e.remains # new.remains /\ e.rd # new.rd
  <2> SUFFICES ASSUME Numbered(h.link), r # 0, w # 0,
                      \A e \in queue : e.remains # h.n,
                      new = [remains |-> h.n, rd |-> r, wr |-> w], queue' = queue \cup {new}
               PROVE  /\ new \in Waiting /\ new.remains \in 1..MaxN /\ Whole(new)' /\ new.rd = r
                      /\ \A e \in queue : e.remains # new.remains /\ e.rd # new.rd
    BY <1>4
  <2>1. Ends(r, "r")' /\ open'[r].pipe = count + 1 /\ Ends(w, "w")' /\ open'[w].pipe = count + 1
    BY <1>9
  <2>2. r \in Fds /\ w \in Fds
    BY DEF Descr
  <2>3. h.n \in 1..MaxN
    BY <1>5
  <2> QED BY <1>10, <2>1, <2>2, <2>3 DEF Waiting, Whole
<1>12. RwgTypes'
  <2>1. queue' \subseteq Waiting
    BY <1>1, <1>11
  <2>2. Rwg!Stdin \in Descr
    <3>1. CASE Rwg!Due = {}
      BY <1>1, <3>1 DEF Rwg!Stdin
    <3>2. CASE Rwg!Due # {}
      <4>1. (CHOOSE e \in Rwg!Due : TRUE) \in queue
        BY <3>2 DEF Rwg!Due
      <4> QED BY <1>1, <3>2, <4>1 DEF Rwg!Stdin, Descr
    <3> QED BY <3>1, <3>2
  <2>3. locals' \in Rwg!Locals
    BY <1>1, <1>4, <2>2, RwgKernel DEF Rwg!Locals
  <2> QED BY <1>1, <1>4, <1>9, <2>1, <2>3 DEF RwgTypes, KernelTypeOK
<1>13. RwgWords'
  BY <1>4 DEF RwgInv, RwgWords, h
<1>14. RwgQueue'
  <2>1. ASSUME NEW x \in queue'
        PROVE  /\ x.remains \in 0..MaxN /\ Ends(x.rd, "r")'
               /\ Whole(x)' \/ (x.remains = 0 /\ Dry(x.rd)')
               /\ x.remains = 0 => Dry(x.rd)'
    <3>1. CASE x \in queue
      BY <1>8, <1>10, <3>1
    <3>2. CASE x = new /\ new.remains \in 1..MaxN /\ Whole(new)'
      BY <3>2 DEF Whole
    <3> QED BY <1>11, <3>1, <3>2
  <2>2. Apart'
    BY <1>1, <1>11 DEF Apart
  <2> QED BY <1>4, <2>1, <2>2 DEF RwgQueue
<1>15. ASSUME NEW p, p = <<0, 0>> \/ Bar(p), p = locals.prev
       PROVE  p = <<0, 0>> \/ (Bar(p)' /\ Open(p[1]) /\ Open(p[2]) /\ p[1] \notin dry /\ p[2] \notin dry)
  <2> SUFFICES ASSUME Bar(p) PROVE Bar(p)' /\ Open(p[1]) /\ Open(p[2]) /\ p[1] \notin dry /\ p[2] \notin dry
    BY <1>15
  <2>1. Open(p[1]) /\ Open(p[2]) /\ p[1] \notin dry /\ p[2] \notin dry
    BY <1>7 DEF Bar, Ends, Open
  <2>2. Ends(p[1], "r")' /\ Ends(p[2], "w")' /\ open'[p[1]] = open[p[1]] /\ open'[p[2]] = open[p[2]]
        /\ p[1] # r
    BY <1>9, <2>1 DEF Bar
  <2>3. \A e \in queue' : e.remains # 0 /\ e.rd # p[1]
    BY <1>11, <2>2 DEF Bar
  <2> QED BY <2>1, <2>2, <2>3 DEF Bar
<1>16. \/ locals.prev = <<0, 0>>
       \/ /\ Bar(locals.prev)' /\ Open(locals.prev[1]) /\ Open(locals.prev[2])
          /\ locals.prev[1] \notin dry /\ locals.prev[2] \notin dry
  <2>1. PICK p : p = locals.prev
    OBVIOUS
  <2>2. p = <<0, 0>> \/ Bar(p)
    BY <1>4, <2>1 DEF RwgInv, RwgBars
  <2>3. locals'.prev = p
    BY <1>4, <2>1
  <2>4. p = <<0, 0>> \/ (Bar(p)' /\ Open(p[1]) /\ Open(p[2]) /\ p[1] \notin dry /\ p[2] \notin dry)
    BY <1>15, <2>1, <2>2
  <2>5. Bar(p)' => Bar(locals.prev)'
    BY <2>3 DEF Bar
  <2> QED BY <2>1, <2>4, <2>5
<1>17. Len(line) >= 2 => \A e \in queue' : e.remains # 0
  BY <1>4, <1>11 DEF RwgInv, RwgBars
<1>18. RwgBars'
  <2>1. locals'.prev = locals.prev
    BY <1>4
  <2>2. h.kind # "builtin" /\ line' = line /\ pc' = "fork" /\ line # <<>>
    BY <1>4
  <2> QED BY <1>16, <1>17, <2>1, <2>2 DEF RwgBars, h
<1>19. ASSUME h.link = "pipe"
       PROVE  /\ Bar(locals.next)' /\ open'[r].pipe = count' + 1
              /\ locals'.next = <<r, w>> /\ locals'.fdout = w
              /\ r # locals.prev[1] /\ w # locals.prev[2]
  <2>1. locals'.next = <<r, w>> /\ locals'.fdout = w /\ r # 0 /\ w # 0 /\ queue' = queue /\ count' = count
    BY <1>4, <1>19 DEF Numbered
  <2>2. \A e \in queue : e.remains # 0 /\ e.rd # r
    BY <1>5, <1>10, <1>17, <1>19, <2>1
  <2>3. Bar(locals.next)' /\ open'[r].pipe = count' + 1
    BY <1>9, <2>1, <2>2 DEF Bar, Ends
  <2>4. r # locals.prev[1] /\ w # locals.prev[2]
    BY <1>9, <1>16, <2>1
  <2> QED BY <2>1, <2>3, <2>4
<1>20. RwgReady'
  <2>1. Rwg!Due' = Rwg!Due
    BY <1>11 DEF Rwg!Due
  <2>2. locals'.fdin = Rwg!Stdin'
    BY <1>4, <2>1 DEF Rwg!Stdin
  <2>3. h.link # "pipe" => locals'.next = locals'.prev
    BY <1>4 DEF RwgInv, RwgBars
  <2>4. Numbered(h.link) => \E e \in queue' : e.remains = h.n /\ e.wr = locals'.fdout
    BY <1>4 DEF Numbered
  <2>5. ASSUME h.link \in {"end", "file"} PROVE ~Ends(locals.fdout, "w")'
    <3>1. locals'.fdout = out /\ (out = 0 \/ out = f)
      BY <1>4, <2>5 DEF Numbered
    <3>2. out = 0 \/ ~Open(out)' \/ open'[out] = File
      BY <1>9, <3>1
    <3> QED BY <3>1, <3>2, ZeroIsNoFd DEF Ends, Open, File
  <2> QED BY <1>4, <1>19, <2>2, <2>3, <2>4, <2>5 DEF RwgReady, h
<1>21. RwgKeeps'
  <2> SUFFICES ASSUME NEW g \in Fds, Open(g)' PROVE RwgHeld(g)'
    BY DEF RwgKeeps
  <2>1. g # 0
    BY ZeroIsNoFd
  <2>2. CASE g = f
    BY <1>9, <2>2 DEF RwgHeld, File
  <2>3. CASE g = r \/ g = w
    <3>1. CASE h.link = "pipe"
      <4>1. g \in {locals'.next[1], locals'.next[2]}
        BY <1>19, <2>3, <3>1
      <4> QED BY <1>4, <4>1 DEF RwgHeld
    <3>2. CASE h.link # "pipe"
      <4>1. /\ new \in queue' /\ new.rd = r /\ new.wr = w /\ Whole(new)'
        BY <1>4, <1>11, <2>1, <2>3, <3>2
      <4> QED BY <2>3, <4>1 DEF RwgHeld
    <3> QED BY <3>1, <3>2
  <2>4. CASE g # f /\ g # r /\ g # w
    <3>1. Open(g) /\ g \notin dry /\ open'[g] = open[g] /\ RwgHeld(g)
      BY <1>9, <2>4 DEF RwgInv, RwgKeeps, Open
    <3>2. CASE open[g].end = "f"
      BY <3>1, <3>2 DEF RwgHeld
    <3>3. CASE \E e \in queue : g = e.rd \/ (g = e.wr /\ Whole(e))
      <4>1. PICK e \in queue : g = e.rd \/ (g = e.wr /\ Whole(e))
        BY <3>3
      <4>2. e \in queue' /\ (g = e.wr => e.remains # 0)
        BY <1>7, <1>11, <3>1
      <4> QED BY <1>10, <4>1, <4>2 DEF RwgHeld
    <3>4. CASE g \in {locals.prev[1], locals.prev[2], locals.next[1], locals.next[2]}
      <4>1. g \in {locals'.prev[1], locals'.prev[2]}
        BY <1>4, <3>4 DEF RwgInv, RwgBars
      <4> QED BY <1>4, <4>1 DEF RwgHeld
    <3>5. CASE open[g].end = "w" /\ Lone(g)
      <4>1. Lone(g)'
        <5> SUFFICES ASSUME NEW x \in Fds \ {g}, Open(x)', open'[x].end # "f"
                     PROVE  open'[x].pipe # open'[g].pipe
          BY DEF Lone
        <5>1. CASE x # r /\ x # w /\ x # f
          BY <1>9, <3>1, <3>5, <5>1 DEF Lone
        <5>2. CASE x = f
          BY <1>9, <5>2 DEF File
        <5>3. CASE x = r \/ x = w
          <6>1. open'[x].pipe = count + 1 /\ open[g].pipe <= count
            BY <1>9, <3>1, <5>3, ZeroIsNoFd
          <6> QED BY <1>1, <3>1, <6>1
        <5> QED BY <5>1, <5>2, <5>3
      <4> QED BY <3>1, <3>5, <4>1 DEF RwgHeld
    <3> QED BY <3>1, <3>2, <3>3, <3>4, <3>5 DEF RwgHeld
  <2> QED BY <2>2, <2>3, <2>4
<1> QED BY <1>9, <1>12, <1>13, <1>14, <1>18, <1>20, <1>21 DEF RwgInv

LEMMA RwgStarts ==
  ASSUME Rwg!Init PROVE RwgInv
<1>1. /\ pc = "prompt" /\ line = <<>> /\ cmds = <<>> /\ queue = {} /\ count = 0
      /\ open = [f \in Fds |-> None] /\ data = [p \in Pipes |-> <<>>] /\ got = <<>>
      /\ starved = FALSE
      /\ locals = [prev |-> <<0, 0>>, next |-> <<0, 0>>, fdin |-> 0, fdout |-> 0]
  BY DEF Rwg!Init, Rwg!Fresh, Rwg!Fds, Fds, Rwg!Pipes, Pipes, Rwg!Idle
<1>2. RwgTypes
  <2>1. locals \in Rwg!Locals
    BY <1>1, RwgKernel DEF Rwg!Locals, Descr
  <2>2. data \in [Pipes -> Seq(Pipes)] /\ got \in Seq(Pipes) /\ line \in Seq(Command)
    BY <1>1
  <2>3. open \in [Fds -> PipeEnd \cup {None}] /\ count \in 0..MaxPrograms
    BY <1>1
  <2> QED BY <1>1, <2>1, <2>2, <2>3 DEF RwgTypes, KernelTypeOK
<1>3. Legal(<<>>) /\ Programs(<<>>) = 0
  BY DEF Legal, Programs
<1>4. RwgWords
  BY <1>1, <1>3 DEF RwgWords
<1>5. \A f : ~Open(f)
  BY <1>1 DEF Open
<1> QED BY <1>1, <1>2, <1>4, <1>5 DEF RwgInv, Sole, Old, RwgQueue, Apart, RwgBars, RwgReady, RwgKeeps

\* The prompt is open to any line.
LEMMA RwgEnters ==
  ASSUME RwgInv, "rwg" \in Shells, ~PipesIntoDue, pc = "prompt", NEW l \in Lines, Rwg!Enter(l) PROVE RwgInv'
<1>1. /\ Typed(l) /\ pc' = "run" /\ cmds' = Rwg!Parsed(l)
      /\ Rwg!Due = {} \/ Programs(l) <= 1
      /\ locals' = [locals EXCEPT !.prev = <<0, 0>>, !.next = <<0, 0>>]
      /\ UNCHANGED <<queue, open, data, got, count, starved>>
  <2>1. Rwg!Programs(l) = Programs(l)
    BY DEF Rwg!Programs, Programs
  <2> QED BY <2>1, RwgKernel DEF Rwg!Enter, Rwg!world
<1>2. l \in Seq(Command) /\ Legal(l) /\ RwgFinds(Rwg!Parsed(l), l)
  BY LinesLegal, ParsersFind
<1>3. /\ KernelTypeOK
      /\ locals \in [prev : Descr \X Descr, next : Descr \X Descr, fdin : Descr, fdout : Descr]
  BY RwgTypesAre DEF RwgInv
<1>4. line' = l
  BY <1>1 DEF Typed
<1>5. RwgTypes'
  <2>1. locals' \in Rwg!Locals
    BY <1>1, <1>3, RwgKernel DEF Rwg!Locals, Descr
  <2> QED BY <1>1, <1>2, <1>3, <1>4, <2>1 DEF RwgTypes, KernelTypeOK
<1>6. RwgWords'
  BY <1>1, <1>2 DEF RwgWords, Typed
<1>7. Sole' /\ Old'
  BY <1>1 DEF RwgInv, Sole, Old, Open
<1>8. RwgQueue'
  BY <1>1 DEF RwgInv, RwgQueue, Apart, Whole, Dry, Ends
<1>9. Len(l) >= 2 => \A e \in queue : e.remains # 0
  <2> SUFFICES ASSUME Len(l) >= 2 PROVE \A e \in queue : e.remains # 0
    OBVIOUS
  <2>1. Len(l) \in Nat /\ 1 \in 1..Len(l)
    BY <1>2
  <2>2. l[1].kind # "builtin" /\ Programs(l) = Len(l)
    BY <1>2, <2>1 DEF Legal, Programs
  <2> QED BY <1>1, <2>1, <2>2 DEF Rwg!Due
<1>10. locals'.prev = <<0, 0>> /\ locals'.next = <<0, 0>> /\ ~Open(0)'
  BY <1>1, <1>3, ZeroIsNoFd DEF Open
<1>11. RwgBars'
  BY <1>1, <1>4, <1>9, <1>10 DEF RwgBars
<1>12. RwgReady'
  BY <1>1 DEF RwgReady
<1>13. RwgKeeps'
  BY <1>1 DEF RwgInv, RwgKeeps, RwgHeld, Open, Whole, Ends, Lone
<1> QED BY <1>5, <1>6, <1>7, <1>8, <1>11, <1>12, <1>13 DEF RwgInv

LEMMA RwgBuiltin ==
  ASSUME RwgInv, Rwg!Builtin PROVE RwgInv'
<1>1. /\ pc = "run" /\ cmds # <<>> /\ Rwg!curr.words[1] = "builtin"
      /\ cmds' = Tail(cmds) /\ line' = Tail(line)
      /\ UNCHANGED <<pc, queue, locals, open, data, got, count, starved>>
  BY DEF Rwg!Builtin, Rwg!InLoop, Rwg!world
<1>2. line \in Seq(Command) /\ Legal(line) /\ RwgFinds(cmds, line)
  BY <1>1, RwgTypesAre DEF RwgInv, RwgWords
<1>3. line # <<>> /\ Head(line).kind = "builtin"
  BY <1>1, <1>2, RwgNext
<1>4. Tail(line) = <<>> /\ Legal(Tail(line)) /\ Head(line).link = "end" /\ Programs(line) = 0
  BY <1>2, <1>3, RestOfLine
<1>5. RwgFinds(Tail(cmds), Tail(line))
  BY <1>2, <1>3, <1>4, RwgNext
<1>6. RwgTypes'
  <2>1. Tail(line) \in Seq(Command)
    BY <1>2, <1>3, RestOfLine
  <2> QED BY <1>1, <2>1 DEF RwgInv, RwgTypes, KernelTypeOK
<1>7. RwgWords'
  BY <1>1, <1>4, <1>5 DEF RwgInv, RwgWords, Programs
<1>8. locals.prev = <<0, 0>> /\ locals.next = <<0, 0>>
  BY <1>1, <1>3 DEF RwgInv, RwgBars
<1>9. Sole' /\ Old' /\ RwgReady'
  BY <1>1 DEF RwgInv, Sole, Old, Open, RwgReady
<1>10. RwgQueue'
  BY <1>1, <1>3 DEF RwgInv, RwgQueue, Apart, Whole, Dry, Ends
<1>11. line' = <<>> /\ Len(<<>>) = 0
  BY <1>1, <1>4
<1>12. RwgBars'
  <2>0. ~(Len(line') >= 2)
    BY <1>11
  <2>1. locals' = locals /\ ~Open(0)' /\ <<0, 0>>[1] = 0 /\ <<0, 0>>[2] = 0
    BY <1>1, ZeroIsNoFd DEF Open
  <2>2. ~Open(locals.prev[1])' /\ ~Open(locals.prev[2])'
    BY <1>8, <2>1 DEF Open
  <2> QED BY <1>8, <1>11, <2>0, <2>1, <2>2 DEF RwgBars
<1>13. RwgKeeps'
  BY <1>1, <1>8, ZeroIsNoFd DEF RwgInv, RwgKeeps, RwgHeld, Open, Whole, Ends, Lone
<1> QED BY <1>6, <1>7, <1>9, <1>10, <1>12, <1>13 DEF RwgInv

LEMMA RwgExits ==
  ASSUME RwgInv, Rwg!Exit PROVE RwgInv'
<1>1. pc = "prompt" /\ pc' = "exited"
      /\ UNCHANGED <<line, cmds, queue, locals, open, data, got, count, starved>>
  BY DEF Rwg!Exit, Rwg!world
<1>2. RwgTypes' /\ RwgWords'
  BY <1>1 DEF RwgInv, RwgTypes, KernelTypeOK, RwgWords
<1>3. Sole' /\ Old' /\ RwgQueue' /\ RwgBars' /\ RwgReady'
  BY <1>1 DEF RwgInv, Sole, Old, Open, RwgQueue, Apart, Whole, Dry, Ends, RwgBars, RwgReady
<1>4. RwgKeeps'
  BY <1>1 DEF RwgInv, RwgKeeps, RwgHeld, Open, Whole, Ends, Lone
<1> QED BY <1>2, <1>3, <1>4 DEF RwgInv

\* Closing descriptors leaves alone what was.
LEMMA StaysAlone ==
  ASSUME KernelTypeOK, NEW fds, open' = Closed(fds, open)
  PROVE  \A f \in Fds \ fds : Lone(f) => Lone(f)'
BY Closing DEF Lone, Open

LEMMA RwgEndsLine ==
  ASSUME RwgInv, Rwg!EndLine PROVE RwgInv'
<1> DEFINE past == Rwg!Due
           dry  == {e.rd : e \in past}
<1>1. /\ pc = "run" /\ cmds = <<>> /\ pc' = "prompt" /\ queue' = Down(queue \ past)
      /\ open' = Closed(dry, open)
      /\ UNCHANGED <<line, cmds, locals, data, got, count, starved>>
  BY RwgKernel DEF Rwg!EndLine, Down, Less
<1>2. \A f : f \in dry <=> \E e \in queue : e.remains = 0 /\ f = e.rd
  BY DEF Rwg!Due
<1>3. queue \ past = {e \in queue : e.remains # 0}
  BY DEF Rwg!Due
<1> HIDE DEF dry, past
<1>4. /\ KernelTypeOK /\ queue \subseteq Waiting /\ line \in Seq(Command) /\ Apart
      /\ \A e \in queue : e.remains \in Int /\ e.rd \in Fds /\ e.wr \in Fds
  BY RwgTypesAre DEF RwgInv, RwgQueue
<1>5. line = <<>>
  BY <1>1, <1>4, RwgNext DEF RwgInv, RwgWords
<1>6. /\ open' \in [Fds -> PipeEnd \cup {None}]
      /\ \A f \in Fds : open'[f] = IF f \in dry THEN None ELSE open[f]
      /\ Sole'
      /\ \A f, end : Ends(f, end)' <=> Ends(f, end) /\ f \notin dry
  BY <1>1, <1>4, Closing DEF RwgInv
<1>7. /\ queue' \subseteq Waiting
      /\ \A x \in queue' : \E e \in queue :
           e.remains # 0 /\ e.remains = x.remains + 1 /\ e.rd = x.rd /\ e.wr = x.wr
      /\ \A e \in queue : e.remains # 0 => \E x \in queue' :
           e.remains = x.remains + 1 /\ e.rd = x.rd /\ e.wr = x.wr
      /\ Apart'
  <2>1. queue \ past \subseteq queue /\ \A e \in queue \ past : e \in queue /\ e.remains # 0
    BY <1>3
  <2>2. \A e \in queue : e.remains # 0 => e \in queue \ past
    BY <1>3
  <2>3. /\ Down(queue \ past) \subseteq Waiting
        /\ \A x \in Down(queue \ past) : \E e \in queue \ past :
             e.remains = x.remains + 1 /\ e.rd = x.rd /\ e.wr = x.wr
        /\ \A e \in queue \ past : \E x \in Down(queue \ past) :
             e.remains = x.remains + 1 /\ e.rd = x.rd /\ e.wr = x.wr
        /\ \A x, y \in Down(queue \ past) : x.remains = y.remains \/ x.rd = y.rd => x = y
    BY <1>4, <2>1, CountedDown
  <2> QED BY <1>1, <2>1, <2>2, <2>3 DEF Apart
<1>8. ASSUME NEW e \in queue, e.remains # 0 PROVE Whole(e)' /\ e.remains \in 1..MaxN
  <2>1. Whole(e) /\ e.remains \in 1..MaxN
    BY <1>8 DEF RwgInv, RwgQueue
  <2>2. e.wr \notin dry
    BY <1>2, <2>1 DEF RwgInv, RwgQueue, Whole, Ends
  <2>3. e.rd \notin dry
    BY <1>2, <1>4, <1>8 DEF Apart
  <2> QED BY <1>4, <1>6, <2>1, <2>2, <2>3 DEF Whole, Ends
<1>9. RwgTypes' /\ RwgWords'
  BY <1>1, <1>4, <1>5, <1>6, <1>7 DEF RwgInv, RwgTypes, KernelTypeOK, RwgWords
<1>10. Old' /\ RwgBars' /\ RwgReady'
  BY <1>1, <1>6 DEF RwgInv, Old, Open, RwgBars, RwgReady
<1>11. RwgQueue'
  <2>1. ASSUME NEW x \in queue' PROVE Whole(x)' /\ x.remains \in 0..MaxN
    <3>1. PICK e \in queue : e.remains # 0 /\ e.remains = x.remains + 1 /\ e.rd = x.rd /\ e.wr = x.wr
      BY <1>7
    <3>2. x.remains \in Int
      BY <1>7 DEF Waiting
    <3> QED BY <1>8, <3>1, <3>2 DEF Whole
  <2> QED BY <1>1, <1>7, <2>1 DEF RwgQueue, Whole
<1>12. RwgKeeps'
  <2> SUFFICES ASSUME NEW f \in Fds, Open(f)' PROVE RwgHeld(f)'
    BY DEF RwgKeeps
  <2>1. Open(f) /\ f \notin dry /\ open'[f] = open[f] /\ RwgHeld(f)
    BY <1>6 DEF Open, RwgInv, RwgKeeps
  <2>2. CASE open[f].end = "f"
    BY <2>1, <2>2 DEF RwgHeld
  <2>3. CASE \E e \in queue : f = e.rd \/ (f = e.wr /\ Whole(e))
    <3>1. PICK e \in queue : f = e.rd \/ (f = e.wr /\ Whole(e))
      BY <2>3
    <3>2. CASE e.remains # 0
      <4>1. PICK x \in queue' : e.remains = x.remains + 1 /\ e.rd = x.rd /\ e.wr = x.wr
        BY <1>7, <3>2
      <4>2. Whole(x)'
        BY <1>8, <3>2, <4>1 DEF Whole
      <4> QED BY <3>1, <4>1, <4>2 DEF RwgHeld
    <3>3. CASE e.remains = 0
      <4>1. f = e.wr /\ Whole(e) /\ e.rd \in dry
        BY <1>2, <2>1, <3>1, <3>3
      <4>2. ASSUME NEW g \in Fds \ {f}, Open(g), g \notin dry, open[g].end # "f"
            PROVE  open[g].pipe # open[f].pipe
        <5> SUFFICES ASSUME open[g].pipe = open[f].pipe PROVE FALSE
          OBVIOUS
        <5>1. open[g].end \in {"r", "w"}
          BY <1>4, <4>2 DEF Open, KernelTypeOK, PipeEnd
        <5>2. open[g].end # "w"
          BY <4>1, <4>2 DEF Whole, Ends, RwgInv, Sole, Open
        <5>3. g = e.rd
          BY <4>1, <4>2, <5>1, <5>2 DEF Whole, Ends, RwgInv, Sole, Open
        <5> QED BY <4>1, <4>2, <5>3
      <4>3. Lone(f)'
        BY <1>6, <2>1, <4>2 DEF Lone, Open
      <4> QED BY <2>1, <4>1, <4>3 DEF RwgHeld, Whole, Ends
    <3> QED BY <3>2, <3>3
  <2>4. CASE open[f].end = "w" /\ Lone(f)
    BY <1>1, <1>4, <2>1, <2>4, StaysAlone DEF RwgHeld
  <2> QED BY <1>5, <2>1, <2>2, <2>3, <2>4 DEF RwgHeld
<1> QED BY <1>6, <1>9, <1>10, <1>11, <1>12 DEF RwgInv

LEMMA RwgRunsProgram ==
  ASSUME RwgInv, Rwg!RunProgram PROVE RwgInv'
<1> DEFINE h == Head(line)
<1>1. /\ pc = "fork" /\ pc' = "run" /\ Run(TRUE, locals.fdin, locals.fdout)
      /\ open' = Closed({locals.prev[1], locals.prev[2]}, open)
      /\ locals' = [locals EXCEPT !.prev = locals.next]
      /\ cmds' = IF Rwg!curr.type = 4 THEN SubSeq(cmds, 3, Len(cmds)) ELSE Tail(cmds)
      /\ queue' = queue
  BY RwgKernel DEF Rwg!RunProgram, Rwg!Drops
<1>2. /\ KernelTypeOK /\ queue \subseteq Waiting /\ line \in Seq(Command) /\ count \in Nat
      /\ locals \in [prev : Descr \X Descr, next : Descr \X Descr, fdin : Descr, fdout : Descr]
      /\ \A e \in queue : e.remains \in Int /\ e.rd \in Fds /\ e.wr \in Fds
  BY RwgTypesAre DEF RwgInv
<1>3. line # <<>> /\ h.kind # "builtin" /\ Legal(line) /\ RwgFinds(cmds, line)
  BY <1>1 DEF RwgInv, RwgWords
<1>4. /\ h \in Command /\ Tail(line) \in Seq(Command) /\ Legal(Tail(line))
      /\ (h.link = "pipe" <=> Tail(line) # <<>>)
      /\ Programs(line) = Programs(Tail(line)) + 1 /\ Programs(Tail(line)) \in Nat
      /\ Len(line) \in Nat /\ Len(Tail(line)) = Len(line) - 1
      /\ Tail(line) # <<>> => Head(Tail(line)).kind # "builtin"
  BY <1>2, <1>3, RestOfLine
<1>5. count + 1 \in Pipes
  BY <1>2, <1>3, NextPipe DEF RwgInv, RwgWords
<1>6. /\ line' = Tail(line) /\ line' \in Seq(Command)
      /\ count' = count + 1 /\ count' \in 0..MaxPrograms /\ starved' = starved
      /\ data' \in [Pipes -> Seq(Pipes)] /\ got' \in Seq(Pipes)
  BY <1>1, <1>2, <1>3, <1>5, Running
<1>7. h.link \in {"end", "pipe", "num", "err", "file"}
  BY <1>4 DEF Command
<1>8. /\ Rwg!curr.type = RwgCode(h.link)
      /\ h.link # "file" => RwgFinds(Tail(cmds), Tail(line))
      /\ h.link = "file" => Tail(line) = <<>> /\ SubSeq(cmds, 3, Len(cmds)) = <<>>
  BY <1>2, <1>3, RwgNext
<1>9. Rwg!curr.type = 4 <=> h.link = "file"
  BY <1>7, <1>8 DEF RwgCode
<1>10. RwgFinds(cmds', line')
  <2>1. CASE h.link = "file"
    <3>1. cmds' = <<>> /\ line' = <<>>
      BY <1>1, <1>6, <1>8, <1>9, <2>1
    <3>2. cmds' \in Seq([type : 1..4, n : 0..MaxN, words : Names]) /\ Len(cmds') = 0 /\ Len(line') = 0
      BY <3>1
    <3> QED BY <3>1, <3>2 DEF RwgFinds, ToFile
  <2>2. CASE h.link # "file"
    BY <1>1, <1>6, <1>8, <1>9, <2>2
  <2> QED BY <2>1, <2>2
<1>11. PICK p1 \in Descr, p2 \in Descr : locals.prev = <<p1, p2>>
  <2>1. /\ locals.prev[1] \in Descr /\ locals.prev[2] \in Descr
        /\ locals.prev = <<locals.prev[1], locals.prev[2]>>
    BY <1>2
  <2> QED BY <2>1
<1>12. PICK n1 \in Descr, n2 \in Descr : locals.next = <<n1, n2>>
  <2>1. /\ locals.next[1] \in Descr /\ locals.next[2] \in Descr
        /\ locals.next = <<locals.next[1], locals.next[2]>>
    BY <1>2
  <2> QED BY <2>1
<1>13. PICK fds : fds = {p1, p2}
  OBVIOUS
<1>14. /\ open' \in [Fds -> PipeEnd \cup {None}]
       /\ \A f \in Fds : open'[f] = IF f \in fds THEN None ELSE open[f]
       /\ Sole'
       /\ \A f : f \notin fds /\ Dry(f) /\ Open(f) => Dry(f)'
       /\ \A f, end : Ends(f, end)' <=> Ends(f, end) /\ f \notin fds
       /\ \A f \in Fds \ fds : Lone(f) => Lone(f)'
  <2>1. open' = Closed(fds, open)
    BY <1>1, <1>11, <1>13
  <2> QED BY <1>2, <2>1, Closing, StaysAlone DEF RwgInv
<1>15. (p1 = 0 /\ p2 = 0) \/ (Bar(<<p1, p2>>) /\ Ends(p1, "r") /\ Ends(p2, "w")
                              /\ \A e \in queue : e.remains # 0 /\ e.rd # p1)
  BY <1>1, <1>3, <1>11 DEF RwgInv, RwgBars, Bar
<1>16. /\ locals'.prev = <<n1, n2>> /\ locals'.next = <<n1, n2>>
       /\ locals' \in [prev : Descr \X Descr, next : Descr \X Descr, fdin : Descr, fdout : Descr]
  BY <1>1, <1>2, <1>12
<1>17. h.link # "pipe" => n1 = p1 /\ n2 = p2
  BY <1>1, <1>11, <1>12 DEF RwgInv, RwgReady
<1>18. h.link = "pipe" =>
         /\ Ends(n1, "r") /\ Ends(n2, "w") /\ open[n1].pipe = open[n2].pipe
         /\ \A e \in queue : e.remains # 0 /\ e.rd # n1
         /\ n1 # p1 /\ n2 # p2
  BY <1>1, <1>11, <1>12 DEF RwgInv, RwgReady, Bar
<1> HIDE DEF h
<1>19. ASSUME NEW e \in queue
       PROVE  /\ Ends(e.rd, "r")' /\ open'[e.rd] = open[e.rd] /\ (Whole(e) => Whole(e)') /\ (Dry(e.rd) => Dry(e.rd)')
  <2>1. Ends(e.rd, "r") /\ e.rd \notin fds
    BY <1>2, <1>13, <1>15, ZeroIsNoFd DEF RwgInv, RwgQueue, Ends
  <2>2. ASSUME Whole(e) PROVE e.wr \notin fds
    <3>1. Ends(e.wr, "w") /\ open[e.wr].pipe = open[e.rd].pipe
      BY <2>2 DEF Whole
    <3>2. e.wr # p1
      BY <1>15, <3>1, ZeroIsNoFd DEF Ends
    <3>3. e.wr # p2
      <4> SUFFICES ASSUME e.wr = p2 PROVE FALSE
        OBVIOUS
      <4>1. Bar(<<p1, p2>>) /\ Ends(p1, "r") /\ e.rd # p1
        BY <1>15, <3>1, ZeroIsNoFd
      <4>2. open[p1].pipe = open[e.rd].pipe
        BY <3>1, <4>1 DEF Bar
      <4> QED BY <2>1, <4>1, <4>2 DEF RwgInv, Sole, Ends, Open
    <3> QED BY <1>13, <3>2, <3>3
  <2>3. Ends(e.rd, "r")' /\ open'[e.rd] = open[e.rd] /\ Open(e.rd)
    BY <1>14, <2>1 DEF Ends, Open
  <2>4. ASSUME Whole(e) PROVE Whole(e)'
    BY <1>14, <2>2, <2>3, <2>4 DEF Whole, Ends
  <2>5. ASSUME Dry(e.rd) PROVE Dry(e.rd)'
    BY <1>14, <2>1, <2>3, <2>5
  <2> QED BY <2>3, <2>4, <2>5
<1>20. RwgTypes'
  <2>1. locals' \in Rwg!Locals
    BY <1>16, RwgKernel DEF Rwg!Locals
  <2>2. KernelTypeOK'
    BY <1>1, <1>2, <1>6, <1>14 DEF KernelTypeOK
  <2> QED BY <2>1, <2>2 DEF RwgTypes
<1>21. RwgWords'
  BY <1>1, <1>2, <1>4, <1>6, <1>10 DEF RwgInv, RwgWords
<1>22. Old'
  <2>1. \A f \in Fds : Open(f) => open[f].pipe <= count + 1
    BY <1>1 DEF RwgInv, Old
  <2> QED BY <1>1, <1>6, <1>14, <2>1 DEF Old, Open
<1>23. line' # <<>> => h.link = "pipe" /\ (\A e \in queue : e.remains # 0)
  BY <1>4, <1>6, <1>18 DEF h
<1>24. RwgQueue'
  <2>1. ASSUME NEW e \in queue
        PROVE  /\ e.remains \in 0..MaxN /\ Ends(e.rd, "r")'
               /\ Whole(e)' \/ (e.remains = 0 /\ Dry(e.rd)' /\ line' = <<>>)
    <3>1. /\ e.remains \in 0..MaxN
          /\ Whole(e) \/ (e.remains = 0 /\ Dry(e.rd))
      BY <1>1 DEF RwgInv, RwgQueue
    <3> QED BY <1>19, <1>23, <3>1
  <2> QED BY <1>1, <2>1 DEF RwgInv, RwgQueue, Apart
<1>25. RwgBars'
  <2>1. ASSUME line' # <<>> PROVE Bar(locals.prev)'
    <3>1. h.link = "pipe"
      BY <1>23, <2>1
    <3>2. n1 \notin fds /\ n2 \notin fds
      BY <1>13, <1>15, <1>18, <3>1, ZeroIsNoFd DEF Ends
    <3>3. Ends(n1, "r")' /\ Ends(n2, "w")' /\ open'[n1].pipe = open'[n2].pipe
      BY <1>14, <1>18, <3>1, <3>2 DEF Ends
    <3> QED BY <1>1, <1>16, <1>18, <3>1, <3>3 DEF Bar, Ends
  <2>2. ASSUME line' = <<>> PROVE ~Open(locals.prev[1])' /\ ~Open(locals.prev[2])'
    <3>1. n1 = p1 /\ n2 = p2
      BY <1>4, <1>6, <1>17, <2>2 DEF h
    <3>2. \A f \in fds : ~Open(f)'
      BY <1>14 DEF Open
    <3> QED BY <1>13, <1>16, <3>1, <3>2 DEF Open
  <2>3. ASSUME Len(line') >= 2 PROVE \A e \in queue' : e.remains # 0
    <3>1. Len(line) >= 2
      BY <1>4, <1>6, <2>3
    <3> QED BY <1>1, <3>1 DEF RwgInv, RwgBars
  <2>4. line' # <<>> => Head(line').kind # "builtin"
    BY <1>4, <1>6
  <2>5. locals'.next = locals'.prev
    BY <1>16
  <2> QED BY <1>1, <2>1, <2>2, <2>3, <2>4, <2>5 DEF RwgBars
<1>26. RwgReady'
  BY <1>1 DEF RwgReady
<1>27. RwgKeeps'
  <2> SUFFICES ASSUME NEW f \in Fds, Open(f)' PROVE RwgHeld(f)'
    BY DEF RwgKeeps
  <2>1. Open(f) /\ f \notin fds /\ open'[f] = open[f] /\ RwgHeld(f)
    BY <1>14 DEF Open, RwgInv, RwgKeeps
  <2>2. CASE open[f].end = "f"
    BY <2>1, <2>2 DEF RwgHeld
  <2>3. CASE \E e \in queue : f = e.rd \/ (f = e.wr /\ Whole(e))
    <3>1. PICK e \in queue : f = e.rd \/ (f = e.wr /\ Whole(e))
      BY <2>3
    <3> QED BY <1>1, <1>19, <3>1 DEF RwgHeld
  <2>4. CASE f \in {p1, p2, n1, n2}
    <3>1. f \in {n1, n2} /\ f \notin {p1, p2}
      BY <1>13, <2>1, <2>4
    <3>2. line' # <<>>
      BY <1>4, <1>6, <1>17, <3>1 DEF h
    <3> QED BY <1>1, <1>16, <3>1, <3>2 DEF RwgHeld
  <2>5. CASE open[f].end = "w" /\ Lone(f)
    BY <1>14, <2>1, <2>5 DEF RwgHeld
  <2> QED BY <1>11, <1>12, <2>1, <2>2, <2>3, <2>4, <2>5 DEF RwgHeld
<1> QED BY <1>14, <1>20, <1>21, <1>22, <1>24, <1>25, <1>26, <1>27 DEF RwgInv

\* Every step of RwgShell keeps the invariant.
LEMMA RwgSteps ==
  ASSUME RwgInv, "rwg" \in Shells, ~PipesIntoDue, Rwg!Next \/ UNCHANGED vars PROVE RwgInv'
<1>1. CASE UNCHANGED vars
  <2>1. UNCHANGED <<pc, line, cmds, queue, locals, open, data, got, count, starved>>
    BY <1>1 DEF vars, world
  <2>2. RwgTypes' /\ RwgWords' /\ Sole' /\ Old' /\ RwgQueue'
    BY <2>1 DEF RwgInv, RwgTypes, KernelTypeOK, RwgWords, Sole, Old, Open, RwgQueue, Apart, Whole, Dry, Ends
  <2>3. RwgBars' /\ RwgReady'
    BY <2>1 DEF RwgInv, RwgBars, RwgReady, Bar, Open, Ends, Rwg!Stdin, Rwg!Due
  <2>4. RwgKeeps'
    BY <2>1 DEF RwgInv, RwgKeeps, RwgHeld, Open, Whole, Ends, Lone
  <2> QED BY <2>2, <2>3, <2>4 DEF RwgInv
<1>2. CASE pc = "prompt" /\ \E l \in Lines : Rwg!Enter(l)
  BY <1>2, RwgEnters
<1> QED BY <1>1, <1>2, RwgBuiltin, RwgPreparesOne, RwgRunsProgram, RwgEndsLine, RwgExits DEF Rwg!Next

-----------------------------------------------------------------------------
(* AbbieShell *)

\* A program and the sign behind it are taken from the parsed line before it is forked.
AbbieWords ==
  /\ Legal(line) /\ count + Programs(line) <= MaxPrograms
  /\ pc \in {"prompt", "exited"} => line = <<>> /\ cmds = <<>>
  /\ pc = "run" => AbbieFinds(cmds, line)
  /\ line # <<>> => Head(line).kind # "builtin"
  /\ pc = "fork" =>
       /\ line # <<>> /\ Head(line).kind = "prog" /\ AbbieFinds(cmds, Tail(line))
       /\ locals.link = AbbieCode(Head(line).link)

AbbieQueue == Apart /\ \A e \in queue : Whole(e) /\ e.remains \in 1..MaxN

\* The input of the next program: nobody writes into it any more.
AbbieInput ==
  pc \in {"run", "fork"} =>
    /\ line = <<>> => ~Open(locals.fdIn)
    /\ line # <<>> =>
         \/ locals.fdIn = 0
         \/ Ends(locals.fdIn, "r") /\ Dry(locals.fdIn) /\ \A e \in queue : e.rd # locals.fdIn

\* What has been prepared for the program that is forked.
AbbieReady ==
  pc = "fork" =>
    LET h == Head(line) IN
    /\ h.link = "end" => locals.fdOut = 0
    /\ h.link = "file" => Ends(locals.fdOut, "f")
    /\ Numbered(h.link) => \E e \in queue : e.remains = h.n /\ e.wr = locals.fdOut
    /\ h.link = "pipe" =>
         /\ Ends(locals.pipeFd[1], "r") /\ open[locals.pipeFd[1]].pipe = count + 1
         /\ Ends(locals.fdOut, "w") /\ open[locals.fdOut].pipe = count + 1
         /\ locals.pipeFd[1] # locals.fdIn
         /\ \A e \in queue : e.rd # locals.pipeFd[1]

\* What is forgotten: the reading end of a pipe that nobody writes into.
AbbieHeld(f) ==
  \/ \E e \in queue : f \in {e.rd, e.wr}
  \/ pc \in {"run", "fork"} /\ line # <<>> /\ f = locals.fdIn
  \/ pc = "fork" /\ (f = locals.fdOut \/ (Head(line).link = "pipe" /\ f = locals.pipeFd[1]))
  \/ open[f].end = "r" /\ Dry(f)
AbbieKeeps == \A f \in Fds : Open(f) => AbbieHeld(f)

AbbieTypes == KernelTypeOK /\ locals \in Abbie!Locals
AbbieInv ==
  AbbieTypes /\ AbbieWords /\ Sole /\ Old /\ AbbieQueue /\ AbbieInput /\ AbbieReady /\ AbbieKeeps

LEMMA AbbieKernel ==
  /\ Abbie!Fds = Fds /\ Abbie!Descr = Descr /\ Abbie!Pipes = Pipes
  /\ (Abbie!CanPipe <=> CanPipe) /\ Abbie!NewPipe = NewPipe /\ Abbie!Piped = Piped
  /\ \A fds, table : Abbie!Closed(fds, table) = Closed(fds, table)
  /\ \A fs : Abbie!Lowest(fs) = Lowest(fs)
  /\ \A f, end : Abbie!Ends(f, end) <=> Ends(f, end)
  /\ \A f : Abbie!Content(f) = Content(f)
  /\ \A l : Abbie!Typed(l) <=> Typed(l)
  /\ \A reads, in, out : Abbie!Run(reads, in, out) <=> Run(reads, in, out)
<1>1. Abbie!Fds = Fds /\ Abbie!Descr = Descr /\ Abbie!Free = Free /\ Abbie!Pipes = Pipes
  BY DEF Abbie!Fds, Fds, Abbie!Descr, Descr, Abbie!Free, Free, Abbie!Pipes, Pipes
<1>2. \A fs : Abbie!Lowest(fs) = Lowest(fs)
  BY DEF Abbie!Lowest, Lowest
<1>3. Abbie!NewPipe = NewPipe
  BY <1>1 DEF Abbie!NewPipe, NewPipe, Abbie!Lowest, Lowest
<1>4. \A f, end : Abbie!Ends(f, end) <=> Ends(f, end)
  BY <1>1 DEF Abbie!Ends, Ends
<1>5. \A fds, table : Abbie!Closed(fds, table) = Closed(fds, table)
  BY <1>1 DEF Abbie!Closed, Closed
<1>6. \A f : Abbie!Content(f) = Content(f)
  BY <1>4 DEF Abbie!Content, Content
<1>7. Abbie!CanPipe <=> CanPipe
  <2>1. Abbie!Cardinality(Free) = Cardinality(Free)
    BY DEF Abbie!Cardinality, Cardinality
  <2> QED BY <1>1, <2>1 DEF Abbie!CanPipe, CanPipe
<1>8. Abbie!Piped = Piped
  BY <1>3 DEF Abbie!Piped, Piped
<1>9. \A l : Abbie!Typed(l) <=> Typed(l)
  <2>1. \A l : Abbie!Programs(l) = Programs(l)
    BY DEF Abbie!Programs, Programs
  <2> QED BY <2>1 DEF Abbie!Typed, Typed
<1>10. \A reads, in, out : Abbie!Run(reads, in, out) <=> Run(reads, in, out)
  BY <1>1, <1>4, <1>6 DEF Abbie!Run, Run
<1> QED BY <1>1, <1>2, <1>3, <1>4, <1>5, <1>6, <1>7, <1>8, <1>9, <1>10

LEMMA AbbieTypesAre ==
  ASSUME AbbieTypes
  PROVE  /\ KernelTypeOK /\ queue \subseteq Waiting /\ line \in Seq(Command)
         /\ open \in [Fds -> PipeEnd \cup {None}] /\ count \in Nat /\ starved \in BOOLEAN
         /\ locals \in [fdIn : Descr, fdOut : Descr, pipeFd : Descr \X Descr,
              link : {"NONE", "PIPE", "NUMBER_PIPE", "ERROR_NUMBER_PIPE", "REDIRECT"}]
         /\ \A e \in queue : e.remains \in Int /\ e.rd \in Fds /\ e.wr \in Fds
BY AbbieKernel DEF AbbieTypes, KernelTypeOK, Waiting, Abbie!Locals

\* What the next program is, and what is left behind it.
LEMMA AbbieNext ==
  ASSUME line \in Seq(Command), Legal(line), AbbieFinds(cmds, line)
  PROVE  /\ cmds = <<>> <=> line = <<>>
         /\ line # <<>> =>
              LET h == Head(line) IN
              /\ Head(cmds) = <<Name(h.kind)>>
              /\ Abbie!link = AbbieCode(h.link)
              /\ Numbered(h.link) => cmds[2][1].n = h.n
              /\ AbbieFinds(SubSeq(cmds, IF h.link = "file" THEN 4 ELSE 3, Len(cmds)), Tail(line))
<1> DEFINE C == Seq(Word)
<1>1. /\ cmds \in Seq(C)
      /\ Len(cmds) = IF ToFile(line) THEN 2 * Len(line) + 1
                     ELSE IF line # <<>> /\ Last(line).link = "end" THEN 2 * Len(line) - 1 ELSE 2 * Len(line)
  BY DEF AbbieFinds
<1> HIDE DEF C
<1>2. /\ cmds = <<>> <=> Len(cmds) = 0
      /\ line = <<>> <=> Len(line) = 0
      /\ Len(line) \in Nat /\ Len(cmds) \in Nat
  BY <1>1, EmptyIs
<1>3. cmds = <<>> <=> line = <<>>
  BY <1>1, <1>2 DEF ToFile
<1> SUFFICES ASSUME line # <<>>
             PROVE  LET h == Head(line) IN
              /\ Head(cmds) = <<Name(h.kind)>>
              /\ Abbie!link = AbbieCode(h.link)
              /\ Numbered(h.link) => cmds[2][1].n = h.n
              /\ AbbieFinds(SubSeq(cmds, IF h.link = "file" THEN 4 ELSE 3, Len(cmds)), Tail(line))
  BY <1>3
<1> DEFINE h == Head(line)  rest == SubSeq(cmds, IF h.link = "file" THEN 4 ELSE 3, Len(cmds))
<1>4. /\ h \in Command /\ h = line[1] /\ Len(line) >= 1 /\ Tail(line) \in Seq(Command)
      /\ h.link = "pipe" <=> Tail(line) # <<>>
      /\ Len(Tail(line)) = Len(line) - 1 /\ (\A i \in 1..Len(line) - 1 : Tail(line)[i] = line[i + 1])
      /\ Tail(line) # <<>> => ToFile(Tail(line)) = ToFile(line) /\ Last(Tail(line)) = Last(line)
      /\ Tail(line) = <<>> => Last(line) = h /\ Len(line) = 1
  BY RestOfLine
<1>5. h.link \in {"end", "pipe", "num", "err", "file"}
  BY <1>4 DEF Command
<1>6. \A i \in 1..Len(line) :
        /\ cmds[2 * i - 1] = <<Name(line[i].kind)>>
        /\ line[i].link # "end" =>
             Abbie!get_type(cmds[2 * i][1]) = AbbieCode(line[i].link) /\ cmds[2 * i][1].n = line[i].n
  BY DEF AbbieFinds
<1>7. 1 \in 1..Len(line) /\ 2 * 1 = 2 /\ 2 * 1 - 1 = 1
  BY <1>2, <1>4
<1>8. /\ cmds[1] = <<Name(h.kind)>>
      /\ h.link # "end" => Abbie!get_type(cmds[2][1]) = AbbieCode(h.link) /\ cmds[2][1].n = h.n
  BY <1>4, <1>6, <1>7
<1>9. Head(cmds) = <<Name(h.kind)>>
  BY <1>1, <1>3, <1>8
<1>10. Numbered(h.link) => cmds[2][1].n = h.n
  BY <1>8 DEF Numbered
<1> HIDE DEF h
<1>11. /\ h.link = "end" => Len(cmds) = 1
       /\ h.link \in {"num", "err"} => Len(cmds) = 2
       /\ h.link = "file" => Len(cmds) = 3
       /\ h.link = "pipe" => Len(line) >= 2 /\ Len(cmds) >= 3
  <2>1. CASE h.link = "pipe"
    <3>1. Len(line) >= 2
      BY <1>2, <1>4, <2>1, EmptyIs
    <3> QED BY <1>1, <1>2, <2>1, <3>1
  <2>2. CASE h.link # "pipe"
    <3>1. Tail(line) = <<>> /\ Last(line) = h /\ Len(line) = 1
      BY <1>4, <2>2
    <3>2. ToFile(line) <=> h.link = "file"
      BY <3>1, <1>4 DEF ToFile
    <3> QED BY <1>1, <1>2, <1>4, <2>2, <3>1, <3>2
  <2> QED BY <2>1, <2>2
<1>12. Abbie!link = AbbieCode(h.link)
  BY <1>1, <1>5, <1>8, <1>11 DEF Abbie!link, Abbie!TypeAt, AbbieCode
<1>13. AbbieFinds(rest, Tail(line))
  <2>1. CASE h.link = "pipe"
    <3>1. /\ rest \in Seq(C) /\ Len(rest) = Len(cmds) - 2
          /\ \A i \in 1..Len(cmds) - 2 : rest[i] = cmds[i + 2]
      BY <1>1, <1>11, <2>1
    <3> HIDE DEF rest
    <3>2. Tail(line) # <<>> /\ ToFile(Tail(line)) = ToFile(line) /\ Last(Tail(line)) = Last(line)
      BY <1>4, <2>1
    <3>3. Len(rest) = IF ToFile(Tail(line)) THEN 2 * Len(Tail(line)) + 1
                      ELSE IF Tail(line) # <<>> /\ Last(Tail(line)).link = "end"
                           THEN 2 * Len(Tail(line)) - 1 ELSE 2 * Len(Tail(line))
      <4>1. Len(Tail(line)) = Len(line) - 1 /\ Len(rest) = Len(cmds) - 2 /\ Len(line) \in Nat /\ line # <<>>
        BY <1>2, <1>4, <3>1
      <4>2. CASE ToFile(line)
        <5>1. Len(cmds) = 2 * Len(line) + 1
          BY <1>1, <4>2
        <5>2. Len(rest) = 2 * Len(Tail(line)) + 1
          BY <1>2, <4>1, <5>1
        <5> QED BY <3>2, <4>2, <5>2
      <4>3. CASE ~ToFile(line) /\ Last(line).link = "end"
        BY <1>1, <3>2, <4>1, <4>3
      <4>4. CASE ~ToFile(line) /\ Last(line).link # "end"
        BY <1>1, <3>2, <4>1, <4>4
      <4> QED BY <4>2, <4>3, <4>4
    <3>4. ASSUME NEW i \in 1..Len(Tail(line))
          PROVE  /\ rest[2 * i - 1] = <<Name(Tail(line)[i].kind)>>
                 /\ Tail(line)[i].link # "end" =>
                      /\ Abbie!get_type(rest[2 * i][1]) = AbbieCode(Tail(line)[i].link)
                      /\ rest[2 * i][1].n = Tail(line)[i].n
      <4>0. /\ i \in Nat /\ i >= 1 /\ i + 1 <= Len(line) /\ Len(cmds) >= 2 * Len(line) - 1
            /\ Len(line) \in Nat /\ Len(cmds) \in Nat
        BY <1>1, <1>2, <1>4
      <4>1. /\ i + 1 \in 1..Len(line) /\ Tail(line)[i] = line[i + 1]
            /\ 2 * i - 1 \in 1..Len(cmds) - 2 /\ (2 * i - 1) + 2 = 2 * (i + 1) - 1
            /\ 2 * i + 2 = 2 * (i + 1)
        <5>1. i + 1 \in 1..Len(line) /\ i \in 1..Len(line) - 1
          BY <4>0
        <5>2. 2 * i - 1 \in 1..Len(cmds) - 2
          BY <4>0
        <5>3. (2 * i - 1) + 2 = 2 * (i + 1) - 1 /\ 2 * i + 2 = 2 * (i + 1)
          BY <4>0
        <5> QED BY <1>4, <5>1, <5>2, <5>3
      <4>2. rest[2 * i - 1] = cmds[2 * (i + 1) - 1]
        BY <3>1, <4>1
      <4>3. ASSUME Tail(line)[i].link # "end" PROVE rest[2 * i] = cmds[2 * (i + 1)]
        <5>1. 2 * i \in 1..Len(cmds) - 2
          <6>1. CASE i < Len(Tail(line))
            <7>1. i + 2 <= Len(line)
              BY <1>4, <4>0, <6>1
            <7> QED BY <4>0, <7>1
          <6>2. CASE i = Len(Tail(line))
            <7>1. Last(Tail(line)) = Tail(line)[i]
              BY <6>2 DEF Last
            <7>2. Len(cmds) >= 2 * Len(line)
              BY <1>1, <1>2, <3>2, <4>3, <7>1
            <7> QED BY <4>0, <7>2
          <6>3. i < Len(Tail(line)) \/ i = Len(Tail(line))
            <7>1. Len(Tail(line)) \in Nat
              BY <1>4
            <7> QED BY ONLY <7>1, i \in 1..Len(Tail(line))
          <6> QED BY <6>1, <6>2, <6>3
        <5> QED BY <3>1, <4>1, <5>1
      <4> QED BY <1>6, <4>1, <4>2, <4>3
    <3> QED BY <3>1, <3>3, <3>4 DEF AbbieFinds, C
  <2>2. CASE h.link # "pipe"
    <3>0. Tail(line) = <<>>
      BY <1>4, <2>2
    <3>1. rest = <<>>
      <4>1. CASE h.link = "file"
        BY <1>1, <1>11, <4>1, SubSeq(cmds, 4, 3) = <<>>
      <4>2. CASE h.link # "file"
        <5>1. Len(cmds) < 3
          <6>1. CASE h.link = "end"
            BY <1>2, <1>11, <6>1
          <6>2. CASE h.link \in {"num", "err"}
            <7>1. Len(cmds) = 2
              BY <1>11, <6>2
            <7> QED BY ONLY <7>1
          <6> QED BY <1>5, <2>2, <4>2, <6>1, <6>2
        <5> QED BY <1>1, <1>2, <4>2, <5>1
      <4> QED BY <4>1, <4>2
    <3> HIDE DEF rest
    <3>2. rest \in Seq(C) /\ Len(rest) = 0 /\ Len(Tail(line)) = 0
      <4>1. <<>> \in Seq(C) /\ Len(<<>>) = 0
        OBVIOUS
      <4> QED BY ONLY <4>1, <3>0, <3>1
    <3>3. ~ToFile(<<>>) /\ Len(<<>>) = 0 /\ 2 * 0 = 0
      BY DEF ToFile
    <3>4. ~ToFile(Tail(line)) /\ 2 * Len(Tail(line)) = 0
      BY <3>0, <3>2, <3>3
    <3>5. AbbieFinds(rest, <<>>)
      BY <3>1, <3>2, <3>3 DEF AbbieFinds, C
    <3> QED BY <3>0, <3>5
  <2> QED BY <2>1, <2>2
<1> QED BY <1>9, <1>10, <1>12, <1>13 DEF h

LEMMA AbbieStarts ==
  ASSUME Abbie!Init PROVE AbbieInv
<1>1. /\ pc = "prompt" /\ line = <<>> /\ cmds = <<>> /\ queue = {} /\ count = 0
      /\ open = [f \in Fds |-> None] /\ data = [p \in Pipes |-> <<>>] /\ got = <<>>
      /\ starved = FALSE
      /\ locals = [fdIn |-> 0, fdOut |-> 0, pipeFd |-> <<0, 0>>, link |-> "NONE"]
  BY DEF Abbie!Init, Abbie!Fresh, Abbie!Fds, Fds, Abbie!Pipes, Pipes, Abbie!Idle
<1>2. AbbieTypes
  <2>1. locals \in Abbie!Locals
    BY <1>1, AbbieKernel DEF Abbie!Locals, Descr
  <2>2. data \in [Pipes -> Seq(Pipes)] /\ got \in Seq(Pipes) /\ line \in Seq(Command)
    BY <1>1
  <2>3. open \in [Fds -> PipeEnd \cup {None}] /\ count \in 0..MaxPrograms
    BY <1>1
  <2> QED BY <1>1, <2>1, <2>2, <2>3 DEF AbbieTypes, KernelTypeOK
<1>3. Legal(<<>>) /\ Programs(<<>>) = 0
  BY DEF Legal, Programs
<1>4. AbbieWords
  BY <1>1, <1>3 DEF AbbieWords
<1>5. \A f : ~Open(f)
  BY <1>1 DEF Open
<1> QED BY <1>1, <1>2, <1>4, <1>5 DEF AbbieInv, Sole, Old, AbbieQueue, Apart, AbbieInput, AbbieReady, AbbieKeeps

\* The writing end of the pipe that is due is closed, so that its reading end, the
\* first input, is dry.
LEMMA AbbieEnters ==
  ASSUME AbbieInv, "abbie" \in Shells, pc = "prompt", NEW l \in Lines, Abbie!Enter(l) PROVE AbbieInv'
<1> DEFINE past == Abbie!Due
           dry  == {e.wr : e \in past}
<1>1. /\ Typed(l) /\ pc' = "run" /\ cmds' = Abbie!Parsed(l) /\ Abbie!Parsed(l) # <<>>
      /\ Abbie!TypeAt(Abbie!Parsed(l), 1) # "RAS_CMD"
      /\ queue' = Down(queue \ past) /\ open' = Closed(dry, open)
      /\ \E in \in (IF past = {} THEN {0} ELSE {e.rd : e \in past}) :
           locals' = [fdIn |-> in, fdOut |-> 0, pipeFd |-> <<0, 0>>, link |-> "NONE"]
      /\ UNCHANGED <<data, got, count, starved>>
  BY AbbieKernel DEF Abbie!Enter, Down, Less, Abbie!Idle
<1>2. \A e : e \in past <=> e \in queue /\ e.remains = 1
  BY DEF Abbie!Due
<1>3. \A f : f \in dry <=> \E e \in queue : e.remains = 1 /\ f = e.wr
  BY DEF Abbie!Due
<1>4. PICK in : /\ in \in (IF past = {} THEN {0} ELSE {e.rd : e \in past})
                /\ locals' = [fdIn |-> in, fdOut |-> 0, pipeFd |-> <<0, 0>>, link |-> "NONE"]
  BY <1>1
<1>5. \/ in = 0 /\ past = {}
      \/ \E e \in past : in = e.rd
  BY <1>4
<1> HIDE DEF dry, past
<1>6. /\ KernelTypeOK /\ queue \subseteq Waiting /\ Apart /\ Sole
      /\ \A e \in queue : e.remains \in Int /\ e.rd \in Fds /\ e.wr \in Fds
      /\ \A e \in queue : Whole(e) /\ e.remains \in 1..MaxN
  BY AbbieTypesAre DEF AbbieInv, AbbieQueue
<1>7. l \in Seq(Command) /\ Legal(l) /\ AbbieFinds(Abbie!Parsed(l), l) /\ line' = l
  BY <1>1, LinesLegal, ParsersFind DEF Typed
<1>8. l # <<>> /\ Head(l).kind # "builtin"
  <2>1. /\ Abbie!Parsed(l) \in Seq(Seq(Word))
        /\ Len(l) = 0 => Len(Abbie!Parsed(l)) = 0
        /\ \A i \in 1..Len(l) : Abbie!Parsed(l)[2 * i - 1] = <<Name(l[i].kind)>>
    <3>1. Len(l) = 0 => l = <<>> /\ 2 * Len(l) = 0
      BY <1>7
    <3> QED BY <1>7, <3>1 DEF AbbieFinds, ToFile
  <2>2. Len(Abbie!Parsed(l)) \in Nat /\ Len(Abbie!Parsed(l)) # 0
    BY <1>1, <2>1, EmptyIs
  <2>3. Len(l) \in Nat /\ Len(l) # 0 /\ Len(l) >= 1 /\ l # <<>> /\ Head(l) = l[1]
    BY <1>7, <2>1, <2>2
  <2>4. Abbie!Parsed(l)[1] = <<Name(Head(l).kind)>>
    <3>1. 1 \in 1..Len(l) /\ 2 * 1 - 1 = 1
      BY <2>3
    <3> QED BY <2>1, <2>3, <3>1
  <2>5. Abbie!TypeAt(Abbie!Parsed(l), 1) = Abbie!get_type(Name(Head(l).kind))
    BY <2>2, <2>4 DEF Abbie!TypeAt
  <2>6. Head(l).kind = "builtin" => Abbie!get_type(Name(Head(l).kind)) = "RAS_CMD"
    BY DEF Abbie!get_type, Abbie!IsName, Name
  <2> QED BY <1>1, <2>3, <2>5, <2>6
<1>9. /\ open' \in [Fds -> PipeEnd \cup {None}]
      /\ \A f \in Fds : open'[f] = IF f \in dry THEN None ELSE open[f]
      /\ Sole'
      /\ \A f : f \notin dry /\ Dry(f) /\ Open(f) => Dry(f)'
      /\ \A f, end : Ends(f, end)' <=> Ends(f, end) /\ f \notin dry
  BY <1>1, <1>6, Closing
<1>10. /\ queue' \subseteq Waiting
       /\ \A x \in queue' : \E e \in queue :
            e.remains # 1 /\ e.remains = x.remains + 1 /\ e.rd = x.rd /\ e.wr = x.wr
       /\ \A e \in queue : e.remains # 1 => \E x \in queue' :
            e.remains = x.remains + 1 /\ e.rd = x.rd /\ e.wr = x.wr
       /\ Apart'
  <2>1. queue \ past \subseteq queue /\ \A e \in queue \ past : e \in queue /\ e.remains # 1
    BY <1>2
  <2>2. \A e \in queue : e.remains # 1 => e \in queue \ past
    BY <1>2
  <2>3. /\ Down(queue \ past) \subseteq Waiting
        /\ \A x \in Down(queue \ past) : \E e \in queue \ past :
             e.remains = x.remains + 1 /\ e.rd = x.rd /\ e.wr = x.wr
        /\ \A e \in queue \ past : \E x \in Down(queue \ past) :
             e.remains = x.remains + 1 /\ e.rd = x.rd /\ e.wr = x.wr
        /\ \A x, y \in Down(queue \ past) : x.remains = y.remains \/ x.rd = y.rd => x = y
    BY <1>6, <2>1, CountedDown
  <2> QED BY <1>1, <2>1, <2>2, <2>3 DEF Apart
<1>11. ASSUME NEW e \in queue PROVE Ends(e.rd, "r")' /\ open'[e.rd] = open[e.rd] /\ Open(e.rd)
  <2>1. Ends(e.rd, "r") /\ e.rd \notin dry
    BY <1>3, <1>6 DEF Whole, Ends
  <2> QED BY <1>9, <2>1 DEF Ends, Open
<1>12. ASSUME NEW e \in queue, e.remains # 1 PROVE Whole(e)' /\ e.remains \in 2..MaxN
  <2>1. e.wr \notin dry
    <3> SUFFICES ASSUME NEW d \in queue, d.remains = 1, d.wr = e.wr PROVE FALSE
      BY <1>3
    <3>1. d.rd = e.rd
      BY <1>6 DEF Whole, Ends, Sole, Open
    <3> QED BY <1>6, <1>12, <3>1 DEF Apart
  <2>2. Ends(e.wr, "w")' /\ open'[e.wr] = open[e.wr]
    BY <1>6, <1>9, <2>1 DEF Whole, Ends
  <2> QED BY <1>6, <1>11, <1>12, <2>2 DEF Whole
<1>13. in \in Descr
  BY <1>2, <1>5, <1>6 DEF Descr
<1>14. AbbieTypes'
  <2>1. locals' \in Abbie!Locals
    BY <1>4, <1>13, AbbieKernel DEF Abbie!Locals, Descr
  <2> QED BY <1>1, <1>6, <1>7, <1>9, <1>10, <2>1 DEF AbbieTypes, KernelTypeOK
<1>15. AbbieWords'
  BY <1>1, <1>7, <1>8 DEF AbbieWords, Typed
<1>16. Old'
  BY <1>1, <1>9 DEF AbbieInv, Old, Open
<1>17. AbbieQueue'
  <2>1. ASSUME NEW x \in queue' PROVE Whole(x)' /\ x.remains \in 1..MaxN
    <3>1. PICK e \in queue : e.remains # 1 /\ e.remains = x.remains + 1 /\ e.rd = x.rd /\ e.wr = x.wr
      BY <1>10
    <3>2. x.remains \in Int
      BY <1>10 DEF Waiting
    <3> QED BY <1>12, <3>1, <3>2 DEF Whole
  <2> QED BY <1>10, <2>1 DEF AbbieQueue, Whole
<1>18. in = 0 \/ (Ends(in, "r")' /\ Dry(in)' /\ \A x \in queue' : x.rd # in)
  <2> SUFFICES ASSUME NEW e \in past, in = e.rd PROVE Ends(in, "r")' /\ Dry(in)' /\ \A x \in queue' : x.rd # in
    BY <1>5
  <2>1. e \in queue /\ e.remains = 1 /\ e.wr \in dry
    BY <1>2, <1>3
  <2>2. Ends(e.rd, "r")' /\ open'[e.rd] = open[e.rd]
    BY <1>11, <2>1
  <2>3. \A x \in queue' : x.rd # e.rd
    BY <1>6, <1>10, <2>1 DEF Apart
  <2>4. ASSUME NEW g \in Fds, Ends(g, "w"), g \notin dry PROVE open[g].pipe # open[e.rd].pipe
    <3>1. Ends(e.wr, "w") /\ open[e.wr].pipe = open[e.rd].pipe
      BY <1>6, <2>1 DEF Whole
    <3> QED BY <1>6, <2>1, <2>4, <3>1 DEF Sole, Open, Ends
  <2>5. \A g \in Fds : open'[g] # None /\ open'[g].end = "w" => open'[g].pipe # open'[e.rd].pipe
    BY <1>9, <2>2, <2>4 DEF Ends
  <2>6. Dry(e.rd)'
    BY <2>5 DEF Dry, Ends
  <2> QED BY <2>2, <2>3, <2>6
<1>19. AbbieInput'
  <2>1. locals'.fdIn = in
    BY <1>4
  <2>2. line' # <<>>
    BY <1>7, <1>8
  <2>3. in = 0 \/ (Ends(locals.fdIn, "r")' /\ Dry(locals.fdIn)')
    BY <1>18, <2>1 DEF Ends, Dry
  <2> QED BY <1>18, <2>1, <2>2, <2>3 DEF AbbieInput
<1>20. AbbieReady'
  BY <1>1 DEF AbbieReady
<1>21. AbbieKeeps'
  <2> SUFFICES ASSUME NEW f \in Fds, Open(f)' PROVE AbbieHeld(f)'
    BY DEF AbbieKeeps
  <2>1. Open(f) /\ f \notin dry /\ open'[f] = open[f] /\ AbbieHeld(f)
    BY <1>9 DEF Open, AbbieInv, AbbieKeeps
  <2>2. CASE \E e \in queue : f \in {e.rd, e.wr}
    <3>1. PICK e \in queue : f \in {e.rd, e.wr}
      BY <2>2
    <3>2. CASE e.remains # 1
      <4>1. \E x \in queue' : f \in {x.rd, x.wr}
        BY <1>10, <3>1, <3>2
      <4> QED BY <4>1 DEF AbbieHeld
    <3>3. CASE e.remains = 1
      <4>1. f = e.rd /\ e \in past
        BY <1>2, <1>3, <2>1, <3>1, <3>3
      <4>2. f = in
        BY <1>2, <1>5, <1>6, <3>3, <4>1 DEF Apart
      <4> QED BY <1>1, <1>4, <1>7, <1>8, <4>2 DEF AbbieHeld
    <3> QED BY <3>2, <3>3
  <2>3. CASE open[f].end = "r" /\ Dry(f)
    <3>1. Dry(f)'
      BY <1>9, <2>1, <2>3
    <3> QED BY <2>1, <2>3, <3>1 DEF AbbieHeld
  <2> QED BY <2>1, <2>2, <2>3 DEF AbbieHeld
<1> QED BY <1>9, <1>14, <1>15, <1>16, <1>17, <1>19, <1>20, <1>21 DEF AbbieInv

\* A line that ends, given up or not, leaves its input to be forgotten.
LEMMA AbbieStops ==
  ASSUME AbbieInv, pc # "fork", pc' \in {"prompt", "exited"}, line' = <<>>, cmds' = <<>>, starved' \in BOOLEAN,
         UNCHANGED <<queue, locals, open, data, got, count>>
  PROVE  AbbieInv'
<1>1. Legal(<<>>) /\ Programs(<<>>) = 0 /\ <<>> \in Seq(Command)
  BY DEF Legal, Programs
<1>2. count \in 0..MaxPrograms
  BY DEF AbbieInv, AbbieTypes, KernelTypeOK
<1>3. AbbieTypes' /\ AbbieWords'
  BY <1>1, <1>2 DEF AbbieInv, AbbieTypes, KernelTypeOK, AbbieWords
<1>4. Sole' /\ Old' /\ AbbieQueue' /\ AbbieInput' /\ AbbieReady'
  BY DEF AbbieInv, Sole, Old, Open, AbbieQueue, Apart, Whole, Ends, AbbieInput, AbbieReady
<1>5. AbbieKeeps'
  <2> SUFFICES ASSUME NEW f \in Fds, Open(f)' PROVE AbbieHeld(f)'
    BY DEF AbbieKeeps
  <2>1. Open(f) /\ AbbieHeld(f)
    BY DEF Open, AbbieInv, AbbieKeeps
  <2>2. CASE \E e \in queue : f \in {e.rd, e.wr}
    BY <2>2 DEF AbbieHeld
  <2>3. CASE pc \in {"run", "fork"} /\ line # <<>> /\ f = locals.fdIn
    <3>1. f # 0
      BY ZeroIsNoFd
    <3>2. open[f].end = "r" /\ Dry(f)
      BY <2>3, <3>1 DEF AbbieInv, AbbieInput, Ends
    <3> QED BY <3>2 DEF AbbieHeld, Dry, Ends
  <2>4. CASE open[f].end = "r" /\ Dry(f)
    BY <2>4 DEF AbbieHeld, Dry, Ends
  <2> QED BY <2>1, <2>2, <2>3, <2>4 DEF AbbieHeld
<1> QED BY <1>3, <1>4, <1>5 DEF AbbieInv

LEMMA AbbieGivesUp ==
  ASSUME AbbieInv, Abbie!Unknown \/ Abbie!PrepareFails \/ Abbie!EndLine \/ Abbie!Exit PROVE AbbieInv'
<1>1. starved \in BOOLEAN /\ line \in Seq(Command)
  BY AbbieTypesAre DEF AbbieInv
<1>2. CASE Abbie!Unknown
  BY <1>1, <1>2, AbbieStops DEF Abbie!Unknown, Abbie!InLoop, Abbie!world
<1>3. CASE Abbie!PrepareFails
  BY <1>1, <1>3, AbbieStops DEF Abbie!PrepareFails, Abbie!Program, Abbie!InLoop
<1>4. CASE Abbie!EndLine
  <2>1. pc = "run" /\ cmds = <<>>
    BY <1>4 DEF Abbie!EndLine
  <2>2. line = <<>>
    BY <1>1, <2>1, AbbieNext DEF AbbieInv, AbbieWords
  <2> QED BY <1>1, <1>4, <2>2, AbbieStops DEF Abbie!EndLine, Abbie!world
<1>5. CASE Abbie!Exit
  <2>1. line = <<>> /\ cmds = <<>>
    BY <1>5 DEF Abbie!Exit, AbbieInv, AbbieWords
  <2> QED BY <1>1, <1>5, <2>1, AbbieStops DEF Abbie!Exit, Abbie!world
<1> QED BY <1>2, <1>3, <1>4, <1>5

\* How a program is prepared: a pipe r, w or a file f is opened.
AbbiePrepared(r, w, f, out, fd, new) ==
  LET h == Head(line) IN
  /\ pc = "run" /\ pc' = "fork" /\ line # <<>> /\ h.kind = "prog"
  /\ UNCHANGED <<line, data, got, count, starved>>
  /\ AbbieFinds(cmds', Tail(line))
  /\ IsFree(r, {}) /\ IsFree(w, {}) /\ IsFree(f, {})
  /\ r = w => r = 0
  /\ f = 0 \/ (r = 0 /\ w = 0)
  /\ open' = Table(r, w, f, {})
  /\ locals' = [fdIn |-> locals.fdIn, fdOut |-> out, pipeFd |-> fd, link |-> AbbieCode(h.link)]
  /\ \/ h.link = "end" /\ r = 0 /\ w = 0 /\ f = 0 /\ out = 0 /\ queue' = queue
     \/ h.link = "pipe" /\ r # 0 /\ w # 0 /\ out = w /\ fd = <<r, w>> /\ queue' = queue
     \/ /\ Numbered(h.link) /\ r = 0 /\ w = 0 /\ f = 0 /\ queue' = queue
        /\ \E e \in queue : e.remains = h.n /\ e.wr = out
     \/ /\ Numbered(h.link) /\ r # 0 /\ w # 0 /\ out = w
        /\ \A e \in queue : e.remains # h.n
        /\ new = [remains |-> h.n, rd |-> r, wr |-> w] /\ queue' = queue \cup {new}
     \/ h.link = "file" /\ r = 0 /\ w = 0 /\ f # 0 /\ out = f /\ queue' = queue

LEMMA AbbiePrepares ==
  ASSUME AbbieInv, Abbie!PrepareLast \/ Abbie!PreparePipe \/ Abbie!PrepareNumbered \/ Abbie!PrepareFile
  PROVE  \E r, w, f, out \in Descr : \E fd \in Descr \X Descr : \E new : AbbiePrepared(r, w, f, out, fd, new)
<1> DEFINE h == Head(line)
<1>1. /\ KernelTypeOK /\ open \in [Fds -> PipeEnd \cup {None}] /\ count \in Nat
      /\ locals \in [fdIn : Descr, fdOut : Descr, pipeFd : Descr \X Descr,
           link : {"NONE", "PIPE", "NUMBER_PIPE", "ERROR_NUMBER_PIPE", "REDIRECT"}]
      /\ \A e \in queue : e.remains \in Int /\ e.rd \in Fds /\ e.wr \in Fds
      /\ line \in Seq(Command)
  BY AbbieTypesAre DEF AbbieInv
<1>2. pc = "run" /\ cmds # <<>> /\ Head(cmds)[1].is # "unknown"
  BY DEF Abbie!PrepareLast, Abbie!PreparePipe, Abbie!PrepareNumbered, Abbie!PrepareFile, Abbie!Program,
         Abbie!InLoop, Abbie!exists
<1>3. Legal(line) /\ AbbieFinds(cmds, line)
  BY <1>2 DEF AbbieInv, AbbieWords
<1>4. /\ line # <<>> /\ Head(cmds) = <<Name(h.kind)>> /\ Abbie!link = AbbieCode(h.link)
      /\ Numbered(h.link) => cmds[2][1].n = h.n
      /\ AbbieFinds(SubSeq(cmds, IF h.link = "file" THEN 4 ELSE 3, Len(cmds)), Tail(line))
  BY <1>1, <1>2, <1>3, AbbieNext
<1>5. h.link \in {"end", "pipe", "num", "err", "file"} /\ h.kind = "prog"
  <2>1. h \in Command /\ h.kind # "builtin"
    BY <1>1, <1>3, <1>4, RestOfLine DEF AbbieInv, AbbieWords
  <2>2. h.kind # "unknown"
    <3>1. Head(cmds)[1] = Name(h.kind)
      BY <1>4
    <3>2. Name(h.kind).is = h.kind
      BY DEF Name
    <3> QED BY <1>2, <3>1, <3>2
  <2> QED BY <2>1, <2>2 DEF Command
<1>6. /\ Abbie!link = "NONE" <=> h.link = "end"
      /\ Abbie!link = "REDIRECT" <=> h.link = "file"
      /\ Abbie!link = "PIPE" <=> h.link = "pipe"
      /\ Abbie!link \in {"NUMBER_PIPE", "ERROR_NUMBER_PIPE"} <=> Numbered(h.link)
  BY <1>4, <1>5 DEF AbbieCode, Numbered
<1> HIDE DEF h
<1>7. ASSUME NEW fd \in Descr \X Descr, NEW out \in Descr, NEW table, Abbie!Prepare(out, fd, table)
      PROVE  /\ pc' = "fork" /\ UNCHANGED <<line, data, got, count, starved>>
             /\ AbbieFinds(cmds', Tail(line))
             /\ locals' = [fdIn |-> locals.fdIn, fdOut |-> out, pipeFd |-> fd, link |-> AbbieCode(h.link)]
             /\ open' = table
  <2>1. cmds' = SubSeq(cmds, IF h.link = "file" THEN 4 ELSE 3, Len(cmds))
    BY <1>6, <1>7 DEF Abbie!Prepare
  <2> QED BY <1>1, <1>4, <1>7, <2>1 DEF Abbie!Prepare
<1>8. 0 \in Descr /\ 0 \notin Fds /\ \A g \in Fds : g \in Descr
  BY DEF Descr, Fds
<1>9. open = Table(0, 0, 0, {}) /\ IsFree(0, {})
  BY <1>1, <1>8 DEF Table, IsFree
<1>10. locals.pipeFd \in Descr \X Descr
  BY <1>1
<1>11. CASE Abbie!PrepareLast
  <2>1. h.link = "end" /\ queue' = queue /\ Abbie!Prepare(0, locals.pipeFd, open)
    BY <1>6, <1>11 DEF Abbie!PrepareLast
  <2>2. PICK fd \in Descr \X Descr : fd = locals.pipeFd
    BY <1>10
  <2>3. /\ pc' = "fork" /\ UNCHANGED <<line, data, got, count, starved>>
        /\ AbbieFinds(cmds', Tail(line))
        /\ locals' = [fdIn |-> locals.fdIn, fdOut |-> 0, pipeFd |-> fd, link |-> AbbieCode(h.link)]
        /\ open' = Table(0, 0, 0, {})
    BY <1>7, <1>8, <1>9, <2>1, <2>2
  <2>4. AbbiePrepared(0, 0, 0, 0, fd, 0)
    BY <1>2, <1>4, <1>5, <1>9, <2>1, <2>3 DEF AbbiePrepared, h
  <2> QED BY <1>8, <2>4
<1>12. CanPipe => \E r, w \in Fds :
         NewPipe = <<r, w>> /\ r # w /\ open[r] = None /\ open[w] = None /\ Piped = Table(r, w, 0, {})
  <2> SUFFICES ASSUME CanPipe PROVE \E r, w \in Fds :
         NewPipe = <<r, w>> /\ r # w /\ open[r] = None /\ open[w] = None /\ Piped = Table(r, w, 0, {})
    OBVIOUS
  <2> DEFINE r == NewPipe[1]  w == NewPipe[2]
  <2>1. r \in Fds /\ w \in Fds /\ r # w /\ open[r] = None /\ open[w] = None
    BY PipeOpens
  <2>2. Piped = [open EXCEPT ![r] = Reading, ![w] = Writing]
    BY DEF Piped, Reading, Writing
  <2>3. NewPipe = <<r, w>>
    BY DEF NewPipe
  <2> HIDE DEF r, w
  <2>4. Piped = Table(r, w, 0, {})
    BY <1>1, <1>8, <2>1, <2>2 DEF Table
  <2> QED BY <2>1, <2>3, <2>4
<1>13. CASE Abbie!PreparePipe
  <2>1. CanPipe /\ h.link = "pipe" /\ queue' = queue /\ Abbie!Prepare(NewPipe[2], NewPipe, Piped)
    BY <1>6, <1>13, AbbieKernel DEF Abbie!PreparePipe
  <2>2. PICK r \in Fds, w \in Fds :
          NewPipe = <<r, w>> /\ r # w /\ open[r] = None /\ open[w] = None /\ Piped = Table(r, w, 0, {})
    BY <1>12, <2>1
  <2>3. /\ <<r, w>> \in Descr \X Descr /\ <<r, w>>[2] = w /\ IsFree(r, {}) /\ IsFree(w, {})
        /\ r # 0 /\ w # 0 /\ r \in Descr /\ w \in Descr
    BY <1>8, <2>2 DEF IsFree
  <2>4. /\ pc' = "fork" /\ UNCHANGED <<line, data, got, count, starved>>
        /\ AbbieFinds(cmds', Tail(line))
        /\ locals' = [fdIn |-> locals.fdIn, fdOut |-> w, pipeFd |-> <<r, w>>, link |-> AbbieCode(h.link)]
        /\ open' = Table(r, w, 0, {})
    BY <1>7, <2>1, <2>2, <2>3
  <2>5. AbbiePrepared(r, w, 0, w, <<r, w>>, 0)
    BY <1>2, <1>4, <1>5, <1>9, <2>1, <2>2, <2>3, <2>4 DEF AbbiePrepared, h
  <2> QED BY <1>8, <2>3, <2>5
<1>14. CASE Abbie!PrepareNumbered
  <2>1. Numbered(h.link) /\ cmds[2][1].n = h.n
    BY <1>4, <1>6, <1>14 DEF Abbie!PrepareNumbered
  <2>2. ASSUME NEW e \in queue, e.remains = h.n, queue' = queue, Abbie!Prepare(e.wr, <<e.rd, e.wr>>, open)
        PROVE  AbbiePrepared(0, 0, 0, e.wr, <<e.rd, e.wr>>, 0) /\ e.wr \in Descr /\ <<e.rd, e.wr>> \in Descr \X Descr
    <3>1. e.wr \in Descr /\ <<e.rd, e.wr>> \in Descr \X Descr
      BY <1>1, <1>8
    <3>2. PICK wr \in Descr, fd \in Descr \X Descr : wr = e.wr /\ fd = <<e.rd, e.wr>>
      BY <3>1
    <3>3. /\ pc' = "fork" /\ UNCHANGED <<line, data, got, count, starved>>
          /\ AbbieFinds(cmds', Tail(line))
          /\ locals' = [fdIn |-> locals.fdIn, fdOut |-> wr, pipeFd |-> fd, link |-> AbbieCode(h.link)]
          /\ open' = Table(0, 0, 0, {})
      BY <1>7, <1>9, <2>2, <3>2
    <3>4. AbbiePrepared(0, 0, 0, wr, fd, 0)
      BY <1>2, <1>4, <1>5, <1>9, <2>1, <2>2, <3>2, <3>3 DEF AbbiePrepared, h
    <3> QED BY <3>1, <3>2, <3>4
  <2>3. ASSUME \A e \in queue : e.remains # h.n, CanPipe, Abbie!Prepare(NewPipe[2], NewPipe, Piped),
               queue' = queue \cup {[remains |-> h.n, rd |-> NewPipe[1], wr |-> NewPipe[2]]}
        PROVE  \E r, w \in Descr : \E fd \in Descr \X Descr : \E new : AbbiePrepared(r, w, 0, w, fd, new)
    <3>1. PICK r \in Fds, w \in Fds :
            NewPipe = <<r, w>> /\ r # w /\ open[r] = None /\ open[w] = None /\ Piped = Table(r, w, 0, {})
      BY <1>12, <2>3
    <3>2. /\ NewPipe[1] = r /\ NewPipe[2] = w /\ IsFree(r, {}) /\ IsFree(w, {}) /\ r # 0 /\ w # 0
          /\ r \in Descr /\ w \in Descr /\ <<r, w>> \in Descr \X Descr
      BY <1>8, <3>1 DEF IsFree
    <3>3. PICK new : new = [remains |-> h.n, rd |-> r, wr |-> w]
      OBVIOUS
    <3>4. queue' = queue \cup {new}
      BY <2>3, <3>2, <3>3
    <3>5. /\ pc' = "fork" /\ UNCHANGED <<line, data, got, count, starved>>
          /\ AbbieFinds(cmds', Tail(line))
          /\ locals' = [fdIn |-> locals.fdIn, fdOut |-> w, pipeFd |-> <<r, w>>, link |-> AbbieCode(h.link)]
          /\ open' = Table(r, w, 0, {})
      BY <1>7, <2>3, <3>1, <3>2
    <3>6. AbbiePrepared(r, w, 0, w, <<r, w>>, new)
      BY <1>2, <1>4, <1>5, <1>9, <2>1, <2>3, <3>1, <3>2, <3>3, <3>4, <3>5 DEF AbbiePrepared, h
    <3> QED BY <3>2, <3>6
  <2>4. \/ \E e \in queue : /\ e.remains = h.n /\ queue' = queue
                            /\ Abbie!Prepare(e.wr, <<e.rd, e.wr>>, open)
        \/ /\ \A e \in queue : e.remains # h.n
           /\ CanPipe /\ Abbie!Prepare(NewPipe[2], NewPipe, Piped)
           /\ queue' = queue \cup {[remains |-> h.n, rd |-> NewPipe[1], wr |-> NewPipe[2]]}
    BY <1>14, <2>1, AbbieKernel DEF Abbie!PrepareNumbered
  <2> QED BY <1>8, <2>2, <2>3, <2>4
<1>15. CASE Abbie!PrepareFile
  <2> DEFINE f == Lowest(Free)
  <2>1. /\ h.link = "file" /\ queue' = queue /\ Free # {}
        /\ Abbie!Prepare(f, locals.pipeFd, [open EXCEPT ![f] = File])
    <3>1. Abbie!Free = Free
      BY AbbieKernel DEF Abbie!Free, Free
    <3> QED BY <1>6, <1>15, <3>1, AbbieKernel DEF Abbie!PrepareFile, File
  <2>2. f \in Fds /\ open[f] = None
    <3>1. Free \subseteq Fds
      BY DEF Free
    <3>2. f \in Free
      BY <2>1, <3>1, LowestIs
    <3> QED BY <3>2 DEF Free
  <2> HIDE DEF f
  <2>3. IsFree(f, {}) /\ f # 0 /\ f \in Descr
    BY <1>8, <2>2 DEF IsFree
  <2>4. [open EXCEPT ![f] = File] = Table(0, 0, f, {})
    BY <1>1, <1>8 DEF Table
  <2>5. PICK fd \in Descr \X Descr : fd = locals.pipeFd
    BY <1>10
  <2>6. /\ pc' = "fork" /\ UNCHANGED <<line, data, got, count, starved>>
        /\ AbbieFinds(cmds', Tail(line))
        /\ locals' = [fdIn |-> locals.fdIn, fdOut |-> f, pipeFd |-> fd, link |-> AbbieCode(h.link)]
        /\ open' = Table(0, 0, f, {})
    BY <1>7, <2>1, <2>3, <2>4, <2>5
  <2>7. AbbiePrepared(0, 0, f, f, fd, 0)
    BY <1>2, <1>4, <1>5, <1>9, <2>1, <2>3, <2>6 DEF AbbiePrepared, h
  <2> QED BY <1>8, <2>3, <2>7
<1> QED BY <1>11, <1>13, <1>14, <1>15

LEMMA AbbiePreparesOne ==
  ASSUME AbbieInv, Abbie!PrepareLast \/ Abbie!PreparePipe \/ Abbie!PrepareNumbered \/ Abbie!PrepareFile
  PROVE  AbbieInv'
<1> DEFINE h == Head(line)
<1>1. /\ KernelTypeOK /\ open \in [Fds -> PipeEnd \cup {None}] /\ count \in Nat
      /\ locals \in [fdIn : Descr, fdOut : Descr, pipeFd : Descr \X Descr,
           link : {"NONE", "PIPE", "NUMBER_PIPE", "ERROR_NUMBER_PIPE", "REDIRECT"}]
      /\ \A e \in queue : e.remains \in Int /\ e.rd \in Fds /\ e.wr \in Fds
      /\ queue \subseteq Waiting /\ line \in Seq(Command)
      /\ Sole /\ Old /\ Apart
  BY AbbieTypesAre DEF AbbieInv, AbbieQueue
<1>2. PICK r \in Descr, w \in Descr, f \in Descr, out \in Descr :
        \E fd \in Descr \X Descr : \E new : AbbiePrepared(r, w, f, out, fd, new)
  BY AbbiePrepares
<1>3. PICK fd \in Descr \X Descr : \E new : AbbiePrepared(r, w, f, out, fd, new)
  BY <1>2
<1>4. PICK new : AbbiePrepared(r, w, f, out, fd, new)
  BY <1>3
<1>5. /\ pc = "run" /\ pc' = "fork" /\ line # <<>> /\ h.kind = "prog"
      /\ UNCHANGED <<line, data, got, count, starved>>
      /\ AbbieFinds(cmds', Tail(line))
      /\ IsFree(r, {}) /\ IsFree(w, {}) /\ IsFree(f, {})
      /\ r = w => r = 0
      /\ f = 0 \/ (r = 0 /\ w = 0)
      /\ open' = Table(r, w, f, {})
      /\ locals' = [fdIn |-> locals.fdIn, fdOut |-> out, pipeFd |-> fd, link |-> AbbieCode(h.link)]
      /\ \/ h.link = "end" /\ r = 0 /\ w = 0 /\ f = 0 /\ out = 0 /\ queue' = queue
         \/ h.link = "pipe" /\ r # 0 /\ w # 0 /\ out = w /\ fd = <<r, w>> /\ queue' = queue
         \/ /\ Numbered(h.link) /\ r = 0 /\ w = 0 /\ f = 0 /\ queue' = queue
            /\ \E e \in queue : e.remains = h.n /\ e.wr = out
         \/ /\ Numbered(h.link) /\ r # 0 /\ w # 0 /\ out = w
            /\ \A e \in queue : e.remains # h.n
            /\ new = [remains |-> h.n, rd |-> r, wr |-> w] /\ queue' = queue \cup {new}
         \/ h.link = "file" /\ r = 0 /\ w = 0 /\ f # 0 /\ out = f /\ queue' = queue
  BY <1>4 DEF AbbiePrepared
<1>6. /\ h.n \in 0..MaxN /\ (Numbered(h.link) <=> h.n # 0)
      /\ h.link \in {"end", "pipe", "num", "err", "file"}
  <2>1. Legal(line)
    BY DEF AbbieInv, AbbieWords
  <2>2. h \in Command /\ (Numbered(h.link) <=> h.n # 0)
    BY <1>1, <1>5, <2>1, RestOfLine
  <2> QED BY <2>2 DEF Command
<1>7. count + 1 \in Pipes
  BY <1>1, <1>5, NextPipe DEF AbbieInv, AbbieWords
<1>8. \A e \in queue : Whole(e) /\ e.remains \in 1..MaxN
  BY DEF AbbieInv, AbbieQueue
<1> HIDE DEF h
<1>9. /\ open' \in [Fds -> PipeEnd \cup {None}]
      /\ Old' /\ Sole'
      /\ \A g : Open(g) => open'[g] = open[g] /\ Open(g)' /\ g # r /\ g # w /\ g # f
      /\ r # 0 => Ends(r, "r")' /\ open'[r].pipe = count + 1
      /\ w # 0 => Ends(w, "w")' /\ open'[w].pipe = count + 1
      /\ \A g, end : Ends(g, end) => Ends(g, end)' /\ open'[g] = open[g]
      /\ \A g : Open(g)' /\ g # r /\ g # w /\ g # f => Open(g) /\ open'[g] = open[g]
      /\ \A g : Open(g) /\ Dry(g) => Dry(g)'
  <2>1. /\ open' \in [Fds -> PipeEnd \cup {None}]
        /\ Old' /\ Sole'
        /\ \A g : Open(g) /\ g \notin {} => open'[g] = open[g] /\ Open(g)' /\ g # r /\ g # w /\ g # f
        /\ r # 0 => Ends(r, "r")' /\ open'[r].pipe = count + 1
        /\ w # 0 => Ends(w, "w")' /\ open'[w].pipe = count + 1
        /\ \A g, end : Ends(g, end) /\ g \notin {} => Ends(g, end)' /\ open'[g] = open[g]
        /\ \A g : Open(g)' /\ g # r /\ g # w /\ g # f => Open(g) /\ g \notin {} /\ open'[g] = open[g]
        /\ \A g : Open(g) /\ g \notin {} /\ Dry(g) => Dry(g)'
    BY <1>1, <1>5, <1>7, Preparing
  <2> QED BY <2>1
<1>10. ASSUME NEW e \in queue PROVE Whole(e)' /\ e.rd # r /\ e.rd # w
  <2>1. Ends(e.rd, "r") /\ Ends(e.wr, "w") /\ open[e.rd].pipe = open[e.wr].pipe /\ Open(e.rd)
    BY <1>8 DEF Whole, Ends, Open
  <2>2. Ends(e.rd, "r")' /\ open'[e.rd] = open[e.rd] /\ Ends(e.wr, "w")' /\ open'[e.wr] = open[e.wr]
        /\ e.rd # r /\ e.rd # w
    BY <1>9, <2>1
  <2> QED BY <2>1, <2>2 DEF Whole
<1>11. \/ queue' = queue
       \/ /\ queue' = queue \cup {new} /\ new = [remains |-> h.n, rd |-> r, wr |-> w]
          /\ new \in Waiting /\ new.remains \in 1..MaxN /\ Whole(new)' /\ new.rd = r
          /\ \A e \in queue : e.remains # new.remains /\ e.rd # new.rd
          /\ r # 0 /\ w # 0
  <2> SUFFICES ASSUME Numbered(h.link), r # 0, w # 0,
                      \A e \in queue : e.remains # h.n,
                      new = [remains |-> h.n, rd |-> r, wr |-> w], queue' = queue \cup {new}
               PROVE  /\ new \in Waiting /\ new.remains \in 1..MaxN /\ Whole(new)' /\ new.rd = r
                      /\ \A e \in queue : e.remains # new.remains /\ e.rd # new.rd
    BY <1>5
  <2>1. Ends(r, "r")' /\ open'[r].pipe = count + 1 /\ Ends(w, "w")' /\ open'[w].pipe = count + 1
    BY <1>9
  <2>2. r \in Fds /\ w \in Fds
    BY DEF Descr
  <2>3. h.n \in 1..MaxN
    BY <1>6
  <2> QED BY <1>10, <2>1, <2>2, <2>3 DEF Waiting, Whole
<1>12. /\ locals'.fdIn = locals.fdIn /\ locals'.fdOut = out /\ locals'.pipeFd = fd
       /\ locals'.link = AbbieCode(h.link)
  BY <1>5
<1>13. AbbieTypes'
  <2>1. queue' \subseteq Waiting
    BY <1>1, <1>11
  <2>2. AbbieCode(h.link) \in {"NONE", "PIPE", "NUMBER_PIPE", "ERROR_NUMBER_PIPE", "REDIRECT"}
    BY <1>6 DEF AbbieCode
  <2>3. locals' \in Abbie!Locals
    BY <1>1, <1>5, <2>2, AbbieKernel DEF Abbie!Locals
  <2> QED BY <1>1, <1>5, <1>9, <2>1, <2>3 DEF AbbieTypes, KernelTypeOK
<1>14. AbbieWords'
  BY <1>5, <1>12 DEF AbbieInv, AbbieWords, h
<1>15. AbbieQueue'
  <2>1. ASSUME NEW x \in queue' PROVE x.remains \in 1..MaxN /\ Whole(x)'
    <3>1. CASE x \in queue
      BY <1>8, <1>10, <3>1
    <3>2. CASE x = new /\ new.remains \in 1..MaxN /\ Whole(new)'
      BY <3>2 DEF Whole
    <3> QED BY <1>11, <3>1, <3>2
  <2>2. Apart'
    BY <1>1, <1>11 DEF Apart
  <2> QED BY <2>1, <2>2 DEF AbbieQueue, Whole
<1>16. PICK in : in = locals.fdIn
  OBVIOUS
<1>17. in = 0 \/ (Ends(in, "r")' /\ Dry(in)' /\ \A x \in queue' : x.rd # in)
  <2> SUFFICES ASSUME in # 0 PROVE Ends(in, "r")' /\ Dry(in)' /\ \A x \in queue' : x.rd # in
    OBVIOUS
  <2>1. Ends(in, "r") /\ Dry(in) /\ Open(in) /\ \A e \in queue : e.rd # in
    BY <1>5, <1>16 DEF AbbieInv, AbbieInput, Ends, Open
  <2>2. Ends(in, "r")' /\ Dry(in)' /\ in # r
    BY <1>9, <2>1
  <2> QED BY <1>11, <2>1, <2>2
<1>18. AbbieInput'
  <2>1. in = 0 \/ (Ends(locals.fdIn, "r")' /\ Dry(locals.fdIn)')
    BY <1>12, <1>16, <1>17 DEF Ends, Dry
  <2> QED BY <1>5, <1>12, <1>16, <1>17, <2>1 DEF AbbieInput
<1>19. ASSUME h.link = "pipe"
       PROVE  /\ out = w /\ fd[1] = r /\ r # 0 /\ w # 0 /\ Ends(r, "r")' /\ open'[r].pipe = count + 1
              /\ Ends(w, "w")' /\ open'[w].pipe = count + 1 /\ r # in
              /\ \A e \in queue' : e.rd # r
  <2>1. out = w /\ fd = <<r, w>> /\ r # 0 /\ w # 0 /\ queue' = queue
    BY <1>5, <1>19 DEF Numbered
  <2>2. Ends(r, "r")' /\ open'[r].pipe = count + 1 /\ Ends(w, "w")' /\ open'[w].pipe = count + 1
    BY <1>9, <2>1
  <2>3. r # in
    <3>1. in = 0 \/ Open(in)
      BY <1>5, <1>16 DEF AbbieInv, AbbieInput, Ends, Open
    <3> QED BY <1>9, <2>1, <3>1
  <2> QED BY <1>10, <2>1, <2>2, <2>3
<1>20. AbbieReady'
  <2>1. Numbered(h.link) => \E e \in queue' : e.remains = h.n /\ e.wr = out
    BY <1>5 DEF Numbered
  <2>2. h.link = "end" => out = 0
    BY <1>5 DEF Numbered
  <2>3. ASSUME h.link = "file" PROVE Ends(out, "f")'
    <3>1. out = f /\ f # 0 /\ f \in Fds /\ r = 0 /\ w = 0
      BY <1>5, <2>3 DEF Numbered, Descr
    <3>2. open'[f] = File /\ 0 \notin Fds
      BY <1>5, <3>1, ZeroIsNoFd DEF Table
    <3>3. File # None /\ File.end = "f"
      BY DEF File, PipeEnd
    <3> QED BY <3>1, <3>2, <3>3 DEF Ends
  <2>4. ASSUME h.link = "pipe"
        PROVE  /\ Ends(locals.pipeFd[1], "r")' /\ open'[locals'.pipeFd[1]].pipe = count' + 1
               /\ Ends(locals.fdOut, "w")' /\ open'[locals'.fdOut].pipe = count' + 1
               /\ locals'.pipeFd[1] # locals'.fdIn
               /\ \A e \in queue' : e.rd # locals'.pipeFd[1]
    BY <1>5, <1>12, <1>16, <1>19, <2>4 DEF Ends
  <2>5. h.link = "file" => Ends(locals.fdOut, "f")'
    BY <1>12, <2>3 DEF Ends
  <2> QED BY <1>5, <1>12, <2>1, <2>2, <2>4, <2>5 DEF AbbieReady, h
<1>21. AbbieKeeps'
  <2> SUFFICES ASSUME NEW g \in Fds, Open(g)' PROVE AbbieHeld(g)'
    BY DEF AbbieKeeps
  <2>1. g # 0
    BY ZeroIsNoFd
  <2>2. CASE g = f
    <3>1. g = out
      BY <1>5, <2>1, <2>2
    <3> QED BY <1>5, <1>12, <3>1 DEF AbbieHeld
  <2>3. CASE g = r \/ g = w
    <3>1. CASE h.link = "pipe"
      BY <1>5, <1>12, <1>19, <2>3, <3>1 DEF AbbieHeld, h
    <3>2. CASE h.link # "pipe"
      <4>1. new \in queue' /\ new.rd = r /\ new.wr = w
        BY <1>5, <1>11, <2>1, <2>3, <3>2
      <4> QED BY <2>3, <4>1 DEF AbbieHeld
    <3> QED BY <3>1, <3>2
  <2>4. CASE g # f /\ g # r /\ g # w
    <3>1. Open(g) /\ open'[g] = open[g] /\ AbbieHeld(g)
      BY <1>9, <2>4 DEF AbbieInv, AbbieKeeps, Open
    <3>2. CASE \E e \in queue : g \in {e.rd, e.wr}
      <4>1. queue \subseteq queue'
        BY <1>11
      <4> QED BY <3>2, <4>1 DEF AbbieHeld
    <3>3. CASE g = locals.fdIn
      BY <1>5, <1>12, <3>3 DEF AbbieHeld
    <3>4. CASE open[g].end = "r" /\ Dry(g)
      <4>1. Dry(g)'
        BY <1>9, <3>1, <3>4
      <4> QED BY <3>1, <3>4, <4>1 DEF AbbieHeld
    <3> QED BY <1>5, <3>1, <3>2, <3>3, <3>4 DEF AbbieHeld
  <2> QED BY <2>2, <2>3, <2>4
<1> QED BY <1>9, <1>13, <1>14, <1>15, <1>18, <1>20, <1>21 DEF AbbieInv

LEMMA AbbieRunsProgram ==
  ASSUME AbbieInv, Abbie!RunProgram PROVE AbbieInv'
<1> DEFINE h == Head(line)
<1>1. /\ pc = "fork" /\ pc' = "run" /\ Run(TRUE, locals.fdIn, locals.fdOut)
      /\ open' = Closed({locals.fdIn} \cup (IF Abbie!Kept THEN {} ELSE {locals.fdOut}), open)
      /\ locals' = [locals EXCEPT !.fdIn = IF locals.link = "PIPE" THEN locals.pipeFd[1] ELSE @]
      /\ cmds' = cmds /\ queue' = queue
  BY AbbieKernel DEF Abbie!RunProgram, Abbie!Drops
<1>2. /\ KernelTypeOK /\ queue \subseteq Waiting /\ line \in Seq(Command) /\ count \in Nat
      /\ locals \in [fdIn : Descr, fdOut : Descr, pipeFd : Descr \X Descr,
           link : {"NONE", "PIPE", "NUMBER_PIPE", "ERROR_NUMBER_PIPE", "REDIRECT"}]
      /\ \A e \in queue : e.remains \in Int /\ e.rd \in Fds /\ e.wr \in Fds
      /\ Sole /\ \A e \in queue : Whole(e)
  BY AbbieTypesAre DEF AbbieInv, AbbieQueue
<1>3. /\ line # <<>> /\ h.kind # "builtin" /\ Legal(line) /\ AbbieFinds(cmds, Tail(line))
      /\ locals.link = AbbieCode(h.link)
  BY <1>1 DEF AbbieInv, AbbieWords
<1>4. /\ h \in Command /\ Tail(line) \in Seq(Command) /\ Legal(Tail(line))
      /\ (h.link = "pipe" <=> Tail(line) # <<>>)
      /\ Programs(line) = Programs(Tail(line)) + 1 /\ Programs(Tail(line)) \in Nat
      /\ Tail(line) # <<>> => Head(Tail(line)).kind # "builtin"
  BY <1>2, <1>3, RestOfLine
<1>5. count + 1 \in Pipes
  BY <1>2, <1>3, NextPipe DEF AbbieInv, AbbieWords
<1>6. /\ line' = Tail(line) /\ line' \in Seq(Command)
      /\ count' = count + 1 /\ count' \in 0..MaxPrograms /\ starved' = starved
      /\ data' \in [Pipes -> Seq(Pipes)] /\ got' \in Seq(Pipes)
  BY <1>1, <1>2, <1>3, <1>5, Running
<1>7. h.link \in {"end", "pipe", "num", "err", "file"}
  BY <1>4 DEF Command
<1>8. (locals.link = "PIPE" <=> h.link = "pipe") /\ (Abbie!Kept <=> Numbered(h.link))
  BY <1>3, <1>7 DEF AbbieCode, Abbie!Kept, Numbered
<1>9. PICK in \in Descr, out \in Descr, rd \in Descr :
        in = locals.fdIn /\ out = locals.fdOut /\ rd = locals.pipeFd[1]
  BY <1>2
<1>10. PICK fds : fds = {in} \cup (IF Numbered(h.link) THEN {} ELSE {out})
  OBVIOUS
<1>11. /\ open' \in [Fds -> PipeEnd \cup {None}]
       /\ \A f \in Fds : open'[f] = IF f \in fds THEN None ELSE open[f]
       /\ Sole'
       /\ \A f : f \notin fds /\ Dry(f) /\ Open(f) => Dry(f)'
       /\ \A f, end : Ends(f, end)' <=> Ends(f, end) /\ f \notin fds
  <2>1. open' = Closed(fds, open)
    BY <1>1, <1>8, <1>9, <1>10
  <2> QED BY <1>2, <2>1, Closing
<1>12. /\ locals'.fdIn = (IF h.link = "pipe" THEN rd ELSE in)
       /\ locals' \in [fdIn : Descr, fdOut : Descr, pipeFd : Descr \X Descr,
            link : {"NONE", "PIPE", "NUMBER_PIPE", "ERROR_NUMBER_PIPE", "REDIRECT"}]
  <2>1. CASE h.link = "pipe"
    <3>1. locals' = [locals EXCEPT !.fdIn = rd]
      BY <1>1, <1>8, <1>9, <2>1
    <3> QED BY <1>2, <2>1, <3>1
  <2>2. CASE h.link # "pipe"
    <3>1. locals' = [locals EXCEPT !.fdIn = in]
      BY <1>1, <1>8, <1>9, <2>2
    <3> QED BY <1>2, <2>2, <3>1
  <2> QED BY <2>1, <2>2
<1>13. in = 0 \/ (Ends(in, "r") /\ \A e \in queue : e.rd # in)
  BY <1>1, <1>3, <1>9 DEF AbbieInv, AbbieInput
<1>14. /\ h.link = "end" => out = 0
       /\ h.link = "file" => Ends(out, "f")
       /\ Numbered(h.link) => \E e \in queue : e.wr = out
       /\ h.link = "pipe" =>
            /\ Ends(rd, "r") /\ open[rd].pipe = count + 1 /\ Ends(out, "w") /\ open[out].pipe = count + 1
            /\ rd # in /\ \A e \in queue : e.rd # rd
  BY <1>1, <1>9 DEF AbbieInv, AbbieReady
<1> HIDE DEF h
<1>15. ASSUME NEW e \in queue PROVE Whole(e)' /\ Open(e.rd) /\ Open(e.wr)
  <2>1. Ends(e.rd, "r") /\ Ends(e.wr, "w") /\ open[e.rd].pipe = open[e.wr].pipe
    BY <1>2 DEF Whole
  <2>2. e.rd # in /\ e.wr # in
    BY <1>13, <2>1, ZeroIsNoFd DEF Ends
  <2>3. ASSUME ~Numbered(h.link) PROVE e.rd # out /\ e.wr # out
    <3>1. CASE h.link = "end"
      BY <1>14, <2>1, <3>1, ZeroIsNoFd
    <3>2. CASE h.link = "file"
      BY <1>14, <2>1, <3>2 DEF Ends
    <3>3. CASE h.link = "pipe"
      <4>1. e.rd # out
        BY <1>14, <2>1, <3>3 DEF Ends
      <4>2. e.wr # out
        <5> SUFFICES ASSUME e.wr = out PROVE FALSE
          OBVIOUS
        <5>1. open[e.rd].pipe = open[rd].pipe
          BY <1>14, <2>1, <3>3
        <5> QED BY <1>2, <1>14, <2>1, <3>3, <5>1 DEF Sole, Open, Ends
      <4> QED BY <4>1, <4>2
    <3> QED BY <1>7, <2>3, <3>1, <3>2, <3>3 DEF Numbered
  <2>4. e.rd \notin fds /\ e.wr \notin fds
    BY <1>10, <2>2, <2>3
  <2> QED BY <1>11, <2>1, <2>4 DEF Whole, Ends, Open
<1>16. AbbieTypes'
  <2>1. locals' \in Abbie!Locals
    BY <1>12, AbbieKernel DEF Abbie!Locals
  <2>2. KernelTypeOK'
    BY <1>1, <1>2, <1>6, <1>11 DEF KernelTypeOK
  <2> QED BY <2>1, <2>2 DEF AbbieTypes
<1>17. AbbieWords'
  <2>1. Legal(line') /\ (line' # <<>> => Head(line').kind # "builtin")
    BY <1>4, <1>6
  <2>2. count' + Programs(line') <= MaxPrograms
    <3>1. count + Programs(line) <= MaxPrograms
      BY DEF AbbieInv, AbbieWords
    <3>2. count' + Programs(line') = count + Programs(line)
      BY <1>2, <1>4, <1>6
    <3> QED BY <3>1, <3>2
  <2>3. AbbieFinds(cmds', line')
    BY <1>1, <1>3, <1>6
  <2> QED BY <1>1, <2>1, <2>2, <2>3 DEF AbbieWords
<1>18. Old'
  <2> SUFFICES ASSUME NEW f \in Fds, open'[f] # None PROVE open'[f].pipe <= count'
    BY <1>1 DEF Old, Open
  <2>1. open'[f] = open[f] /\ Open(f)
    BY <1>11 DEF Open
  <2> QED BY <1>1, <1>6, <2>1 DEF AbbieInv, Old
<1>19. AbbieQueue'
  BY <1>1, <1>15 DEF AbbieInv, AbbieQueue, Apart, Whole
<1>20. ASSUME h.link = "pipe" PROVE Ends(rd, "r")' /\ Dry(rd)' /\ rd # 0
  <2>1. /\ Ends(rd, "r") /\ open[rd].pipe = count + 1 /\ Ends(out, "w") /\ open[out].pipe = count + 1
        /\ rd # in /\ rd # out /\ fds = {in, out} /\ rd # 0
    BY <1>10, <1>14, <1>20, ZeroIsNoFd DEF Numbered, Ends
  <2>2. Ends(rd, "r")' /\ open'[rd] = open[rd]
    BY <1>11, <2>1 DEF Ends
  <2>3. ASSUME NEW g \in Fds, Ends(g, "w")' PROVE open'[g].pipe # open'[rd].pipe
    <3>1. Ends(g, "w") /\ g # out /\ open'[g] = open[g]
      BY <1>11, <2>1, <2>3 DEF Ends
    <3> QED BY <1>2, <2>1, <2>2, <3>1 DEF Sole, Open, Ends
  <2>4. Dry(rd)'
    BY <2>3 DEF Dry
  <2> QED BY <2>1, <2>2, <2>4
<1>21. AbbieInput'
  <2>1. ASSUME line' = <<>> PROVE ~Open(locals.fdIn)'
    <3>1. locals'.fdIn = in /\ in \in fds
      BY <1>4, <1>6, <1>10, <1>12, <2>1 DEF h
    <3>2. \A f \in fds : f \in Fds => open'[f] = None
      BY <1>11
    <3> QED BY <3>1, <3>2 DEF Open
  <2>2. ASSUME line' # <<>>
        PROVE  Ends(locals.fdIn, "r")' /\ Dry(locals.fdIn)' /\ \A e \in queue' : e.rd # locals'.fdIn
    <3>1. h.link = "pipe" /\ locals'.fdIn = rd
      BY <1>4, <1>6, <1>12, <2>2 DEF h
    <3>2. Ends(locals.fdIn, "r")' /\ Dry(locals.fdIn)'
      BY <1>20, <3>1 DEF Ends, Dry
    <3> QED BY <1>1, <1>14, <3>1, <3>2
  <2> QED BY <2>1, <2>2 DEF AbbieInput
<1>22. AbbieReady'
  BY <1>1 DEF AbbieReady
<1>23. AbbieKeeps'
  <2> SUFFICES ASSUME NEW f \in Fds, Open(f)' PROVE AbbieHeld(f)'
    BY DEF AbbieKeeps
  <2>1. Open(f) /\ f \notin fds /\ open'[f] = open[f] /\ AbbieHeld(f)
    BY <1>11 DEF Open, AbbieInv, AbbieKeeps
  <2>2. CASE \E e \in queue : f \in {e.rd, e.wr}
    BY <1>1, <2>2 DEF AbbieHeld
  <2>3. CASE f = out
    <3>1. \E e \in queue : f = e.wr
      BY <1>10, <1>14, <2>1, <2>3
    <3> QED BY <1>1, <3>1 DEF AbbieHeld
  <2>4. CASE h.link = "pipe" /\ f = rd
    <3>1. line' # <<>> /\ locals'.fdIn = f
      BY <1>4, <1>6, <1>12, <2>4 DEF h
    <3> QED BY <1>1, <3>1 DEF AbbieHeld
  <2>5. CASE open[f].end = "r" /\ Dry(f)
    <3>1. Dry(f)'
      BY <1>11, <2>1, <2>5
    <3> QED BY <2>1, <2>5, <3>1 DEF AbbieHeld
  <2>6. f # locals.fdIn
    BY <1>9, <1>10, <2>1
  <2> QED BY <1>9, <2>1, <2>2, <2>3, <2>4, <2>5, <2>6 DEF AbbieHeld, h
<1> QED BY <1>11, <1>16, <1>17, <1>18, <1>19, <1>21, <1>22, <1>23 DEF AbbieInv

\* Every step of AbbieShell keeps the invariant.
LEMMA AbbieSteps ==
  ASSUME AbbieInv, "abbie" \in Shells, Abbie!Next \/ UNCHANGED vars PROVE AbbieInv'
<1>1. CASE UNCHANGED vars
  <2>1. UNCHANGED <<pc, line, cmds, queue, locals, open, data, got, count, starved>>
    BY <1>1 DEF vars, world
  <2>2. AbbieTypes' /\ AbbieWords' /\ Sole' /\ Old' /\ AbbieQueue'
    BY <2>1 DEF AbbieInv, AbbieTypes, KernelTypeOK, AbbieWords, Sole, Old, Open, AbbieQueue, Apart, Whole, Ends
  <2>3. AbbieInput' /\ AbbieReady'
    BY <2>1 DEF AbbieInv, AbbieInput, AbbieReady, Open, Ends, Dry
  <2>4. AbbieKeeps'
    BY <2>1 DEF AbbieInv, AbbieKeeps, AbbieHeld, Open, Ends, Dry
  <2> QED BY <2>2, <2>3, <2>4 DEF AbbieInv
<1>2. CASE pc = "prompt" /\ \E l \in Lines : Abbie!Enter(l)
  BY <1>2, AbbieEnters
<1> QED BY <1>1, <1>2, AbbiePreparesOne, AbbieRunsProgram, AbbieGivesUp DEF Abbie!Next

-----------------------------------------------------------------------------
(* The three shells together *)

Inv ==
  /\ shell \in {"ras", "rwg", "abbie"}
  /\ shell = "ras" => RasInv
  /\ shell = "rwg" => RwgInv
  /\ shell = "abbie" => AbbieInv

\* What the theorems are restricted to: of server.cpp, lines of one program where
\* a numbered pipe is due (see BarFeedsNext for the others).
OneReads == "rwg" \in Shells => ~PipesIntoDue

\* Inv is inductive.
LEMMA InvHolds == ASSUME OneReads PROVE Spec => [](Inv /\ shell \in Shells)
<1>1. Init => Inv /\ shell \in Shells
  <2> SUFFICES ASSUME Init PROVE Inv
    BY DEF Init
  <2>1. shell \in {"ras", "rwg", "abbie"}
    BY ShellsNamed DEF Init
  <2>2. CASE shell = "ras"
    <3>1. Ras!Init
      BY <2>2 DEF Init, Own
    <3> QED BY <2>2, <3>1, RasStarts DEF Inv
  <2>3. CASE shell = "rwg"
    <3>1. Rwg!Init
      BY <2>3 DEF Init, Own
    <3> QED BY <2>3, <3>1, RwgStarts DEF Inv
  <2>4. CASE shell = "abbie"
    <3>1. Abbie!Init
      BY <2>4 DEF Init, Own
    <3> QED BY <2>4, <3>1, AbbieStarts DEF Inv
  <2> QED BY <2>1, <2>2, <2>3, <2>4
<1>2. Inv /\ shell \in Shells /\ [Next]_<<vars, shell>> => (Inv /\ shell \in Shells)'
  <2> SUFFICES ASSUME Inv, shell \in Shells, [Next]_<<vars, shell>> PROVE Inv' /\ shell' \in Shells
    OBVIOUS
  <2>1. /\ shell' = shell
        /\ shell = "ras" => Ras!Next \/ UNCHANGED vars
        /\ shell = "rwg" => Rwg!Next \/ UNCHANGED vars
        /\ shell = "abbie" => Abbie!Next \/ UNCHANGED vars
    BY DEF Next
  <2>2. CASE shell = "ras"
    BY <2>1, <2>2, RasSteps DEF Inv
  <2>3. CASE shell = "rwg"
    BY <2>1, <2>3, RwgSteps DEF Inv, OneReads
  <2>4. CASE shell = "abbie"
    BY <2>1, <2>4, AbbieSteps DEF Inv
  <2> QED BY <2>1, <2>2, <2>3, <2>4 DEF Inv
<1> QED BY <1>1, <1>2, PTL DEF Spec

\* A dry pipe is at its end for every reader, whatever it has closed.
LEMMA DryEnds ==
  ASSUME NEW f, f = 0 \/ Dry(f) PROVE \A closes : SeesEndOf(f, closes)
BY ZeroIsNoFd DEF Dry, SeesEndOf, Ends

LEMMA RasInputEnds == ASSUME RasInv, pc = "fork" PROVE Ras!InputEnds
<1>1. \A closes : SeesEndOf(Ras!Stdin, closes)
  <2>1. CASE Ends(locals.npipeIn, "r")
    <3>1. \E e \in queue : e.remains = 0 /\ e.rd = locals.npipeIn
      BY <2>1, ZeroIsNoFd DEF RasInv, RasInput
    <3>2. Dry(locals.npipeIn)
      BY <3>1 DEF RasInv, RasQueue
    <3> QED BY <2>1, <3>2, DryEnds, RasKernel DEF Ras!Stdin
  <2>2. CASE ~Ends(locals.npipeIn, "r") /\ Ends(locals.pipeNext, "r")
    <3>1. Dry(locals.pipeNext)
      BY <2>2, ZeroIsNoFd DEF RasInv, RasInput, RasWords
    <3>2. Ras!Stdin \in {locals.pipeNext, 0}
      BY <2>2, RasKernel DEF Ras!Stdin
    <3> QED BY <3>1, <3>2, DryEnds
  <2>3. CASE ~Ends(locals.npipeIn, "r") /\ ~Ends(locals.pipeNext, "r")
    <3>1. Ras!Stdin = 0
      BY <2>3, RasKernel DEF Ras!Stdin
    <3> QED BY <3>1, DryEnds
  <2> QED BY <2>1, <2>2, <2>3
<1> QED BY <1>1, RasKernel DEF Ras!InputEnds, Ras!SeesEndOf, SeesEndOf

LEMMA RwgInputEnds == ASSUME RwgInv, pc = "fork" PROVE Rwg!InputEnds
<1>1. locals.fdin = Rwg!Stdin
  BY DEF RwgInv, RwgReady
<1>2. \A closes : locals.prev[2] \in closes => SeesEndOf(locals.fdin, closes)
  <2>1. CASE Rwg!Due = {}
    <3>1. locals.fdin = locals.prev[1]
      BY <1>1, <2>1 DEF Rwg!Stdin
    <3>2. locals.prev[1] = 0 \/ Bar(locals.prev)
      BY DEF RwgInv, RwgBars, RwgWords
    <3>3. CASE locals.prev[1] = 0
      BY <3>1, <3>3, DryEnds
    <3>4. CASE Bar(locals.prev)
      BY <3>1, <3>4 DEF SeesEndOf, Bar, Ends, RwgInv, Sole, Open
    <3> QED BY <3>2, <3>3, <3>4
  <2>2. CASE Rwg!Due # {}
    <3>1. \E e \in queue : e.remains = 0 /\ locals.fdin = e.rd
      <4>1. (CHOOSE e \in Rwg!Due : TRUE) \in Rwg!Due
        BY <2>2
      <4> QED BY <1>1, <2>2, <4>1 DEF Rwg!Stdin, Rwg!Due
    <3>2. Dry(locals.fdin)
      BY <3>1 DEF RwgInv, RwgQueue
    <3> QED BY <3>2, DryEnds
  <2> QED BY <2>1, <2>2
<1>3. \A f, closes : Rwg!SeesEndOf(f, closes) <=> SeesEndOf(f, closes)
  BY RwgKernel DEF Rwg!SeesEndOf, SeesEndOf
<1> QED BY <1>2, <1>3 DEF Rwg!InputEnds, Rwg!Drops

LEMMA AbbieInputEnds == ASSUME AbbieInv, pc = "fork" PROVE Abbie!InputEnds
<1>1. locals.fdIn = 0 \/ Dry(locals.fdIn)
  BY DEF AbbieInv, AbbieInput, AbbieWords
<1>2. \A closes : SeesEndOf(locals.fdIn, closes)
  BY <1>1, DryEnds
<1>3. \A f, closes : Abbie!SeesEndOf(f, closes) <=> SeesEndOf(f, closes)
  BY AbbieKernel DEF Abbie!SeesEndOf, SeesEndOf
<1> QED BY <1>2, <1>3 DEF Abbie!InputEnds

\* The state of a shell, its table of descriptors, the pipes and the queue are what
\* the code declares.
THEOREM ShellsAreTyped == ASSUME OneReads PROVE Spec => []TypeOK
<1>1. Inv => TypeOK
  <2> SUFFICES ASSUME Inv PROVE TypeOK
    OBVIOUS
  <2>1. CASE shell = "ras"
    <3>1. Own(Ras!Locals, Rwg!Locals, Abbie!Locals) = Ras!Locals
      BY <2>1 DEF Own
    <3> QED BY <2>1, <3>1 DEF TypeOK, Inv, RasInv, RasTypes, RasQueue
  <2>2. CASE shell = "rwg"
    <3>1. Own(Ras!Locals, Rwg!Locals, Abbie!Locals) = Rwg!Locals
      BY <2>2 DEF Own
    <3>2. \A e \in queue : e.remains \in 0..MaxN
      BY <2>2 DEF Inv, RwgInv, RwgQueue
    <3>3. \A e \in queue : e.remains \in (IF starved THEN -MaxOverdue ELSE 0)..MaxN
      BY <3>2
    <3> QED BY <2>2, <3>1, <3>3 DEF TypeOK, Inv, RwgInv, RwgTypes
  <2>3. CASE shell = "abbie"
    <3>1. Own(Ras!Locals, Rwg!Locals, Abbie!Locals) = Abbie!Locals
      BY <2>3 DEF Own
    <3>2. \A e \in queue : e.remains \in 1..MaxN
      BY <2>3 DEF Inv, AbbieInv, AbbieQueue
    <3>3. \A e \in queue : e.remains \in (IF starved THEN -MaxOverdue ELSE 0)..MaxN
      BY <3>2
    <3> QED BY <2>3, <3>1, <3>3 DEF TypeOK, Inv, AbbieInv, AbbieTypes
  <2> QED BY <2>1, <2>2, <2>3 DEF Inv
<1> QED BY <1>1, InvHolds, PTL

\* A program that is forked sees the end of its input, in each of the shells: none
\* of the descriptors it inherits, nor of those the shell keeps open while it waits,
\* writes into the pipe it reads.
THEOREM InputsEnd == ASSUME OneReads PROVE Spec => []SeesEnd
<1>1. Inv => SeesEnd
  <2> SUFFICES ASSUME Inv, pc = "fork" PROVE Own(Ras!InputEnds, Rwg!InputEnds, Abbie!InputEnds)
    BY DEF SeesEnd
  <2>1. CASE shell = "ras"
    <3>1. Ras!InputEnds
      BY <2>1, RasInputEnds DEF Inv
    <3> QED BY <2>1, <3>1 DEF Own
  <2>2. CASE shell = "rwg"
    <3>1. Rwg!InputEnds
      BY <2>2, RwgInputEnds DEF Inv
    <3> QED BY <2>2, <3>1 DEF Own
  <2>3. CASE shell = "abbie"
    <3>1. Abbie!InputEnds
      BY <2>3, AbbieInputEnds DEF Inv
    <3> QED BY <2>3, <3>1 DEF Own
  <2> QED BY <2>1, <2>2, <2>3 DEF Inv
<1> QED BY <1>1, InvHolds, PTL

\* Between lines, each queued pipe has both its ends and its line to itself, and what
\* else is open is what a shell is known to forget, without a second end.
THEOREM NothingLeaks == ASSUME OneReads PROVE Spec => []NoLeak
<1>1. Inv => NoLeak
  <2> SUFFICES ASSUME Inv, pc = "prompt", ~starved
               PROVE  /\ \A e \in queue : Whole(e)
                      /\ \A e, f \in queue : e.remains = f.remains => e = f
                      /\ \A f \in Fds : open[f] # None /\ (\A e \in queue : f \notin {e.rd, e.wr}) =>
                           /\ open[f].end \in Forgets
                           /\ Lone(f)
    BY DEF NoLeak, Whole, Lone, Open
  <2>1. KernelTypeOK /\ Sole /\ Apart
    BY DEF Inv, RasInv, RasTypes, RasQueue, RwgInv, RwgTypes, RwgQueue, AbbieInv, AbbieTypes, AbbieQueue
  <2>2. \A e, f \in queue : e.remains = f.remains => e = f
    BY <2>1 DEF Apart
  <2>3. CASE shell = "ras"
    <3>1. \A e \in queue : e.remains > 0 /\ Whole(e)
      BY <2>3 DEF Inv, RasInv, RasQueue
    <3>2. \A f \in Fds : open[f] # None => \E e \in queue : f \in {e.rd, e.wr}
      BY <2>3 DEF Inv, RasInv, RasKeeps, RasHeld, Open
    <3> QED BY <2>2, <3>1, <3>2
  <2>4. CASE shell = "rwg"
    <3>1. \A e \in queue : Whole(e)
      BY <2>4 DEF Inv, RwgInv, RwgQueue
    <3>2. ASSUME NEW f \in Fds, open[f] # None, \A e \in queue : f \notin {e.rd, e.wr}
          PROVE  open[f].end \in Forgets /\ Lone(f)
      <4>1. open[f].end = "f" \/ (open[f].end = "w" /\ Lone(f))
        BY <2>4, <3>2 DEF Inv, RwgInv, RwgKeeps, RwgHeld, Open
      <4>2. Forgets = {"f", "w"}
        BY <2>4 DEF Forgets, Own
      <4>3. open[f].end = "f" => Lone(f)
        <5> SUFFICES ASSUME open[f].end = "f", NEW g \in Fds \ {f}, Open(g), open[g].end # "f"
                     PROVE  open[g].pipe # open[f].pipe
          BY DEF Lone
        <5>1. open[f] \in PipeEnd /\ open[g] \in PipeEnd
          BY <2>1, <3>2 DEF KernelTypeOK, Open
        <5> QED BY <5>1 DEF PipeEnd, Pipes
      <4> QED BY <4>1, <4>2, <4>3
    <3> QED BY <2>2, <3>1, <3>2
  <2>5. CASE shell = "abbie"
    <3>1. \A e \in queue : Whole(e)
      BY <2>5 DEF Inv, AbbieInv, AbbieQueue
    <3>2. ASSUME NEW f \in Fds, open[f] # None, \A e \in queue : f \notin {e.rd, e.wr}
          PROVE  open[f].end \in Forgets /\ Lone(f)
      <4>1. open[f].end = "r" /\ Dry(f)
        BY <2>5, <3>2 DEF Inv, AbbieInv, AbbieKeeps, AbbieHeld, Open
      <4>2. Forgets = {"r"}
        BY <2>5 DEF Forgets, Own
      <4>3. Lone(f)
        <5> SUFFICES ASSUME NEW g \in Fds \ {f}, Open(g), open[g].end # "f" PROVE open[g].pipe # open[f].pipe
          BY DEF Lone
        <5>1. open[g].end \in {"r", "w"}
          BY <2>1 DEF KernelTypeOK, PipeEnd, Open
        <5>2. CASE open[g].end = "w"
          BY <4>1, <5>2 DEF Dry, Ends, Open
        <5>3. CASE open[g].end = "r"
          BY <2>1, <3>2, <4>1, <5>3 DEF Sole, Open
        <5> QED BY <5>1, <5>2, <5>3
      <4> QED BY <4>1, <4>2, <4>3
    <3> QED BY <2>2, <3>1, <3>2
  <2> QED BY <2>3, <2>4, <2>5 DEF Inv
<1> QED BY <1>1, InvHolds, PTL
=============================================================================

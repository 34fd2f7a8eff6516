--------------------------- MODULE RasShell_proofs ---------------------------
(***************************************************************************)
(* That RasShell keeps its invariant, and what the other shells' proofs    *)
(* need as well: facts about lines, descriptors and pipes.  The theorems   *)
(* are in Shells_proofs.                                                   *)
(***************************************************************************)
EXTENDS MCShells, TLAPS, FiniteSetTheorems, WellFoundedInduction

USE MaxNPositive, MaxFdNatural, ProgramsNatural, NoneIsNoEnd, BoundsNatural

-----------------------------------------------------------------------------
(* Lines *)

\* A sequence is empty if it has no length.
LEMMA EmptyIs ==
  ASSUME NEW S, NEW s \in Seq(S) PROVE Len(s) \in Nat /\ (s = <<>> <=> Len(s) = 0)
OBVIOUS

\* The rest of a legal line.
LEMMA RestOfLine ==
  ASSUME NEW l \in Seq(Command), l # <<>>, Legal(l)
  PROVE  /\ Head(l) \in Command /\ Tail(l) \in Seq(Command) /\ Legal(Tail(l))
         /\ Head(l).link = "pipe" <=> Tail(l) # <<>>
         /\ Head(l).kind = "builtin" => Tail(l) = <<>> /\ Head(l).link = "end"
         /\ Numbered(Head(l).link) <=> Head(l).n # 0
         /\ Programs(Tail(l)) \in Nat
         /\ Programs(l) = IF Head(l).kind = "builtin" THEN 0 ELSE Programs(Tail(l)) + 1
         /\ Head(l) = l[1] /\ Len(l) \in Nat /\ Len(l) >= 1
         /\ Len(Tail(l)) = Len(l) - 1 /\ \A i \in 1..Len(l) - 1 : Tail(l)[i] = l[i + 1]
         /\ Tail(l) # <<>> => ToFile(Tail(l)) = ToFile(l) /\ Last(Tail(l)) = Last(l)
         /\ Tail(l) = <<>> => Last(l) = Head(l) /\ Len(l) = 1
         /\ Tail(l) # <<>> => Head(Tail(l)).kind # "builtin"
<1>1. /\ Head(l) \in Command /\ Tail(l) \in Seq(Command) /\ Head(l) = l[1]
      /\ Len(l) \in Nat /\ Len(l) >= 1 /\ Len(Tail(l)) = Len(l) - 1
      /\ \A i \in 1..Len(l) - 1 : Tail(l)[i] = l[i + 1]
      /\ \A i \in 1..Len(l) : l[i] \in Command
  OBVIOUS
<1>2. Tail(l) = <<>> <=> Len(l) = 1
  <2>1. Tail(l) = <<>> <=> Len(Tail(l)) = 0
    BY <1>1, EmptyIs
  <2> QED BY <1>1, <2>1
<1>3. Legal(Tail(l))
  <2> SUFFICES ASSUME NEW i \in 1..Len(Tail(l))
               PROVE  /\ (i < Len(Tail(l))) <=> (Tail(l)[i].link = "pipe")
                      /\ Tail(l)[i].kind # "builtin"
                      /\ Numbered(Tail(l)[i].link) <=> Tail(l)[i].n # 0
    BY DEF Legal
  <2>1. i + 1 \in 1..Len(l) /\ Tail(l)[i] = l[i + 1] /\ Len(l) # 1
    BY <1>1
  <2>2. (i + 1 < Len(l)) <=> (i < Len(Tail(l)))
    BY <1>1
  <2> QED BY <2>1, <2>2 DEF Legal
<1>4. /\ Head(l).link = "pipe" <=> Tail(l) # <<>>
      /\ Head(l).kind = "builtin" => Tail(l) = <<>> /\ Head(l).link = "end"
      /\ Numbered(Head(l).link) <=> Head(l).n # 0
  BY <1>1, <1>2 DEF Legal
<1>5. Tail(l) # <<>> => Tail(l)[1] = l[2] /\ l[2].kind # "builtin"
  <2> SUFFICES ASSUME Tail(l) # <<>> PROVE Tail(l)[1] = l[2] /\ l[2].kind # "builtin"
    OBVIOUS
  <2>1. 2 \in 1..Len(l) /\ 1 \in 1..Len(l) - 1
    BY <1>1, <1>2
  <2>2. l[2].kind # "builtin"
    BY <1>1, <2>1 DEF Legal
  <2>3. Tail(l)[1] = l[1 + 1]
    BY <1>1, <2>1
  <2> QED BY <2>2, <2>3
<1>6. Programs(Tail(l)) \in Nat /\ Programs(l) = IF Head(l).kind = "builtin" THEN 0 ELSE Programs(Tail(l)) + 1
  BY <1>1, <1>2, <1>4, <1>5 DEF Programs
<1>7. Tail(l) # <<>> => Last(Tail(l)) = Last(l)
  BY <1>1, <1>2 DEF Last
<1>8. Tail(l) = <<>> => Last(l) = Head(l)
  BY <1>1, <1>2 DEF Last
<1>9. Tail(l) # <<>> => ToFile(Tail(l)) = ToFile(l)
  BY <1>7 DEF ToFile
<1>10. Tail(l) # <<>> => Head(Tail(l)) = Tail(l)[1]
  BY <1>1, EmptyIs
<1> QED BY <1>1, <1>2, <1>3, <1>4, <1>5, <1>6, <1>7, <1>8, <1>9, <1>10

-----------------------------------------------------------------------------
(* Descriptors *)

\* The lowest descriptor of some is one of them.
LEMMA LowestIs ==
  ASSUME NEW fs, fs \subseteq Fds, fs # {}
  PROVE  Lowest(fs) \in fs
<1>1. Fds \subseteq Nat
  BY DEF Fds
<1> DEFINE R == {ss \in Nat \X Nat : ss[1] < ss[2]}
<1>2. R = OpToRel(<, Nat)
  BY DEF OpToRel
<1>3. IsWellFoundedOn(R, Nat)
  BY <1>2, NatLessThanWellFounded
<1>4. ASSUME NEW x \in Nat, NEW y \in Nat, x < y PROVE <<x, y>> \in R
  <2>1. <<x, y>> \in Nat \X Nat /\ <<x, y>>[1] = x /\ <<x, y>>[2] = y
    OBVIOUS
  <2>2. <<x, y>>[1] < <<x, y>>[2]
    BY <2>1, <1>4
  <2> QED BY <2>1, <2>2, Zenon
<1> HIDE DEF R
<1>5. PICK f \in fs : \A g \in fs : ~(<<g, f>> \in R)
  BY <1>1, <1>3, WFMin, fs \subseteq Nat, Zenon
<1>6. ASSUME NEW g \in fs PROVE f <= g
  <2>1. f \in Nat /\ g \in Nat /\ <<g, f>> \notin R
    BY <1>1, <1>5
  <2>2. ~(g < f)
    BY <2>1, <1>4
  <2> QED BY <2>1, <2>2
<1> QED BY <1>5, <1>6 DEF Lowest

\* pipe() opens two descriptors that were closed.
LEMMA PipeOpens ==
  ASSUME CanPipe
  PROVE  /\ NewPipe[1] \in Fds /\ NewPipe[2] \in Fds /\ NewPipe[1] # NewPipe[2]
         /\ open[NewPipe[1]] = None /\ open[NewPipe[2]] = None
<1>1. IsFiniteSet(Free) /\ Free \subseteq Fds
  <2>1. IsFiniteSet(Fds)
    BY FS_Interval DEF Fds
  <2> QED BY <2>1, FS_Subset DEF Free
<1>2. Free # {}
  BY <1>1, FS_EmptySet DEF CanPipe
<1>3. Lowest(Free) \in Free
  BY <1>1, <1>2, LowestIs
<1>4. Free \ {Lowest(Free)} # {}
  <2>1. Cardinality(Free \ {Lowest(Free)}) = Cardinality(Free) - 1
    BY <1>1, <1>3, FS_RemoveElement
  <2>2. Cardinality(Free) \in Nat
    BY <1>1, FS_CardinalityType
  <2> QED BY <2>1, <2>2, FS_EmptySet DEF CanPipe
<1>5. Lowest(Free \ {Lowest(Free)}) \in Free \ {Lowest(Free)}
  BY <1>1, <1>4, LowestIs
<1> QED BY <1>3, <1>5 DEF NewPipe, Free

-----------------------------------------------------------------------------
(* What is open *)

Open(f) == f \in Fds /\ open[f] # None

\* Of each pipe a shell has at most one reading and one writing end, and it has
\* made the pipes of the programs it has run, and the next one's.
Sole ==
  \A f, g \in Fds :
    Open(f) /\ Open(g) /\ open[f].end # "f" /\ open[f].end = open[g].end
      /\ open[f].pipe = open[g].pipe => f = g
Old ==
  \A f \in Fds : Open(f) => open[f].pipe <= IF pc = "fork" THEN count + 1 ELSE count

\* Nothing writes any more into the pipe that f reads.
Dry(f) == \A g \in Fds : Ends(g, "w") => open[g].pipe # open[f].pipe

\* A queued pipe with both its ends.
Whole(e) == Ends(e.rd, "r") /\ Ends(e.wr, "w") /\ open[e.rd].pipe = open[e.wr].pipe

\* Queued pipes wait for different lines and have different reading ends.
Apart == \A e, f \in queue : e.remains = f.remains \/ e.rd = f.rd => e = f

\* The queue when some of it is counted down.
Less(e)  == [e EXCEPT !.remains = @ - 1]
Down(es) == {Less(e) : e \in es}

LEMMA CountedDown ==
  ASSUME queue \subseteq Waiting, NEW es, es \subseteq queue
  PROVE  /\ Down(es) \subseteq Waiting
         /\ \A x \in Down(es) : \E e \in es :
              e.remains = x.remains + 1 /\ e.rd = x.rd /\ e.wr = x.wr
         /\ \A e \in es : \E x \in Down(es) :
              e.remains = x.remains + 1 /\ e.rd = x.rd /\ e.wr = x.wr
         /\ Apart => \A x, y \in Down(es) : x.remains = y.remains \/ x.rd = y.rd => x = y
<1>1. \A e \in es : /\ Less(e) \in Waiting
                    /\ e.remains = Less(e).remains + 1 /\ e.rd = Less(e).rd /\ e.wr = Less(e).wr
  BY DEF Waiting, Less
<1>2. /\ \A x \in Down(es) : \E e \in es : x = Less(e)
      /\ \A e \in es : Less(e) \in Down(es)
  BY DEF Down
<1>3. ASSUME Apart, NEW d \in es, NEW e \in es,
             Less(d).remains = Less(e).remains \/ Less(d).rd = Less(e).rd
      PROVE  d = e
  <2>1. d.remains = e.remains \/ d.rd = e.rd
    BY <1>1, <1>3
  <2> QED BY <1>3, <2>1 DEF Apart
<1> QED BY <1>1, <1>2, <1>3

\* Closing descriptors opens nothing.
LEMMA Closing ==
  ASSUME KernelTypeOK, NEW fds, open' = Closed(fds, open)
  PROVE  /\ open' \in [Fds -> PipeEnd \cup {None}]
         /\ \A f \in Fds : open'[f] = IF f \in fds THEN None ELSE open[f]
         /\ Sole => Sole'
         /\ \A f : f \notin fds /\ Dry(f) /\ Open(f) => Dry(f)'
         /\ \A f, end : Ends(f, end)' <=> Ends(f, end) /\ f \notin fds
<1>1. /\ open' \in [Fds -> PipeEnd \cup {None}]
      /\ \A f \in Fds : open'[f] = IF f \in fds THEN None ELSE open[f]
  BY DEF KernelTypeOK, Closed
<1> QED BY <1>1 DEF Sole, Open, Dry, Ends

\* A new pipe is apart from those there are, whatever is closed at the same time.
LEMMA Opening ==
  ASSUME KernelTypeOK, Old, pc = "run", pc' = "fork", UNCHANGED count,
         NEW r \in Fds, NEW w \in Fds, open' \in [Fds -> PipeEnd \cup {None}],
         \A f \in Fds :
           \/ open'[f] = None \/ open'[f] = open[f]
           \/ f = r /\ open'[f] = [pipe |-> count + 1, end |-> "r"]
           \/ f = w /\ open'[f] = [pipe |-> count + 1, end |-> "w"]
  PROVE  /\ Old' /\ (Sole => Sole')
         /\ \A f : Open(f) /\ open'[f] = open[f] /\ Dry(f) => Dry(f)'
<1>1. count \in Nat /\ \A f \in Fds : Open(f) => open[f].pipe \in Int /\ open[f].pipe < count + 1
  BY DEF KernelTypeOK, PipeEnd, Pipes, Open, Old
<1>2. Old'
  BY <1>1 DEF Old, Open
<1>3. ASSUME Sole PROVE Sole'
  BY <1>1, <1>3 DEF Open, Sole
<1>4. ASSUME NEW f, Open(f), open'[f] = open[f], Dry(f) PROVE Dry(f)'
  BY <1>1, <1>4 DEF Open, Dry, Ends
<1> QED BY <1>2, <1>3, <1>4

\* What running a program leaves behind.
LEMMA Running ==
  ASSUME KernelTypeOK, line # <<>>, count + 1 \in Pipes,
         NEW reads \in BOOLEAN, NEW in, NEW out, Run(reads, in, out)
  PROVE  /\ line' = Tail(line) /\ line' \in Seq(Command)
         /\ count' = count + 1 /\ count' \in 0..MaxPrograms /\ starved' = starved
         /\ data' \in [Pipes -> Seq(Pipes)] /\ got' \in Seq(Pipes)
<1>1. line' = Tail(line) /\ count' = count + 1 /\ starved' = starved
  BY DEF Run
<1>2. line' \in Seq(Command)
  BY <1>1 DEF KernelTypeOK
<1>3. count' \in 0..MaxPrograms
  BY <1>1 DEF Pipes
<1>4. Content(in) \in Seq(Pipes)
  BY DEF KernelTypeOK, Content, Ends, PipeEnd
<1>5. got' \in Seq(Pipes)
  BY <1>4 DEF Run, KernelTypeOK
<1>6. ASSUME NEW p \in Pipes
      PROVE  Append(data[p], count + 1) \in Seq(Pipes) /\ <<>> \in Seq(Pipes) /\ data[p] \in Seq(Pipes)
  BY DEF KernelTypeOK
<1>7. data' \in [Pipes -> Seq(Pipes)]
  BY <1>6 DEF Run
<1> QED BY <1>1, <1>2, <1>3, <1>5, <1>7

\* 0 is not a descriptor of a pipe.
LEMMA ZeroIsNoFd == ~Open(0) /\ (\A end : ~Ends(0, end)) /\ 0 \notin Fds
BY DEF Fds, Open, Ends

\* A pipe, with ends r and w, or a file at f, is opened while some descriptors are
\* closed; 0 stands for none.
Reading == [pipe |-> count + 1, end |-> "r"]
Writing == [pipe |-> count + 1, end |-> "w"]
File    == [pipe |-> 0, end |-> "f"]
Table(r, w, f, dry) ==
  [g \in Fds |-> IF g = r THEN Reading ELSE IF g = w THEN Writing ELSE IF g = f THEN File
                 ELSE IF g \in dry THEN None ELSE open[g]]
IsFree(g, dry) == g \in Fds => open[g] = None \/ g \in dry

LEMMA Preparing ==
  ASSUME KernelTypeOK, Old, Sole, pc = "run", pc' = "fork", count' = count, count + 1 \in Pipes,
         NEW r \in Descr, NEW w \in Descr, NEW f \in Descr, NEW dry,
         IsFree(r, dry), IsFree(w, dry), IsFree(f, dry), r = w => r = 0,
         f = 0 \/ (r = 0 /\ w = 0),
         open' = Table(r, w, f, dry)
  PROVE  /\ open' \in [Fds -> PipeEnd \cup {None}]
         /\ Old' /\ Sole'
         /\ \A g : Open(g) /\ g \notin dry => open'[g] = open[g] /\ Open(g)' /\ g # r /\ g # w /\ g # f
         /\ r # 0 => Ends(r, "r")' /\ open'[r].pipe = count + 1
         /\ w # 0 => Ends(w, "w")' /\ open'[w].pipe = count + 1
         /\ \A g, end : Ends(g, end) /\ g \notin dry => Ends(g, end)' /\ open'[g] = open[g]
         /\ \A g : Open(g)' /\ g # r /\ g # w /\ g # f => Open(g) /\ g \notin dry /\ open'[g] = open[g]
         /\ \A g : Open(g)' /\ g = f => open'[g] = File
         /\ \A g : Open(g) /\ g \notin dry /\ Dry(g) => Dry(g)'
         /\ \A g : Open(g) => open[g].pipe \in 0..count /\ (open[g].end # "f" => open[g].pipe \in Pipes)
<1>1. /\ Reading \in PipeEnd /\ Writing \in PipeEnd /\ File \in PipeEnd
      /\ Reading # None /\ Writing # None /\ File # None /\ count \in Nat
      /\ Reading.end = "r" /\ Writing.end = "w" /\ File.end = "f"
      /\ Reading.pipe = count + 1 /\ Writing.pipe = count + 1
      /\ 0 \notin Fds /\ Descr = Fds \cup {0}
  BY DEF Reading, Writing, File, PipeEnd, KernelTypeOK, Fds, Descr
<1>2. \A g \in Fds : open[g] \in PipeEnd \cup {None}
  BY DEF KernelTypeOK
<1>3. \A g : Open(g) => open[g].pipe \in 0..count /\ (open[g].end # "f" => open[g].pipe \in Pipes)
  <2> SUFFICES ASSUME NEW g \in Fds, open[g] # None
               PROVE  open[g].pipe \in 0..count /\ (open[g].end # "f" => open[g].pipe \in Pipes)
    BY DEF Open
  <2>1. open[g].pipe <= count
    BY DEF Old, Open
  <2> QED BY <1>1, <1>2, <2>1 DEF PipeEnd, Pipes
<1>4. \A g \in Fds : open'[g] = IF g = r THEN Reading ELSE IF g = w THEN Writing ELSE
                               IF g = f THEN File ELSE IF g \in dry THEN None ELSE open[g]
  BY DEF Table
<1>5. open' \in [Fds -> PipeEnd \cup {None}]
  BY <1>1, <1>2 DEF Table
<1>6. \A g \in Fds : open'[g] # None /\ g # r /\ g # w /\ g # f => open[g] # None /\ g \notin dry /\ open'[g] = open[g]
  BY <1>4
<1>7. \A g \in Fds : open[g] # None /\ g \notin dry => open'[g] = open[g] /\ g # r /\ g # w /\ g # f
  BY <1>4 DEF IsFree
<1>8. \A g \in Fds : (g = r => open'[g] = Reading) /\ (g = w => open'[g] = Writing) /\ (g = f => open'[g] = File)
  BY <1>1, <1>4
<1>9. Old'
  <2> SUFFICES ASSUME NEW g \in Fds, open'[g] # None PROVE open'[g].pipe <= count + 1
    BY DEF Old, Open
  <2>1. CASE g = r \/ g = w \/ g = f
    BY <1>1, <1>8, <2>1 DEF File
  <2>2. CASE g # r /\ g # w /\ g # f
    BY <1>1, <1>3, <1>6, <2>2 DEF Open
  <2> QED BY <2>1, <2>2
<1>10. Sole'
  <2> SUFFICES ASSUME NEW g \in Fds, NEW h \in Fds, open'[g] # None, open'[h] # None,
                      open'[g].end # "f", open'[g].end = open'[h].end, open'[g].pipe = open'[h].pipe
               PROVE  g = h
    BY DEF Sole, Open
  <2>1. g # f /\ h # f
    BY <1>1, <1>8
  <2>2. CASE g \notin {r, w} /\ h \notin {r, w}
    BY <1>6, <2>1, <2>2 DEF Sole, Open
  <2>3. CASE g \in {r, w} /\ h \notin {r, w}
    BY <1>1, <1>3, <1>6, <1>8, <2>1, <2>3 DEF Open
  <2>4. CASE g \notin {r, w} /\ h \in {r, w}
    BY <1>1, <1>3, <1>6, <1>8, <2>1, <2>4 DEF Open
  <2>5. CASE g \in {r, w} /\ h \in {r, w}
    BY <1>1, <1>8, <2>5
  <2> QED BY <2>2, <2>3, <2>4, <2>5
<1>11. /\ r # 0 => Ends(r, "r")' /\ open'[r].pipe = count + 1
       /\ w # 0 => Ends(w, "w")' /\ open'[w].pipe = count + 1
  BY <1>1, <1>8 DEF Ends
<1>12. \A g, end : Ends(g, end) /\ g \notin dry => Ends(g, end)' /\ open'[g] = open[g]
  BY <1>7 DEF Ends
<1>13. ASSUME NEW g, Open(g), g \notin dry, Dry(g) PROVE Dry(g)'
  <2>1. open'[g] = open[g] /\ open[g].pipe \in 0..count
    BY <1>3, <1>7, <1>13 DEF Open
  <2> SUFFICES ASSUME NEW x \in Fds, open'[x] # None, open'[x].end = "w" PROVE open'[x].pipe # open[g].pipe
    BY <2>1 DEF Dry, Ends
  <2>2. CASE x = r \/ x = w \/ x = f
    BY <1>1, <1>8, <2>1, <2>2
  <2>3. CASE x # r /\ x # w /\ x # f
    BY <1>6, <1>13, <2>3 DEF Dry, Ends
  <2> QED BY <2>2, <2>3
<1>14. \A g : Open(g) /\ g \notin dry => open'[g] = open[g] /\ Open(g)' /\ g # r /\ g # w /\ g # f
  BY <1>7 DEF Open
<1>15. \A g : Open(g)' /\ g # r /\ g # w /\ g # f => Open(g) /\ g \notin dry /\ open'[g] = open[g]
  BY <1>6 DEF Open
<1>16. \A g : Open(g)' /\ g = f => open'[g] = File
  BY <1>8 DEF Open
<1> QED BY <1>3, <1>5, <1>9, <1>10, <1>11, <1>12, <1>13, <1>14, <1>15, <1>16

\* There is a number for the next program's pipe.
LEMMA NextPipe ==
  ASSUME KernelTypeOK, Legal(line), count + Programs(line) <= MaxPrograms,
         line # <<>>, Head(line).kind # "builtin"
  PROVE  /\ count + 1 \in Pipes
         /\ [pipe |-> count + 1, end |-> "r"] \in PipeEnd
         /\ [pipe |-> count + 1, end |-> "w"] \in PipeEnd
<1>1. count \in Nat /\ Programs(line) \in Nat /\ Programs(line) >= 1
  BY RestOfLine DEF KernelTypeOK
<1> QED BY <1>1 DEF Pipes, PipeEnd

-----------------------------------------------------------------------------
(* RasShell *)

\* The commands that are left are those of the rest of the line.
RasWords ==
  /\ Legal(line) /\ count + Programs(line) <= MaxPrograms
  /\ pc \in {"prompt", "exited"} => line = <<>> /\ cmds = <<>>
  /\ pc \in {"run", "fork"} => RasFinds(cmds, line)
  /\ pc = "fork" => line # <<>> /\ Head(line).kind # "builtin"

\* A queued pipe can be read; while it waits its writing end is kept, when it is
\* due nobody writes into it any more.
RasQueue ==
  /\ Apart
  /\ \A e \in queue :
       /\ Ends(e.rd, "r") /\ open[e.rd].pipe <= count
       /\ e.remains > 0 => Whole(e)
       /\ e.remains = 0 => Dry(e.rd)
       /\ e.remains \in (IF starved THEN -MaxOverdue ELSE 0)..MaxN
       /\ pc \in {"prompt", "exited"} => starved \/ e.remains # 0

\* The pipe of the next program: its own, or the writing end of one that waits.
RasMade ==
  pc = "fork" /\ Head(line).link # "file" =>
    /\ Ends(locals.pipeCurr[1], "r") /\ open[locals.pipeCurr[1]].pipe = count + 1
    /\ locals.pipeCurr[1] # locals.pipeNext
    /\ Ends(locals.pipeCurr[2], "w")
    /\ locals.elementExist =>
         /\ Numbered(Head(line).link)
         /\ \E e \in queue : e.remains = Head(line).n /\ e.wr = locals.pipeCurr[2]
    /\ ~locals.elementExist =>
         /\ open[locals.pipeCurr[2]].pipe = count + 1
         /\ Numbered(Head(line).link) => \A e \in queue : e.remains # Head(line).n

\* What the program's input can be: the pipe that is due, or that of the "|" before it.
RasInput ==
  pc \in {"run", "fork"} =>
    /\ locals.npipeIn = 0 \/ \E e \in queue : e.remains = 0 /\ e.rd = locals.npipeIn
    /\ line = <<>> => ~Ends(locals.pipeNext, "r")
    /\ line # <<>> /\ Head(line).kind = "builtin" => locals.pipeNext = 0
    /\ line # <<>> =>
         \/ locals.pipeNext = 0
         \/ /\ Ends(locals.pipeNext, "r") /\ Dry(locals.pipeNext)
            /\ \A e \in queue : e.rd # locals.pipeNext
    /\ line # <<>> /\ (pc = "run" \/ Head(line).link = "file") =>
         /\ ~locals.elementExist /\ locals.pipeCurr[1] = locals.pipeNext
         /\ ~Open(locals.pipeCurr[2])

\* Nothing else is open, unless pipe() has failed.
RasHeld(f) ==
  \/ \E e \in queue : f = e.rd \/ (e.remains > 0 /\ f = e.wr)
  \/ pc \in {"run", "fork"} /\ line # <<>> /\ f = locals.pipeNext
  \/ pc = "fork" /\ Head(line).link # "file" /\ f \in {locals.pipeCurr[1], locals.pipeCurr[2]}
RasKeeps ==
  \A f \in Fds : Open(f) => open[f].end # "f" /\ (starved \/ RasHeld(f))

RasTypes == KernelTypeOK /\ locals \in Ras!Locals
RasInv   == RasTypes /\ RasWords /\ Sole /\ Old /\ RasQueue /\ RasMade /\ RasInput /\ RasKeeps

\* The words of RasShell are those of its kernel.
LEMMA RasKernel ==
  /\ Ras!Fds = Fds /\ Ras!Descr = Descr /\ Ras!Free = Free
  /\ (Ras!CanPipe <=> CanPipe) /\ Ras!NewPipe = NewPipe /\ Ras!Piped = Piped
  /\ \A fds, table : Ras!Closed(fds, table) = Closed(fds, table)
  /\ \A f, end : Ras!Ends(f, end) <=> Ends(f, end)
  /\ \A f : Ras!Content(f) = Content(f)
  /\ \A l : Ras!Typed(l) <=> Typed(l)
<1>1. Ras!Fds = Fds /\ Ras!Descr = Descr /\ Ras!Free = Free
  BY DEF Ras!Fds, Fds, Ras!Descr, Descr, Ras!Free, Free
<1>2. Ras!NewPipe = NewPipe
  BY <1>1 DEF Ras!NewPipe, NewPipe, Ras!Lowest, Lowest
<1>3. \A f, end : Ras!Ends(f, end) <=> Ends(f, end)
  BY <1>1 DEF Ras!Ends, Ends
<1>4. \A fds, table : Ras!Closed(fds, table) = Closed(fds, table)
  BY <1>1 DEF Ras!Closed, Closed
<1>5. \A f : Ras!Content(f) = Content(f)
  BY <1>3 DEF Ras!Content, Content
<1>6. Ras!CanPipe <=> CanPipe
  <2>1. Ras!Cardinality(Free) = Cardinality(Free)
    BY DEF Ras!Cardinality, Cardinality
  <2> QED BY <1>1, <2>1 DEF Ras!CanPipe, CanPipe
<1>7. Ras!Piped = Piped
  BY <1>2 DEF Ras!Piped, Piped
<1>8. \A l : Ras!Typed(l) <=> Typed(l)
  <2>1. \A l : Ras!Programs(l) = Programs(l)
    BY DEF Ras!Programs, Programs
  <2> QED BY <2>1 DEF Ras!Typed, Typed
<1> QED BY <1>1, <1>2, <1>3, <1>4, <1>5, <1>6, <1>7, <1>8

\* What the next command is, and what is left behind it.
LEMMA RasNext ==
  ASSUME line \in Seq(Command), Legal(line), RasFinds(cmds, line)
  PROVE  /\ cmds = <<>> <=> line = <<>>
         /\ line # <<>> =>
              /\ Ras!curr.y[1] = Head(line).kind /\ Ras!curr.x = RasCode(Head(line).link)
              /\ Ras!curr.n = Head(line).n
              /\ Head(line).link # "file" => RasFinds(Tail(cmds), Tail(line))
              /\ Head(line).link = "file" =>
                   Tail(line) = <<>> /\ SubSeq(cmds, 3, Len(cmds)) = <<>>
<1> DEFINE C == [y : Names, x : 0..4, n : 0..MaxN]
<1>1. cmds \in Seq(C) /\ Len(cmds) = IF ToFile(line) THEN Len(line) + 1 ELSE Len(line)
  BY DEF RasFinds
<1> HIDE DEF C
<1>2. /\ cmds = <<>> <=> Len(cmds) = 0
      /\ line = <<>> <=> Len(line) = 0
      /\ Len(line) \in Nat
  BY <1>1, EmptyIs
<1>3. cmds = <<>> <=> line = <<>>
  BY <1>1, <1>2 DEF ToFile
<1>4. ASSUME line # <<>>
      PROVE  /\ Ras!curr.y[1] = Head(line).kind /\ Ras!curr.x = RasCode(Head(line).link)
             /\ Ras!curr.n = Head(line).n
  <2>1. 1 \in 1..Len(line) /\ Head(line) = line[1] /\ Head(cmds) = cmds[1]
    BY <1>1, <1>2, <1>3, <1>4
  <2> QED BY <2>1 DEF RasFinds, Ras!curr
<1>5. ASSUME line # <<>>, Head(line).link # "file" PROVE RasFinds(Tail(cmds), Tail(line))
  <2>1. /\ Tail(cmds) \in Seq(C) /\ Len(Tail(cmds)) = Len(cmds) - 1
        /\ \A i \in 1..Len(cmds) - 1 : Tail(cmds)[i] = cmds[i + 1]
    BY <1>1, <1>3, <1>5
  <2>2. ToFile(Tail(line)) = ToFile(line)
    <3>1. CASE Tail(line) = <<>>
      BY <1>5, <3>1, RestOfLine DEF ToFile
    <3>2. CASE Tail(line) # <<>>
      BY <1>5, <3>2, RestOfLine
    <3> QED BY <3>1, <3>2
  <2>3. /\ Len(Tail(line)) = Len(line) - 1
        /\ \A i \in 1..Len(line) - 1 : Tail(line)[i] = line[i + 1]
    BY <1>5, RestOfLine
  <2>4. Len(Tail(cmds)) = IF ToFile(Tail(line)) THEN Len(Tail(line)) + 1 ELSE Len(Tail(line))
    BY <1>1, <1>2, <2>1, <2>2, <2>3
  <2>5. ASSUME NEW i \in 1..Len(Tail(line))
        PROVE  Tail(cmds)[i] = cmds[i + 1] /\ Tail(line)[i] = line[i + 1] /\ i + 1 \in 1..Len(line)
    <3>1. i \in 1..Len(line) - 1 /\ i + 1 \in 1..Len(line)
      BY <1>2, <2>3
    <3>2. Len(cmds) \in Nat /\ Len(cmds) >= Len(line)
      BY <1>1, <1>2
    <3>3. i \in 1..Len(cmds) - 1
      BY <1>2, <3>1, <3>2
    <3>4. Tail(cmds)[i] = cmds[i + 1]
      BY <2>1, <3>3
    <3>5. Tail(line)[i] = line[i + 1]
      BY <2>3, <3>1
    <3> QED BY <3>1, <3>4, <3>5
  <2>6. ASSUME NEW i \in 1..Len(Tail(line))
        PROVE  Tail(cmds)[i].y = <<Tail(line)[i].kind>> /\ Tail(cmds)[i].x = RasCode(Tail(line)[i].link)
               /\ Tail(cmds)[i].n = Tail(line)[i].n
    BY <2>5 DEF RasFinds
  <2> QED BY <2>1, <2>4, <2>6 DEF RasFinds, C
<1>6. ASSUME line # <<>>, Head(line).link = "file"
      PROVE  Tail(line) = <<>> /\ SubSeq(cmds, 3, Len(cmds)) = <<>>
  <2>1. Tail(line) = <<>> /\ Last(line) = Head(line) /\ Len(line) = 1
    BY <1>6, RestOfLine
  <2>2. Len(cmds) = 2
    BY <1>1, <1>6, <2>1 DEF ToFile
  <2> QED BY <2>1, <2>2
<1> QED BY <1>3, <1>4, <1>5, <1>6

\* The pipe that is made for a program.
LEMMA RasMakes ==
  ASSUME RasInv, Ras!MakePipe
  PROVE  \E r, w \in Fds :
    LET R == [pipe |-> count + 1, end |-> "r"]
        W == [pipe |-> count + 1, end |-> "w"]
        n == Head(line).n
    IN
    /\ r # w /\ open[r] = None /\ open[w] = None
    /\ pc = "run" /\ pc' = "fork" /\ line # <<>>
    /\ Head(line).kind # "builtin" /\ Head(line).link # "file"
    /\ UNCHANGED <<line, cmds, queue, data, got, count, starved>>
    /\ \/ /\ Numbered(Head(line).link) => \A e \in queue : e.remains # n
          /\ locals' = [locals EXCEPT !.pipeCurr = <<r, w>>]
          /\ open' = [open EXCEPT ![r] = R, ![w] = W]
       \/ \E e \in queue :
            /\ Numbered(Head(line).link) /\ e.remains = n
            /\ locals' = [locals EXCEPT !.pipeCurr = <<r, e.wr>>, !.elementExist = TRUE]
            /\ open' = [open EXCEPT ![r] = R]
<1> DEFINE r == NewPipe[1]  w == NewPipe[2]
<1>1. r \in Fds /\ w \in Fds /\ r # w /\ open[r] = None /\ open[w] = None
  BY RasKernel, PipeOpens DEF Ras!MakePipe, Ras!Granted
<1>2. line # <<>> /\ pc = "run" /\ line \in Seq(Command) /\ Legal(line) /\ RasFinds(cmds, line)
  BY RasNext DEF RasInv, RasTypes, KernelTypeOK, RasWords, Ras!MakePipe, Ras!Program, Ras!InLoop
<1>3. Head(line).kind # "builtin" /\ Head(line).link # "file"
  BY <1>2, RasNext DEF Ras!MakePipe, Ras!Program, RasCode
<1>4. Ras!Sends <=> Numbered(Head(line).link)
  <2>1. Head(line).link \in {"end", "pipe", "num", "err", "file"}
    BY <1>2, RestOfLine DEF Command
  <2> QED BY <1>2, <2>1, RasNext DEF Ras!Sends, RasCode, Numbered
<1>5. Ras!curr.n = Head(line).n
  BY <1>2, RasNext
<1>6. Piped = [open EXCEPT ![r] = [pipe |-> count + 1, end |-> "r"],
                          ![w] = [pipe |-> count + 1, end |-> "w"]]
  BY DEF Piped
<1>7. Closed({w}, Piped) = [open EXCEPT ![r] = [pipe |-> count + 1, end |-> "r"]]
  BY <1>1, <1>6 DEF Closed, RasInv, RasTypes, KernelTypeOK
<1>8. NewPipe = <<r, w>>
  BY DEF NewPipe
<1> HIDE DEF r, w
<1>9. /\ pc' = "fork" /\ UNCHANGED <<line, cmds, queue, data, got, count, starved>>
      /\ \/ /\ {e \in queue : Ras!Sends /\ e.remains = Ras!curr.n} = {}
            /\ locals' = [locals EXCEPT !.pipeCurr = NewPipe] /\ open' = Piped
         \/ \E e \in queue :
              /\ Ras!Sends /\ e.remains = Ras!curr.n
              /\ locals' = [locals EXCEPT !.pipeCurr = <<NewPipe[1], e.wr>>, !.elementExist = TRUE]
              /\ open' = Closed({NewPipe[2]}, Piped)
  BY RasKernel DEF Ras!MakePipe
<1>10. NewPipe[1] = r /\ NewPipe[2] = w
  BY <1>8
<1>11. \/ /\ Numbered(Head(line).link) => \A e \in queue : e.remains # Head(line).n
          /\ locals' = [locals EXCEPT !.pipeCurr = <<r, w>>]
          /\ open' = [open EXCEPT ![r] = [pipe |-> count + 1, end |-> "r"],
                                  ![w] = [pipe |-> count + 1, end |-> "w"]]
       \/ \E e \in queue :
            /\ Numbered(Head(line).link) /\ e.remains = Head(line).n
            /\ locals' = [locals EXCEPT !.pipeCurr = <<r, e.wr>>, !.elementExist = TRUE]
            /\ open' = [open EXCEPT ![r] = [pipe |-> count + 1, end |-> "r"]]
  <2>1. CASE /\ {e \in queue : Ras!Sends /\ e.remains = Ras!curr.n} = {}
             /\ locals' = [locals EXCEPT !.pipeCurr = NewPipe] /\ open' = Piped
    BY <1>4, <1>5, <1>6, <1>8, <2>1
  <2>2. ASSUME NEW e \in queue, Ras!Sends /\ e.remains = Ras!curr.n,
               locals' = [locals EXCEPT !.pipeCurr = <<NewPipe[1], e.wr>>, !.elementExist = TRUE],
               open' = Closed({NewPipe[2]}, Piped)
        PROVE  /\ Numbered(Head(line).link) /\ e.remains = Head(line).n
               /\ locals' = [locals EXCEPT !.pipeCurr = <<r, e.wr>>, !.elementExist = TRUE]
               /\ open' = [open EXCEPT ![r] = [pipe |-> count + 1, end |-> "r"]]
    BY <1>4, <1>5, <1>7, <1>10, <2>2
  <2> QED BY <1>9, <2>1, <2>2
<1> QED BY <1>1, <1>2, <1>3, <1>9, <1>11

\* What the invariant says of the kernel's part.
LEMMA RasTypesAre ==
  ASSUME RasTypes
  PROVE  /\ KernelTypeOK /\ queue \subseteq Waiting /\ line \in Seq(Command)
         /\ open \in [Fds -> PipeEnd \cup {None}] /\ count \in Nat /\ starved \in BOOLEAN
         /\ locals \in [npipeIn : Descr, pipeCurr : Descr \X Descr, pipeNext : Descr,
                        previousPipe : BOOLEAN, elementExist : BOOLEAN]
         /\ \A e \in queue : e.remains \in Int /\ e.rd \in Fds /\ e.wr \in Fds
BY RasKernel DEF RasTypes, KernelTypeOK, Waiting, Ras!Locals

LEMMA RasStarts ==
  ASSUME Ras!Init PROVE RasInv
<1>1. /\ pc = "prompt" /\ line = <<>> /\ cmds = <<>> /\ queue = {} /\ count = 0
      /\ open = [f \in Fds |-> None] /\ data = [p \in Pipes |-> <<>>] /\ got = <<>>
      /\ starved = FALSE
      /\ locals = [npipeIn |-> 0, pipeCurr |-> <<0, 0>>, pipeNext |-> 0,
                   previousPipe |-> FALSE, elementExist |-> FALSE]
  BY DEF Ras!Init, Ras!Fresh, Ras!Fds, Fds, Ras!Pipes, Pipes
<1>2. RasTypes
  <2>1. locals \in Ras!Locals
    BY <1>1, RasKernel DEF Ras!Locals, Descr
  <2>2. data \in [Pipes -> Seq(Pipes)] /\ got \in Seq(Pipes) /\ line \in Seq(Command)
    BY <1>1
  <2>3. open \in [Fds -> PipeEnd \cup {None}] /\ count \in 0..MaxPrograms
    BY <1>1
  <2> QED BY <1>1, <2>1, <2>2, <2>3 DEF RasTypes, KernelTypeOK
<1>3. Legal(<<>>) /\ Programs(<<>>) = 0
  BY DEF Legal, Programs
<1>4. RasWords
  BY <1>1, <1>3 DEF RasWords
<1>5. \A f : ~Open(f)
  BY <1>1 DEF Open
<1> QED
  BY <1>1, <1>2, <1>4, <1>5 DEF RasInv, Sole, Old, RasQueue, Apart, RasMade, RasInput, RasKeeps

LEMMA RasEnters ==
  ASSUME RasInv, "ras" \in Shells, pc = "prompt", NEW l \in Lines, Ras!Enter(l) PROVE RasInv'
<1> DEFINE dues == {e \in queue : e.remains = 1}
           dry  == {e.wr : e \in dues}
<1>0. queue' = Down(queue)
  BY DEF Ras!Enter, Down, Less
<1>1. /\ Typed(l) /\ \A e \in queue : e.remains > -MaxOverdue
      /\ pc' = "run" /\ cmds' = Ras!Parsed(l)
      /\ open' = Closed(dry, open)
      /\ \E in \in (IF dues = {} THEN {0} ELSE {e.rd : e \in dues}), prev \in BOOLEAN :
           locals' = [npipeIn |-> in, pipeCurr |-> <<0, 0>>, pipeNext |-> 0,
                      previousPipe |-> prev, elementExist |-> FALSE]
      /\ UNCHANGED <<data, got, count, starved>>
  BY RasKernel DEF Ras!Enter
<1> HIDE DEF dry
<1>2. /\ KernelTypeOK /\ queue \subseteq Waiting /\ open \in [Fds -> PipeEnd \cup {None}]
      /\ count \in Nat /\ \A e \in queue : e.remains \in Int /\ e.rd \in Fds /\ e.wr \in Fds
  BY RasTypesAre DEF RasInv
<1>3. /\ queue' \subseteq Waiting
      /\ \A x \in queue' : \E e \in queue : e.remains = x.remains + 1 /\ e.rd = x.rd /\ e.wr = x.wr
      /\ \A e \in queue : \E x \in queue' : e.remains = x.remains + 1 /\ e.rd = x.rd /\ e.wr = x.wr
      /\ Apart'
  <2>1. Apart
    BY DEF RasInv, RasQueue
  <2> QED BY <1>0, <1>2, <2>1, CountedDown DEF Apart
<1>4. /\ open' \in [Fds -> PipeEnd \cup {None}]
      /\ \A f \in Fds : open'[f] = IF f \in dry THEN None ELSE open[f]
      /\ Sole'
      /\ \A f, end : Ends(f, end)' <=> Ends(f, end) /\ f \notin dry
  BY <1>1, <1>2, Closing DEF RasInv
<1>5. \A f : f \in dry <=> \E e \in queue : e.remains = 1 /\ f = e.wr
  BY DEF dry
<1>6. \A e \in queue : Ends(e.rd, "r") /\ e.rd \notin dry
  BY <1>5 DEF RasInv, RasQueue, Whole, Ends
<1>7. PICK in \in Descr, prev \in BOOLEAN :
        /\ locals' = [npipeIn |-> in, pipeCurr |-> <<0, 0>>, pipeNext |-> 0,
                      previousPipe |-> prev, elementExist |-> FALSE]
        /\ in = 0 \/ \E e \in queue : e.remains = 1 /\ in = e.rd
  <2>1. \A in \in (IF dues = {} THEN {0} ELSE {e.rd : e \in dues}) :
          in = 0 \/ \E e \in queue : e.remains = 1 /\ in = e.rd
    OBVIOUS
  <2>2. PICK in \in (IF dues = {} THEN {0} ELSE {e.rd : e \in dues}), prev \in BOOLEAN :
          locals' = [npipeIn |-> in, pipeCurr |-> <<0, 0>>, pipeNext |-> 0,
                     previousPipe |-> prev, elementExist |-> FALSE]
    BY <1>1
  <2>3. in = 0 \/ \E e \in queue : e.remains = 1 /\ in = e.rd
    BY <2>1, <2>2
  <2>4. in \in Descr
    BY <1>2, <2>3 DEF Descr
  <2> QED BY <2>2, <2>3, <2>4
<1>8. RasTypes'
  <2>1. locals' \in Ras!Locals
    BY <1>2, <1>7, RasKernel DEF Ras!Locals, Descr
  <2>2. line' \in Seq(Command)
    BY <1>1, LinesLegal DEF Typed
  <2> QED BY <1>1, <1>2, <1>3, <1>4, <2>1, <2>2 DEF RasTypes, KernelTypeOK
<1>9. RasWords'
  BY <1>1, LinesLegal, ParsersFind DEF Typed, RasWords
<1>10. Old'
  BY <1>1, <1>4 DEF Old, Open, RasInv
<1>11. RasQueue'
  <2> SUFFICES ASSUME NEW x \in queue'
               PROVE  /\ Ends(x.rd, "r")' /\ open'[x.rd].pipe <= count'
                      /\ x.remains > 0 => Whole(x)'
                      /\ x.remains = 0 => Dry(x.rd)'
                      /\ x.remains \in (IF starved' THEN -MaxOverdue ELSE 0)..MaxN
    BY <1>1, <1>3 DEF RasQueue
  <2>1. PICK e \in queue : e.remains = x.remains + 1 /\ e.rd = x.rd /\ e.wr = x.wr
    BY <1>3
  <2>2. Ends(x.rd, "r")' /\ open'[x.rd] = open[x.rd] /\ open[x.rd].pipe <= count
    BY <1>4, <1>6, <2>1 DEF RasInv, RasQueue, Ends
  <2>3. e.remains \in Int /\ x.remains \in Int
    BY <1>2, <1>3, <2>1 DEF Waiting
  <2>4. ASSUME x.remains > 0 PROVE Whole(x)'
    <3>1. Whole(e)
      BY <2>1, <2>3, <2>4 DEF RasInv, RasQueue
    <3>2. e.wr \notin dry
      <4> SUFFICES ASSUME NEW d \in queue, d.remains = 1, d.wr = e.wr PROVE FALSE
        BY <1>5
      <4>1. Whole(d)
        BY DEF RasInv, RasQueue
      <4>2. d.rd = e.rd
        BY <3>1, <4>1 DEF Whole, Ends, Sole, Open, RasInv
      <4> QED BY <2>1, <2>3, <2>4, <4>2 DEF RasInv, RasQueue, Apart
    <3> QED BY <1>4, <2>1, <2>2, <3>1, <3>2 DEF Whole, Ends
  <2>5. ASSUME x.remains = 0 PROVE Dry(x.rd)'
    <3>1. Whole(e) /\ e.remains = 1
      BY <2>1, <2>3, <2>5 DEF RasInv, RasQueue
    <3>2. e.wr \in dry
      BY <1>5, <3>1
    <3>3. ASSUME NEW g \in Fds, Ends(g, "w"), g \notin dry PROVE open[g].pipe # open[e.rd].pipe
      BY <3>1, <3>2, <3>3 DEF Whole, Ends, Sole, Open, RasInv
    <3> QED BY <1>4, <2>1, <2>2, <3>3 DEF Dry
  <2>6. x.remains \in (IF starved' THEN -MaxOverdue ELSE 0)..MaxN
    BY <1>1, <2>1, <2>3 DEF RasInv, RasQueue
  <2> QED BY <1>1, <2>2, <2>4, <2>5, <2>6
<1>12. RasMade'
  BY <1>1 DEF RasMade
<1>13. RasInput'
  <2>1. in = 0 \/ \E x \in queue' : x.remains = 0 /\ x.rd = in
    BY <1>2, <1>3, <1>7 DEF Waiting
  <2>2. ~Open(0)' /\ ~Ends(0, "r")'
    BY ZeroIsNoFd DEF Open, Ends
  <2> QED BY <1>1, <1>7, <2>1, <2>2 DEF RasInput
<1>14. RasKeeps'
  <2> SUFFICES ASSUME NEW f \in Fds, Open(f)'
               PROVE  open'[f].end # "f" /\ (starved' \/ RasHeld(f)')
    BY DEF RasKeeps
  <2>1. Open(f) /\ f \notin dry /\ open'[f] = open[f]
    BY <1>4 DEF Open
  <2>2. ASSUME ~starved
        PROVE  \E x \in queue' : f = x.rd \/ (x.remains > 0 /\ f = x.wr)
    <3>1. PICK e \in queue : f = e.rd \/ (e.remains > 0 /\ f = e.wr)
      BY <2>1, <2>2 DEF RasInv, RasKeeps, RasHeld
    <3>2. PICK x \in queue' : e.remains = x.remains + 1 /\ e.rd = x.rd /\ e.wr = x.wr
      BY <1>3
    <3>3. x.remains \in Int /\ e.remains \in Int
      BY <1>2, <1>3 DEF Waiting
    <3> QED BY <1>5, <2>1, <3>1, <3>2, <3>3
  <2> QED BY <1>1, <2>1, <2>2 DEF RasInv, RasKeeps, RasHeld
<1> QED BY <1>4, <1>8, <1>9, <1>10, <1>11, <1>12, <1>13, <1>14 DEF RasInv

LEMMA RasBuiltin ==
  ASSUME RasInv, Ras!Builtin PROVE RasInv'
<1>1. /\ pc = "run" /\ cmds # <<>> /\ Ras!curr.y[1] = "builtin"
      /\ cmds' = Tail(cmds) /\ line' = Tail(line)
      /\ UNCHANGED <<pc, queue, locals, open, data, got, count, starved>>
  BY DEF Ras!Builtin, Ras!InLoop, Ras!world
<1>2. line \in Seq(Command) /\ Legal(line) /\ RasFinds(cmds, line)
  BY <1>1, RasTypesAre DEF RasInv, RasWords
<1>3. line # <<>> /\ Head(line).kind = "builtin"
  BY <1>1, <1>2, RasNext
<1>4. Tail(line) = <<>> /\ Legal(Tail(line)) /\ Head(line).link = "end" /\ Programs(line) = 0
  BY <1>2, <1>3, RestOfLine
<1>5. RasFinds(Tail(cmds), Tail(line))
  BY <1>2, <1>3, <1>4, RasNext
<1>6. RasTypes'
  <2>1. Tail(line) \in Seq(Command)
    BY <1>2, <1>3, RestOfLine
  <2> QED BY <1>1, <2>1 DEF RasInv, RasTypes, KernelTypeOK
<1>7. RasWords'
  BY <1>1, <1>4, <1>5 DEF RasInv, RasWords, Programs
<1>8. Sole' /\ Old' /\ RasQueue' /\ RasMade'
  BY <1>1 DEF RasInv, Sole, Old, Open, RasQueue, Apart, Whole, Dry, Ends, RasMade
<1>9. locals.pipeNext = 0
  BY <1>1, <1>3 DEF RasInv, RasInput
<1>10. line' = <<>>
  BY <1>1, <1>4
<1>11. RasInput'
  BY <1>1, <1>9, <1>10, ZeroIsNoFd DEF RasInv, RasInput, Ends
<1>12. RasKeeps'
  BY <1>1, <1>9, ZeroIsNoFd DEF RasInv, RasKeeps, RasHeld, Open
<1> QED BY <1>6, <1>7, <1>8, <1>11, <1>12 DEF RasInv

LEMMA RasNoPipe ==
  ASSUME RasInv, Ras!NoPipe PROVE RasInv'
<1>1. /\ pc = "run" /\ cmds # <<>> /\ Ras!curr.y[1] # "builtin" /\ Ras!curr.x = 3 /\ pc' = "fork"
      /\ UNCHANGED <<line, cmds, queue, locals, open, data, got, count, starved>>
  BY DEF Ras!NoPipe, Ras!Program, Ras!InLoop, Ras!world
<1>2. line \in Seq(Command) /\ Legal(line) /\ RasFinds(cmds, line)
  BY <1>1, RasTypesAre DEF RasInv, RasWords
<1>3. line # <<>> /\ Head(line).kind # "builtin" /\ Ras!curr.x = RasCode(Head(line).link)
  BY <1>1, <1>2, RasNext
<1>4. Head(line).link = "file"
  <2>1. Head(line).link \in {"end", "pipe", "num", "err", "file"}
    BY <1>2, <1>3, RestOfLine DEF Command
  <2> QED BY <1>1, <1>3, <2>1 DEF RasCode
<1>5. RasTypes' /\ RasWords'
  BY <1>1, <1>2, <1>3 DEF RasInv, RasTypes, KernelTypeOK, RasWords
<1>6. count \in Nat /\ \A f \in Fds : Open(f) => open[f].pipe \in Int
  BY RasTypesAre DEF RasInv, Open, PipeEnd, Pipes
<1>7. Old'
  BY <1>1, <1>6 DEF RasInv, Old, Open
<1>8. Sole' /\ RasQueue' /\ RasMade' /\ RasInput'
  BY <1>1, <1>3, <1>4 DEF RasInv, Sole, Open, RasQueue, Apart, Whole, Dry, Ends, RasMade, RasInput
<1>9. RasKeeps'
  BY <1>1 DEF RasInv, RasKeeps, RasHeld, Open
<1> QED BY <1>5, <1>7, <1>8, <1>9 DEF RasInv

LEMMA RasPipeFails ==
  ASSUME RasInv, Ras!PipeFails PROVE RasInv'
<1>1. /\ pc = "run" /\ pc' = "prompt" /\ line' = <<>> /\ cmds' = <<>> /\ starved' = TRUE
      /\ UNCHANGED <<queue, locals, open, data, got, count>>
  BY DEF Ras!PipeFails, Ras!Program, Ras!InLoop
<1>2. Legal(<<>>) /\ Programs(<<>>) = 0
  BY DEF Legal, Programs
<1>3. RasTypes' /\ RasWords'
  BY <1>1, <1>2 DEF RasInv, RasTypes, KernelTypeOK, RasWords
<1>4. Sole' /\ Old' /\ RasMade' /\ RasInput' /\ RasKeeps'
  BY <1>1 DEF RasInv, Sole, Old, Open, RasMade, RasInput, RasKeeps
<1>5. RasQueue'
  <2>1. \A e \in queue : e.remains \in -MaxOverdue..MaxN
    BY RasTypesAre DEF RasInv, RasQueue
  <2> QED BY <1>1, <2>1 DEF RasInv, RasQueue, Apart, Whole, Dry, Ends
<1> QED BY <1>3, <1>4, <1>5 DEF RasInv

LEMMA RasExits ==
  ASSUME RasInv, Ras!Exit PROVE RasInv'
<1>1. pc = "prompt" /\ pc' = "exited"
      /\ UNCHANGED <<line, cmds, queue, locals, open, data, got, count, starved>>
  BY DEF Ras!Exit, Ras!world
<1>2. RasTypes' /\ RasWords'
  BY <1>1 DEF RasInv, RasTypes, KernelTypeOK, RasWords
<1>3. Sole' /\ Old' /\ RasQueue' /\ RasMade' /\ RasInput' /\ RasKeeps'
  BY <1>1 DEF RasInv, Sole, Old, Open, RasQueue, Apart, Whole, Dry, Ends, RasMade, RasInput,
              RasKeeps, RasHeld
<1> QED BY <1>2, <1>3 DEF RasInv

LEMMA RasEndsLine ==
  ASSUME RasInv, Ras!EndLine PROVE RasInv'
<1> DEFINE past == {e \in queue : e.remains = 0}
           dry  == {e.rd : e \in past}
<1>1. /\ pc = "run" /\ cmds = <<>> /\ pc' = "prompt" /\ queue' = queue \ past
      /\ open' = Closed(dry, open)
      /\ UNCHANGED <<line, cmds, locals, data, got, count, starved>>
  BY RasKernel DEF Ras!EndLine
<1>2. \A f : f \in dry <=> \E e \in queue : e.remains = 0 /\ f = e.rd
  OBVIOUS
<1>3. queue' = {e \in queue : e.remains # 0}
  BY <1>1
<1> HIDE DEF dry, past
<1>4. /\ KernelTypeOK /\ queue \subseteq Waiting /\ line \in Seq(Command)
      /\ \A e \in queue : e.remains \in Int /\ e.rd \in Fds /\ e.wr \in Fds
  BY RasTypesAre DEF RasInv
<1>5. line = <<>>
  BY <1>1, <1>4, RasNext DEF RasInv, RasWords
<1>6. /\ open' \in [Fds -> PipeEnd \cup {None}]
      /\ \A f \in Fds : open'[f] = IF f \in dry THEN None ELSE open[f]
      /\ Sole'
      /\ \A f, end : Ends(f, end)' <=> Ends(f, end) /\ f \notin dry
  BY <1>1, <1>4, Closing DEF RasInv
<1>7. RasTypes' /\ RasWords'
  BY <1>1, <1>3, <1>4, <1>5, <1>6 DEF RasInv, RasTypes, KernelTypeOK, RasWords
<1>8. Old' /\ RasMade' /\ RasInput'
  BY <1>1, <1>6 DEF RasInv, Old, Open, RasMade, RasInput
<1>9. RasQueue'
  <2>1. Apart'
    BY <1>3 DEF RasInv, RasQueue, Apart
  <2> SUFFICES ASSUME NEW e \in queue, e.remains # 0
               PROVE  /\ Ends(e.rd, "r")' /\ open'[e.rd].pipe <= count
                      /\ e.remains > 0 => Whole(e)'
                      /\ e.remains \in (IF starved THEN -MaxOverdue ELSE 0)..MaxN
    BY <1>1, <1>3, <2>1 DEF RasQueue
  <2>2. e.rd \notin dry
    BY <1>2 DEF RasInv, RasQueue, Apart
  <2>3. Ends(e.rd, "r")' /\ open'[e.rd] = open[e.rd]
    BY <1>4, <1>6, <2>2 DEF RasInv, RasQueue
  <2>4. ASSUME e.remains > 0 PROVE Whole(e)'
    <3>1. Whole(e)
      BY <2>4 DEF RasInv, RasQueue
    <3>2. e.wr \notin dry
      BY <1>2, <3>1 DEF RasInv, RasQueue, Whole, Ends
    <3> QED BY <1>6, <2>3, <3>1, <3>2 DEF Whole, Ends
  <2> QED BY <2>3, <2>4 DEF RasInv, RasQueue
<1>10. RasKeeps'
  <2> SUFFICES ASSUME NEW f \in Fds, Open(f)'
               PROVE  open'[f].end # "f" /\ (starved \/ RasHeld(f)')
    BY <1>1 DEF RasKeeps
  <2>1. Open(f) /\ f \notin dry /\ open'[f] = open[f]
    BY <1>6 DEF Open
  <2>2. ASSUME ~starved PROVE RasHeld(f)'
    BY <1>1, <1>2, <1>3, <1>5, <2>1, <2>2 DEF RasInv, RasKeeps, RasHeld
  <2> QED BY <2>1, <2>2 DEF RasInv, RasKeeps
<1> QED BY <1>6, <1>7, <1>8, <1>9, <1>10 DEF RasInv

LEMMA RasMakesPipe ==
  ASSUME RasInv, Ras!MakePipe PROVE RasInv'
<1> DEFINE R == [pipe |-> count + 1, end |-> "r"]
           W == [pipe |-> count + 1, end |-> "w"]
<1>1. PICK r \in Fds, w \in Fds :
        /\ r # w /\ open[r] = None /\ open[w] = None
        /\ pc = "run" /\ pc' = "fork" /\ line # <<>>
        /\ Head(line).kind # "builtin" /\ Head(line).link # "file"
        /\ UNCHANGED <<line, cmds, queue, data, got, count, starved>>
        /\ \/ /\ Numbered(Head(line).link) => \A e \in queue : e.remains # Head(line).n
              /\ locals' = [locals EXCEPT !.pipeCurr = <<r, w>>]
              /\ open' = [open EXCEPT ![r] = R, ![w] = W]
           \/ \E e \in queue :
                /\ Numbered(Head(line).link) /\ e.remains = Head(line).n
                /\ locals' = [locals EXCEPT !.pipeCurr = <<r, e.wr>>, !.elementExist = TRUE]
                /\ open' = [open EXCEPT ![r] = R]
  BY RasMakes
<1>2. /\ KernelTypeOK /\ open \in [Fds -> PipeEnd \cup {None}] /\ count \in Nat
      /\ locals \in [npipeIn : Descr, pipeCurr : Descr \X Descr, pipeNext : Descr,
                     previousPipe : BOOLEAN, elementExist : BOOLEAN]
      /\ \A e \in queue : e.remains \in Int /\ e.rd \in Fds /\ e.wr \in Fds
      /\ line \in Seq(Command) /\ Legal(line)
  BY RasTypesAre DEF RasInv, RasWords
<1>3. R \in PipeEnd /\ W \in PipeEnd /\ R # None /\ W # None
  BY <1>1, <1>2, NextPipe DEF RasInv, RasWords
<1>4. ~locals.elementExist
  BY <1>1 DEF RasInv, RasInput
<1>5. Head(line).n \in Nat /\ (Numbered(Head(line).link) => Head(line).n > 0)
  <2>1. Head(line).n \in 0..MaxN /\ (Numbered(Head(line).link) => Head(line).n # 0)
    BY <1>1, <1>2, RestOfLine DEF Command
  <2> QED BY <2>1
<1>6. /\ locals' \in [npipeIn : Descr, pipeCurr : Descr \X Descr, pipeNext : Descr,
                      previousPipe : BOOLEAN, elementExist : BOOLEAN]
      /\ locals'.npipeIn = locals.npipeIn /\ locals'.pipeNext = locals.pipeNext
      /\ locals'.pipeCurr[1] = r /\ locals'.pipeCurr[2] \in Fds
  <2>1. ASSUME NEW x \in Fds,
               \/ locals' = [locals EXCEPT !.pipeCurr = <<r, x>>]
               \/ locals' = [locals EXCEPT !.pipeCurr = <<r, x>>, !.elementExist = TRUE]
        PROVE  /\ locals' \in [npipeIn : Descr, pipeCurr : Descr \X Descr, pipeNext : Descr,
                               previousPipe : BOOLEAN, elementExist : BOOLEAN]
               /\ locals'.npipeIn = locals.npipeIn /\ locals'.pipeNext = locals.pipeNext
               /\ locals'.pipeCurr[1] = r /\ locals'.pipeCurr[2] \in Fds
    <3>1. <<r, x>> \in Descr \X Descr
      BY <1>1 DEF Descr
    <3>2. CASE locals' = [locals EXCEPT !.pipeCurr = <<r, x>>]
      BY <1>2, <2>1, <3>1, <3>2
    <3>3. CASE locals' = [locals EXCEPT !.pipeCurr = <<r, x>>, !.elementExist = TRUE]
      BY <1>2, <2>1, <3>1, <3>3
    <3> QED BY <2>1, <3>2, <3>3
  <2> QED BY <1>1, <1>2, <2>1
<1> HIDE DEF R, W
<1>7. /\ open' \in [Fds -> PipeEnd \cup {None}] /\ open'[r] = R
      /\ \A f \in Fds : f # r /\ f # w => open'[f] = open[f]
      /\ open'[w] = W \/ open'[w] = None
  <2>1. CASE open' = [open EXCEPT ![r] = R, ![w] = W]
    BY <1>1, <1>2, <1>3, <2>1
  <2>2. CASE open' = [open EXCEPT ![r] = R]
    BY <1>1, <1>2, <1>3, <2>2
  <2> QED BY <1>1, <2>1, <2>2
<1>8. \/ /\ Numbered(Head(line).link) => \A e \in queue : e.remains # Head(line).n
         /\ locals'.pipeCurr[2] = w /\ ~locals'.elementExist /\ open'[w] = W
      \/ /\ Numbered(Head(line).link) /\ locals'.elementExist /\ open'[w] = None
         /\ \E e \in queue : e.remains = Head(line).n /\ e.wr = locals'.pipeCurr[2]
  <2>1. CASE /\ Numbered(Head(line).link) => \A e \in queue : e.remains # Head(line).n
             /\ locals' = [locals EXCEPT !.pipeCurr = <<r, w>>]
             /\ open' = [open EXCEPT ![r] = R, ![w] = W]
    <3>1. locals'.pipeCurr[2] = w /\ locals'.elementExist = locals.elementExist
      BY <1>2, <2>1
    <3>2. open'[w] = W
      BY <1>1, <1>2, <2>1
    <3> QED BY <1>4, <2>1, <3>1, <3>2
  <2>2. ASSUME NEW e \in queue,
               Numbered(Head(line).link) /\ e.remains = Head(line).n,
               locals' = [locals EXCEPT !.pipeCurr = <<r, e.wr>>, !.elementExist = TRUE],
               open' = [open EXCEPT ![r] = R]
        PROVE  /\ Numbered(Head(line).link) /\ locals'.elementExist /\ open'[w] = None
               /\ e.remains = Head(line).n /\ e.wr = locals'.pipeCurr[2]
    <3>1. locals'.pipeCurr[2] = e.wr /\ locals'.elementExist
      BY <1>2, <2>2
    <3>2. open'[w] = None
      BY <1>1, <1>2, <2>2
    <3> QED BY <2>2, <3>1, <3>2
  <2> QED BY <1>1, <2>1, <2>2
<1>9. /\ Old' /\ Sole' /\ \A f : Open(f) /\ Dry(f) => Dry(f)'
  <2>1. \A f \in Fds : \/ open'[f] = None \/ open'[f] = open[f]
                       \/ (f = r /\ open'[f] = R) \/ (f = w /\ open'[f] = W)
    <3> SUFFICES ASSUME NEW f \in Fds
                 PROVE  \/ open'[f] = None \/ open'[f] = open[f]
                        \/ (f = r /\ open'[f] = R) \/ (f = w /\ open'[f] = W)
      OBVIOUS
    <3>1. CASE f = r
      BY <1>7, <3>1
    <3>2. CASE f = w
      BY <1>7, <3>2
    <3>3. CASE f # r /\ f # w
      BY <1>7, <3>3
    <3> QED BY <3>1, <3>2, <3>3
  <2>2. Old /\ Sole
    BY DEF RasInv
  <2>3. \A f : Open(f) => open'[f] = open[f]
    BY <1>1, <1>7 DEF Open
  <2>4. /\ pc = "run" /\ pc' = "fork" /\ UNCHANGED count
    BY <1>1
  <2>5. \A f \in Fds :
          \/ open'[f] = None \/ open'[f] = open[f]
          \/ f = r /\ open'[f] = [pipe |-> count + 1, end |-> "r"]
          \/ f = w /\ open'[f] = [pipe |-> count + 1, end |-> "w"]
    BY <2>1 DEF R, W
  <2>6. open' \in [Fds -> PipeEnd \cup {None}]
    BY <1>7
  <2>7. Old' /\ (Sole => Sole') /\ \A f : Open(f) /\ open'[f] = open[f] /\ Dry(f) => Dry(f)'
    BY <1>2, <2>2, <2>4, <2>5, <2>6, Opening
  <2> QED BY <2>2, <2>3, <2>7
<1>10. \A f, end : Ends(f, end) => Ends(f, end)' /\ open'[f] = open[f] /\ f # r /\ f # w
  BY <1>1, <1>7 DEF Ends
<1>11. RasTypes'
  BY <1>1, <1>2, <1>6, <1>7, RasKernel DEF RasTypes, KernelTypeOK, Ras!Locals
<1>12. RasWords'
  BY <1>1 DEF RasInv, RasWords
<1>13. RasQueue'
  <2> SUFFICES ASSUME NEW e \in queue
               PROVE  /\ Ends(e.rd, "r")' /\ open'[e.rd].pipe <= count
                      /\ e.remains > 0 => Whole(e)'
                      /\ e.remains = 0 => Dry(e.rd)'
    BY <1>1 DEF RasInv, RasQueue, Apart
  <2>1. Ends(e.rd, "r") /\ open[e.rd].pipe <= count
    BY DEF RasInv, RasQueue
  <2>2. e.remains > 0 => Whole(e)'
    BY <1>10 DEF RasInv, RasQueue, Whole
  <2>3. e.remains = 0 => Dry(e.rd)'
    BY <1>9, <2>1 DEF RasInv, RasQueue, Ends, Open
  <2> QED BY <1>10, <2>1, <2>2, <2>3
<1>14. r # locals.pipeNext
  BY <1>1, ZeroIsNoFd DEF RasInv, RasInput, Ends
<1>15. RasMade'
  <2>1. Ends(r, "r")' /\ open'[r].pipe = count + 1
    BY <1>3, <1>7 DEF Ends, R
  <2>2. CASE /\ Numbered(Head(line).link) => \A e \in queue : e.remains # Head(line).n
             /\ locals'.pipeCurr[2] = w /\ ~locals'.elementExist /\ open'[w] = W
    <3>1. Ends(w, "w")' /\ open'[w].pipe = count + 1
      BY <1>3, <2>2 DEF Ends, W
    <3> QED BY <1>1, <1>6, <1>14, <2>1, <2>2, <3>1 DEF RasMade
  <2>3. CASE /\ Numbered(Head(line).link) /\ locals'.elementExist
             /\ \E e \in queue : e.remains = Head(line).n /\ e.wr = locals'.pipeCurr[2]
    <3>1. PICK e \in queue : e.remains = Head(line).n /\ e.wr = locals'.pipeCurr[2]
      BY <2>3
    <3>2. Ends(e.wr, "w")'
      BY <1>5, <1>10, <2>3, <3>1 DEF RasInv, RasQueue, Whole
    <3> QED BY <1>1, <1>6, <1>14, <2>1, <2>3, <3>1, <3>2 DEF RasMade
  <2> QED BY <1>8, <2>2, <2>3
<1>16. RasInput'
  <2>1. ASSUME NEW p, p = locals.pipeNext, p # 0
        PROVE  Ends(p, "r")' /\ Dry(p)' /\ \A e \in queue : e.rd # p
    <3>1. Ends(p, "r") /\ Dry(p) /\ \A e \in queue : e.rd # p
      BY <1>1, <2>1 DEF RasInv, RasInput
    <3>2. Open(p) /\ Ends(p, "r")'
      BY <1>10, <3>1 DEF Ends, Open
    <3> QED BY <1>9, <3>1, <3>2
  <2>2. \/ locals'.pipeNext = 0
        \/ /\ Ends(locals.pipeNext, "r")' /\ Dry(locals.pipeNext)'
           /\ \A e \in queue : e.rd # locals'.pipeNext
    BY <1>6, <2>1
  <2> QED BY <1>1, <1>6, <2>2 DEF RasInv, RasInput
<1>17. RasKeeps'
  <2> SUFFICES ASSUME NEW f \in Fds, Open(f)'
               PROVE  open'[f].end # "f" /\ (starved \/ RasHeld(f)')
    BY <1>1 DEF RasKeeps
  <2>1. CASE f = r
    <3>1. open'[f].end = "r"
      BY <1>7, <2>1 DEF R
    <3> QED BY <1>1, <1>6, <2>1, <3>1 DEF RasHeld
  <2>2. CASE f = w
    <3>1. open'[w] = W /\ locals'.pipeCurr[2] = w
      BY <1>8, <2>2 DEF Open
    <3>2. open'[f].end = "w"
      BY <2>2, <3>1 DEF W
    <3> QED BY <1>1, <2>2, <3>1, <3>2 DEF RasHeld
  <2>3. CASE f # r /\ f # w
    <3>1. Open(f) /\ open'[f] = open[f]
      BY <1>7, <2>3 DEF Open
    <3> QED BY <1>1, <1>6, <3>1 DEF RasInv, RasKeeps, RasHeld
  <2> QED BY <2>1, <2>2, <2>3
<1> QED BY <1>9, <1>11, <1>12, <1>13, <1>15, <1>16, <1>17 DEF RasInv

\* What the shell does with the pipe of a program it has started.
LEMMA RasRuns ==
  ASSUME RasInv, Ras!RunProgram
  PROVE  LET h == Head(line)
             c == locals.pipeCurr
         IN
         /\ pc = "fork" /\ pc' = "run" /\ line # <<>> /\ h.kind # "builtin"
         /\ Run(h.kind = "prog", Ras!Stdin, IF h.link = "file" THEN 0 ELSE
                                            IF h.link = "end" THEN 0 ELSE c[2])
         /\ RasFinds(cmds', line') /\ Legal(line')
         /\ locals' = [locals EXCEPT
              !.npipeIn = 0, !.previousPipe = h.link = "pipe" \/ @,
              !.pipeNext = IF h.link = "pipe" THEN c[1] ELSE @]
         /\ \/ /\ h.link \in {"end", "file"} /\ line' = <<>> /\ queue' = queue
               /\ open' = Closed({locals.pipeNext, c[1], c[2]}, open)
            \/ /\ h.link = "pipe" /\ line' # <<>> /\ queue' = queue
               /\ open' = Closed({locals.pipeNext, c[2]}, open)
            \/ /\ Numbered(h.link) /\ line' = <<>> /\ locals.elementExist /\ queue' = queue
               /\ open' = Closed({locals.pipeNext, c[1]}, open)
            \/ /\ Numbered(h.link) /\ line' = <<>> /\ ~locals.elementExist
               /\ queue' = queue \cup {[remains |-> h.n, rd |-> c[1], wr |-> c[2]]}
               /\ open' = Closed({locals.pipeNext}, open)
<1> DEFINE h == Head(line)  c == locals.pipeCurr
           rest == IF Ras!curr.x = 3 THEN SubSeq(cmds, 3, Len(cmds)) ELSE Tail(cmds)
           queues == rest = <<>> /\ Ras!Sends /\ ~locals.elementExist
<1>1. /\ pc = "fork" /\ pc' = "run" /\ cmds' = rest
      /\ Run(Ras!Reads, Ras!Stdin, IF Ras!curr.x \in {1, 2, 4} THEN c[2] ELSE 0)
      /\ open' = Closed({locals.pipeNext} \cup (IF Ras!Sends THEN {} ELSE {c[2]})
                          \cup (IF rest = <<>> /\ ~queues THEN {c[1]} ELSE {}), open)
      /\ locals' = [locals EXCEPT
           !.npipeIn = 0, !.previousPipe = Ras!curr.x = 1 \/ @,
           !.pipeNext = IF Ras!curr.x = 1 THEN c[1] ELSE @]
      /\ queue' = queue \cup (IF queues THEN {[remains |-> Ras!curr.n, rd |-> c[1], wr |-> c[2]]}
                                        ELSE {})
  <2>1. \A reads, in, out : Ras!Run(reads, in, out) <=> Run(reads, in, out)
    BY RasKernel DEF Ras!Run, Run, Ras!Pipes, Pipes
  <2> QED BY <2>1, RasKernel DEF Ras!RunProgram
<1>2. line \in Seq(Command) /\ Legal(line) /\ RasFinds(cmds, line) /\ line # <<>> /\ h.kind # "builtin"
  BY <1>1, RasTypesAre DEF RasInv, RasWords
<1>3. /\ Ras!curr.y[1] = h.kind /\ Ras!curr.x = RasCode(h.link) /\ Ras!curr.n = h.n
      /\ h.link # "file" => RasFinds(Tail(cmds), Tail(line))
      /\ h.link = "file" => Tail(line) = <<>> /\ SubSeq(cmds, 3, Len(cmds)) = <<>>
  BY <1>2, RasNext
<1>4. h \in Command /\ Tail(line) \in Seq(Command) /\ Legal(Tail(line)) /\ (h.link = "pipe" <=> Tail(line) # <<>>)
  BY <1>2, RestOfLine
<1>5. h.link \in {"end", "pipe", "num", "err", "file"}
  BY <1>4 DEF Command
<1>6. line' = Tail(line)
  BY <1>1 DEF Run
<1>7. (Ras!curr.x = 1 <=> h.link = "pipe") /\ (Ras!curr.x = 3 <=> h.link = "file")
      /\ (Ras!Sends <=> Numbered(h.link))
      /\ (Ras!curr.x \in {1, 2, 4} <=> h.link \notin {"file", "end"})
  BY <1>3, <1>5 DEF RasCode, Ras!Sends, Numbered
<1>8. RasFinds(cmds', line')
  <2>1. CASE h.link = "file"
    <3>1. cmds' = <<>> /\ line' = <<>>
      BY <1>1, <1>3, <1>6, <1>7, <2>1
    <3>2. cmds' \in Seq([y : Names, x : 0..4, n : 0..MaxN]) /\ Len(cmds') = 0 /\ Len(line') = 0
      BY <3>1
    <3> QED BY <3>1, <3>2 DEF RasFinds, ToFile
  <2>2. CASE h.link # "file"
    BY <1>1, <1>3, <1>6, <1>7, <2>2
  <2> QED BY <2>1, <2>2
<1>9. cmds' = <<>> <=> line' = <<>>
  <2>1. Len(cmds') = IF ToFile(line') THEN Len(line') + 1 ELSE Len(line')
    BY <1>8 DEF RasFinds
  <2>2. /\ Len(cmds') \in Nat /\ (cmds' = <<>> <=> Len(cmds') = 0)
        /\ Len(line') \in Nat /\ (line' = <<>> <=> Len(line') = 0)
    BY <1>4, <1>6, <1>8, EmptyIs DEF RasFinds
  <2> QED BY <2>1, <2>2 DEF ToFile
<1>10. Ras!Reads <=> h.kind = "prog"
  BY <1>3 DEF Ras!Reads
<1>11. rest = <<>> <=> line' = <<>>
  BY <1>1, <1>9
<1> HIDE DEF rest
<1>12. Run(h.kind = "prog", Ras!Stdin, IF h.link = "file" THEN 0 ELSE IF h.link = "end" THEN 0 ELSE c[2])
  <2>1. Ras!Reads = (h.kind = "prog")
    BY <1>3 DEF Ras!Reads
  <2>2. (IF h.link = "file" THEN 0 ELSE IF h.link = "end" THEN 0 ELSE c[2])
        = IF Ras!curr.x \in {1, 2, 4} THEN c[2] ELSE 0
    BY <1>7
  <2> QED BY <1>1, <2>1, <2>2
<1>13. locals' = [locals EXCEPT
         !.npipeIn = 0, !.previousPipe = h.link = "pipe" \/ @,
         !.pipeNext = IF h.link = "pipe" THEN c[1] ELSE @]
  <2>1. (Ras!curr.x = 1) = (h.link = "pipe")
    BY <1>7
  <2> QED BY <1>1, <2>1, Zenon
<1>14. CASE h.link \in {"end", "file"}
  <2>1. /\ line' = <<>> /\ ~Ras!Sends /\ ~queues
    BY <1>4, <1>6, <1>7, <1>14 DEF Numbered
  <2>2. queue' = queue /\ open' = Closed({locals.pipeNext, c[1], c[2]}, open)
    BY <1>1, <1>11, <2>1, {locals.pipeNext} \cup {c[2]} \cup {c[1]} = {locals.pipeNext, c[1], c[2]}
  <2> QED BY <1>1, <1>2, <1>4, <1>6, <1>8, <1>12, <1>13, <1>14, <2>1, <2>2
<1>15. CASE h.link = "pipe"
  <2>1. /\ line' # <<>> /\ ~Ras!Sends /\ ~queues /\ rest # <<>>
    BY <1>4, <1>6, <1>7, <1>11, <1>15 DEF Numbered
  <2>2. queue' = queue /\ open' = Closed({locals.pipeNext, c[2]}, open)
    BY <1>1, <2>1, {locals.pipeNext} \cup {c[2]} \cup {} = {locals.pipeNext, c[2]}
  <2> QED BY <1>1, <1>2, <1>4, <1>6, <1>8, <1>12, <1>13, <1>15, <2>1, <2>2
<1>16. CASE Numbered(h.link)
  <2>1. line' = <<>> /\ Ras!Sends /\ rest = <<>>
    BY <1>4, <1>6, <1>7, <1>11, <1>16 DEF Numbered
  <2>2. CASE locals.elementExist
    <3>1. queue' = queue /\ open' = Closed({locals.pipeNext, c[1]}, open)
      BY <1>1, <2>1, <2>2, {locals.pipeNext} \cup {} \cup {c[1]} = {locals.pipeNext, c[1]}
    <3> QED BY <1>1, <1>2, <1>4, <1>6, <1>8, <1>12, <1>13, <1>16, <2>1, <2>2, <3>1
  <2>3. CASE ~locals.elementExist
    <3>1. /\ queue' = queue \cup {[remains |-> h.n, rd |-> c[1], wr |-> c[2]]}
          /\ open' = Closed({locals.pipeNext}, open)
      BY <1>1, <1>3, <2>1, <2>3, {locals.pipeNext} \cup {} \cup {} = {locals.pipeNext}
    <3> QED BY <1>1, <1>2, <1>4, <1>6, <1>8, <1>12, <1>13, <1>16, <2>1, <2>3, <3>1
  <2> QED BY <2>2, <2>3
<1> QED BY <1>5, <1>14, <1>15, <1>16 DEF Numbered

LEMMA RasRunsProgram ==
  ASSUME RasInv, Ras!RunProgram PROVE RasInv'
<1>3. /\ KernelTypeOK /\ open \in [Fds -> PipeEnd \cup {None}] /\ count \in Nat
      /\ locals \in [npipeIn : Descr, pipeCurr : Descr \X Descr, pipeNext : Descr,
                     previousPipe : BOOLEAN, elementExist : BOOLEAN]
      /\ \A e \in queue : e.remains \in Int /\ e.rd \in Fds /\ e.wr \in Fds
      /\ line \in Seq(Command) /\ Legal(line) /\ queue \subseteq Waiting
  BY RasTypesAre DEF RasInv, RasWords
<1> DEFINE h == Head(line)  next == locals.pipeNext
<1>a. PICK r \in Descr, w \in Descr : locals.pipeCurr = <<r, w>>
  <2>1. /\ locals.pipeCurr[1] \in Descr /\ locals.pipeCurr[2] \in Descr
        /\ locals.pipeCurr = <<locals.pipeCurr[1], locals.pipeCurr[2]>>
    BY <1>3
  <2> QED BY <2>1
<1>b. PICK new : new = [remains |-> h.n, rd |-> r, wr |-> w]
  OBVIOUS
<1>0. /\ r \in Descr /\ w \in Descr /\ locals.pipeCurr = <<r, w>>
      /\ new = [remains |-> h.n, rd |-> r, wr |-> w]
  BY <1>a, <1>b
<1>1. /\ pc = "fork" /\ pc' = "run" /\ line # <<>> /\ h.kind # "builtin"
      /\ Run(h.kind = "prog", Ras!Stdin, IF h.link = "file" THEN 0 ELSE
                                         IF h.link = "end" THEN 0 ELSE w)
      /\ RasFinds(cmds', line') /\ Legal(line')
      /\ locals' = [locals EXCEPT
           !.npipeIn = 0, !.previousPipe = h.link = "pipe" \/ @,
           !.pipeNext = IF h.link = "pipe" THEN r ELSE @]
  BY <1>0, RasRuns
<1>2. PICK fds : /\ open' = Closed(fds, open) /\ next \in fds
                 /\ \/ /\ h.link \in {"end", "file"} /\ line' = <<>> /\ queue' = queue
                       /\ fds = {next, r, w}
                    \/ /\ h.link = "pipe" /\ line' # <<>> /\ queue' = queue
                       /\ fds = {next, w}
                    \/ /\ Numbered(h.link) /\ line' = <<>> /\ locals.elementExist /\ queue' = queue
                       /\ fds = {next, r}
                    \/ /\ Numbered(h.link) /\ line' = <<>> /\ ~locals.elementExist
                       /\ queue' = queue \cup {new}
                       /\ fds = {next}
  <2>1. \E fds : open' = Closed(fds, open)
                 /\ \/ /\ h.link \in {"end", "file"} /\ line' = <<>> /\ queue' = queue
                       /\ fds = {next, r, w}
                    \/ /\ h.link = "pipe" /\ line' # <<>> /\ queue' = queue
                       /\ fds = {next, w}
                    \/ /\ Numbered(h.link) /\ line' = <<>> /\ locals.elementExist /\ queue' = queue
                       /\ fds = {next, r}
                    \/ /\ Numbered(h.link) /\ line' = <<>> /\ ~locals.elementExist
                       /\ queue' = queue \cup {new}
                       /\ fds = {next}
    <3> DEFINE c == locals.pipeCurr
    <3>1. \E fds : open' = Closed(fds, open)
                 /\ \/ /\ h.link \in {"end", "file"} /\ line' = <<>> /\ queue' = queue
                       /\ fds = {next, c[1], c[2]}
                    \/ /\ h.link = "pipe" /\ line' # <<>> /\ queue' = queue
                       /\ fds = {next, c[2]}
                    \/ /\ Numbered(h.link) /\ line' = <<>> /\ locals.elementExist /\ queue' = queue
                       /\ fds = {next, c[1]}
                    \/ /\ Numbered(h.link) /\ line' = <<>> /\ ~locals.elementExist
                       /\ queue' = queue \cup {[remains |-> h.n, rd |-> c[1], wr |-> c[2]]}
                       /\ fds = {next}
      BY RasRuns, Zenon
    <3>2. c[1] = r /\ c[2] = w
      BY <1>0
    <3> QED BY <1>0, <3>1, <3>2
  <2> QED BY <2>1
<1>4. count + 1 \in Pipes
  BY <1>1, <1>3, NextPipe DEF RasInv, RasWords
<1>5. /\ line' = Tail(line) /\ line' \in Seq(Command)
      /\ count' = count + 1 /\ count' \in 0..MaxPrograms /\ starved' = starved
      /\ data' \in [Pipes -> Seq(Pipes)] /\ got' \in Seq(Pipes)
  BY <1>1, <1>3, <1>4, Running
<1>6. /\ h.n \in 0..MaxN /\ (Numbered(h.link) => h.n # 0)
      /\ (line' # <<>> => Head(line').kind # "builtin")
      /\ h.link \in {"end", "pipe", "num", "err", "file"}
      /\ Programs(line) = Programs(line') + 1 /\ Programs(line') \in Nat
  <2>1. h \in Command /\ (Numbered(h.link) => h.n # 0)
    BY <1>1, <1>3, RestOfLine
  <2>2. h.n \in 0..MaxN /\ h.link \in {"end", "pipe", "num", "err", "file"}
    BY <2>1 DEF Command
  <2> QED BY <1>1, <1>3, <1>5, <2>1, <2>2, RestOfLine
<1>7. /\ open' \in [Fds -> PipeEnd \cup {None}]
      /\ \A f \in Fds : open'[f] = IF f \in fds THEN None ELSE open[f]
      /\ Sole'
      /\ \A f : f \notin fds /\ Dry(f) /\ Open(f) => Dry(f)'
      /\ \A f, end : Ends(f, end)' <=> Ends(f, end) /\ f \notin fds
  BY <1>2, <1>3, Closing DEF RasInv
<1>8. /\ locals' \in [npipeIn : Descr, pipeCurr : Descr \X Descr, pipeNext : Descr,
                      previousPipe : BOOLEAN, elementExist : BOOLEAN]
      /\ locals'.npipeIn = 0 /\ locals'.pipeCurr = <<r, w>> /\ locals'.elementExist = locals.elementExist
      /\ locals'.pipeNext = IF h.link = "pipe" THEN r ELSE next
  BY <1>0, <1>1, <1>3 DEF Descr
<1>9.
      h.link # "file" =>
        /\ Ends(r, "r") /\ open[r].pipe = count + 1 /\ r # next /\ Ends(w, "w")
        /\ locals.elementExist =>
             Numbered(h.link) /\ \E e \in queue : e.remains = h.n /\ e.wr = w
        /\ ~locals.elementExist =>
             /\ open[w].pipe = count + 1
             /\ Numbered(h.link) => \A e \in queue : e.remains # h.n
  BY <1>0, <1>1 DEF RasInv, RasMade
<1>10. /\ h.link = "file" => r = next /\ ~Open(w)
       /\ \/ next = 0
          \/ Ends(next, "r") /\ \A e \in queue : e.rd # next
  BY <1>0, <1>1 DEF RasInv, RasInput
<1> HIDE DEF h, next
<1>11. ASSUME NEW e \in queue
       PROVE  /\ Ends(e.rd, "r") /\ open[e.rd].pipe <= count /\ e.rd \notin fds
              /\ e.remains > 0 => Whole(e) /\ e.wr \notin fds
  <2>1. Ends(e.rd, "r") /\ open[e.rd].pipe \in Int /\ open[e.rd].pipe <= count
    <3>1. Ends(e.rd, "r") /\ open[e.rd].pipe <= count
      BY DEF RasInv, RasQueue
    <3>2. open[e.rd].pipe \in Int
      BY <1>3, <3>1 DEF Ends, PipeEnd, Pipes
    <3> QED BY <3>1, <3>2
  <2>2. (e.rd # next /\ e.wr # next) \/ ~Whole(e)
    BY <1>3, <1>10, ZeroIsNoFd DEF Whole, Ends
  <2>3. e.rd # next
    BY <1>3, <1>10, ZeroIsNoFd
  <2>4. e.rd # r /\ e.rd # w
    BY <1>3, <1>9, <1>10, <2>1, <2>3 DEF Ends, Open
  <2>5. e.remains > 0 => Whole(e)
    BY DEF RasInv, RasQueue
  <2>6. Whole(e) => e.wr # r
    BY <1>3, <1>9, <1>10, <2>2, <2>3 DEF Whole, Ends
  <2>7. ASSUME Whole(e), ~Numbered(h.link) PROVE e.wr # w
    BY <1>3, <1>9, <1>10, <2>1, <2>7 DEF Whole, Ends, Open
  <2> QED BY <1>2, <2>1, <2>2, <2>3, <2>4, <2>5, <2>6, <2>7 DEF Numbered
<1>12. ASSUME Numbered(h.link), ~locals.elementExist
       PROVE  /\ new \in Waiting /\ new.remains = h.n /\ new.rd = r /\ new.wr = w
              /\ r \notin fds /\ w \notin fds /\ fds = {next}
  <2>1. r \in Fds /\ w \in Fds
    BY <1>9, <1>12 DEF Numbered, Ends
  <2>2. fds = {next} /\ r # next /\ w # next
    BY <1>2, <1>9, <1>10, <1>12, ZeroIsNoFd DEF Numbered, Ends
  <2> QED BY <1>0, <1>6, <2>1, <2>2 DEF Waiting
<1>13. RasTypes'
  <2>1. queue' \subseteq Waiting
    BY <1>2, <1>3, <1>12
  <2>2. locals' \in Ras!Locals
    BY <1>8, RasKernel DEF Ras!Locals
  <2>3. starved' \in BOOLEAN
    BY <1>3, <1>5 DEF KernelTypeOK
  <2>4. KernelTypeOK'
    BY <1>1, <1>5, <1>7, <2>1, <2>3 DEF KernelTypeOK
  <2> QED BY <2>2, <2>4 DEF RasTypes
<1>14. RasWords'
  BY <1>1, <1>3, <1>5, <1>6 DEF RasInv, RasWords
<1>15. Old'
  <2>1. \A f \in Fds : Open(f) => open[f].pipe <= count + 1
    BY <1>1 DEF RasInv, Old
  <2> QED BY <1>1, <1>5, <1>7, <2>1 DEF Old, Open
<1>16. ASSUME NEW e \in queue
       PROVE  /\ Ends(e.rd, "r")' /\ open'[e.rd].pipe <= count /\ count <= count'
              /\ e.remains > 0 => Whole(e)'
              /\ e.remains = 0 => Dry(e.rd)'
  <2>1. Ends(e.rd, "r")' /\ open'[e.rd] = open[e.rd] /\ Open(e.rd)
    BY <1>3, <1>7, <1>11 DEF Ends, Open
  <2>2. ASSUME e.remains > 0 PROVE Whole(e)'
    BY <1>3, <1>7, <1>11, <2>1, <2>2 DEF Whole, Ends
  <2>3. ASSUME e.remains = 0 PROVE Dry(e.rd)'
    <3>1. Dry(e.rd)
      BY <2>3 DEF RasInv, RasQueue
    <3> QED BY <1>7, <1>11, <2>1, <3>1
  <2> QED BY <1>3, <1>5, <1>11, <2>1, <2>2, <2>3
<1>17. ASSUME Numbered(h.link), ~locals.elementExist
       PROVE  /\ Ends(new.rd, "r")' /\ open'[new.rd].pipe = count' /\ Whole(new)'
              /\ new.remains \in 1..MaxN
              /\ \A e \in queue : e.remains # new.remains /\ e.rd # new.rd
  <2>1. Ends(r, "r")' /\ Ends(w, "w")' /\ open'[r] = open[r] /\ open'[w] = open[w]
    BY <1>7, <1>9, <1>12, <1>17 DEF Numbered, Ends
  <2>2. open[r].pipe = count + 1 /\ open[w].pipe = count + 1
    BY <1>9, <1>17 DEF Numbered
  <2>3. \A e \in queue : e.remains # h.n /\ e.rd # r
    <3> SUFFICES ASSUME NEW e \in queue PROVE e.remains # h.n /\ e.rd # r
      OBVIOUS
    <3>1. open[e.rd].pipe <= count
      BY <1>11
    <3> QED BY <1>3, <1>9, <1>17, <2>2, <3>1 DEF Numbered
  <2> QED BY <1>5, <1>6, <1>12, <1>17, <2>1, <2>2, <2>3 DEF Whole
<1>18. RasQueue'
  <2>1. /\ queue' = queue \/ (Numbered(h.link) /\ ~locals.elementExist /\ queue' = queue \cup {new})
        /\ pc' = "run" /\ starved' = starved /\ count \in Nat /\ count' \in Nat
    BY <1>1, <1>2, <1>3, <1>5
  <2>2. ASSUME NEW x \in queue'
        PROVE  /\ Ends(x.rd, "r")' /\ open'[x.rd].pipe <= count'
               /\ x.remains > 0 => Whole(x)'
               /\ x.remains = 0 => Dry(x.rd)'
               /\ x.remains \in (IF starved' THEN -MaxOverdue ELSE 0)..MaxN
    <3>1. CASE x \in queue
      <4>1. open'[x.rd].pipe \in Int
        BY <1>7, <1>16, <3>1 DEF Ends, PipeEnd, Pipes
      <4>2. x.remains \in (IF starved' THEN -MaxOverdue ELSE 0)..MaxN
        BY <2>1, <3>1 DEF RasInv, RasQueue
      <4> QED BY <1>16, <2>1, <3>1, <4>1, <4>2
    <3>2. CASE x = new /\ Numbered(h.link) /\ ~locals.elementExist
      <4>1. x.remains \in (IF starved' THEN -MaxOverdue ELSE 0)..MaxN /\ x.remains # 0
        BY <1>17, <3>2
      <4> QED BY <1>17, <2>1, <3>2, <4>1
    <3> QED BY <2>1, <3>1, <3>2
  <2>3. Apart'
    <3>1. Apart
      BY DEF RasInv, RasQueue
    <3> QED BY <1>17, <2>1, <3>1 DEF Apart
  <2> QED BY <2>1, <2>2, <2>3 DEF RasQueue
<1>19. RasMade'
  BY <1>1 DEF RasMade
<1>20. ASSUME h.link = "pipe"
       PROVE  /\ Ends(r, "r")' /\ Dry(r)' /\ ~Open(w)' /\ ~locals.elementExist
              /\ \A e \in queue : e.rd # r
  <2>1. /\ Ends(r, "r") /\ open[r].pipe = count + 1 /\ r # next
        /\ Ends(w, "w") /\ open[w].pipe = count + 1 /\ ~locals.elementExist
    BY <1>9, <1>20 DEF Numbered
  <2>2. fds = {next, w} /\ r \notin fds
    BY <1>2, <1>20, <2>1 DEF Numbered, Ends
  <2>3. \A g \in Fds : Ends(g, "w") /\ open[g].pipe = count + 1 => g = w
    BY <2>1 DEF RasInv, Sole, Open, Ends
  <2>4. Ends(r, "r")' /\ open'[r] = open[r]
    BY <1>7, <2>1, <2>2 DEF Ends
  <2>5. ~Open(w)'
    BY <1>7, <2>2 DEF Open
  <2>6. \A g \in Fds : Ends(g, "w")' => Ends(g, "w") /\ g # w /\ open'[g] = open[g]
    BY <1>7, <2>2 DEF Ends
  <2>7. Dry(r)'
    BY <2>1, <2>3, <2>4, <2>6 DEF Dry
  <2>8. \A e \in queue : e.rd # r
    <3> SUFFICES ASSUME NEW e \in queue PROVE e.rd # r
      OBVIOUS
    <3>1. open[e.rd].pipe <= count
      BY <1>11
    <3> QED BY <1>3, <2>1, <3>1
  <2> QED BY <2>1, <2>4, <2>5, <2>7, <2>8
<1>21. RasInput'
  <2>1. ASSUME line' = <<>> PROVE ~Ends(locals.pipeNext, "r")'
    <3>1. locals'.pipeNext = next /\ next \in fds
      BY <1>2, <1>8, <2>1 DEF Numbered
    <3>2. \A p \in fds : ~(p \in Fds /\ open'[p] # None /\ open'[p].end = "r")
      BY <1>7
    <3> QED BY <3>1, <3>2 DEF Ends
  <2>2. ASSUME line' # <<>>
        PROVE  /\ Ends(locals.pipeNext, "r")' /\ Dry(locals.pipeNext)'
               /\ ~locals'.elementExist /\ locals'.pipeCurr[1] = locals'.pipeNext
               /\ ~Open(locals.pipeCurr[2])' /\ queue' = queue
               /\ \A e \in queue : e.rd # locals'.pipeNext
    <3>1. h.link = "pipe" /\ locals'.pipeNext = r /\ queue' = queue
      BY <1>2, <1>8, <2>2
    <3>2. locals'.pipeCurr[2] = w /\ locals'.pipeCurr[1] = r
      BY <1>8
    <3>3. Ends(locals.pipeNext, "r")' /\ Dry(locals.pipeNext)'
      BY <1>20, <3>1 DEF Ends, Dry
    <3>4. ~Open(locals.pipeCurr[2])'
      BY <1>20, <3>1, <3>2 DEF Open
    <3> QED BY <1>8, <1>20, <3>1, <3>2, <3>3, <3>4
  <2> QED BY <1>1, <1>6, <1>8, <2>1, <2>2 DEF RasInput
<1>22. RasKeeps'
  <2> SUFFICES ASSUME NEW f \in Fds, Open(f)'
               PROVE  open'[f].end # "f" /\ (starved' \/ RasHeld(f)')
    BY DEF RasKeeps
  <2>1. Open(f) /\ f \notin fds /\ open'[f] = open[f] /\ open[f].end # "f"
    BY <1>7 DEF RasInv, RasKeeps, Open
  <2>2. ASSUME ~starved PROVE RasHeld(f)'
    <3>1. RasHeld(f) /\ f # next
      BY <1>2, <2>1, <2>2 DEF RasInv, RasKeeps
    <3>2. CASE \E e \in queue : f = e.rd \/ (e.remains > 0 /\ f = e.wr)
      <4>1. queue \subseteq queue'
        BY <1>2
      <4> QED BY <3>2, <4>1 DEF RasHeld
    <3>3. CASE h.link # "file" /\ f \in {r, w}
      <4>1. CASE h.link = "pipe"
        BY <1>1, <1>2, <1>8, <2>1, <3>3, <4>1 DEF RasHeld, Numbered
      <4>2. CASE Numbered(h.link) /\ locals.elementExist
        <5>1. f = w
          BY <1>2, <2>1, <3>3, <4>2 DEF Numbered
        <5>2. PICK e \in queue : e.remains = h.n /\ e.wr = w
          BY <1>9, <3>3, <4>2
        <5>3. e.remains > 0 /\ e \in queue'
          BY <1>2, <1>6, <4>2, <5>2
        <5> QED BY <5>1, <5>2, <5>3 DEF RasHeld
      <4>3. CASE Numbered(h.link) /\ ~locals.elementExist
        <5>1. new \in queue' /\ new.remains > 0 /\ new.rd = r /\ new.wr = w
          BY <1>2, <1>12, <1>17, <4>3 DEF Numbered
        <5> QED BY <3>3, <5>1 DEF RasHeld
      <4> QED BY <1>2, <1>6, <2>1, <3>3, <4>1, <4>2, <4>3 DEF Numbered
    <3> QED BY <1>0, <1>1, <3>1, <3>2, <3>3 DEF RasHeld, h, next
  <2> QED BY <1>5, <2>1, <2>2
<1> QED BY <1>7, <1>13, <1>14, <1>15, <1>18, <1>19, <1>21, <1>22 DEF RasInv

\* Every step of RasShell keeps the invariant.
LEMMA RasSteps ==
  ASSUME RasInv, "ras" \in Shells, Ras!Next \/ UNCHANGED vars PROVE RasInv'
<1>1. CASE UNCHANGED vars
  BY <1>1 DEF vars, world, RasInv, RasTypes, KernelTypeOK, RasWords, Sole, Old, Open, RasQueue, Apart,
              Whole, Dry, Ends, RasMade, RasInput, RasKeeps, RasHeld
<1>2. CASE pc = "prompt" /\ \E l \in Lines : Ras!Enter(l)
  BY <1>2, RasEnters
<1> QED BY <1>1, <1>2, RasBuiltin, RasMakesPipe, RasPipeFails, RasNoPipe, RasRunsProgram, RasEndsLine,
           RasExits DEF Ras!Next
=============================================================================

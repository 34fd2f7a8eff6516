------------------------------ MODULE MCShells ------------------------------
(***************************************************************************)
(* The three shells side by side: `shell` says which one a behaviour is    *)
(* about.  Each of them implements LinePipes.                              *)
(***************************************************************************)
EXTENDS ShellKernel

CONSTANTS
  Shells,       \* of "ras", "rwg", "abbie"
  RasFds,       \* limit of RasShell
  MaxOverdue,   \* bound of RasShell
  PipesIntoDue, \* restriction of RwgShell
  MaxLen        \* bound: commands of a line

ASSUME ShellsNamed    == Shells \subseteq {"ras", "rwg", "abbie"}
ASSUME BoundsNatural  == RasFds \in Nat /\ MaxOverdue \in Nat /\ MaxLen \in Nat \ {0}
ASSUME PipesIntoDueIs == PipesIntoDue \in BOOLEAN

VARIABLE shell

Ras   == INSTANCE RasShell
Rwg   == INSTANCE RwgShell
Abbie == INSTANCE AbbieShell

\* All legal lines of up to MaxLen commands, of which those before the last one
\* send their output to the next.
Piping == {c \in Command : c.kind # "builtin" /\ c.link = "pipe" /\ c.n = 0}
Final  == {c \in Command : Legal(<<c>>)}
LegalLines ==
  {<<>>} \cup {l \in {Append(f, c) : f \in UNION {[1..k -> Piping] : k \in 0..MaxLen - 1}, c \in Final} : Legal(l)}

-----------------------------------------------------------------------------
(* What the parsers are to find in a line: each command, with the code of  *)
(* the sign behind it; the name behind a ">" is one command more.          *)

ToFile(l) == l # <<>> /\ Last(l).link = "file"
Names     == Seq({"prog", "unknown", "builtin", "file"})

RasCode(link) ==
  CASE link = "end" -> 0 [] link = "pipe" -> 1 [] link = "num" -> 2 [] link = "file" -> 3
    [] link = "err" -> 4
RasFinds(cs, l) ==
  /\ cs \in Seq([y : Names, x : 0..4, n : 0..MaxN])
  /\ Len(cs) = IF ToFile(l) THEN Len(l) + 1 ELSE Len(l)
  /\ \A i \in 1..Len(l) :
       cs[i].y = <<l[i].kind>> /\ cs[i].x = RasCode(l[i].link) /\ cs[i].n = l[i].n

RwgCode(link) ==
  CASE link = "end" -> 1 [] link \in {"pipe", "num"} -> 2 [] link = "err" -> 3 [] link = "file" -> 4
RwgFinds(cs, l) ==
  /\ cs \in Seq([type : 1..4, n : 0..MaxN, words : Names])
  /\ Len(cs) = IF ToFile(l) THEN Len(l) + 1 ELSE Len(l)
  /\ \A i \in 1..Len(l) :
       cs[i].words = <<l[i].kind>> /\ cs[i].type = RwgCode(l[i].link) /\ cs[i].n = l[i].n

\* split_line: a command and the sign behind it are one element each.
AbbieCode(link) ==
  CASE link = "end" -> "NONE" [] link = "pipe" -> "PIPE" [] link = "num" -> "NUMBER_PIPE"
    [] link = "err" -> "ERROR_NUMBER_PIPE" [] link = "file" -> "REDIRECT"
Word == [sign : {"", "|", "!", ">"}, is : {"", "prog", "unknown", "builtin", "file"}, n : 0..MaxN]
AbbieFinds(cs, l) ==
  /\ cs \in Seq(Seq(Word))
  /\ Len(cs) = IF ToFile(l) THEN 2 * Len(l) + 1
               ELSE IF l # <<>> /\ Last(l).link = "end" THEN 2 * Len(l) - 1 ELSE 2 * Len(l)
  /\ \A i \in 1..Len(l) :
       /\ cs[2 * i - 1] = <<Name(l[i].kind)>>
       /\ l[i].link # "end" =>
            Abbie!get_type(cs[2 * i][1]) = AbbieCode(l[i].link) /\ cs[2 * i][1].n = l[i].n

ASSUME ParsersFind ==
  \A l \in Lines :
    /\ "ras" \in Shells => RasFinds(Ras!Parsed(l), l)
    /\ "rwg" \in Shells => RwgFinds(Rwg!Parsed(l), l)
    /\ "abbie" \in Shells => AbbieFinds(Abbie!Parsed(l), l)

-----------------------------------------------------------------------------
Own(ras, rwg, abbie) ==
  CASE shell = "ras" -> ras [] shell = "rwg" -> rwg [] shell = "abbie" -> abbie

Init ==
  /\ shell \in Shells
  /\ Own(Ras!Init, Rwg!Init, Abbie!Init)

Next ==
  /\ UNCHANGED shell
  /\ \/ shell = "ras" /\ Ras!Next
     \/ shell = "rwg" /\ Rwg!Next
     \/ shell = "abbie" /\ Abbie!Next

Spec == Init /\ [][Next]_<<vars, shell>>

-----------------------------------------------------------------------------
TypeOK ==
  /\ KernelTypeOK
  /\ locals \in Own(Ras!Locals, Rwg!Locals, Abbie!Locals)
  /\ \A e \in queue :
       e.remains \in (IF starved THEN -MaxOverdue ELSE 0)..MaxN

\* A program that is forked can see the end of its input: whatever descriptors of
\* the shell it inherits, none of them writes into the pipe it reads.
SeesEnd ==
  pc = "fork" =>
    Own(Ras!InputEnds, Rwg!InputEnds, Abbie!InputEnds)

\* Between lines, each queued pipe has both its ends open and its line to itself.
\* What else is open is what the shell is known to forget: nothing in project 1,
\* the files of ">" and the writing end of a pipe that nobody read in server.cpp,
\* the reading end of a pipe whose reader did not exist in ABbie's servers.  Of a
\* forgotten pipe no second end is open.
Forgets == Own({}, {"f", "w"}, {"r"})
NoLeak ==
  pc = "prompt" /\ ~starved =>
    LET queued == UNION {{e.rd, e.wr} : e \in queue}
        others == {f \in Fds : open[f] # None} \ queued
    IN
    /\ \A e \in queue : Ends(e.rd, "r") /\ Ends(e.wr, "w") /\ open[e.rd].pipe = open[e.wr].pipe
    /\ \A e, f \in queue : e.remains = f.remains => e = f
    /\ \A f \in others :
         /\ open[f].end \in Forgets
         /\ \A g \in Fds \ {f} : open[g] # None /\ open[g].end # "f" => open[g].pipe # open[f].pipe

\* Of server.cpp, also for lines that are sent output: the program behind a "|"
\* reads what the one before it wrote ("all behaviors required by project 1 are
\* still required", hw2.txt).
BarFeedsNext ==
  shell = "rwg" /\ pc = "fork" /\ Ends(locals.prev[1], "r") => Content(locals.fdin) = <<count>>

\* Each shell keeps the promise of command lines and numbered pipes.
Promise ==
  INSTANCE LinePipes WITH
    line <- line, got <- got, count <- count, starved <- starved,
    due <- Own(Ras!due, Rwg!due, Abbie!due),
    input <- Own(Ras!input, Rwg!input, Abbie!input)
PromiseKept == Promise!Spec
=============================================================================

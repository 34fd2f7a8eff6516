---------------------------- MODULE CommandLines ----------------------------
(***************************************************************************)
(* The lines a client types, as hw1Spec.txt has them, and their words: what *)
(* the three shells split a line into before they parse it.  A word is a   *)
(* name, of a program or a file, or one of the signs "|", "!", ">", "<",   *)
(* alone (n = 0) or with a number.                                         *)
(***************************************************************************)
EXTENDS Naturals, Sequences, SequencesExt

CONSTANT MaxN   \* the largest number of a numbered pipe (1000)

\* A program (one that exists, or one that does not) or a built-in command,
\* and what follows it: "|", "|n", "!n", "> file" or the end of the line.
Command == [kind : {"prog", "unknown", "builtin"},
            link : {"end", "pipe", "num", "err", "file"}, n : 0..MaxN]

Numbered(link) == link \in {"num", "err"}

\* "|" between programs, the other links behind the last one, built-in commands
\* alone on their line.
Legal(l) ==
  \A i \in 1..Len(l) :
    /\ (i < Len(l)) <=> (l[i].link = "pipe")
    /\ l[i].kind = "builtin" => Len(l) = 1 /\ l[i].link = "end"
    /\ Numbered(l[i].link) <=> l[i].n # 0

Programs(l) == IF l # <<>> /\ l[1].kind = "builtin" THEN 0 ELSE Len(l)

Name(kind)  == [sign |-> "", is |-> kind, n |-> 0]
Sign(s, k)  == [sign |-> s, is |-> "", n |-> k]
IsName(w)   == w.sign = ""

\* The words of a line; arguments are part of their command's name.
Words(l) ==
  FlattenSeq([i \in 1..Len(l) |->
    <<Name(l[i].kind)>> \o
      (CASE l[i].link = "end"  -> <<>>
         [] l[i].link = "pipe" -> <<Sign("|", 0)>>
         [] l[i].link = "num"  -> <<Sign("|", l[i].n)>>
         [] l[i].link = "err"  -> <<Sign("!", l[i].n)>>
         [] l[i].link = "file" -> <<Sign(">", 0), Name("file")>>)])
=============================================================================

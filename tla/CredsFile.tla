----------------------------- MODULE CredsFile ------------------------------
(***************************************************************************)
(* The creds file (creds.py) as a sequence of lines, each a tuple of its   *)
(* kind and what it carries.  A creds value gives each section the set of  *)
(* its payload, at most one.                                               *)
(***************************************************************************)
EXTENDS Integers, Sequences

CONSTANT Mangled    \* a line taken for a payload that is none

Sections == {"account", "user", "seed"}

\* The version this parser implements; 0 stands for a value that is no number.
Version == 1

\* Creds.format writes the tokens there are and, after them, the seed.
Section(c, s) ==
  IF c[s] = {} THEN <<>>
  ELSE <<<<"begin", s>>, <<"payload", CHOOSE x \in c[s] : TRUE>>, <<"end", s>>>>

Notice == <<<<"blank">>, <<"notice">>, <<"notice">>>>

When(condition, lines) == IF condition THEN lines ELSE <<>>

Format(c) ==
  <<<<"version", Version>>, <<"blank">>>>
    \o Section(c, "account")
    \o When(c["account"] # {} /\ c["user"] # {}, <<<<"blank">>>>)
    \o Section(c, "user")
    \o When(c["seed"] # {}, <<<<"blank">>>>)
    \o Section(c, "seed")
    \o When(c["seed"] # {}, Notice)

\* A file whose writing or copying stopped: its first n lines, and perhaps a part
\* of the next one, which is no marker and no whole payload.
Cut(lines, n, partial) ==
  SubSeq(lines, 1, n) \o IF partial /\ n < Len(lines) THEN <<<<"partial">>>> ELSE <<>>

-----------------------------------------------------------------------------

\* _check_version: the first version line, if any, must name this version.
VersionRead(lines) ==
  LET versions == {i \in DOMAIN lines : lines[i][1] = "version"}
  IN  \A i \in versions : (\A j \in versions : i <= j) => lines[i][2] = Version

\* _between: from the first begin marker to the next end marker, and what lies
\* inside of it; a begin marker that comes again and blank lines are passed over.
Opens(lines, s) == {i \in DOMAIN lines : lines[i] = <<"begin", s>>
                                         /\ \A j \in 1 .. i - 1 : lines[j] # <<"begin", s>>}
Closes(lines, s) ==
  {j \in DOMAIN lines : lines[j] = <<"end", s>> /\ \E i \in Opens(lines, s) :
     i < j /\ \A k \in i .. j - 1 : lines[k] # <<"end", s>>}
Inside(lines, s) ==
  {k \in DOMAIN lines : /\ lines[k] \notin {<<"begin", s>>, <<"blank">>}
                        /\ \E i \in Opens(lines, s) : i < k
                        /\ \A j \in Closes(lines, s) : k < j}

\* Mutant of WellFormed: a section may end with the file.
WellFormedUnclosed(lines, s) ==
  Opens(lines, s) # {} => \E k \in DOMAIN lines : Inside(lines, s) = {k}

\* A section that is there is closed and holds exactly one line.
WellFormed(lines, s) ==
  Opens(lines, s) # {} =>
    /\ Closes(lines, s) # {}
    /\ \E k \in DOMAIN lines : Inside(lines, s) = {k}

Payloads(lines, s) == {lines[k] : k \in Inside(lines, s)}

\* parse raises unless the version is known, the sections are well formed and
\* there is a token.
Parses(lines) ==
  /\ VersionRead(lines)
  /\ \A s \in Sections : WellFormed(lines, s)
  /\ Payloads(lines, "account") # {} \/ Payloads(lines, "user") # {}

\* What parse returns; a line that is no payload is returned all the same.
Parse(lines) == [s \in Sections |->
  {IF l[1] = "payload" THEN l[2] ELSE Mangled : l \in Payloads(lines, s)}]
=============================================================================

------------------------------- MODULE Dotenv --------------------------------
(***************************************************************************)
(* internal/dotenv: the managed block of an .env file.  A file is the      *)
(* sequence of its lines, or NoFile when it does not exist.                *)
(***************************************************************************)
EXTENDS Sequences, SequencesExt

CONSTANTS
  NoFile,
  VarNames      \* every variable name, in alphabetical order

ASSUME NamesOnce ==
  /\ VarNames \in Seq(ToSet(VarNames))
  /\ \A i, j \in DOMAIN VarNames : VarNames[i] = VarNames[j] => i = j
  /\ "" \notin ToSet(VarNames)

\* The elements of s that are in S.
Keep(s, S) ==
  LET Kept[i \in 0..Len(s)] ==
        IF i = 0 THEN <<>> ELSE IF s[i] \in S THEN Append(Kept[i - 1], s[i]) ELSE Kept[i - 1]
  IN  Kept[Len(s)]

\* Lines.  An assignment is one with or without "export", spaces and comments.
BeginMarker == <<"begin">>
EndMarker   == <<"end">>
Blank       == <<"blank">>
Other(x)    == <<"other", x>>
Assign(name, value) == <<"assign", name, value>>

\* parseVarName: the variable a line assigns, "" if it assigns none.
VarName(line) == IF line[1] = "assign" THEN line[2] ELSE ""

Marks(lines, marker) == {i \in DOMAIN lines : lines[i] = marker}
LastMark(lines, marker) == IF Marks(lines, marker) = {} THEN 0 ELSE Max(Marks(lines, marker))

SplitBlockShort(lines) ==  \* for the mutant: off by one after the block
  LET b == LastMark(lines, BeginMarker)
      e == LastMark(lines, EndMarker)
  IN  IF b = 0 \/ e <= b
      THEN [before |-> lines, after |-> <<>>]
      ELSE [before |-> SubSeq(lines, 1, b - 1), after |-> SubSeq(lines, e + 2, Len(lines))]
\* splitBlock: the last begin and the last end; without a block all is before it.
SplitBlock(lines) ==
  LET b == LastMark(lines, BeginMarker)
      e == LastMark(lines, EndMarker)
  IN  IF b = 0 \/ e <= b
      THEN [before |-> lines, after |-> <<>>]
      ELSE [before |-> SubSeq(lines, 1, b - 1), after |-> SubSeq(lines, e + 1, Len(lines))]

RemoveVars(lines, names) == Keep(lines, {line \in ToSet(lines) : VarName(line) \notin names \ {""}})

Trim(lines) ==
  LET Solid == {i \in DOMAIN lines : lines[i] # Blank}
  IN  SubSeq(lines, 1, IF Solid = {} THEN 0 ELSE Max(Solid))
\* readLines drops the blank lines at the end.  writeLines adds no line break after a
\* blank last line, which so disappears.
Lines(file) == IF file = NoFile THEN <<>> ELSE Trim(file)
WriteLines(lines) == IF lines # <<>> /\ Last(lines) = Blank THEN Front(lines) ELSE lines

BlockLines(vars) ==
  LET names == Keep(VarNames, DOMAIN vars)
  IN  [i \in DOMAIN names |-> Assign(names[i], vars[names[i]])]

\* The blank line before the block.
GapAlways(before) == IF before # <<>> THEN <<Blank>> ELSE <<>>  \* for the mutant
Gap(before) == IF before # <<>> /\ Last(before) # Blank THEN <<Blank>> ELSE <<>>

\* Merge: the managed variables leave the user's lines for the block.
Merge(file, vars) ==
  LET split  == SplitBlock(Lines(file))
      before == RemoveVars(split.before, DOMAIN vars)
      after  == RemoveVars(split.after, DOMAIN vars)
  IN  WriteLines(
        IF DOMAIN vars = {} THEN split.before \o split.after
        ELSE before \o Gap(before) \o <<BeginMarker>> \o BlockLines(vars) \o <<EndMarker>> \o after)

\* RemoveBlock: a file that does not exist is not created.
RemoveBlock(file) ==
  IF file = NoFile THEN NoFile
  ELSE LET split == SplitBlock(Lines(file)) IN Trim(split.before \o split.after)
=============================================================================

------------------------------ MODULE DumpBlocks ------------------------------
(***************************************************************************)
(* The search of tools/find_dcw_blocks.py for code that is not translated  *)
(* yet: one pass over the lines of a section file, which gathers runs of   *)
(* dumped words into blocks, and the listing of those that are long enough.*)
(* Whether a listed block is called code, mixed or data is not modelled.   *)
(***************************************************************************)
EXTENDS Integers, Sequences, FiniteSets, SequencesExt

CONSTANTS
  Files,        \* section files: sequences of [kind, words, addressed], where kind is
                \* "dcw", "code", "gap" (label, comment, blank) or "other" (any other line)
  FirstAddress, \* address of a file's first word
  DataRegions,  \* set of <<first, last>>, the last included
  MaxGap,       \* gap lines a block may run over; 10 in the tool
  MinBytes      \* bytes of the shortest block listed; 16 in the tool

VARIABLES
  file,
  next,         \* line to look at
  open,         \* the block being gathered, or NoBlock
  blocks        \* the blocks found

vars == <<file, next, open, blocks>>

\* `values` are the words counted, `lines` the dc.w lines, `gap` the lines since.
Block(start, values) == [start |-> start, values |-> values, lines |-> 1, gap |-> 0]
NoBlock == Block(-1, <<>>)

line == file[next]
AddressOf(n) ==
  FirstAddress + 2 * Len(FlattenSeq([m \in 1..n - 1 |-> file[m].words]))
InDataRegion(address) == \E region \in DataRegions : region[1] <= address /\ address <= region[2]

IsFull == line.kind = "dcw" /\ line.addressed /\ Len(line.words) >= 4
IsShort == line.kind = "dcw" /\ ~IsFull

---------------------------------------------------------------------------
(* analyze_section: one line to a step.                                    *)

\* flush_block
Flushed ==
  IF open # NoBlock /\ open.values # <<>> /\ ~InDataRegion(open.start)
  THEN Append(blocks, open) ELSE blocks

Flush == blocks' = Flushed /\ open' = NoBlock
Step == next <= Len(file) /\ next' = next + 1 /\ UNCHANGED file

FullInData == Step /\ IsFull /\ InDataRegion(AddressOf(next)) /\ Flush

Full ==
  /\ Step /\ IsFull /\ ~InDataRegion(AddressOf(next))
  /\ open' = IF open = NoBlock THEN Block(AddressOf(next), line.words)
             ELSE [open EXCEPT !.values = @ \o line.words, !.lines = @ + 1, !.gap = 0]
  /\ UNCHANGED blocks

\* Mutation: a short line is passed over.
ShortSkipped == Step /\ IsShort /\ UNCHANGED <<open, blocks>>

\* A short line goes on with a block and starts none; without an address its
\* words are not counted.
Short ==
  /\ Step /\ IsShort
  /\ open' = IF open = NoBlock THEN NoBlock
             ELSE [open EXCEPT !.values = @ \o (IF line.addressed THEN line.words ELSE <<>>),
                               !.lines = @ + 1, !.gap = 0]
  /\ UNCHANGED blocks

NotDumped == Step /\ line.kind \in {"code", "other"} /\ Flush

Gap ==
  /\ Step /\ line.kind = "gap"
  /\ IF open = NoBlock \/ open.gap < MaxGap
     THEN /\ open' = IF open = NoBlock THEN NoBlock ELSE [open EXCEPT !.gap = @ + 1]
          /\ UNCHANGED blocks
     ELSE Flush

EndOfFile == next = Len(file) + 1 /\ next' = next + 1 /\ Flush /\ UNCHANGED file

Init == file \in Files /\ next = 1 /\ open = NoBlock /\ blocks = <<>>
Next == FullInData \/ Full \/ Short \/ NotDumped \/ Gap \/ EndOfFile
Spec == Init /\ [][Next]_vars

---------------------------------------------------------------------------
(* main: the blocks too short are left out.                                *)

Bytes(b) == 2 * Len(b.values)

\* Mutation: a block of the least size is left out too.
ListedAbove == SelectSeq(blocks, LAMBDA b : Bytes(b) > MinBytes)

Listed == SelectSeq(blocks, LAMBDA b : Bytes(b) >= MinBytes)

---------------------------------------------------------------------------
(* What the listing should be, said of the file as a whole.                *)

IsDumped(n) == file[n].kind = "dcw"
FullAt(n) == IsDumped(n) /\ file[n].addressed /\ Len(file[n].words) >= 4
StartsBlock(n) == FullAt(n) /\ ~InDataRegion(AddressOf(n))

\* From line a to line b there are only dumped lines and gaps, no full line of a
\* data region and no gap of more than MaxGap lines.
Bridged(a, b) ==
  /\ a <= b
  /\ \A n \in a..b :
       IF FullAt(n) THEN ~InDataRegion(AddressOf(n)) ELSE IsDumped(n) \/ file[n].kind = "gap"
  /\ \A n \in a..b - MaxGap : \E k \in n..n + MaxGap : IsDumped(k)

\* The first and the last line of each stretch of dumped words: it begins with a
\* full line that belongs to no earlier stretch, and goes as far as it is bridged.
Stretches ==
  {<<a, b>> \in (DOMAIN file) \X (DOMAIN file) :
    /\ StartsBlock(a) /\ \A c \in 1..a - 1 : StartsBlock(c) => ~Bridged(c, a)
    /\ IsDumped(b) /\ Bridged(a, b)
    /\ \A d \in b + 1..Len(file) : IsDumped(d) => ~Bridged(a, d)}

\* A stretch as it is listed: the words of lines without an address are not counted.
Entry(stretch) ==
  LET counted == SelectSeq(SubSeq(file, stretch[1], stretch[2]), LAMBDA l : l.addressed)
  IN [start |-> AddressOf(stretch[1]),
      bytes |-> 2 * Len(FlattenSeq([n \in DOMAIN counted |-> counted[n].words]))]

\* The blocks listed of a file are its stretches of dumped words of MinBytes and
\* more, each once and with its start and its size, however labels, short lines,
\* instructions and data regions come between.
StretchesListed ==
  next = Len(file) + 2 =>
    LET expected == {e \in {Entry(s) : s \in Stretches} : e.bytes >= MinBytes}
    IN /\ {[start |-> b.start, bytes |-> Bytes(b)] : b \in Range(Listed)} = expected
       /\ Len(Listed) = Cardinality(expected)
=============================================================================

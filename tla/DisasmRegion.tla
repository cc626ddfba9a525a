----------------------------- MODULE DisasmRegion -----------------------------
(***************************************************************************)
(* The walk of tools/disasm_regions.py over a region of the ROM that holds *)
(* code and, in ranges it is told of, data: print_annotated_region, one    *)
(* printed line to a step.  Addresses count words from 1.                  *)
(***************************************************************************)
EXTENDS Decode68k

CONSTANTS
  CodeItems,   \* instructions, as sequences of words, that the region may hold
  DataItems,   \* data ranges it may hold
  MaxItems     \* instructions and data ranges in a region

VARIABLES
  region,   \* what the region holds, in order: [data, words]
  pc,       \* address of the next line
  lines     \* what was printed: [at, words, data]

vars == <<region, pc, lines>>

Items == [data : {FALSE}, words : CodeItems] \cup [data : {TRUE}, words : DataItems]

\* The words of the region, and where each item starts; the last start is the end.
rom == FlattenSeq([k \in DOMAIN region |-> region[k].words])
Start(k) == 1 + FoldLeft(LAMBDA n, item : n + Len(item.words), 0, SubSeq(region, 1, k - 1))
End == Start(Len(region) + 1)

\* Mutation: the last word of a data range is left out.
DataSetShort == UNION {Start(k)..Start(k + 1) - 2 : k \in {j \in DOMAIN region : region[j].data}}

\* data_set: every address inside a data range.
DataSet == UNION {Start(k)..Start(k + 1) - 1 : k \in {j \in DOMAIN region : region[j].data}}

Init ==
  /\ region \in UNION {[1..n -> Items] : n \in 1..MaxItems}
  /\ pc = 1 /\ lines = <<>>

Line(n, data) ==
  /\ lines' = Append(lines, [at |-> pc, words |-> n, data |-> data])
  /\ pc' = pc + n
  /\ UNCHANGED region

DataLine == pc < End /\ pc \in DataSet /\ Line(1, TRUE)

InstructionLine ==
  /\ pc < End /\ pc \notin DataSet
  /\ Line(Words(Shown(rom[pc], End - pc)), FALSE)

Next == DataLine \/ InstructionLine

Spec == Init /\ [][Next]_vars

---------------------------------------------------------------------------
\* The printed lines are the region's own: every line that is not data starts
\* where an instruction starts and is as long, so that the walk never reads an
\* operand or a table as an instruction, whatever they look like.
InStep ==
  \A n \in DOMAIN lines : ~lines[n].data =>
    \E k \in DOMAIN region :
      ~region[k].data /\ lines[n].at = Start(k) /\ lines[n].words = Len(region[k].words)
=============================================================================

------------------------------ MODULE JumpTables ------------------------------
(***************************************************************************)
(* The search of tools/disasm_jtab.py for jump tables in a block of code,  *)
(* a word to a step, and the segments it then disassembles or dumps.       *)
(* Positions count words from 1; a table's entries are byte offsets from   *)
(* its own start, as 16-bit words.                                         *)
(***************************************************************************)
EXTENDS Integers, Sequences, FiniteSets, SequencesExt

CONSTANTS
  Blocks,     \* what a block holds, in order: [words, entries], where `entries` of the
              \* words, the last ones, are a jump table's
  MaxEntries  \* entries after which a table is cut; 257 in the tool

VARIABLES
  block,
  i,          \* position the search stands at
  tables,     \* dispatches found: [dispatch, table, end], the end excluded
  segments    \* <<kind, start, end>>, once the search is over

vars == <<block, i, tables, segments>>

words == FlattenSeq([k \in DOMAIN block |-> block[k].words])

\* MOVE.W (d8,PC,Dn),Dm and behind it JMP (d8,PC,Dn).
IsDispatch(p) ==
  /\ p + 4 <= Len(words)
  /\ words[p] \div 4096 = 3 /\ words[p] % 512 = \h03B
  /\ words[p + 2] = \h4EFB

Signed(w) == IF w < 32768 THEN w ELSE w - 65536

\* An entry goes on when its target lies in the block.
IsEntry(table, p) ==
  LET target == 2 * (table - 1) + Signed(words[p])
  IN 0 <= target /\ target < 2 * Len(words)

\* Mutation: a table goes on over one entry that leads out of the block.
TableEndLate(table) ==
  LET stops == {p \in table + 1..Len(words) : ~IsEntry(table, p - 1)} \cup {Len(words) + 1, table + MaxEntries}
  IN CHOOSE p \in stops : \A q \in stops : p <= q

TableEnd(table) ==
  LET stops == {p \in table..Len(words) : ~IsEntry(table, p)} \cup {Len(words) + 1, table + MaxEntries}
  IN CHOOSE p \in stops : \A q \in stops : p <= q

Searching == segments = <<>> /\ i + 4 <= Len(words)

FindTable ==
  /\ Searching /\ IsDispatch(i) /\ TableEnd(i + 4) > i + 4
  /\ tables' = Append(tables, [dispatch |-> i, table |-> i + 4, end |-> TableEnd(i + 4)])
  /\ i' = TableEnd(i + 4)
  /\ UNCHANGED <<block, segments>>

SkipWord ==
  /\ Searching /\ ~(IsDispatch(i) /\ TableEnd(i + 4) > i + 4)
  /\ i' = i + 1
  /\ UNCHANGED <<block, tables, segments>>

CodeSegment(from, to) == IF from < to THEN <<<<"code", from, to>>>> ELSE <<>>

\* main: code, dispatch, table, code, ...
MakeSegments ==
  /\ ~Searching /\ segments = <<>>
  /\ LET Lay(acc, t) ==
          [pos |-> t.end,
            out |-> acc.out \o CodeSegment(acc.pos, t.dispatch)
                      \o <<<<"dispatch", t.dispatch, t.table>>, <<"table", t.table, t.end>>>>]
         all == FoldLeft(Lay, [pos |-> 1, out |-> <<>>], tables)
     IN segments' = all.out \o CodeSegment(all.pos, Len(words) + 1)
  /\ UNCHANGED <<block, i, tables>>

Init == block \in Blocks /\ i = 1 /\ tables = <<>> /\ segments = <<>>
Next == FindTable \/ SkipWord \/ MakeSegments
Spec == Init /\ [][Next]_vars

---------------------------------------------------------------------------
PartStart(k) == 1 + Len(FlattenSeq([j \in 1..k - 1 |-> block[j].words]))
PartEnd(k) == PartStart(k + 1)
HasTable(k) == block[k].entries > 0

\* Every table's entries lead into the block, and the word behind it does not,
\* read as an entry: the tool has no other way to tell where a table ends.
Tellable ==
  \A k \in {j \in DOMAIN block : HasTable(j)} :
    LET table == PartEnd(k) - block[k].entries
    IN /\ \A p \in table..PartEnd(k) - 1 : IsEntry(table, p)
       /\ PartEnd(k) <= Len(words) => ~IsEntry(table, PartEnd(k))

\* The tables found are the block's, to the word, and the segments lay the whole
\* block out around them, so that no table is read as code and no code as a table
\* (find_jump_tables and main).
TablesFound ==
  segments # <<>> /\ Tellable =>
    /\ {<<s[2], s[3]>> : s \in {r \in Range(segments) : r[1] = "table"}} =
         {<<PartEnd(k) - block[k].entries, PartEnd(k)>> : k \in {j \in DOMAIN block : HasTable(j)}}
    /\ segments[1][2] = 1 /\ segments[Len(segments)][3] = Len(words) + 1
    /\ \A n \in 1..Len(segments) - 1 : segments[n][3] = segments[n + 1][2]
=============================================================================

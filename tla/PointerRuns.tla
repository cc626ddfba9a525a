------------------------------ MODULE PointerRuns ------------------------------
(***************************************************************************)
(* The audit of tools/audit_pointer_runs.py: consecutive dc.l lines with   *)
(* ROM_BASE make a run, and the code that names an address inside a run    *)
(* tells whether it is read as pointers or was data all along.             *)
(***************************************************************************)
EXTENDS Integers, Sequences, FiniteSets, SequencesExt

CONSTANTS
  Sheets,      \* section files: sequences of lines [longs, based, addressed]; `longs` values,
               \* the set `based` of them with ROM_BASE; any other line has no longs and
               \* is two words long
  SheetStart,  \* address of a file's first byte
  Sightings    \* sets of references in the code of the ROM: [target, form, width, after],
               \* where form is "#" (movea.l #target,aN), "lea" or "entry" (an operand
               \* (target).l of that width), and `after` is the width of the first read through
               \* the register, "lost" when it is loaded again or the code leaves before

VARIABLES
  sheet, sightings,
  next, current,         \* the line to look at; the run being gathered, or NoRun
  runs,
  reachable, orphans, defects   \* audited runs, as indexes; orphans with their verdict

vars == <<sheet, sightings, next, current, runs, reachable, orphans, defects>>

NoBase == -1
NoRun == [line |-> 0, base |-> NoBase, n |-> 0]

AddressAt(n) ==
  SheetStart + FoldLeft(LAMBDA a, l : a + 4 * l.longs + (IF l.longs = 0 THEN 4 ELSE 0), 0, SubSeq(sheet, 1, n - 1))

---------------------------------------------------------------------------
(* load_runs                                                               *)

Walk == next <= Len(sheet) /\ next' = next + 1 /\ UNCHANGED <<sheet, sightings, reachable, orphans, defects>>

\* Mutation: the base is the last address in a comment.
GatherLastBase ==
  /\ Walk /\ sheet[next].based # {}
  /\ current' =
       [line |-> IF current = NoRun THEN next ELSE current.line,
        base |-> IF sheet[next].addressed THEN AddressAt(next) ELSE current.base,
        n |-> current.n + Cardinality(sheet[next].based)]
  /\ UNCHANGED runs

\* The base is the first address in a comment, of this line or of a later one.
Gather ==
  /\ Walk /\ sheet[next].based # {}
  /\ current' =
       [line |-> IF current = NoRun THEN next ELSE current.line,
        base |-> IF current.base = NoBase /\ sheet[next].addressed THEN AddressAt(next) ELSE current.base,
        n |-> current.n + Cardinality(sheet[next].based)]
  /\ UNCHANGED runs

Kept == IF current.base = NoBase THEN runs ELSE Append(runs, current)
CloseRun == runs' = Kept /\ current' = NoRun

Break == Walk /\ sheet[next].based = {} /\ CloseRun

EndOfSheet ==
  /\ next = Len(sheet) + 1 /\ next' = next + 1 /\ CloseRun
  /\ UNCHANGED <<sheet, sightings, reachable, orphans, defects>>

---------------------------------------------------------------------------
(* audit: the runs in turn.                                                *)

Extent(run) == {run.base + 4 * i : i \in 0..run.n - 1}
Hits(run) == {r \in sightings : r.target \in Extent(run)}

\* Whether the reference shows the run read at byte or word width.  Only an
\* immediate is followed to the first use of its register.
ShowsData(r) ==
  \/ r.form = "#" /\ r.after \in {"b", "w"}
  \/ r.form = "entry" /\ r.width \in {"b", "w"}

Audited == Cardinality(reachable) + Cardinality(orphans)
InAudit == next = Len(sheet) + 2 /\ Audited < Len(runs)
Done == UNCHANGED <<sheet, sightings, next, current, runs>>

Reach ==
  /\ InAudit /\ Hits(runs[Audited + 1]) # {}
  /\ reachable' = reachable \cup {Audited + 1}
  /\ defects' = defects \cup {<<Audited + 1, r>> : r \in {h \in Hits(runs[Audited + 1]) : ShowsData(h)}}
  /\ UNCHANGED orphans /\ Done

\* A run nobody names: a fragment when the entry before or behind it is named.
Orphan ==
  /\ InAudit /\ Hits(runs[Audited + 1]) = {}
  /\ LET run == runs[Audited + 1]
         fragment == \E r \in sightings : r.target \in {run.base - 4, run.base + 4 * run.n}
     IN orphans' = orphans \cup {<<Audited + 1, fragment>>}
  /\ UNCHANGED <<reachable, defects>> /\ Done

Init ==
  /\ sheet \in Sheets /\ sightings \in Sightings
  /\ next = 1 /\ current = NoRun /\ runs = <<>>
  /\ reachable = {} /\ orphans = {} /\ defects = {}

Next == Gather \/ Break \/ EndOfSheet \/ Reach \/ Orphan
Spec == Init /\ [][Next]_vars

---------------------------------------------------------------------------
\* The tables of the section: the longest stretches of lines with ROM_BASE.
Tables ==
  {<<a, b>> \in (DOMAIN sheet) \X (DOMAIN sheet) :
     /\ a <= b /\ \A n \in a..b : sheet[n].based # {}
     /\ a = 1 \/ sheet[a - 1].based = {}
     /\ b = Len(sheet) \/ sheet[b + 1].based = {}}

\* A table of pointers only, whose first line carries its address.
Plain(t) == sheet[t[1]].addressed /\ \A n \in t[1]..t[2] : sheet[n].based = 1..sheet[n].longs

TableBytes(t) == AddressAt(t[1])..AddressAt(t[2]) + 4 * sheet[t[2]].longs - 1
AllPlain == next > Len(sheet) + 1 /\ \A t \in Tables : Plain(t)

\* The runs of a section of plain tables are its tables, in order and to the byte.
RunsAreTables ==
  AllPlain =>
    /\ Len(runs) = Cardinality(Tables)
    /\ \A i \in DOMAIN runs : \E t \in Tables :
         /\ runs[i].line = t[1]
         /\ TableBytes(t) = runs[i].base..runs[i].base + 4 * runs[i].n - 1

\* How the code reads the table that a reference names: the bytes at the target
\* themselves, never what an entry points at.
ReadAs(r) == IF r.form = "entry" THEN r.width ELSE r.after

\* When the audit is over, every table that the code reads at byte or word width
\* through an immediate or directly is a defect, and nothing else is one: a string read
\* through an entry is not.
DefectsRight ==
  AllPlain /\ Audited = Len(runs) =>
    \A t \in Tables :
      (\E d \in defects : runs[d[1]].line = t[1]) =
      (\E r \in sightings :
         /\ r.target \in TableBytes(t) /\ (r.target - AddressAt(t[1])) % 4 = 0
         /\ r.form # "lea" /\ ReadAs(r) \in {"b", "w"})
=============================================================================

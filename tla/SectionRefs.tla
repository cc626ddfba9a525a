------------------------------ MODULE SectionRefs ------------------------------
(***************************************************************************)
(* The passes of tools/scan_rom_refs.py and tools/apply_translation.py over*)
(* one section file of the disassembly: they write ROM_BASE before every   *)
(* address of the ROM and replace dumped words by translated code, and must*)
(* leave the words that the section assembles to alone.                    *)
(*                                                                         *)
(* A line has                                                              *)
(*   kind   "dcw", "dcl", "code" or "text" (a label or a comment)          *)
(*   words  what it assembles to                                           *)
(*   at     the address in its comment, or NoAt                            *)
(*   refs   of code: position of an operand -> [form, value]               *)
(*   based  positions of the operands written with ROM_BASE                *)
(***************************************************************************)
EXTENDS Integers, Sequences, FiniteSets, SequencesExt

CONSTANTS
  Layouts,   \* section files to start from, every `at` right or NoAt
  Base,      \* address of the section's first word
  RomLo, RomHi,
  FormBatches, \* forms that --form is given
  MaxTranslations,  \* bound: blocks translated
  SharedLines  \* may --rewrite-dcw-code be run on lines that two sites share?

VARIABLES
  source,    \* the section file: a sequence of lines
  rom        \* build/aerobiz.bin: what it assembled to at first

NoAt == -1
All == "all forms"

Line(kind, words, at, refs, based) ==
  [kind |-> kind, words |-> words, at |-> at, refs |-> refs, based |-> based]
NoRefs == [k \in {} |-> {}]

Assembled(src) == FlattenSeq([n \in DOMAIN src |-> src[n].words])

\* Position in the section of the first word of line n.
Start(src, n) == 1 + Len(Assembled(SubSeq(src, 1, n - 1)))
Address(p) == Base + 2 * (p - 1)

\* The address comments of lines whose first word is at p are those of their words.
AddressesRight(src, p) ==
  \A n \in DOMAIN src : src[n].at # NoAt => src[n].at = Address(p - 1 + Start(src, n))

InRom(value) == RomLo <= value /\ value < RomHi
Long(words, k) == 65536 * words[k] + words[k + 1]
Pairs(words) == {k \in DOMAIN words : k % 2 = 1 /\ k < Len(words)}

---------------------------------------------------------------------------
(* scan: where an address stands that no ROM_BASE goes with.               *)

HandOpcodes ==
  {\h4EB9, \h4EF9, \h4879} \cup {\h41F9 + 512 * r : r \in 0..6} \cup {\h2079 + 512 * r : r \in 0..3}

HandEncoded(line) ==
  /\ line.kind = "dcw" /\ Len(line.words) >= 3
  /\ line.words[1] \in HandOpcodes /\ InRom(Long(line.words, 2))

\* dcw_pointers: a line of words that reads as a table of ROM pointers.
IsTable(line) ==
  /\ line.kind = "dcw" /\ Len(line.words) >= 4 /\ Len(line.words) % 2 = 0
  /\ \A k \in Pairs(line.words) :
       line.words[k] <= 15 /\ InRom(Long(line.words, k)) /\ line.words[k] = line.words[1]
  /\ \A j, k \in Pairs(line.words) : j # k => line.words[j + 1] # line.words[k + 1]

\* dcw_table_runs: such a line counts when its neighbour is one.
InRun(src, n) ==
  IsTable(src[n]) /\ \E m \in {n - 1, n + 1} \cap DOMAIN src : IsTable(src[m])

\* An immediate is an address for movea, lea and pea only; "imm" is any other.
SafeForms == {"branch", "pc", "abs", "load", "lea", "movea"}

SafeSites(src, n) ==
  LET line == src[n] IN
  CASE line.kind = "dcw" ->
         (IF HandEncoded(line) THEN {2} ELSE {}) \cup (IF InRun(src, n) THEN Pairs(line.words) ELSE {})
    [] line.kind = "dcl" ->
         {k \in Pairs(line.words) : k \notin line.based /\ InRom(Long(line.words, k))}
    [] OTHER ->
         {k \in DOMAIN line.refs :
            k \notin line.based /\ line.refs[k].form \in SafeForms /\ InRom(line.refs[k].value)}

---------------------------------------------------------------------------
(* --rewrite: rewrite_code and rewrite_line.                               *)

HandForm(opcode) ==
  CASE opcode \in {\h41F9 + 512 * r : r \in 0..6} -> "lea"
    [] opcode \in {\h2079 + 512 * r : r \in 0..3} -> "load"
    [] OTHER -> "abs"

Based(line) ==
  CASE line.kind = "dcl" -> {k \in Pairs(line.words) : InRom(Long(line.words, k))}
    [] OTHER -> {k \in DOMAIN line.refs : line.refs[k].form \in SafeForms /\ InRom(line.refs[k].value)}

\* The name a form has in --form; "abs" is any ($imm).l operand.
FormName(form) == IF form \in {"load", "lea"} THEN "abs" ELSE form

\* The forms a line is rewritten for; none when it names ROM_BASE already.
Forms(src, n) ==
  LET line == src[n] IN
  CASE line.based # {}   -> {}
    [] HandEncoded(line) -> {"hand"}
    [] InRun(src, n)     -> {"table"}
    [] line.kind = "dcl" /\ line.based = {} -> {"dcl" : k \in Based(line)}
    [] OTHER             -> {FormName(line.refs[k].form) : k \in Based(line)}

RewriteCode(line) ==
  CASE HandEncoded(line) ->
         Line("code", SubSeq(line.words, 1, 3), line.at,
              [k \in {2} |-> [form |-> HandForm(line.words[1]), value |-> Long(line.words, 2)]], {2})
    [] ~HandEncoded(line) /\ IsTable(line) -> [line EXCEPT !.kind = "dcl", !.based = Pairs(line.words)]
    [] OTHER         -> [line EXCEPT !.based = Based(line)]

\* A dc.l line without a pointer raises an exception, before anything is written.
Raises(line) == line.kind = "dcl" /\ line.based = {} /\ Based(line) = {}

Rewritten(src, only) ==
  IF \E n \in DOMAIN src : Raises(src[n]) THEN src
  ELSE [n \in DOMAIN src |->
          IF Forms(src, n) # {} /\ (only = All \/ Forms(src, n) = {only})
          THEN RewriteCode(src[n]) ELSE src[n]]

Rewrite(only) == source' = Rewritten(source, only) /\ UNCHANGED rom

---------------------------------------------------------------------------
(* --rewrite-indirect and --rewrite-tables: pointers among dumped words.   *)

\* Positions in the ROM that a rebased operand of the given form names.
Named(src, forms) ==
  {p \in 1..Len(rom) - 1 : \E n \in DOMAIN src : \E k \in src[n].based :
     src[n].kind = "code" /\ src[n].refs[k].form \in forms /\ src[n].refs[k].value = Address(p)}

IndirectTargets(src) == {p \in Named(src, {"load"}) : InRom(Long(rom, p))}

\* table_targets: three even ROM addresses or more from where a lea or a movea
\* points, as far forwards and backwards as they go.
TableTargets(src) ==
  LET Good(p) == p \in 1..Len(rom) - 1 /\ InRom(Long(rom, p)) /\ rom[p + 1] % 2 = 0
      Between(p, q) == {r \in p..q \cup q..p : (r - p) % 2 = 0}
  IN UNION {{q \in 1..Len(rom) - 1 : (q - p) % 2 = 0 /\ \A r \in Between(p, q) : Good(r)}
            : p \in {b \in Named(src, {"lea", "movea"}) : \A i \in 0..2 : Good(b + 2 * i)}}

\* Is a target in the word at position k of the line?
At(line, k, targets) == \E p \in targets : Address(p) = line.at + 2 * (k - 1)

Addressed(line) == line.kind = "dcw" /\ line.at # NoAt

\* Mutation: a pointer over two lines is left where it is.
MergedNever(src, targets) == src

\* Lines n and n + 1 become one when a target starts in the last word of line n.
Joins(src, n, targets) ==
  LET a == src[n]
      b == src[n + 1]
  IN /\ Addressed(a) /\ Addressed(b)
     /\ a.at + 2 * Len(a.words) = b.at
     /\ At(a, Len(a.words), targets)

MergeOnce(src, targets) ==
  LET joins == {n \in 1..Len(src) - 1 : Joins(src, n, targets)}
      n == CHOOSE m \in joins : \A j \in joins : m <= j
  IN IF joins = {} THEN src
     ELSE SubSeq(src, 1, n - 1) \o <<[src[n] EXCEPT !.words = @ \o src[n + 1].words]>>
            \o SubSeq(src, n + 2, Len(src))
Merged(src, targets) ==
  LET merged[n \in 0..Len(src)] == IF n = 0 THEN src ELSE MergeOnce(merged[n - 1], targets)
  IN merged[Len(src)]

\* The pieces of a line, out, and word k: the second word of a dc.l is taken.
Piece(acc, line, k, targets) ==
  LET at   == line.at + 2 * (k - 1)
      last == Len(acc.out)
  IN CASE acc.taken -> [acc EXCEPT !.taken = FALSE]
       [] ~acc.taken /\ At(line, k, targets) /\ k < Len(line.words) ->
            [taken |-> TRUE,
             out |-> Append(acc.out, Line("dcl", SubSeq(line.words, k, k + 1), at, NoRefs, {1}))]
       [] OTHER ->
            IF last > 0 /\ acc.out[last].kind = "dcw"
            THEN [acc EXCEPT !.out[last].words = Append(@, line.words[k])]
            ELSE [acc EXCEPT !.out = Append(@, Line("dcw", <<line.words[k]>>, at, NoRefs, {}))]

\* The line in pieces: a dc.l for every target, a dc.w for the words between.
Split(line, targets) ==
  LET pieces[k \in 0..Len(line.words)] ==
        IF k = 0 THEN [taken |-> FALSE, out |-> <<>>] ELSE Piece(pieces[k - 1], line, k, targets)
  IN pieces[Len(line.words)].out

Targets(src, alsoTables) ==
  IndirectTargets(src) \cup (IF alsoTables THEN TableTargets(src) ELSE {})

Indirect(src, alsoTables) ==
  LET targets == Targets(src, alsoTables)
      merged == Merged(src, targets)
  IN FlattenSeq([n \in DOMAIN merged |->
       IF Addressed(merged[n]) THEN Split(merged[n], targets) ELSE <<merged[n]>>])

RewriteIndirect == source' = Indirect(source, FALSE) /\ UNCHANGED rom
RewriteTables == source' = Indirect(source, TRUE) /\ UNCHANGED rom

---------------------------------------------------------------------------
(* --rewrite-dcw-code: instructions spread over lines of dumped words.     *)

AddressOperand ==
  {\h4EB9, \h4EF9, \h4879} \cup {op + 512 * r : op \in {\h41F9, \h2079, \h207C}, r \in 0..7}

\* The line that word p of the section is in, and which word of it.
LineOf(src, p) == CHOOSE n \in DOMAIN src : p \in Start(src, n)..Start(src, n + 1) - 1
Place(src, p) == [line |-> LineOf(src, p), word |-> p - Start(src, LineOf(src, p)) + 1]

\* Sites: the words of opcodes whose address follows in the same run of dc.w lines.
Sites(src) ==
  LET words == Assembled(src)
      OneRun(p) == \A n \in LineOf(src, p)..LineOf(src, p + 2) : src[n].kind = "dcw"
  IN {p \in 1..Len(words) - 2 :
        words[p] \in AddressOperand /\ InRom(Long(words, p + 1)) /\ OneRun(p)}

\* Mutation: the words that are left keep the comment of the whole line.
CommentAsWas(at, dropped) == at

\* The address of the words left of a line when some were dropped before them.
AddressComment(at, dropped) == IF at = NoAt THEN NoAt ELSE at + 2 * dropped

\* One site: the lines of its address, as they were before the pass, become the
\* words before it, a dc.l, and the words after.
PutLong(src, lines, p) ==
  LET hi  == Place(src, p + 1)
      lo  == Place(src, p + 2)
      one == src[hi.line]
      two == src[lo.line]
      before == SubSeq(one.words, 1, hi.word - 1)
      after  == SubSeq(two.words, lo.word + 1, Len(two.words))
      operand == <<one.words[hi.word], two.words[lo.word]>>
      Dcw(words, at) == IF words = <<>> THEN <<>> ELSE <<Line("dcw", words, at, NoRefs, {})>>
  IN SubSeq(lines, 1, hi.line - 1)
       \o Dcw(before, one.at) \o <<Line("dcl", operand, NoAt, NoRefs, {1})>>
       \o Dcw(after, AddressComment(two.at, lo.word))
       \o SubSeq(lines, lo.line + 1, Len(lines))

\* Back to front: edited[k] has the sites among the last k words.
DcwCode(src) ==
  LET size == Len(Assembled(src))
      edited[k \in 0..size] ==
        IF k = 0 THEN src
        ELSE IF size + 1 - k \in Sites(src) THEN PutLong(src, edited[k - 1], size + 1 - k)
        ELSE edited[k - 1]
  IN edited[size]

\* No line holds words of the addresses of two sites.
SitesApart(src) ==
  \A p, q \in Sites(src) : p < q => LineOf(src, p + 2) < LineOf(src, q + 1)

RewriteDcwCode ==
  /\ SharedLines \/ SitesApart(source)
  /\ source' = DcwCode(source)
  /\ UNCHANGED rom

---------------------------------------------------------------------------
(* apply_translation.py: the words from `first` to `last` were translated. *)

Overlaps(line, first, last) ==
  Addressed(line) /\ line.at <= Address(last) + 1 /\ line.at + 2 * Len(line.words) - 1 >= Address(first)

\* Mutation: a line translated in part is dropped whole.
NoSuffix(line, last) == <<>>

Suffix(line, last) ==
  LET cut == (Address(last) + 2 - line.at) \div 2
  IN IF cut >= Len(line.words) THEN <<>>
     ELSE <<Line("dcw", SubSeq(line.words, cut + 1, Len(line.words)), line.at + 2 * cut, NoRefs, {})>>

Applied(src, first, last) ==
  LET hit == {n \in DOMAIN src : Overlaps(src[n], first, last)}
      from == CHOOSE n \in hit : \A m \in hit : n <= m
      to   == CHOOSE n \in hit : \A m \in hit : m <= n
  IN SubSeq(src, 1, from - 1) \o <<Line("code", SubSeq(rom, first, last), NoAt, NoRefs, {})>>
       \o Suffix(src[to], last) \o SubSeq(src, to + 1, Len(src))

\* Blocks translated so far.
Translated == {n \in DOMAIN source : source[n].kind = "code" /\ source[n].refs = NoRefs}

\* A translation is made of a block that find_dcw_blocks.py lists: it starts
\* where a dumped line starts and ends inside one.
ApplyTranslation(first, last) ==
  /\ Cardinality(Translated) < MaxTranslations
  /\ \E n \in DOMAIN source : Addressed(source[n]) /\ Start(source, n) = first
  /\ \E n \in DOMAIN source :
       Addressed(source[n]) /\ last \in Start(source, n)..Start(source, n) + Len(source[n].words) - 1
  /\ source' = Applied(source, first, last)
  /\ UNCHANGED rom

---------------------------------------------------------------------------
vars == <<source, rom>>

\* What a line of a section file is; a dc.w line has a word.
IsLine(line) ==
  /\ line \in [kind : {"dcw", "dcl", "code", "text"}, words : Seq(Nat), at : Int,
               refs : {line.refs}, based : SUBSET Nat]
  /\ line.refs \in [DOMAIN line.refs -> [form : SafeForms \cup {"imm"}, value : Nat]]
  /\ DOMAIN line.refs \subseteq Nat
  /\ line.kind = "dcw" => line.words # <<>>

\* The files to start from, with the comments that the disassembler wrote.
LayoutsRight ==
  /\ Base \in Nat
  /\ \A src \in Layouts :
       /\ src \in Seq(Range(src)) /\ \A line \in Range(src) : IsLine(line)
       /\ AddressesRight(src, 1)

Init == source \in Layouts /\ rom = Assembled(source)

Next ==
  \/ \E only \in {All} \cup FormBatches : Rewrite(only)
  \/ RewriteIndirect
  \/ RewriteTables
  \/ RewriteDcwCode
  \/ \E first, last \in DOMAIN rom : first <= last /\ ApplyTranslation(first, last)

Spec == Init /\ [][Next]_vars

---------------------------------------------------------------------------
\* No pass, in whatever order they are run, changes a word that the section
\* assembles to: what `make verify` compares.
BytesKept == Assembled(source) = rom

\* The address in the comment of a dumped line stays the line's own: the passes
\* find their places by it (DCW_ADDR, extract_rom_addr).
CommentsRight == AddressesRight(source, 1)

\* --rewrite puts one instruction in the place of a whole line of dumped words that
\* begins with it (rewrite_code, "Same bytes, verified"): no pass makes a line that
\* goes on behind the address.
CallsEndLines == \A n \in DOMAIN source : HandEncoded(source[n]) => Len(source[n].words) = 3

\* "The tool that finds a site is the tool that fixes it": wherever the passes
\* have led, after one more --rewrite the scan finds nothing safe that is not
\* rebased (scan, rewrite_code).
NothingSafeLeft ==
  LET after == Rewritten(source, All)
  IN \A n \in DOMAIN after : SafeSites(after, n) = {}

Rebased(src) == UNION {{Start(src, n) + k - 1 : k \in src[n].based} : n \in DOMAIN src}
Dumped(src, p) ==
  \E n \in DOMAIN src : Addressed(src[n]) /\ p \in Start(src, n)..Start(src, n) + Len(src[n].words) - 1

\* --rewrite-indirect places every pointer whose two words are dumped side by
\* side, on one line or on two, but for one that overlaps another.
PointersPlaced ==
  \A p \in IndirectTargets(source) :
    Dumped(source, p) /\ Dumped(source, p + 1) /\ p - 1 \notin IndirectTargets(source)
      => p \in Rebased(Indirect(source, FALSE))
=============================================================================

-------------------------------- MODULE MCTools --------------------------------
\* The disassembly and translation tools, which meet only in the files they read
\* and write, in one run: `part` says which of them a behaviour exercises, and
\* the variables of the others stay Idle.  The passes over a section file, the
\* scripts of a capture and the oracle are those of SectionRefs, CaptureScript and
\* MapOracle themselves, so that BytesKept, CommentsRight, SavedWhereAsked and
\* OracleRight are the formulas that are proved: an Idle section is an empty file, an
\* Idle capture has not finished, and an Idle oracle has not compared a frame.
EXTENDS SectionRefs, CaptureScript, MapOracle, Bags

VARIABLES
  part,
  page,
  region, pc, lines,
  block, i, tables, segments,
  file, dumpNext, open, blocks,
  program, section, callNext, function, labels, callees, callersOf, calleesOf,
  sheet, sightings, next, current, runs, reachable, orphans, defects,
  listing, first, end, functions, targets, out, tool

decode    == page
walk      == <<region, pc, lines>>
jumps     == <<block, i, tables, segments>>
refs      == <<source, rom>>
dump      == <<file, dumpNext, open, blocks>>
calls     == <<program, section, callNext, function, labels, callees, callersOf, calleesOf>>
pointers  == <<sheet, sightings, next, current, runs, reachable, orphans, defects>>
translate == <<listing, first, end, functions, targets, out, tool>>

Idle == <<>>

---------------------------------------------------------------------------
\* A return, a call, a MOVEM and a MOVEQ; data that reads as a call.
Sweep == INSTANCE DecodeSweep
Walk == INSTANCE DisasmRegion WITH
  CodeItems <- {<<\h4E75>>, <<\h4EB9, 0, \h0D64>>, <<\h48E7, \h3F30>>, <<\h7005>>},
  DataItems <- {<<\h4EB9>>, <<\h4EB9, \h0D64>>},
  MaxItems <- 3

\* Parts of a block: code, the two words of a dispatch apart, and tables of one to
\* three entries, that lead forwards, backwards and out of the block.
Part(words, entries) == [words |-> words, entries |-> entries]
MCParts == {
  Part(<<\h4E75>>, 0), Part(<<\h303B, 2, \h4E71>>, 0), Part(<<4, \h7001>>, 0),
  Part(<<\h303B, 6, \h4EFB, 2, 4>>, 1), Part(<<\h323B, 6, \h4EFB, 2, 2, 65534>>, 2),
  Part(<<\h303B, 6, \h4EFB, 2, 2, 65528, 0>>, 3), Part(<<\h303B, 6, \h4EFB, 2, \h7000>>, 0)}
Jumps == INSTANCE JumpTables WITH
  Blocks <- UNION {[1..n -> MCParts] : n \in 1..3}, MaxEntries <- 257

---------------------------------------------------------------------------
\* Section files of up to three lines: each form of operand, each kind of dumped
\* line, instructions and pointers that begin on one line and end on the next.
MCLine(kind, words, addressed, operands) ==
  [kind |-> kind, words |-> words, addressed |-> addressed, refs |-> operands]
MCCode(words, form, value) ==
  MCLine("code", words, FALSE, [k \in {2} |-> [form |-> form, value |-> value]])
MCTemplates == {
  MCCode(<<\h2F39, 0, \hD66>>, "load", \hD66),
  MCCode(<<\h41F9, 0, \hD66>>, "lea", \hD66),
  MCCode(<<\h6100, 12>>, "branch", \hD70),
  MCLine("code", <<\hCB9, 0, \hD64, 0, \hD66>>, FALSE,
         [k \in {2, 4} |-> IF k = 2 THEN [form |-> "imm", value |-> \hD64]
                           ELSE [form |-> "abs", value |-> \hD66]]),
  MCLine("dcw", <<\h4EB9, 0, \hD64>>, FALSE, NoRefs),
  MCLine("dcw", <<\h41F9, 0, \hD66>>, TRUE, NoRefs),
  MCLine("dcw", <<7, \h4EB9>>, TRUE, NoRefs),
  MCLine("dcw", <<0>>, TRUE, NoRefs),
  MCLine("dcw", <<\hD64, 9>>, TRUE, NoRefs),
  MCLine("dcw", <<9, 0, \hD64>>, FALSE, NoRefs),
  MCLine("dcw", <<0, \hD64, 0, \hD66>>, TRUE, NoRefs),
  MCLine("dcl", <<0, \hD64, 0, 5>>, TRUE, NoRefs),
  MCLine("dcl", <<0, \hD64, 0, \hD68>>, FALSE, NoRefs),
  MCLine("text", <<>>, FALSE, NoRefs) }
MCLaid(ts) ==
  [n \in DOMAIN ts |->
    [kind |-> ts[n].kind, words |-> ts[n].words, refs |-> ts[n].refs, based |-> {},
     at |-> IF ts[n].addressed
            THEN Base + 2 * Len(FlattenSeq([m \in 1..n - 1 |-> ts[m].words])) ELSE -1]]
MCLayouts == {MCLaid(ts) : ts \in UNION {[1..n -> MCTemplates] : n \in 1..3}}

\* A call that begins and ends in the middle of lines, behind it another on the
\* last of them.
MCShared == {MCLaid(<<MCLine("dcw", <<7, \h4EB9>>, TRUE, NoRefs), MCLine("dcw", <<0>>, TRUE, NoRefs),
                      MCLine("dcw", <<\hD64, \h4EB9, 0, \hD64>>, TRUE, NoRefs)>>)}

ASSUME SectionsAssumption == LayoutsRight

---------------------------------------------------------------------------
\* Files of up to four lines, a data region within them, one gap line bridged;
\* full lines of the least size listed and of half of it.
MCDumpLine(kind, words, addressed) == [kind |-> kind, words |-> words, addressed |-> addressed]
MCDumpLines == {
  MCDumpLine("dcw", [k \in 1..8 |-> k], TRUE), MCDumpLine("dcw", <<1, 2, 3, 4>>, TRUE),
  MCDumpLine("dcw", <<\h4E75>>, TRUE), MCDumpLine("dcw", <<5, 6, 7, 8>>, FALSE),
  MCDumpLine("dcw", <<\h4EB9, 0>>, FALSE), MCDumpLine("code", <<\h4E71>>, FALSE),
  MCDumpLine("gap", <<>>, FALSE), MCDumpLine("other", <<5, 6>>, FALSE)}
Dump == INSTANCE DumpBlocks WITH
  Files <- UNION {[1..n -> MCDumpLines] : n \in 1..4},
  FirstAddress <- 512, DataRegions <- {<<\h20C, \h215>>}, MaxGap <- 1, MinBytes <- 16,
  next <- dumpNext

\* Two files, of up to three lines and of up to two; two functions that call each
\* other and themselves.
MCCallLine(kind, name) == [kind |-> kind, name |-> name]
MCCallLines == {MCCallLine(kind, name) : kind \in {"label", "call"}, name \in {"F", "G"}}
MCOtherLines == {MCCallLine("auto", "l_1"), MCCallLine("other", "")}
Calls == INSTANCE CallGraph WITH
  Programs <- {<<a, b>> : a \in UNION {[1..n -> MCCallLines \cup MCOtherLines] : n \in 0..3},
                          b \in UNION {[1..n -> MCCallLines] : n \in 0..2}},
  MaxLines <- 3, TopLevel <- "__top_level__", next <- callNext

\* Tables of one to four entries, and one or two references, to an entry, to the
\* next table and behind it.
MCSheetLine(longs, based, addressed) == [longs |-> longs, based |-> based, addressed |-> addressed]
MCSheetLines == {
  MCSheetLine(0, {}, FALSE), MCSheetLine(1, {1}, TRUE), MCSheetLine(2, {1, 2}, TRUE),
  MCSheetLine(1, {1}, FALSE), MCSheetLine(2, {2}, TRUE)}
MCRef(target, form, width, after) == [target |-> target, form |-> form, width |-> width, after |-> after]
MCRefs ==
  {MCRef(t, "#", "l", a) : t \in {\h208, \h20C}, a \in {"w", "l", "lost"}}
    \cup {MCRef(t, "entry", w, "lost") : t \in {\h208, \h20C}, w \in {"b", "l"}}
    \cup {MCRef(\h208, "lea", "l", "w")}
MCSightings == {{}} \cup {{r} : r \in MCRefs} \cup {{r, MCRef(\h204, "entry", "w", "lost")} : r \in MCRefs}
Pointers == INSTANCE PointerRuns WITH
  Sheets <- UNION {[1..n -> MCSheetLines] : n \in 1..3}, SheetStart <- 512, Sightings <- MCSightings

\* Listings of up to three instructions, or of four that hold a return: branches
\* and DBccs within a function, into another, out of the range and behind the last
\* return.
MCItem(kind, words, target) == [kind |-> kind, words |-> words, target |-> target]
MCNoTarget == -99
MCItems == {
  MCItem("rts", <<\h4E75>>, MCNoTarget), MCItem("other", <<\h7001>>, MCNoTarget),
  MCItem("other", <<\h4EB9, 0, 4660>>, MCNoTarget), MCItem("other", <<\h0C00, \h3412>>, MCNoTarget),
  MCItem("other", <<\h0C00, \h12>>, MCNoTarget), MCItem("branch", <<\h6600, 4>>, 3),
  MCItem("branch", <<\h6000, 0>>, 1), MCItem("dbcc", <<\h51C8, 65534>>, 2),
  MCItem("dbcc", <<\h51CA, 4>>, 3), MCItem("undecoded", <<\hF123>>, MCNoTarget),
  MCItem("bsr", <<\h6100, 8>>, 4), MCItem("bsr", <<\h6102>>, 2), MCItem("other", <<\h4E73>>, MCNoTarget)}
MCWords(items) == FlattenSeq([n \in DOMAIN items |-> items[n].words])
\* A branch that stays in the listing goes to an instruction.
MCAligned(l) ==
  \A n \in DOMAIN l :
    \/ l[n].target \notin 0..Len(MCWords(l)) - 1
    \/ \E m \in DOMAIN l : Len(MCWords(SubSeq(l, 1, m - 1))) = l[n].target
MCShort == UNION {[1..n -> MCItems] : n \in 1..3}
MCTwoFunctions ==
  {<<a, MCItem("rts", <<\h4E75>>, MCNoTarget), b, MCItem("rts", <<\h4E75>>, MCNoTarget)>> : a, b \in MCItems}
Translate == INSTANCE Translation WITH
  Listings <- {l \in MCShort \cup MCTwoFunctions : MCAligned(l)}, NoTarget <- MCNoTarget

---------------------------------------------------------------------------
\* Scripts of up to three lines that play a frame, and one that ends by itself;
\* states at any of the frames they play, and beyond.
MCCommand(op, n) == [op |-> op, n |-> n]
MCCommands == {MCCommand("run", 1), MCCommand("run", 2), MCCommand("joypad", 8),
               MCCommand("joypad", 16), MCCommand("save", 9)}
MCScripts ==
  {s \in UNION {[1..n -> MCCommands] : n \in 1..3} : \E k \in DOMAIN s : s[k].op = "run"}
    \cup {<<MCCommand("joypad", 8), MCCommand("run", 3), MCCommand("joypad", 0),
            MCCommand("run", 2), MCCommand("quit", 0)>>}
MCSaveAt == SUBSET (0..4)
MCCutAt == 0..4

\* Two cells of the map; an opaque drawing over plane A and one that is a hole; a
\* picture in front of the sprites on one cell; sprites that overlap, the first of
\* low priority and the second of high.
MCTile(tile, colour, high) == [tile |-> tile, colour |-> colour, high |-> high]
MCSprite(cell, colour, high, link) == [cell |-> cell, colour |-> colour, high |-> high, link |-> link]
MCCells == 1..2
MCDrawings == {MCTile(6, 0, FALSE), MCTile(7, 7, TRUE)}
MCPlaneA == {[c \in 1..2 |-> MCTile(0, 0, FALSE)], [c \in 1..2 |-> MCTile(3, 3, c = 1)]}
MCSpriteTables == {
  [k \in {0} |-> MCSprite(2, 4, FALSE, 0)],
  [k \in 0..2 |-> IF k = 0 THEN MCSprite(1, 4, FALSE, 2)
                  ELSE IF k = 2 THEN MCSprite(1, 6, TRUE, 1) ELSE MCSprite(2, 7, TRUE, 0)]}
MCCaptures == {[asked |-> {0, 2}, shots |-> {0, 2}], [asked |-> {0, 1}, shots |-> 0..2]}

---------------------------------------------------------------------------
all == <<decode, walk, jumps, refs, dump, calls, pointers, translate, capture, oracle>>

\* The variables of every part but one are Idle.
OthersIdle ==
  /\ part # "decode" =>
       /\ page = Idle
  /\ part # "walk" =>
       /\ region = Idle /\ pc = Idle /\ lines = Idle
  /\ part # "jumps" =>
       /\ block = Idle /\ i = Idle /\ tables = Idle /\ segments = Idle
  /\ part # "refs" =>
       /\ source = Idle /\ rom = Idle
  /\ part # "dump" =>
       /\ file = Idle /\ dumpNext = Idle /\ open = Idle /\ blocks = Idle
  /\ part # "calls" =>
       /\ program = Idle /\ section = Idle /\ callNext = Idle /\ function = Idle
       /\ labels = Idle /\ callees = Idle /\ callersOf = Idle /\ calleesOf = Idle
  /\ part # "pointers" =>
       /\ sheet = Idle /\ sightings = Idle /\ next = Idle /\ current = Idle
       /\ runs = Idle /\ reachable = Idle /\ orphans = Idle /\ defects = Idle
  /\ part # "translate" =>
       /\ listing = Idle /\ first = Idle /\ end = Idle /\ functions = Idle
       /\ targets = Idle /\ out = Idle /\ tool = Idle
  /\ part # "capture" =>
       /\ script = Idle /\ harness = Idle /\ saveAt = Idle /\ read = Idle /\ left = Idle
       /\ pending = Idle /\ at = Idle /\ made = Idle /\ finished = FALSE
  /\ part # "oracle" =>
       /\ moments = Idle /\ asked = Idle /\ shots = Idle /\ todo = Idle
       /\ compared = Idle /\ result = Idle

ToolsInit ==
  /\ \/ part = "decode" /\ ~SharedLines /\ Sweep!Init
     \/ part = "walk" /\ ~SharedLines /\ Walk!Init
     \/ part = "jumps" /\ ~SharedLines /\ Jumps!Init
     \/ part = "refs" /\ Init
     \/ part = "dump" /\ ~SharedLines /\ Dump!Init
     \/ part = "calls" /\ ~SharedLines /\ Calls!Init
     \/ part = "pointers" /\ ~SharedLines /\ Pointers!Init
     \/ part = "translate" /\ ~SharedLines /\ Translate!Init
     \/ part = "capture" /\ ~SharedLines /\ CaptureInit
     \/ part = "oracle" /\ ~SharedLines /\ OracleInit
  /\ OthersIdle

ToolsNext ==
  \/ /\ part = "decode" /\ Sweep!Next
     /\ UNCHANGED <<part, walk, jumps, refs, dump, calls, pointers, translate, capture, oracle>>
  \/ /\ part = "walk" /\ Walk!Next
     /\ UNCHANGED <<part, decode, jumps, refs, dump, calls, pointers, translate, capture, oracle>>
  \/ /\ part = "jumps" /\ Jumps!Next
     /\ UNCHANGED <<part, decode, walk, refs, dump, calls, pointers, translate, capture, oracle>>
  \/ /\ part = "refs" /\ Next
     /\ UNCHANGED <<part, decode, walk, jumps, dump, calls, pointers, translate, capture, oracle>>
  \/ /\ part = "dump" /\ Dump!Next
     /\ UNCHANGED <<part, decode, walk, jumps, refs, calls, pointers, translate, capture, oracle>>
  \/ /\ part = "calls" /\ Calls!Next
     /\ UNCHANGED <<part, decode, walk, jumps, refs, dump, pointers, translate, capture, oracle>>
  \/ /\ part = "pointers" /\ Pointers!Next
     /\ UNCHANGED <<part, decode, walk, jumps, refs, dump, calls, translate, capture, oracle>>
  \/ /\ part = "translate" /\ Translate!Next
     /\ UNCHANGED <<part, decode, walk, jumps, refs, dump, calls, pointers, capture, oracle>>
  \/ /\ part = "capture" /\ CaptureNext
     /\ UNCHANGED <<part, decode, walk, jumps, refs, dump, calls, pointers, translate, oracle>>
  \/ /\ part = "oracle" /\ OracleNext
     /\ UNCHANGED <<part, decode, walk, jumps, refs, dump, calls, pointers, translate, capture>>

ToolsSpec == ToolsInit /\ [][ToolsNext]_<<part, all>>

---------------------------------------------------------------------------
\* The decoder reads every opword as the 68000 does, and the register list it shows
\* of a MOVEM is that of the mask.
DecodesThe68000 == part = "decode" => Sweep!DecodesThe68000 /\ Sweep!ListIsMask

\* What the translators write anew of an operand assembles to the words it was read
\* from: signed numbers, short addresses, indexed displacements that are not
\* negative, and register lists but for a register shown as sp.
OperandsKept == part = "decode" => Sweep!OperandsKept

\* The walk over a region starts no line inside an instruction or a data range; the
\* jump tables found in a block are those it has, to the word.
RegionsRight ==
  /\ part = "walk" => Walk!InStep
  /\ part = "jumps" => Jumps!TablesFound

\* A pass leaves nothing behind that it was for: nothing safe that is not rebased
\* after --rewrite, no target whose words are dumped side by side after
\* --rewrite-indirect.  Nor does it make a line that --rewrite would cut short: one
\* that begins with a whole instruction and goes on behind it.
PassesFinish == part = "refs" => NothingSafeLeft /\ PointersPlaced /\ CallsEndLines

\* Three inventories of the sections.  The dumped blocks listed are the file's
\* stretches of dumped words of 16 bytes and more.  Every call is charged once, to
\* the function it stands under, and the statistics are about the whole program.
\* The runs audited are the tables of the section, and the defects are exactly those
\* that the code reads at byte or word width, through an immediate or directly: a
\* table named with lea is not followed.
InventoriesRight ==
  /\ part = "dump" => Dump!StretchesListed
  /\ part = "calls" => Calls!CallsCharged /\ Calls!StatisticsRight
  /\ part = "pointers" => Pointers!RunsAreTables /\ Pointers!DefectsRight

\* A translation assembles to the words it was made from; every target that a branch
\* or DBcc in it names has its label once and in place, unless it lies behind the
\* last RTS of translate_block.py; and --find-function finds the function that holds
\* an instruction.
TranslationRight ==
  part = "translate" =>
    Translate!SameWords /\ Translate!TargetsLabelled /\ Translate!FunctionFound
=============================================================================

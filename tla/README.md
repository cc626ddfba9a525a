# Aerobiz Ultimate: TLA+ models of the 32X port

Aerobiz Ultimate turns a 1990s Genesis cartridge into a Sega 32X program. The
stock 68000 game is disassembled into 801 modules; the port adds two SH2
processors that take over work the 68000 is slow at, and a second picture, the
32X layer, in front of or behind the Genesis one. The two sides share eight
16-bit registers, a double frame buffer and one bit (FM) that says who may
touch the 32X video hardware. There is no operating system, no lock and no
message queue: what keeps the sides apart is the order of single register
accesses. That is what the first group of modules is about.

The second group is about the tools in `tools/`. The repository is made with
them: they find the code in the ROM, write the 801 modules, put `ROM_BASE`
before every address so that the same source builds two cartridges, and compare
what the two builds show. They are sequential programs over files, and a mistake
of theirs ends up in a cartridge.

`tlc -config MCX_y.cfg MCX` runs a check, `tlapm XProofs.tla` checks a module of
proofs. PROJECT.json lists every run with its properties, the mutation that each
property was seen to catch, the source lines behind each definition, the hazards
and the findings.

## 1. Inventory

Paths are relative to `src/`. "State" is what survives a call.

**Comm-register RPC** (`disasm/sh2/master/rpc.c`, `disasm/32x/sh2_math.asm`,
`disasm/32x/sh2_lz.asm`). State: the command word, two longword registers that
carry the operands one way and the results the other, a call counter, the SH2's
status word. Operations: the 68000's division thunk `MarsSh2UDiv` and
decompression thunk `MarsSh2Lz`; the SH2's `sh2_service`. The thunks write both
operands, then the command, poll a counted number of times for the SH2 to write
0 over it, and fall back to the stock routine if it does not. Hard: every access
is a race with the other processor; a timeout leaves the command behind.
Correct: a call returns what the stock routine would have, always returns, and
no register is used by both sides at once.

**World map layer** (`disasm/32x/map_screen.asm`, `sh2_rpc_loop`,
`sh2_map_game_begin` and `sh2_map_game_draw` in `fb.c`). State: MAP_STATE (on,
busy, generation, linger), SH2_STATUS, FM, the buffer on screen and the swap in
flight, the 32X mode and the Genesis width, the SH2's view of all these.
Operations: the 68000's V-Blank handler follows the game's screen id; the SH2
draws the map once into each buffer and echoes the generation; the handler then
shows the layer and keeps its palette in step with the game's. The LZ thunk
borrows FM, and the frame buffer, in the middle of it. Hard: four asynchronous
parties (game, V-Blank handler, SH2, display), state read at the top of a loop
and used several frames later, writes that are silently dropped without FM.
Correct: nothing half drawn is shown, no write is dropped, a decompression gets
its own bytes, the layer comes and goes when it should.

**SEGA intro** (`disasm/32x/sega_intro.asm`, `sh2_sega_cover` and
`sh2_sega_spin` in `fb.c`, `InitGameGraphicsMode.asm`). State: which frames have
left pixels in which buffer, the layer's mode and priority, the animation clock.
Operations: cover the screen while the game draws its logo, spin the SH2's own
logo over it, hand over. Hard: drawing may overrun a V-Blank, the SH2 may never
answer, the hand-over must not be seen. Correct: one whole frame at a time, the
logo never bare, the game always gets on.

**LZ decompressor** (`disasm/sh2/master/lz.c`, checked against
`tools/lz_decompress.py`; the stock one is in `EarlyInit.asm`). State: a 16-bit
window, the source word and the bits left in it, the stream pointer shared by
bits and bytes, the output. Hard: eight length classes and nine distance classes
with their own shifts; the limit is tested once a token. Correct: the output is
the code's, and stays inside its buffer.

**LZ transport** (`sh2_lz_job` and the copying half of `MarsSh2Lz`). State:
SDRAM, frame buffer, the caller's work RAM. Correct: the whole block arrives,
and nothing of an older one.

**68000 division** (`disasm/modules/68k/math`: SignedDiv, SignedMod,
UnsignedDivide, UnsignedMod). State: registers. Hard: DIVU and DIVS overflow,
sign bookkeeping, carries through a 32-step shift-and-subtract loop. Correct:
the arithmetic result for every pair of operands. This is the reference the RPC
division has to meet, and its fallback.

**Frame engine** (`vint/VInt_Handler3.asm` and what it calls, `game/GameCommand.asm`
and the `Cmd*.asm` behind it). State: requests and descriptions in work RAM (a flag
to wait on, a copy to make, rows to read back, a blinking object, a palette
animation, a scroll bar), the sprite table, the shadow of VDP register 1, one
staging area for the parameters of every transfer. Operations: 47 commands of the
main line, and the V-Blank interrupt that serves what they leave. Hard: the
interrupt may come between any two stores of a command; some commands wait for it
and some mask it; it fires transfers through the area the commands stage theirs in,
and calls GameCommand itself. Correct: a transfer goes out with the parameters of
the one who asked for it, no half-made sprite table is sent, what is asked for is
done once and as asked, every command returns.

**DMA thunk** (`32x/dma_stub.asm`, `vdp/ConfigVDPDMA.asm`, `SetVDPDisplayBit.asm`).
State: RV, VDP register 1. Operation: one transfer, with the display interrupt off in
the register (and not in its shadow), and RV set if the source is in the cartridge,
which no SH2 can read meanwhile. Hard: it is entered from the main line and from the
interrupt. Correct: RV is set only in a transfer and always given back, and the
register ends as its shadow says.

**Disassembler** (`tools/disasm_regions.py`, `tools/disasm_jtab.py`). State: the
position in a region, the lines printed, the jump tables found. Operations:
decode an instruction, walk over a region with known data ranges, search a block
for dispatches and their tables. Hard: every family of instructions has its own
sizes and extension words, and one wrong length puts everything behind it out of
step; a jump table has no end mark. Correct: every opword is read as the 68000
reads it, no line begins inside an instruction, the tables are the block's own.

**Section rewriting** (`tools/scan_rom_refs.py`, `tools/apply_translation.py`).
State: the section files, each a sequence of lines that the passes find by line
number and by the address in a comment. Operations: the scan, `--rewrite` with or
without `--form`, `--rewrite-indirect`, `--rewrite-tables`,
`--rewrite-dcw-code`, and putting a translated block in the place of its dumped
words. Hard: the passes are run in any order over each other's output; each acts
on line numbers and words read before its first edit; pointers and instructions
begin on one line and end on the next. Correct: the bytes assembled never change
(`make verify`), the comments stay true, and a pass does all it is for.

**Translators** (`tools/translate_block.py`, `tools/translate.py`,
`tools/fix_moveq.py`). State: the functions found in a range, the targets of its
branches, the source written. Hard: the assembler encodes some instructions anew,
a branch may leave its function or the range, signed operands need a sign, a
register list ends where a register is missing. Correct: the source assembles to
the words it was made from, every label it names is written once and in its place;
with the exceptions that section 5 lists.

**Inventories** (`tools/find_dcw_blocks.py`, `tools/gen_call_graph.py`,
`tools/audit_pointer_runs.py`). State: the line read, the block, function or run
being gathered, the report. Hard: what is open goes on over gaps, files and
labels, or must not. Correct: the blocks listed are the stretches of dumped words
of 16 bytes and more, every call is charged once and to the right function, a
table read as data through an immediate or directly is a defect and nothing else
is.

**Capture and comparison** (`tools/vrd_harness.py`, `tools/mapscreen_oracle.py`).
State: the input script being rewritten, the savestates of a run, the verdicts.
Hard: a run is broken at every frame a state is asked of; the 32X layer shows a
frame a tick early, so a state is saved for the next frame too and must not be
taken for a sample; the stock picture is rebuilt from video memory that has tile
0 where the map was, and not every screen with tile 0 is the map. Correct: the game
is played frame for frame, states are saved where they were asked, and a frame
passes when and only when stock would show it, as far as its state can tell.

**Not modelled in this state of the project**

| part | where | what is hard about it |
| --- | --- | --- |
| the other 33 commands | `game/Cmd*.asm` | listed under FrameEngine in section 2: one access to the VDP, the Z80 or a table each, or never called |
| boot and SH2 bring-up | `32x/md_main.asm`, `mars_header.asm`, `master/main.s`, `slave/main.s` | the `M_OK`/`S_OK` words live in the registers the RPC uses next; the master waits for a longword whose halves are the command and the map state |
| SH2 map rendering | `fb.c` | fixed-point window clamps, line table against row slots, airports and arcs. MapLayer takes a blit as "this buffer now holds the map" |
| other arithmetic | `math/Multiply32.asm`, `MulDiv.asm`, ... | straight-line |
| the airline game | 550 modules under `modules/68k/game`, 90 graphics modules | sequential code over tables; enters MapLayer only as the environment that changes the screen, the palette and register 12 and asks for blocks |
| probes and timing tests | `32x/*_probe.asm`, `master/timing_test.c` | measurement cartridges, never in the game |
| asset builders | `tools/make_map_asset.py`, `make_sega_logo.py`, `extract_map.py`, `extract_mars_init.py` | nothing: fixed inputs to fixed outputs at build time, every input there is was tried |
| match_screens | `tools/match_screens.py` | lists runs of equal frames of two builds; what it takes for equal is a matter of images |
| ROM data, documents | `disasm/sections`, `analysis`, `docs` | no behaviour |

How they meet: the game calls division, decompression and the frame engine's
commands without knowing where they run (RPC). The interrupt that serves the
frame engine is the one that runs the map layer's handler; they share none of
the variables modelled. The decompressor's output goes through LZ transport,
which needs FM, which the map layer and the intro also need. The dispatcher loop
of the SH2 alternates between drawing the map and serving commands, so a stuck
draw is a dead RPC, and a dead RPC is a timeout in the thunk. The tools meet
only in the files they read and write: the disassembler's listing feeds the
translators, `find_dcw_blocks` says what is left to translate,
`apply_translation` puts it in, the passes of `scan_rom_refs` go over the result
and `audit_pointer_runs` over theirs; the harness makes the captures that the
oracle compares.

## 2. Modules

| module | models | corresponds to |
| --- | --- | --- |
| RpcService | the abstract promise: ask, then get the stock answer | both thunks' contracts |
| Sh2Rpc | the register protocol, one step per register access | `sh2_math.asm`, `sh2_lz.asm`, `sh2_service` |
| MapLayer | layer, FM arbitration, swap, palette, LZ borrowing FM | `map_screen.asm`, `sh2_rpc_loop`, `fb.c`, `sh2_lz.asm` |
| SegaIntro | cover, spin and hand-over with the display | `sega_intro.asm`, `fb.c` |
| LzCode | the compressed format over a plain queue of bits | `lz_decompress.py` |
| LzDecompress | the SH2's bit reader and tables | `lz.c` |
| LzTransport | SDRAM to frame buffer to caller, in words | `lz.c`, `sh2_lz.asm` |
| Divide68k | the four division routines | `modules/68k/math` |
| FrameEngine | commands of the main line, the V-Blank interrupt and the transfers they share | `GameCommand.asm`, `Cmd*.asm`, `VInt_Handler3.asm`, `dma_stub.asm` |
| Binary | what bit n of a number counts, for LzCode, LzDecompress and Divide68k | |
| Sh2RpcProofs, MapLayerProofs, SegaIntroProofs, LzDecompressProofs, SectionRefsProofs | theorems about the module each is named after | |
| KernelsProofs | theorems about FrameEngine, LzTransport and Divide68k | |
| CaptureProofs | theorems about MapOracle and CaptureScript | |
| BinaryProofs | induction, values of a recursion, weights of bits, quotients and remainders, shared by the last four | |
| Decode68k | what an opword is decoded to, how many words it takes, MOVEM lists | `disasm_regions.py` |
| Formats68k | the reference: the instruction formats of the 68000 | external |
| OperandText | the operands written anew, and the assembler reading them | `translate_block.py`, `translate.py`, `fix_moveq.py` |
| DecodeSweep | all 65,536 words through the two above | |
| DisasmRegion | the walk over code and data | `disasm_regions.py` |
| JumpTables | search for dispatches and tables, the segments made of them | `disasm_jtab.py` |
| SectionRefs | the scan and the passes over a section file | `scan_rom_refs.py`, `apply_translation.py` |
| Translation | listings to source, functions, labels | `translate_block.py`, `translate.py` |
| DumpBlocks | blocks of dumped words and which of them are listed | `find_dcw_blocks.py` |
| CallGraph | callers, callees, statistics | `gen_call_graph.py` |
| PointerRuns | tables, who reads them and at what width | `audit_pointer_runs.py` |
| CaptureScript | scripts cut, or made to save states | `vrd_harness.py` |
| MapOracle | the stock picture rebuilt, frames held against it | `mapscreen_oracle.py` |
| MCKernels, MCTools | several components that share no state, in one run | |
| MC* | instances for TLC | |

Conventions. A definition that a property needs to be *broken* by stands beside
the one it mutates, under a comment that begins "Mutation"; no specification
uses it. Operators keep the source's labels where they have any. In MapLayer the
variables are grouped by party (`hardware`, `shared`, `game`, `thunk`, `loop`).

**Sh2Rpc.** `mpc` and `spc` are the places in the thunk and in `sh2_service`;
`cmd`, `arg0`, `arg1`, `count` the registers; `polls` the `dbra` counter. The
68000 makes one call at a time, because both thunks mask interrupts for the
whole exchange. `alive` turns FALSE when the SH2 is stuck for good (it can be:
see the finding in 5.3). `SlowSH2` says whether the poll budget may also run out
on an SH2 that is merely slow. `tainted` is a history variable: the call began
while an abandoned command was live, or was given up while its operands could
still be overwritten.

**MapLayer.** The 68000's main line and its V-Blank handler interleave the way an
interrupt does: the handler runs to its end (`vpc`) and only where the main line
is not masked. The SH2 loop has a step for each read it makes of shared state:
MAP_STATE twice (a turn whose two reads differ leaves the map as it is), FM once at the top
of the loop. A draw is a V-Blank wait, a blit with a beginning and an end (`cut`
says FM was missing at either), a swap and the wait for FS. With FM = 0 a write
is dropped and a read of FS is either value. A palette copy is one step that may
fail outside V-Blank. A picture is "this buffer holds the whole map"; an LZ block
is the number of its job.

*Time.* Nothing in the code waits for an idle SH2, and models without any notion
of time show behaviours that need one turn of an idle loop to outlast a frame.
`Settled` rules out exactly these: V-Blank starts and ends and the game's own
steps happen when the SH2 is in one of its long steps (a blit, a decompression,
`map_load`, a wait) or has seen everything there is to see. The steps *inside* a
decision stay interleaved with the 68000, which is where the races are, and a
copy may be shorter than a turn of the loop. `MaxSlack` is how many V-Blanks may
fall between the SH2's answer and the dozen masked instructions that take FM
back.

*An answer gone astray.* `slipped` is a history variable, set when the SH2 takes a
command off the register that is not the one it answers, or answers a block while
it still waits for the copy of an earlier one. Those are the two findings 5.2 and
5.4, seen from here. CopyIntact, DrawKeepsFm and the part of ShownIsDrawn about
pixels are stated up to that point. ShownIsStill, HandlerForcesH40 and
DrawnThisVisit hold beyond it.

**SegaIntro.** A buffer is the *set* of frames with pixels in it, so that a frame
drawn over another, or over LZ scratch, shows. `DrawMax` is how many V-Blanks may
start while one frame is drawn. `SegaFrames` and `SegaIdentity` are the length of
the animation and the first of the frames that equal the Genesis logo. The
SH2 may stop at any step.

**LzCode and LzDecompress.** The stream is chosen as it is read, byte by byte, so
a run covers every stream over the given words and bytes. LzCode keeps 16 bits
ready and takes words, control bytes and literals off one pointer in the order
the reference decompressor does. LzDecompress implements it:
`pending` is the window followed by the bits left in the source word, `flags`
the control byte from the shift on. A shift is a multiplication or a division by a
`Weight`; the fields that the code or-s together never overlap, so that it adds them.

**LzTransport.** A byte is the number of the job that wrote it. Copies go word by
word, and both round an odd length up.

**Divide68k.** A register is a number below `B * B` with `B` the K-th power of two;
the code's K is 16. `Weight[n]` (module Binary) is that power, a recursive function, so that
a proof can say what it is made of. `entry` is the routine called; the others fall through to UnsignedDivide
as the code does.

**FrameEngine.** `main` is the label the main line has come to, `handler` the part of
VBlankInt that is next; the main line takes no step inside the handler, and the
handler starts only where `masked` is FALSE and bit 5 of register 1 is on. A store of
the main line is a step of its own wherever the interrupt can tell whether it has
been made; the entries of commands 15 and 16 are written in one step, because the
handler relinks the table before it sends it, and the command sends it once more when
it is through. `dma` is
ConfigVDPDMA, between being asked and done; `staged` says which party wrote each half
of the area at $1D to $42. `shadow` and `reg1` are the two copies of one bit, which
ConfigVDPDMA and commands 12 and 13 take apart. `want`, `seen`, `copied` and `placed`
are history: frames and rows asked for, V-Blanks that have come, the description a
copy was made with, and which row lies in which place. A description is the number
of the call that wrote it, so that two halves of different calls show.

Commands modelled: 5, 26 and 27 (transfers), 15 and 16 (sprites), 11 (the blinking
object), 35 (palette animation), 14 (wait), 8 and 28 (copies and rows left to the
handler), 36 (buttons), 12 and 13 (display), and ConfigScrollBar, which waits a frame
and gives the handler a callback. Of the others, most read or write one register or
table, or speak to the Z80; 31 to 33 and 44 are never called, 34 only once at boot.
Of the handler, the palette and boot flag at $4B, reading the controllers, the
H-Blank counter and the two scroll counters are left out: no command waits for them.

**Decode68k, Formats68k and DecodeSweep.** The decoder is written after the code,
branch for branch, and gives a name, the words read before the operands and the
addresses whose own words follow. Formats68k is written after the processor: a
table of formats with the fields and addressing modes each takes. The two share
nothing, so that they agree on an opword says something. An opword that is no
instruction may be decoded as anything: the tool says dc.w of some and names
others. OperandText stands for the strings that the translators write anew: a
number is a sign and two halves of 16 bits, a register list is two sequences of
ranges, and the assembler's half says which numbers a signed field accepts. What
the disassembler shows of an operand is chosen where it has a choice (a byte bare or
with its sign, a7 as a7 or as sp); operands that are passed on as it shows them
(immediates of most instructions, PC-relative ones, in translate.py indexed ones
and register lists) are not modelled.

**DisasmRegion and JumpTables.** What a region or a block really holds is chosen at
the start (`region`, `block`), the tool sees its words only. Data that reads as a
call, and an instruction behind it, is where a walk gets out of step; a table
ends at the first word that leads out of the block.

**SectionRefs.** A line is what it assembles to, the address its comment claims,
and the positions of its operands that are written with `ROM_BASE`. One run of
the tool over the file is one step, because nothing else touches the file
meanwhile; within it the edits are made in the tool's order, with the line numbers
it read first (`LineOf` and `Place` are that list of words and their lines). `rom`
is the binary built before any pass, which the passes read values from. Where
`--rewrite-indirect` splits a line (`Piece`), the code takes a pointer's value from
the binary at the comment's address and the model from the line's own words, which
is the same while BytesKept and CommentsRight hold. `SharedLines` says whether `--rewrite-dcw-code` may be run when two
sites share a line, which is finding 5.

**Translation.** `Reassembled` is the assembler, as the comments of the translators
and the known issues describe it: a byte immediate loses its high byte, a branch
or `bsr` is encoded anew, dc.w is kept. Listings are instructions with their
words and targets; which of them capstone can decode is part of the listing. A
line that is no dc.w names its target by a label (`ref`) or by its address
(`literal`): translate_block.py splits the operands of a DBcc before it looks for
the two of them together, so that its form with a label is never taken
(`translate_block.py:237`, `:279`). The address is right where the block stands at
its address in the ROM; in a section that is moved, `--rewrite` has to rebase it.

**DumpBlocks, CallGraph, PointerRuns.** One action for each kind of line the loop
tells apart, and one for the end of a file. `Listed` is main's filter, and
`Stretches` says without the loop what should be listed: from a full line outside
the data regions, over short lines, and over no more gap lines than MaxGap. Words of
lines without an address are not counted, by the tool and in `Entry`, so a block
that has such lines is listed shorter than it is. What PointerRuns knows of the code
is the set of `sightings`: references with the width of the first read that follows.

**CaptureScript and MapOracle.** CaptureScript has the frontend beside the tool:
`Played` says what a script does, and the property compares the script read with
the one made. save_script's inner loop is a step for each frame a run is broken at
(`Break`) and one for the rest of the run (`RunOn`); `left` is its `n`. Scripts in
which something follows a quit are left out (CaptureAssumption): the harness would
drop the quit and go on. MapOracle chooses a run of the stock game (`moments`) and
what the build under test showed of it. The game may do anything to the block, lit
or dark and under any screen id (`Changes`): load the map, store the id long before
it is there, fill the block with a tile or with tile 0, as ClearBothPlanes and the
credits do, draw a cell, change the sprites. `Told` says of which moments the state
has what the oracle needs; section 5 lists the others. A picture has one pixel a
cell.

**MCKernels and MCTools** put components that never meet side by side. `part` says
which one a behaviour is about; the variables of the others stay as they are.

## 3. Runs

| run | asks | bounds | distinct states |
| --- | --- | --- | --- |
| rpc_prompt | Does the protocol implement RpcService, and are the registers never fought over, if the SH2 answers in time? | 3 calls | 3,447 |
| rpc_slow | With an SH2 that is slow, hangs, or finds an abandoned command: which calls are still right, do all return, is the command taken? | 3 calls | 188,927 |
| rpc_recover | *(violated)* Does the fallback recover the operands it sent? | 1 call | |
| rpc_late | *(violated)* Is a late answer the right one? | 2 calls | |
| map_safe | Who holds FM, whose bytes are copied, what is on screen, if the game may leave the map at any time? | 2 visits, 2 blocks | 1,568,428 |
| map_live | Does the layer come, follow the palette and go, and do blocks arrive? | 2 visits, 1 block | 318,762 |
| map_stuck | *(violated)* Does every draw end? | 1 visit | |
| map_cut | *(violated)* Does the SH2 wait out every copy, also those too short to see? | 1 visit, 2 blocks | |
| sega_show | What is on screen through the intro, who owns the VDP, does the game get past it? | 7 frames, 3 before the logo, one overrun | 28,232 |
| kernels | Does every transfer go out with one party's parameters, is no sprite table sent half made, is what a command waits for done when it returns, and does it return? Does a block arrive whole and alone? Does the SH2 decoder implement the code, stay in its buffer, and do its tables agree with the code on all 65,536 windows? Is every quotient and remainder the arithmetic one? | 2 sprites, 3 commands in any order; sizes 0-7, 8-byte buffers, 3 blocks; streams of 16 bytes; 6-bit registers, all operands | 379,409 |
| tools | Does each tool say of its input what is true of it, and change only what it may? | below | 869,340 |
| tools_shared | *(violated)* Do the passes keep the bytes of a section where two sites share a line? | one section | |

Why these bounds are enough to be interesting:

- *RPC.* Registers have three bits so that an operand, a quotient, a remainder, a
  stream address and a length can be taken for one another, as they can in the
  real ones. Two polls give a poll that sees the command, one that sees it gone,
  and a timeout. An abandoned call affects the next one, and through the register
  it leaves behind the one after: three calls. CountModulus 4 wraps; nothing
  reads the counter.
- *Map.* Two visits make a stale generation, three values of it would suffice and
  there are four. Two blocks make the state of one wait reach the next. map_safe
  was also run to the end with three visits (5.5 million states) and with three
  blocks (5.0 million). map_live has one block, since a second one multiplies the
  graph in which cycles are looked for. LingerMax 1 tells "still counting" from
  "over". FirstFs fixes the buffer shown at the start: both programs treat the
  two alike.
- *Intro.* With DrawMax 1 each picture takes at most two frames; two pictures of
  the logo are needed before the hand-over, so the animation needs SegaIdentity +
  2 (DrawMax + 1) frames, which is the assumption; with one frame fewer TLC
  finds a hand-over that never happens (SpinGoesOn). The real animation has ample.
- *Frame engine.* Two sprites, of which the second is the blinking object, so that one
  table has an entry the command writes and one the handler writes, and a last link.
  Blink 2 and BarPeriod 2 give V-Blanks with and without work. An animation of two
  frames and delay 2 takes each counter up and round. Rows come in fours: 4 is one
  full pass with nothing left over, 5 is two. Three commands: one to arm something,
  one to change it while the handler is at work, one to be disturbed. A command waits
  for two frames, so the second wait begins where the first ended.
- *LZ.* The words reach every length class, both ends of the end mark, and all
  distance classes that a 420-byte output can hold, at many bit alignments; the
  classes beyond it are in the table check, which is complete. Limit 420 is the
  headroom of 256 plus room for a token, so that the refusal happens.
- *Transport.* Even, odd, empty and refused blocks in any order, so that what is
  left over from a longer one could show.
- *Division.* All operands of a machine with 3-bit half registers: every path,
  every overflow of DIVU and DIVS, the most negative number, are there as in 16.
- *Decoder and operands.* Complete: every opword, every MOVEM mask both ways, every
  16-bit operand, every register list with sp and with a7. The even and the odd
  pages are two behaviours side by side.
- *Regions and blocks.* Three parts: one to lose step in, one to lose, one to find it
  again. Jump tables of one to three entries lead forwards, backwards and out.
- *Sections.* Up to three lines of fourteen kinds, one for each form the scan tells
  apart and each way a pointer or a call can lie on lines; the passes in every order,
  to the end (they cannot go on for ever: each shortens the list of what is left).
  A fourth line adds neighbours of neighbours, which no pass looks at.
- *Listings and inventories.* Up to four lines, or three instructions, or two
  functions: what is open when the next label, file, gap, return or data region
  comes. MaxGap is 1, so that a gap is bridged and another is not; MinBytes is the
  tool's 16, a line of eight words, or two of four.
- *Captures.* Three script lines and every set of frames to save. The oracle has
  three frames (before, this, next), a sparse capture and a dense one, a map of two
  cells (one drawn over or blank, one not), sprites that overlap with opposite
  priorities, and planes in front of and behind them.

CHECK_DEADLOCK is off throughout: the games modelled make a bounded number of
calls and then stop, and a tool comes to the end of its input.

**Fairness.** In Sh2Rpc the 68000 step is weakly fair (it polls a counted loop
with interrupts masked) and the SH2's too while it is alive; CallReturns is
checked under fairness of the 68000 *only*, since a thunk must return whatever
the SH2 does, and CommandServed states the SH2's fairness as its own premise. In
MapLayer the display, the handler and the SH2 loop are weakly fair. The thunk is
strongly fair: an interrupt may stop it in each frame but always leaves it time.
The game is not fair: it may stay anywhere. In FrameEngine the display, the handler
and the transfers are weakly fair, and the main line inside a command is strongly
fair: the interrupt stops it in each frame but always leaves it time. The game is
free to issue no further command. In SegaIntro everything that runs is
weakly fair and stopping is not. The tools have no fairness: their properties are
about what is there at each step, or at the end.

## 4. Properties

*RPC.* `UntaintedCallIsRight`, `OperandsHeld`, `NoRegisterFight`, `CallReturns`,
`CommandServed`, and the refinement `ServiceSpec`.
*Map.* `CopyIntact` (the bytes copied are the block's, for the whole copy),
`DrawKeepsFm` (no part of the picture that is on is dropped), `ShownIsDrawn` (both buffers
whole, and of this visit), `ShownIsStill` (no swap once shown),
`HandlerForcesH40` (no illegal pair of modes), `MapAppears`, `LayerGoes`,
`PaletteCatchesUp`, `LzReturns`.
*Intro.* `OneFrameShown`, `LogoCovered`, `OwnsWhileBusy`, `LeavesNothingUp`,
`SpinGoesOn`, `IntroReturns`.
*Frame engine.* `ParametersWhole` (a transfer has both halves of one party's
parameters, RV only in a transfer from the cartridge, an animation those of one
command), `TableWhole` (no link is missing in what is sent, and between commands video
RAM shows the table), `RegisterIsShadow`, `RequestsServed`, `CommandsReturn`.
*LZ.* `CodeSpec` (refinement), `DecoderRight` (`TokenIsCode`, `WritesInBounds`),
`Delivers`.
*Division.* `DivisionRight` (`ResultRight` and `LoopInvariant`).
*Disassembler.* `DecodesThe68000` (with `ListIsMask`), `RegionsRight` (`InStep`, `TablesFound`).
*Sections.* `BytesKept`, `CommentsRight`, `PassesFinish` (`NothingSafeLeft`: one more
`--rewrite` leaves nothing for the scan to find, whatever was run before;
`PointersPlaced`: `--rewrite-indirect` leaves no pointer dumped side by side;
`CallsEndLines`: no pass makes a line that `--rewrite` would cut short).
*Translators.* `OperandsKept` (`WordKept`, `ShortKept`, `IndexedKept`, `ListKept`),
`TranslationRight` (`SameWords`, `TargetsLabelled`, `FunctionFound`).
*Inventories.* `InventoriesRight` (`StretchesListed`, `CallsCharged`,
`StatisticsRight`, `RunsAreTables`, `DefectsRight`).
*Capture.* `SavedWhereAsked`, `OracleRight` (`VerdictRight`, `SamplesCompared`).

Each stands in its module under a comment with the code it is about; those of the
tools stand in MCTools under the name given here, but for BytesKept, CommentsRight,
OracleRight and SavedWhereAsked: MCTools extends SectionRefs, MapOracle and
CaptureScript, so that the run checks the formulas that are proved. TypeOK of
Sh2Rpc, MapLayer, SegaIntro and FrameEngine is in no run, because it is proved for
every value of the constants.

## 5. Findings

1. **rpc_recover.** `sh2_math.asm:49` says "recover the operands we sent", and
   reads them from the two registers the SH2 writes its results to. An SH2 that
   answers between the last poll and the read makes the fallback divide the
   quotient by the remainder or by the divisor. The LZ thunk does not have this:
   its fallback uses the operands still on its stack.
2. **rpc_late.** `KNOWN_ISSUES.md:305` says a late answer is still the right one.
   It is for the call it belongs to. But the abandoned command stays in the
   register; the SH2, getting to it during the next call, may have fetched the
   old operands, and its write of 0 releases the new call. Both need an SH2 away
   for the whole poll budget, which drawing a map can do to a division.
3. **map_stuck.** `fb.c:366` says that what the game drives "draws a bounded
   amount". The handler switches the map off without asking whether the SH2 is
   drawing. If FM goes before the swap is written, the write is dropped, FS never
   changes and the loop at `fb.c:438` never ends: each later decompression times
   out into the stock routine and the map is gone until reset. map_safe and
   map_live allow this and show what still holds then: up to an answer that goes
   astray nothing half drawn is shown; the layer goes, decompressions return.
4. **map_cut.** `rpc.c:242` says that two V-Blanks after an answer the copy is
   over. `lz_answered_at` is set only when zero and cleared only when a copy is
   seen to be over, so a copy that was never seen leaves its time for the next
   block, whose own copy may then be cut off by a draw, and that draw by the
   copy. fm_seen_low stays the same way: it takes a map left and opened again
   within `map_load`, or a block given up and answered late. Past such an answer
   TLC finds a layer shown with a buffer that was never drawn.

5. **tools_shared.** `scan_rom_refs.py:713` says of `--rewrite-dcw-code` "Back to
   front, so an earlier edit never moves a later one." It does not, but an earlier
   edit may put back what a later one replaced: each writes out its lines as they
   were read before the pass. Where the address of one call ends on the line on
   which the next call stands, the words of the second call are in the section
   twice. `make verify` would catch it; the run `tools` shows that nothing of the
   kind happens while sites lie on lines of their own.

Smaller, and not given a run.

- `lz.c:209` says of the byte that rounds an odd length up that "the 68000 will
  not copy" it; `sh2_lz.asm:94` rounds up too, so it does, one byte past the block.
  `Delivers` states the limit: that byte and no other.
- `disasm_regions.py:312` takes MOVEP for its own family, but the dynamic bit
  operations above it have taken most of it by then. With BSET Dn, CHK, NBCD and
  TRAPV, which the decoder leaves out, these are the families `LeftOut` of
  DecodesThe68000.
- `scan_rom_refs.py:322` replaces a whole dc.w line by one instruction; words behind
  the address would be lost. Lines of dumped calls have three words or end in the
  middle of one, which is what the sections of the run have, and no pass makes others
  of them (CallsEndLines, a part of PassesFinish).
- A dc.l line without a ROM pointer makes `--rewrite` raise an exception
  (`scan_rom_refs.py:364` returns three values of which one is one too many), so it
  stops in the middle of its list of files; SectionRefs has one file, which it then
  leaves alone.
- `translate_block.py:302` writes a short address of $8000 and more as a long one,
  which is one word longer than what it was read from; OperandsKept is about
  the addresses it leaves short.
- `translate_block.py:350` writes an index displacement only if it is positive: a
  negative one that the disassembler shows with its sign is lost, and one that it
  shows as a byte of $80 and more is out of the field's range. IndexedKept says that
  exactly the others are kept.
- `translate_block.py:392` sorts the registers of a MOVEM by their first letter, so
  that a stack pointer shown as `sp` is in neither list. ListKept says that it is the
  only one lost. (`translate.py:229` passes lists and indexed operands on.)
- A branch or DBcc into what is behind the last RTS of a range names a label or an
  address that is never written (`translate_block.py:586`): TargetsLabelled says
  that nowhere else is one missing.
- `translate_block.py:279` is to write a DBcc with a label, and is never reached with
  both operands (`:237`): the target is written as an address, and from $8000 up as
  `($0001D532).l` (`:309`). The label is written as well. Of the other conditions than
  dbra, dbeq, dbne and dbf it does not look at the target at all, so one that leads
  out of the range does not become dc.w.
- `audit_pointer_runs.py:22` says that it follows the address register at each
  reference, and names `lea`; only `movea.l #` is followed. DefectsRight says so.
- `mapscreen_oracle.py:158` says "In a dense capture every frame is one": the second
  frame of a dense capture is skipped as a companion of the first. SamplesCompared
  says that exactly the second in each stretch of states is.
- `mapscreen_oracle.py:70` puts the map into a lit screen of another id whose whole
  block is tile 0. Such screens exist: the credits (`RenderEndingCredits.asm:113`) and
  whatever ClearBothPlanes leaves lit. Nor can the state tell the map when the id has
  moved on and something is drawn over part of it, or when tile 0 is drawn while the
  id is 7, as in the frames between LoadScreenGfx's first store and its last
  (`mapscreen_oracle.py:11` takes every tile 0 for the map). VerdictRight is about the
  frames of which the state tells (`Told`).
- A script that ends before a frame that a state was asked of saves nothing there,
  and says nothing (`vrd_harness.py:137`).

## 6. Proofs

All proofs are checked from nothing by tlapm 1.4.5, without assumptions beyond the
named ones on the constants (`ConstantsAssumption`, `TransportAssumption`,
`EngineAssumption`, `StreamAssumption`, `DivideAssumption`, `OracleAssumption`,
`CaptureAssumption`) and the two bounds that MapLayerProofs names in its theorems, and
what SectionRefsProofs says of the files it is about. The strengthenings IInv, Serving,
Protocol, Intact, OnScreen and CaptureInv were invariants of TLC runs before they were proved.

**Sh2RpcProofs**, for all widths of word, poll budgets, operands and numbers of
calls, about `Safe`:
`TypeCorrect`; `UntaintedCallCorrect`, `OperandsAreHeld`, `RegistersNotFoughtOver`
(the three invariants of the runs); `Implements` (with SlowSH2 = FALSE, `Safe`
implements `Service!Safe`: initial states map to initial states and each step to
a step or a stutter). None of the invariants is inductive. That a result is right
depends on what both registers held at each step in between, so the strengthening
`IInv` says, for each place of the thunk, what the registers and the SH2's copies
hold: `Writing` (the SH2 is between commands and stays there), `Waiting` (either
released, with the results in, or `InService` with the operands in), `Reading`,
`Recovering`, `Finished`, all for untainted calls; `Always` for the facts that
hold of every call; and `Prompt`, that with an SH2 that is never merely slow
nothing is tainted, which is what lifts the invariant to the refinement.

**MapLayerProofs**, for all bounds and timings, about `Safe`: `TypeCorrect`;
`ShownForThisVisit`, the half of ShownIsDrawn that rests on generations
(`DrawnThisVisit`); and `WideWhenShown` (HandlerForcesH40). The last two assume
`MaxVisits < GenModulus`: they are about fewer than sixteen visits, so that no
generation comes round again. The strengthening `VisitInv` follows a generation
on its way: the handler gives a new one to each visit (`Numbered`); what the SH2
has read of it is never ahead of what is announced, and "off" once read stays off
for that generation (`ReadInOrder`); the status echoes only a generation the SH2
has on and has finished (`EchoIsDone`); the layer is shown only on such an echo
(`ShownOnEcho`). DrawnThisVisit alone is not inductive because what a draw will
report is fixed in `sa` and `mapGen` steps before it is reported. TypeOK needs
`Drawing => mapOn /\ draws # 0`, or the countdown of draws could leave its range.

The second half of the module is about the pixels and the bytes, with the same
invariant and more:
`CopiesIntact` (CopyIntact), `WholeMapShown` (all of ShownIsDrawn), `DrawsKeepFm`
(DrawKeepsFm) and `PictureStandsStill` (ShownIsStill). What holds whatever has happened
is `Protocol`: whose turn it is (`Turns`), whom FM belongs to at each place of the thunk
and of the loop (`Owned`), that the flag and the time of a wait for a copy start afresh
(`Waits`), that jobs are numbered as they are started (`Asked`), and that while the layer
is up no draw is left nor any swap outstanding (`Shown`). Protocol alone gives
PictureStandsStill. `Intact` holds until an answer goes astray (findings 2 and 4): from
the answer to the end of the copy the SH2 waits, and the block lies untouched
(`Guarded`); an SH2 that finds FM gone takes by neither of its two rules the copy for
over (`LowUnseen`); a swap lands with FM (`Swaps`); and a draw counted off has left a
whole map in its buffer (`DrawsWhole`). DrawKeepsFm is the reason for most of it: that a
draw is not cut rests on the SH2's not beginning one between its answer and the copy,
which rests on the V-Blanks it counts. So these three theorems assume, besides
`MaxVisits < GenModulus`, that `MaxSlack < AgeLimit`: the thunk takes FM back before
the third V-Blank after the answer, the very time `rpc.c` allows it and a dozen masked
instructions need.

**SegaIntroProofs**, for every length of animation and every overrun:
`OwnsTheVdp` (OwnsWhileBusy) and `NothingLeftUp` (LeavesNothingUp). The invariant
is `Ownership` (FM goes with the places of the thunk, and a live SH2 that is not
idle finds the 68000 waiting), `Service` (its step belongs to the command in the
register) and `Ending` (the spin command releases the register only after it has
blanked the layer). It holds although the SH2 may stop anywhere.

The module also has `TypeCorrect`; what is drawn in a frame, and what a buffer holds
after it, need lemmas of their own (`PictureType`, `PaintType`).

The second half of the module is about what is seen: `WholeFramesShown` (OneFrameShown),
`LogoStaysCovered` (LogoCovered) and `SpinNeverStepsBack` (SpinGoesOn), again for every
length of animation and every overrun, and an SH2 that may stop anywhere. The invariant
`OnScreen` follows the two buffers through the cover (`Covering`, `Covered`: the layer
is in front, and black, from the cover to the spin) and through the spin, where `last`
says what each of them holds and from which frame on (`Remembered`). That the layer is
taken off only over the logo's own picture, in both buffers (`Landing`, `Landed`), is a
matter of time: two identity frames must be drawn before the animation is over.
`InTime` bounds how far the frame due can be past the first of them while one is
missing; with the assumption that the animation goes on for `2 * (DrawMax + 1)` frames
from there it is never past the end. An `InStep` display (a swap lands before the SH2
goes on) is what makes a drawing end in the buffer it began in.

**KernelsProofs, FrameEngine**, for all tables, objects, animations, paces and numbers of
commands: `TypeCorrect`; `TransfersAreWhole` (ParametersWhole), `TablesAreWhole`
(TableWhole) and `ShadowIsTrue` (RegisterIsShadow). None is inductive, because each
speaks of the moment of a transfer and is decided steps before. `Locks` says that
interrupts are masked exactly while a command stages and fires, and whose a transfer
under way is; from it `Staging` follows one half of the parameters after the other
from the store to the VDP. `Described` says that an animation being described does
not run, so that its counters stay below the limits they turn back at; `Shadowed`
what holds between the two stores of a switched display; `Ticking` that the object's
counter, which is only tested for 1, does not pass 0. `Uploaded` is about the sprite
table: where it may be unlinked, and that an upload is `Due` whenever video RAM holds
another. `RequestsAreServed` (RequestsServed) adds `Serving`: what a command has
asked for is either still to be done, with `dispatch` saying so, or done as it was asked.
`CopyServed` keeps the two halves of a description together from the main line's stores
to the copy; `RowsServed` counts the rows read and the rows left against those asked for,
through one or more passes of the handler (`RowsRead` is the pass); `FramesServed` has no
frame counted twice; `ButtonsServed` has no button of an older mask left over.

**KernelsProofs, LzTransport**, for all sizes of block and buffer: `BlockDelivered`. The
invariant `Progress` says at each place how far the block has come (each loop has
moved whole words of a source that is complete), `Sparing` what is left of the
caller's own bytes. `WordCopied` is the one lemma about data: a word more of a
complete source makes the copy two bytes longer. It is where the rounding up is
needed: rounded down, the last byte of an odd block would never arrive.

**LzDecompressProofs**, for every stream, every size of output and any number of tokens:
`DecodesTheCode` (CodeSpec, the refinement of LzCode) and `DecoderIsRight`
(DecoderRight). The one says that what the SH2 writes is what the stream means, the
other that it never writes past its buffer. The invariant `DecoderInv` is short: window
and source word are words, fewer than sixteen bits are left over, the control byte has
only the flags not used yet, the output is within `Limit`. All the work is in the step,
in four parts.
- *Rows of bits.* `BitsOf(v, n)` is the row LzCode works on. What a division by a weight
  leaves is the front of the row, what a remainder leaves its end (`Split`, `Lower`);
  two rows joined are those of `v * Weight[n] + f` (`Join`), and a row's `Value` is the
  number again (`ValueOfBits`). A recursive function over a row is unfolded by `Induction`.
- *lz_read_bits.* `ReadIsCode`: with the window over the bits left in the source word as
  the queue, a call drops n bits and, if fewer were left over, puts the next word behind
  them. `ReadAcross` is the case of the fetch, where the rest of the old word and the
  front of the new one meet in the window.
- *The tables.* `LengthIsCode` and `DistanceIsCode`: the first bit set in a row is the
  test on the window; of the nine classes exactly one takes a number, because their
  ranges lie side by side, so that LzCode's CHOOSE finds the one the cascade of
  comparisons finds. `Behind` is the detail in which the two programs differ most: the
  code reads the whole length, lz.c leaves its last bit on top of the window, clears it
  and shifts it out with the distance. `ExtendedIsCode` is the copy: byte by byte, it
  repeats the last `distance + 1` bytes, also where it reads what it has just written.
- *The refinement.* One lemma a step (`PrimeStep` to `MatchStep`), which shows the step
  of LzCode and the invariant after it. That a match fits rests on the longest length
  there is, 254 (`WindowLength`), against the headroom of 256 in `Overrun`.

**KernelsProofs, Divide68k**, for every width K: `DivisionIsRight` (DivisionRight) and
`DivideTypes`. Registers are halves of K bits, so the proof is about numbers below
`B * B` with B a power of two (`Fits`, `Halves`, `Joined`); that powers of two double
is the definition of `Weight`, and that it defines a function for all numbers the only
induction. The library's induction theorems take an operator; `Induction` (BinaryProofs)
states the same for a *set* of numbers, from the least element of its complement, and
that the provers can use. After j turns of the 32-step loop the quotient so far, the remainder
and the bits still to come make up the dividend: `LoopInvariant` says it with
`Weight[2K - j]`, and `TwoSteps` and `OneStep` carry it over a turn that subtracts and
one that does not. The fast paths need that the quotient of a number and the remainder
are the only two that fit (`QuotientUnique`), and that DIVU overflows just when the
quotient needs more than K bits.

**SectionRefsProofs**, for every section, ROM, set of pointers and forms, and any number
of passes in any order: `SectionBytesKept` (BytesKept) and `SectionCommentsRight`
(CommentsRight). The invariant is both at once, `Stands(source, 1, rom)`: the lines
assemble to the words of the ROM, and each address in a comment is that of the line's
first word. Neither alone is inductive, because apply_translation.py and
`--rewrite-indirect` find the words to replace by the addresses in the comments, and the
addresses they write are counted from there. `Stands(lines, p, words)` is about any
lines anywhere, and made of its parts: lines that stand behind lines that stand do so
together (`StandsTogether`), lines that stand can be taken apart at any line
(`StandsApart`), and other lines with the same words can be put in the place of some
(`Replaced`). Each pass is then a matter of the lines it touches.
- *FlattenSeq* is recursive; `FlatConcat` (words of lines behind words of lines) is the
  induction over sequences that all else rests on, by `Induction` of BinaryProofs.
- *--rewrite* (`RewrittenStands`) changes no word of a line.
- *--rewrite-indirect, --rewrite-tables* (`IndirectStands`): a join of two lines is two
  lines whose addresses meet (`MergeOnceStands`, `MergedStands`); word by word, the
  pieces of a line stand where the words taken so far do (`PieceStands`), a dc.l that
  reaches over the next word included (`Taken`).
- *apply_translation.py* (`AppliedStands`): the lines it finds by address are just those
  with a word in the block, so the first and the last of them are the lines where the
  block begins and ends, and the suffix is what the last one has behind it.
- *--rewrite-dcw-code* (`DcwCodeStands`): back to front, each edit leaves the lines of
  the sites in front of it as they were (`AlikeTo`), which is why places read off the
  file before the first edit are still good at the last. `LongStands` is one edit.

Three hypotheses. `LayoutsRight`: at first the comments give the lines' own addresses;
TLC evaluates it for the sections of the run. `~SharedLines`: `--rewrite-dcw-code` is run
only if no line holds words of two sites' addresses; without it the theorem is false, and
tools_shared is the counterexample (finding 5). `[]CallsEndLines`: a dumped line that
begins with an opcode and an address of the ROM has no word behind them. `--rewrite` puts
one instruction in the place of the line, whatever follows (`scan_rom_refs.py:322`, see
section 5), so this is what the pass takes for granted; whether the other passes can make
such a line depends on the section, and PassesFinish says that they do not in the run's.

**CaptureProofs, MapOracle**, for all drawings, planes and tables of sprites, every run of the
game and every capture, sparse or dense: `OracleIsRight` (OracleRight), whose verdict
is about frames for which, with the next one's, the state tells which cells are the
map's (`Told`). Two ways to the same picture have to be shown alike.
- *The sprites* (`SpritesAgree`): the display takes a list and of it the first sprite
  that is opaque on the pixel; the oracle walks along the links, keeps what it has drawn
  and stops at link 0. After k steps (`Along`, kept by `AlongStep`) the walk is at the
  last sprite of the list so far and has drawn what those before it show. A list that
  runs in a circle ends only by the number of steps, and then has one sprite more than
  the walk; that one came before (`ComesBack`, by the pigeon hole), so it shows nothing
  new (`OnceIsEnough`).
- *The layers* (`FirstIsTopmost`): the first of the oracle's six layers that answers is
  the opaque layer of the greatest height.
- *The map* (`RestoresTheMap`): where the state tells, the cells that the oracle puts
  tiles back into are the map's own, in the light: under the map's id because nothing
  else is tile 0, under another because the block is the map whole or not tile 0
  alone. In the dark it does not matter (`ExpectedIsStock`).

The invariant adds to VerdictRight that the run is one of moments, that the frames still
to be looked at are among the states there are, and that one looked at was compared
unless it had to be skipped (`LookedAt`). A frame asked for is taken for a companion just
when the frame before it was asked for and begins a stretch of states: had that frame a
state only for the sake of the one before, the stretch would begin earlier (`AllSampled`).

**CaptureProofs, CaptureScript**, for every script that plays a frame and has nothing
behind its quit, every set of frames to save at and every frame to cut at:
`CaptureSavesWhereAsked` (SavedWhereAsked). What a script plays is a recursion over its
lines; `PlayedNext` says that one more line is obeyed where the others end, by induction,
and from there on everything is a matter of the last line (`WithRunPlays`, `SavePlays`).
The invariant, `CaptureInv`, has three parts. `InStep`: the lines made so far have played
what the lines read so far play, but for what is left of the run that is being broken,
and have the same mask set. `SavedBehind`: of the frames asked for exactly those that
are no longer pending have been saved, each at its own number; they are not ahead of the
loop, and the pending ones are not behind it, and ahead of it between two runs. `CutAhead`
is the same of a cut. That pieces of a run make up the run is `SteadyOn`. What is made is
the beginning of the game even if the rest of the script is dropped, because no line
takes back what was played (`GameBegins`). That the first frame asked for may be 0 is why
the script must have a run: without one, frame 0 is reached and never saved.

*Only model-checked:* every liveness property (fairness and ENABLED are outside
the prover); whatever MapLayer promises past an answer gone astray; and of the tools the
decoder, the walk, the inventories and the translators, and that the passes over a
section finish (PassesFinish). DecodeSweep is complete as it is: there
is no larger instance of a word. PassesFinish is about what an iteration reaches, not
what it keeps. The others are built from folds of the community modules that take an
operator (FoldLeft, SetToSortSeq), for which the provers have no induction.

*Not checked at all:* what section 1 lists as not modelled, and within the modelled
parts:

- the two halves of a longword register access; a division sent while the map is
  drawn (Sh2Rpc has it as a slow SH2); wrap-around of the 4-bit generation
  (`map_screen.asm:96`), which takes sixteen visits inside one draw;
- what a DMA does to the SH2: FrameEngine has RV and when it is set, and an SH2 that
  stalls on the cartridge is a slow one in Sh2Rpc (`dma_stub.asm:90`). The copy of the
  window body to the stack and the source address split over three VDP registers are left out;
- the register shadows and the colour arithmetic of the palette, and a palette
  write that PEN closes on before the last entry (`map_screen.asm:289`);
- a distance that reaches before the output (`lz.c:155`), a block larger than the
  scratch half of the frame buffer (`:164`), and a refused block, of which the
  caller is told nothing (`:200`): no block of the cartridge is either;
- the boot handshake over the registers of the RPC (`main.s:47`);
- the wording of operands and comments, the list of regions in `disasm_regions.py`'s
  main, `--verify` of the translators, names that `gen_call_graph.py` takes from a
  reference document, the limit of $4000 bytes on `--find-function`, byte immediates
  with a high byte in `translate.py`, which blocks `find_dcw_blocks.py` calls code,
  mixed or data, operands that the translators pass on as they are shown, and
  everything about images but their pixels.

## 7. Plan

Order of importance, what blocks what:

1. **BootHandshake**: both SH2s and the 68000 over the comm registers, composed
   with the first RPC call. Property: no call is made before the dispatcher
   listens, no register is left that looks like a command.
2. **ZoomWindow** from `fb.c`: window inside the source and line table inside the
   slots written, for every zoom step; a theorem in fixed point.
3. **FrameEngine**: the handler's scroll counters.
4. Multiply32 and the helpers built on it.
5. **Tools**: `match_screens.py`, and theorems about the tools besides the passes, the oracle and the captures.

Done so far: the RPC, the map layer, the intro, LZ, division, the frame engine with
its transfers, and the tools but for what 5 names; and of all safety properties of the
port's own code, of the words and addresses of a section, of the oracle and of the
captures, a proof. Components that ask the same kind of question share a run, so
that the number of runs stays small.

------------------------------ MODULE Translation ------------------------------
(***************************************************************************)
(* The translators from a listing of disassembled words to source that the *)
(* assembler turns back into the same words: tools/translate_block.py, a   *)
(* function to a step, and tools/translate.py, a range at once.            *)
(*                                                                         *)
(* A listing is a sequence of [kind, words, target], where kind is "rts",  *)
(* "branch" (bra and bcc), "dbcc" (dbra, dbeq and dbne) or "bsr", to       *)
(* target, "other" or "undecoded"; addresses count words from 0.           *)
(***************************************************************************)
EXTENDS Integers, Sequences, FiniteSets, SequencesExt

CONSTANTS
  Listings,
  NoTarget      \* target of what is no branch

VARIABLES
  listing,
  first, end,   \* the range asked for
  functions,    \* <<start, end>> of the functions found, or <<>>
  targets,      \* addresses that branches of the functions go to
  out,          \* what was written: labels and lines, in order
  tool          \* "none", "block", "range": the translator that was started
  
vars == <<listing, first, end, functions, targets, out, tool>>

Words(items) == FlattenSeq([n \in DOMAIN items |-> items[n].words])
AddressOf(n) == Len(Words(SubSeq(listing, 1, n - 1)))
Size == Len(Words(listing))
Within(n, from, to) == from <= AddressOf(n) /\ AddressOf(n) < to

\* Instructions of the listing that lie in a range, in order.
Inside(from, to) == SelectSeq([n \in DOMAIN listing |-> n], LAMBDA n : Within(n, from, to))

\* A line names its target by its label (`ref`) or by its address (`literal`).
LabelLine(address) ==
  [label |-> address, words |-> <<>>, asWords |-> FALSE, ref |-> NoTarget, literal |-> NoTarget]
WordsLine(words) ==
  [label |-> NoTarget, words |-> words, asWords |-> TRUE, ref |-> NoTarget, literal |-> NoTarget]
CodeLine(words, ref, literal) ==
  [label |-> NoTarget, words |-> words, asWords |-> FALSE, ref |-> ref, literal |-> literal]

---------------------------------------------------------------------------
(* What the assembler makes of a line (vasm as the repository's known      *)
(* issues describe it): dc.w is kept, three kinds of instruction are not.  *)

ByteImmediate(op) == op \div 256 \in {0, 2, 4, 6, 10, 12} /\ (op \div 64) % 4 = 0

Reassembled(line) ==
  LET w == line.words IN
  CASE line.asWords \/ w = <<>> -> w
    [] ByteImmediate(w[1]) /\ Len(w) > 1 -> [w EXCEPT ![2] = @ % 256]
    [] w[1] = \h4EB9 /\ w[2] = 0 /\ w[3] < 32768 -> <<\h4EB8, w[3]>>
    [] w[1] = \h6100 -> [w EXCEPT ![2] = (@ + 2) % 65536]
    [] OTHER -> w

---------------------------------------------------------------------------
(* translate_block.py                                                      *)

\* capstone_to_vasm: what stays dc.w.
KeptAsWords(item) ==
  LET op == item.words[1] IN
  \/ item.kind = "undecoded"
  \/ Len(item.words) > 1 /\ ByteImmediate(op) /\ item.words[2] >= 256
  \/ op = \h4EB9 /\ Len(item.words) = 3
  \/ op \div 256 = \h61 /\ op % 256 # 255      \* bsr.b and bsr.w
  \/ op \in {\h4EBA, \h4EFB}
  \/ Len(item.words) > 1 /\ op \div 4096 = 3 /\ op % 512 = \h03B

\* find_rts_boundaries, or the whole range when there is no RTS.
Functions ==
  LET rts == SelectSeq(Inside(first, end), LAMBDA n : listing[n].kind = "rts")
      Ends == [k \in DOMAIN rts |-> AddressOf(rts[k]) + 1]
  IN IF rts = <<>> THEN <<<<first, end>>>>
     ELSE [k \in DOMAIN rts |-> <<IF k = 1 THEN first ELSE Ends[k - 1], Ends[k]>>]

Targets(items, kinds) == {listing[n].target : n \in {m \in Range(items) : listing[m].kind \in kinds}}

Branches == {"branch", "dbcc"}

\* Mutation: each function's branches are kept only when they stay in it.
StartLocal ==
  /\ tool = "none" /\ tool' = "block"
  /\ functions' = Functions
  /\ targets' = UNION {{t \in Targets(Inside(f[1], f[2]), Branches) : f[1] <= t /\ t < f[2]} : f \in Range(Functions)}
  /\ UNCHANGED <<listing, first, end, out>>

\* collect_all_branch_targets
Start ==
  /\ tool = "none" /\ tool' = "block"
  /\ functions' = Functions
  /\ targets' = UNION {Targets(Inside(f[1], f[2]), Branches) : f \in Range(Functions)}
  /\ UNCHANGED <<listing, first, end, out>>

\* translate_function: a branch out of the range stays dc.w.  The target of a dbcc
\* is written as an address: convert_operands hands convert_single_operand one
\* operand at a time, and its form with a label asks for two.
Translated(n, start) ==
  LET item == listing[n]
      external == item.kind \in Branches /\ ~(first <= item.target /\ item.target < end)
  IN (IF AddressOf(n) \in targets /\ AddressOf(n) # start THEN <<LabelLine(AddressOf(n))>> ELSE <<>>)
       \o <<IF external \/ KeptAsWords(item) THEN WordsLine(item.words)
            ELSE IF item.kind = "dbcc" THEN CodeLine(item.words, NoTarget, item.target)
            ELSE CodeLine(item.words, item.target, NoTarget)>>

EmitFunction ==
  /\ tool = "block" /\ functions # <<>>
  /\ LET start == Head(functions)[1]
         items == Inside(start, Head(functions)[2])
     IN out' = out \o (IF start \in targets THEN <<LabelLine(start)>> ELSE <<>>)
                   \o FlattenSeq([k \in DOMAIN items |-> Translated(items[k], start)])
  /\ functions' = Tail(functions)
  /\ UNCHANGED <<listing, first, end, targets, tool>>

---------------------------------------------------------------------------
(* translate.py                                                            *)

ForcedWords == {\h4EB9, \h6100, \h4EBA}

\* The disassembler stops at the first word it cannot decode; the words from
\* there on are written as they are.  A range is taken to start with code, and to
\* hold no byte immediate with a high byte: this translator does not look for one.
TranslateRange ==
  LET inside  == Inside(first, end)
      stops   == {k \in DOMAIN inside : listing[inside[k]].kind = "undecoded"}
      decoded == SubSeq(inside, 1, IF stops = {} THEN Len(inside)
                                   ELSE (CHOOSE k \in stops : \A j \in stops : k <= j) - 1)
      rest    == SubSeq(inside, Len(decoded) + 1, Len(inside))
      \* collect_branch_targets, only where an instruction was decoded
      labels == Targets(decoded, Branches \cup {"bsr"}) \cap {AddressOf(n) : n \in Range(decoded)}
      \* classify_instruction
      Emitted(n) ==
        LET item == listing[n]
            asWords == \/ item.words[1] \in ForcedWords
                       \/ item.kind \in Branches \cup {"bsr"} /\ item.target \notin labels
        IN (IF AddressOf(n) \in labels THEN <<LabelLine(AddressOf(n))>> ELSE <<>>)
             \o <<IF asWords THEN WordsLine(item.words) ELSE CodeLine(item.words, item.target, NoTarget)>>
  IN /\ tool = "none" /\ decoded # <<>>
     /\ \A n \in Range(decoded) : ByteImmediate(listing[n].words[1]) => listing[n].words[2] < 256
     /\ tool' = "range"
     /\ out' = FlattenSeq([k \in DOMAIN decoded |-> Emitted(decoded[k])])
                 \o [k \in DOMAIN rest |-> WordsLine(listing[rest[k]].words)]
     /\ UNCHANGED <<listing, first, end, functions, targets>>

---------------------------------------------------------------------------
(* find_function: backwards word by word, forwards instruction by          *)
(* instruction, over what may be read as code.                             *)

Returns == {\h4E75, \h4E73}

\* Mutation: the function starts at the return before it.
FoundAtReturn(address) ==
  LET words == Words(listing)
      behind == {a \in 0..address - 1 : words[a + 1] \in Returns}
      start == IF behind = {} THEN address ELSE CHOOSE a \in behind : \A b \in behind : b <= a
      ahead == {n \in DOMAIN listing : AddressOf(n) > start /\ listing[n].words[1] \in Returns}
  IN <<start, IF ahead = {} THEN start ELSE 1 + AddressOf(CHOOSE n \in ahead : \A m \in ahead : n <= m)>>

FoundFunction(address) ==
  LET words == Words(listing)
      behind == {a \in 0..address - 1 : words[a + 1] \in Returns}
      start == IF behind = {} THEN address ELSE 1 + CHOOSE a \in behind : \A b \in behind : b <= a
      ahead == {n \in DOMAIN listing : AddressOf(n) >= start /\ listing[n].words[1] \in Returns}
  IN <<start, IF ahead = {} THEN start ELSE 1 + AddressOf(CHOOSE n \in ahead : \A m \in ahead : n <= m)>>

Init ==
  /\ listing \in Listings
  /\ first \in {AddressOf(n) : n \in DOMAIN listing}
  /\ end \in {Size} \cup {AddressOf(n) : n \in DOMAIN listing} /\ first < end
  /\ functions = <<>> /\ targets = {} /\ out = <<>> /\ tool = "none"

Next == Start \/ EmitFunction \/ TranslateRange
Spec == Init /\ [][Next]_vars

---------------------------------------------------------------------------
Finished == tool = "range" \/ (tool = "block" /\ functions = <<>>)

\* Where the translation ends: translate_block.py leaves what follows the last
\* RTS out, and the header it writes says so.
TranslatedTo ==
  LET rts == {n \in Range(Inside(first, end)) : listing[n].kind = "rts"}
  IN IF tool = "range" \/ rts = {} THEN end
     ELSE 1 + AddressOf(CHOOSE n \in rts : \A m \in rts : m <= n)

\* The source written assembles to the words it was made from, each once and in
\* order, although the assembler encodes some instructions anew.
SameWords ==
  Finished =>
    FlattenSeq([n \in DOMAIN out |-> Reassembled(out[n])]) =
      Words([k \in DOMAIN Inside(first, TranslatedTo) |-> listing[Inside(first, TranslatedTo)[k]]])

Defined(address) == Cardinality({n \in DOMAIN out : out[n].label = address})
LabelAt(address) ==
  \E n \in DOMAIN out :
    out[n].label = address /\ address = first + Len(Words(SubSeq(out, 1, n)))

\* The targets that the branches written name, by label or by address.
NamedTargets == UNION {{out[n].ref, out[n].literal} : n \in DOMAIN out} \ {NoTarget}

\* Every target that a branch names lies in the range, and its label is written
\* once, at the address it stands for, across functions too: a branch out of the
\* range becomes dc.w "to avoid unresolvable label references"
\* (translate_function).  What is named behind the last RTS, where
\* translate_block.py writes nothing, is all that has no label.
TargetsLabelled ==
  Finished =>
    \A target \in NamedTargets :
      /\ first <= target /\ target < end
      /\ IF target < TranslatedTo THEN Defined(target) = 1 /\ LabelAt(target)
                                 ELSE Defined(target) = 0

\* --find-function: of any instruction in a listing with no return opcode among its
\* operands, the function that holds it: from behind the return before it to the
\* first return from there, with none in between.
FunctionFound ==
  /\ tool = "none" /\ first = 0 /\ end = Size
  /\ (\A n \in DOMAIN listing : \A k \in 2..Len(listing[n].words) : listing[n].words[k] \notin Returns)
  =>
    \A n \in DOMAIN listing :
      LET found == FoundFunction(AddressOf(n))
          inside == Inside(found[1], found[2])
      IN found[1] < found[2] =>
           /\ n \in Range(inside)
           /\ \A m \in Range(inside) :
                listing[m].words[1] \in Returns <=> AddressOf(m) = found[2] - 1
=============================================================================

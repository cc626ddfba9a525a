------------------------------- MODULE CallGraph -------------------------------
(***************************************************************************)
(* The call graph of tools/gen_call_graph.py: one pass over the lines of   *)
(* the section files, which charges every call to the function label before*)
(* it, and the statistics made of the two tables.                          *)
(***************************************************************************)
EXTENDS Integers, Sequences, FiniteSets, Bags, BagsExt

CONSTANTS
  Programs,  \* programs: sequences of section files, each a sequence of [kind, name],
             \* where kind is "label", "auto" (an l_xxxxx label), "call" or "other"
  MaxLines,  \* bound: lines of a file
  TopLevel   \* what calls before the first function label are charged to

VARIABLES
  program,
  section, next,     \* the line to look at
  function,          \* current_function
  labels,            \* all_function_labels
  callees,           \* all_callees
  callersOf, calleesOf   \* bags of <<callee, caller>> and of <<caller, callee>>

vars == <<program, section, next, function, labels, callees, callersOf, calleesOf>>

InFile == section <= Len(program) /\ next <= Len(program[section])
line == program[section][next]
Read == InFile /\ next' = next + 1 /\ UNCHANGED <<program, section>>

FunctionLabel ==
  /\ Read /\ line.kind = "label"
  /\ function' = line.name
  /\ labels' = labels \cup {line.name}
  /\ UNCHANGED <<callees, callersOf, calleesOf>>

Call ==
  /\ Read /\ line.kind = "call"
  /\ callees' = callees \cup {line.name}
  /\ callersOf' = BagAdd(callersOf, <<line.name, function>>)
  /\ calleesOf' = BagAdd(calleesOf, <<function, line.name>>)
  /\ UNCHANGED <<function, labels>>

\* A label made from an address leaves the function alone, as any other line does.
Pass ==
  /\ Read /\ line.kind \in {"auto", "other"}
  /\ UNCHANGED <<function, labels, callees, callersOf, calleesOf>>

\* Mutation: the function goes on into the next file.
NextFileGoesOn ==
  /\ section <= Len(program) /\ next > Len(program[section])
  /\ section' = section + 1 /\ next' = 1
  /\ UNCHANGED <<program, function, labels, callees, callersOf, calleesOf>>

NextFile ==
  /\ section <= Len(program) /\ next > Len(program[section])
  /\ section' = section + 1 /\ next' = 1 /\ function' = TopLevel
  /\ UNCHANGED <<program, labels, callees, callersOf, calleesOf>>

Init ==
  /\ program \in Programs
  /\ section = 1 /\ next = 1 /\ function = TopLevel
  /\ labels = {} /\ callees = {} /\ callersOf = EmptyBag /\ calleesOf = EmptyBag

Next == FunctionLabel \/ Call \/ Pass \/ NextFile
Spec == Init /\ [][Next]_vars

---------------------------------------------------------------------------
(* format_call_graph                                                       *)

Restricted(bag, Test(_)) == [pair \in {p \in DOMAIN bag : Test(p)} |-> bag[pair]]
TotalCalls(callee) == BagCardinality(Restricted(callersOf, LAMBDA pair : pair[1] = callee))
CallSites == BagCardinality(callersOf)

Leaves == {f \in labels : ~\E pair \in DOMAIN calleesOf : pair[1] = f}
Roots == {f \in labels : TotalCalls(f) = 0}
Unlabeled == callees \ labels

---------------------------------------------------------------------------
\* The calls on the lines read so far: [section, line].
CallLines ==
  {<<s, n>> \in (1..Len(program)) \X (1..MaxLines) :
     /\ n <= Len(program[s]) /\ program[s][n].kind = "call"
     /\ s < section \/ (s = section /\ n < next)}

\* The function label a line stands under: the last one before it in its file.
Under(s, n) ==
  LET before == {m \in 1..n - 1 : program[s][m].kind = "label"}
  IN IF before = {} THEN TopLevel
     ELSE program[s][CHOOSE m \in before : \A k \in before : k <= m].name

\* Every call is charged once to the function it stands under, in its own file,
\* and both tables say so: callers_of and callees_of are one relation.
CallsCharged ==
  \A caller \in labels \cup {TopLevel}, callee \in callees :
    LET count == Cardinality({c \in CallLines :
                   program[c[1]][c[2]].name = callee /\ Under(c[1], c[2]) = caller})
    IN /\ CopiesIn(<<callee, caller>>, callersOf) = count
       /\ CopiesIn(<<caller, callee>>, calleesOf) = count

\* The report's statistics are about the whole program: its call sites are all
\* counted, a root is called from no file and nothing stands under a leaf.
StatisticsRight ==
  section > Len(program) =>
    /\ CallSites = Cardinality(CallLines)
    /\ \A f \in labels :
         /\ f \in Roots <=> \A c \in CallLines : program[c[1]][c[2]].name # f
         /\ f \in Leaves <=> \A c \in CallLines : Under(c[1], c[2]) # f
=============================================================================

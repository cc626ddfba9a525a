----------------------------- MODULE CaptureScript -----------------------------
(***************************************************************************)
(* tools/vrd_harness.py: the input of a game, as a debugger script, made   *)
(* into a script that saves a state at each of a set of frames             *)
(* (save_script), or that stops at a frame (cut_script).                   *)
(***************************************************************************)
EXTENDS Integers, Sequences, FiniteSetsExt

CONSTANTS
  Scripts,  \* sequences of [op, n]: "run" n frames, "joypad" mask n, "save", "quit"
  SaveAt,   \* the sets of frames that states are asked of
  CutAt     \* the frames that scripts are cut at

VARIABLES
  script,
  harness,   \* "save" or "cut"
  saveAt,    \* the frames asked for: one to cut at, or any to save at
  read,      \* lines read
  left,      \* frames left of the run that is being broken, or NoRun
  pending, at, made,
  finished

capture == <<script, harness, saveAt, read, left, pending, at, made, finished>>

Commands == [op : {"run", "joypad", "save", "quit"}, n : Nat]
Command(op, n) == [op |-> op, n |-> n]
NoRun == -1

\* A script plays a frame, and nothing follows a quit.
ASSUME CaptureAssumption ==
  /\ \A s \in Scripts :
       /\ s \in Seq(Commands)
       /\ \E k \in DOMAIN s : s[k].op = "run"
       /\ \A k \in DOMAIN s : s[k].op = "quit" => k = Len(s)
  /\ \A frames \in SaveAt : frames \subseteq Nat
  /\ CutAt \subseteq Nat

---------------------------------------------------------------------------
\* The frontend that plays a script: the mask each frame is played with, and the
\* frames after which a state was saved.
Power == [frames |-> <<>>, mask |-> 0, saved |-> {}, on |-> TRUE]
Obey(st, l) ==
  [frames |-> IF st.on /\ l.op = "run" THEN st.frames \o [k \in 1..l.n |-> st.mask] ELSE st.frames,
   mask   |-> IF st.on /\ l.op = "joypad" THEN l.n ELSE st.mask,
   saved  |-> IF st.on /\ l.op = "save" THEN st.saved \cup {<<l.n, Len(st.frames)>>} ELSE st.saved,
   on     |-> st.on /\ l.op # "quit"]
Played(lines) ==
  LET After[k \in 0..Len(lines)] == IF k = 0 THEN Power ELSE Obey(After[k - 1], lines[k])
  IN After[Len(lines)]

---------------------------------------------------------------------------
Reading == ~finished /\ left = NoRun /\ read < Len(script)
line == script[read + 1]
IsInput(l) == l.op \notin {"save", "quit"}

\* A save or quit of the script is not input.
SkipLine ==
  /\ Reading /\ ~IsInput(line)
  /\ read' = read + 1
  /\ UNCHANGED <<script, harness, saveAt, left, pending, at, made, finished>>

CopyLine ==
  /\ Reading /\ IsInput(line) /\ line.op # "run"
  /\ read' = read + 1 /\ made' = Append(made, line)
  /\ UNCHANGED <<script, harness, saveAt, left, pending, at, finished>>

\* The lines, and a run of n frames behind them if there are any.
WithRun(lines, n) == IF n = 0 THEN lines ELSE Append(lines, Command("run", n))

---------------------------------------------------------------------------
(* save_script: a run is broken at each pending frame within it.           *)

Run ==
  /\ harness = "save" /\ Reading /\ line.op = "run"
  /\ left' = line.n
  /\ read' = read + 1
  /\ UNCHANGED <<script, harness, saveAt, pending, at, made, finished>>

Due == pending # {} /\ at + left >= Min(pending)

\* Mutation: the next step is counted from where this one began.
BreakInPlace ==
  LET frame == Min(pending)
  IN /\ left # NoRun /\ Due
     /\ made' = Append(WithRun(made, frame - at), Command("save", frame))
     /\ left' = left - (frame - at)
     /\ pending' = pending \ {frame}
     /\ UNCHANGED <<script, harness, saveAt, read, at, finished>>

\* A save is named after the frame it is asked at.
Break ==
  LET frame == Min(pending)
  IN /\ left # NoRun /\ Due
     /\ made' = Append(WithRun(made, frame - at), Command("save", frame))
     /\ at' = frame
     /\ left' = left - (frame - at)
     /\ pending' = pending \ {frame}
     /\ UNCHANGED <<script, harness, saveAt, read, finished>>

\* The rest of the run.  When no frame is pending, what follows is dropped.
RunOn ==
  /\ left # NoRun /\ ~Due
  /\ made' = WithRun(made, left)
  /\ at' = at + left
  /\ left' = NoRun
  /\ finished' = (pending = {})
  /\ UNCHANGED <<script, harness, saveAt, read, pending>>

---------------------------------------------------------------------------
(* cut_script: the last run is shortened, and what follows it is dropped.  *)

CutRun ==
  LET frame == Min(saveAt)
      last == at + line.n >= frame
  IN /\ harness = "cut" /\ Reading /\ line.op = "run"
     /\ finished' = last
     /\ at' = IF last THEN at ELSE at + line.n
     /\ made' = IF last THEN WithRun(made, frame - at) ELSE Append(made, line)
     /\ read' = read + 1
     /\ UNCHANGED <<script, harness, saveAt, left, pending>>

---------------------------------------------------------------------------
EndOfScript ==
  /\ ~finished /\ left = NoRun /\ read = Len(script)
  /\ finished' = TRUE
  /\ UNCHANGED <<script, harness, saveAt, read, left, pending, at, made>>

CaptureInit ==
  /\ script \in Scripts
  /\ \/ harness = "save" /\ saveAt \in SaveAt
     \/ harness = "cut" /\ saveAt \in {{f} : f \in CutAt}
  /\ pending = IF harness = "save" THEN saveAt ELSE {}
  /\ read = 0 /\ left = NoRun /\ at = 0 /\ made = <<>> /\ finished = FALSE

\* What the caller gets: the harness's own quit, or the caller's commands (here a
\* save) at the cut.
Made ==
  Append(made, IF harness = "save" THEN Command("quit", 0) ELSE Command("save", Min(saveAt)))

CaptureNext == SkipLine \/ CopyLine \/ Run \/ Break \/ RunOn \/ CutRun \/ EndOfScript

CaptureSpec == CaptureInit /\ [][CaptureNext]_capture

---------------------------------------------------------------------------
\* The script made plays the game's input frame for frame, however its runs are
\* broken; each frame asked for that the script reaches gets its state, saved at
\* that frame and under its name, and no other does; what is appended to a cut
\* script happens at its frame, or at the end of a shorter game (save_script,
\* cut_script).
SavedWhereAsked ==
  finished =>
    LET game == Played(script).frames
        replay == Played(Made)
    IN /\ replay.frames = SubSeq(game, 1, Len(replay.frames)) /\ Len(replay.frames) <= Len(game)
       /\ harness = "save" => replay.saved = {<<f, f>> : f \in {g \in saveAt : g <= Len(game)}}
       /\ harness = "cut" =>
            replay.saved = {<<f, IF f <= Len(game) THEN f ELSE Len(game)>> : f \in saveAt}
=============================================================================

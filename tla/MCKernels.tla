------------------------------ MODULE MCKernels ------------------------------
\* Four components that share no state, in one run: the frame engine of the
\* 68000, the way of a block from the SH2 to its caller, the decoder of its
\* stream, and the division routines.  `part` says which one a behaviour
\* exercises; the others stay as they start.
EXTENDS FrameEngine, LzTransport, LzDecompress, Divide68k

VARIABLE part

frame == vars

\* Streams: every class of length, the classes of distance that fit the output,
\* and the end mark, at many alignments.
MCControls == {128, 80}
MCLiterals == {0, 7}
MCWords == {<<45, 18>>, <<24, 12>>, <<0, 3>>, <<6, 44>>, <<69, 49>>, <<252, 1>>, <<246, 7>>, <<131, 64>>}

\* Blocks: even, odd, empty and refused.
MCLengths == 0..7

\* A palette animation of two frames, and blocks read back in one full pass and in
\* two.
MCAnimations == {[frames |-> 2, delay |-> 2]}
MCRows == {4, 5}

\* The display of a part that is not exercised is off, so that no V-Blank is due
\* in it.
KernelsInit ==
  /\ Init /\ TransportInit /\ DecoderInit /\ DivideInit
  /\ part \in {"frame", "transport", "stream", "divide"}
  /\ part # "divide" => <<entry, a, b>> = <<"SignedDiv", 0, 1>>
  /\ part # "frame" => ~shadow

KernelsNext ==
  \/ part = "frame" /\ Next /\ UNCHANGED <<part, transport, decoder, divide>>
  \/ part = "transport" /\ TransportNext /\ UNCHANGED <<part, frame, decoder, divide>>
  \/ part = "stream" /\ DecoderNext /\ UNCHANGED <<part, frame, transport, divide>>
  \/ part = "divide" /\ DivideNext /\ UNCHANGED <<part, frame, transport, decoder>>

KernelsSpec ==
  KernelsInit /\ [][KernelsNext]_<<part, frame, transport, decoder, divide>> /\ Fairness
=============================================================================

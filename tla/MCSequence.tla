----------------------------- MODULE MCSequence -----------------------------
(***************************************************************************)
(* Two blocks; lines that mention one of them, both, one twice, or none,   *)
(* with a template that was learnt, that was learnt by the miner only, or  *)
(* that is unknown.                                                        *)
(***************************************************************************)
EXTENDS SequenceScorer

Of(blocks, template) == [blocks |-> blocks, template |-> template]

Alloc == Of(<<"b1">>, 1)
Move == Of(<<"b1", "b2">>, 4)
Twice == Of(<<"b2", "b2">>, 9)
Unmatched == Of(<<"b2">>, UNKNOWN_TEMPLATE_ID)
NoBlock == Of(<<>>, 1)

MCFiles == {
    <<NoBlock>>,
    <<Move>>,
    <<Twice, Move>>,
    <<Move, Alloc, Unmatched>>,
    <<Alloc, Twice, NoBlock, Alloc, Move, Alloc>>,
    <<Move, Move, Move, Move, Unmatched>>}

MCValidations == {
    <<<<1>>>>,
    <<<<1>>, <<4>>>>,
    <<<<1, 4>>, <<4>>, <<1, 4>>, <<4, 4, 1>>>>,
    <<<<1, 1>>, <<1, 4, 4>>, <<4>>, <<1>>, <<4, 1, 9>>, <<9>>, <<1, 1>>>>}

(* A network that tells all contexts and targets apart, more or less.       *)
MCSurprise(context, target) == (context[1] * 3 + context[2] * 5 + target * 4 + 2) % 11
=============================================================================

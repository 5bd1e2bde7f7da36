--------------------------- MODULE SequenceParsing ---------------------------
(***************************************************************************)
(* libs/logsage_common/sequence_parsing.py: what training, evaluation and  *)
(* serving share - which line belongs to which block, and the template ids *)
(* of the miner.                                                           *)
(*                                                                         *)
(* A line is a record of the blocks it mentions, in order, and of the      *)
(* template the miner matches it with (UNKNOWN_TEMPLATE_ID if none).       *)
(***************************************************************************)
EXTENDS Lists

UNKNOWN_TEMPLATE_ID == -1

Mentions(line) == Distinct(line.blocks)

(* Which line mentions which block, in the order of the loops.              *)
AllPairs(lines) ==
    FlattenSeq([i \in DOMAIN lines |->
                  [k \in DOMAIN Mentions(lines[i]) |-> [block |-> Mentions(lines[i])[k], line |-> i]]])

(* The blocks in the order in which they come up, as in the dict.           *)
BlockOrder(lines) ==
    LET pairs == AllPairs(lines) IN Distinct([k \in DOMAIN pairs |-> pairs[k].block])

(* The lines of every block.                                                *)
GroupByBlock(lines) ==
    LET pairs == AllPairs(lines)
        indices(mine) == [k \in DOMAIN mine |-> mine[k].line]
    IN  [b \in ToSet(BlockOrder(lines)) |->
            indices(Pick(pairs, {k \in DOMAIN pairs : pairs[k].block = b}))]
=============================================================================

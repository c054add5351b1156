----------------------------- MODULE MCPipeline -----------------------------
(***************************************************************************)
(* Small instances of Pipeline for TLC.                                    *)
(***************************************************************************)
EXTENDS PipelineAbstraction

CONSTANTS a1, a2, a3

Good      == [oversized |-> FALSE, magic |-> "png", readable |-> TRUE]
Huge      == [oversized |-> TRUE, magic |-> "other", readable |-> TRUE]
Empty     == [oversized |-> FALSE, magic |-> "other", readable |-> FALSE]
Corrupted == [oversized |-> FALSE, magic |-> "pdf", readable |-> FALSE]

AllFiles == {Good, Huge, Empty, Corrupted}

GoodFiles == {Good}

=============================================================================

-------------------------- MODULE MCCheckpointChain --------------------------
(* Three shards.  A module's weight and its scale, or the tensors of an       *)
(* expert, may be in different shards, an MTP tensor is in one that is        *)
(* rewritten, and one shard is left as it is.                                 *)
EXTENDS CheckpointChain

MCGroup0 == {"attn", "mlp"}
MCResidual == {"attn"}
MCBaseShard ==
  [k \in BaseKeys |->
     IF k[1] = "rest" THEN 3
     ELSE IF k \in {<<"attn", "scale">>, <<"gate", "global">>, <<"mlp", "weight">>} THEN 2 ELSE 1]
Layout(second) == [k \in OverlayKeys |-> IF k \in second THEN 2 ELSE 1]
\* Two revisions of the overlay that lay out their tensors differently.
MCOverlayShard ==
  [pinned |-> Layout({<<"mlp", "weight">>, <<"gate", "input">>, <<"up", "scale">>}),
   other |-> Layout({<<"attn", "weight">>, <<"down", "scale">>})]
\* No tool of the chain reads the BF16 stage, and its tool reads none of theirs.
MCTogether == {{"bf16"}, ToSet(Chain)}
===============================================================================

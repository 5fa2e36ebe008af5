---------------------------- MODULE MCShardReader ----------------------------
(* Two shard files, of three cells of tensors and of one, for TLC; a run that *)
(* maps its files may have compressed ones.                                   *)
EXTENDS ShardReader

TwoWidths == <<<<1, 2>>, <<1>>>>
=============================================================================

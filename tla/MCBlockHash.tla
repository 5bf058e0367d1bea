----------------------------- MODULE MCBlockHash ----------------------------
(* BlockHash on small files; the bounds are in the cfg file. *)
EXTENDS BlockHash
=============================================================================

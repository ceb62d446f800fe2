---------------------------- MODULE EmbeddingMC -----------------------------
(* Two sections, a page and a batch of two chunks; contents that fit, that need halving, *)
(* and whose first chunk is too long even in halves while the halves of the second have  *)
(* ordinals too great for the column; a chunk of an older plan of a lost section.        *)
EXTENDS Embedding

CONSTANTS short, long, huge, old

MCText == (short :> <<1>>) @@ (long :> <<3, 1>>) @@ (huge :> <<5, 3>>)

MCExisting == <<short, None, short>>

MCLeftovers == {[section |-> 2, content |-> long, ordinal |-> 1, size |-> 1, plan |-> old]}
=============================================================================

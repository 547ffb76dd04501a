----------------------------- MODULE MCContentSync -----------------------------
(* Two contents that share a media file; each has one more, of the first it   *)
(* is rendered, of the second it is media too.  The test card is one image.   *)
EXTENDS ContentSync, TLC

CONSTANTS contentA, contentB, card, onlyA, shared, onlyB, cardImage

MCContents == {contentA, contentB}
MCFiles    == {onlyA, shared, onlyB, cardImage}
MCRendered == {onlyA, cardImage}
MCFileSets ==
  (contentA :> {onlyA, shared}) @@ (contentB :> {shared, onlyB}) @@ (card :> {cardImage})
================================================================================

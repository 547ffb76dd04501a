----------------------------- MODULE MCGstPlayer -----------------------------
(* A scene with an image and a video, the same list under another overlay, *)
(* a single image, and a scene with no media.                               *)
EXTENDS GstPlayer

CONSTANTS both, relabelled, single, bare, image, video

MCScenes == {both, relabelled, single, bare}
MCFiles == {image, video}
MCPlaylist ==
  [s \in MCScenes |-> CASE s \in {both, relabelled} -> <<image, video>>
                        [] s = single -> <<image>>
                        [] OTHER -> <<>>]
===============================================================================

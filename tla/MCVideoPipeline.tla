-------------------------- MODULE MCVideoPipeline --------------------------
(* VideoPipeline with two cameras, the floor searched in one of them, as   *)
(* config/pipeline.yaml does with one camera of four.                      *)
EXTENDS VideoPipeline

CONSTANTS c1, c2

MCCams == {c1, c2}
MCFloorCams == <<c1>>

=============================================================================

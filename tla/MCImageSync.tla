---------------------------- MODULE MCImageSync ----------------------------
(* ImageSync with the image topics of the launch file in the order of its  *)
(* list: infra1 and infra2 of camera2, then those of camera1, which come   *)
(* first in the map.                                                       *)
EXTENDS ImageSync

Launch == <<3, 4, 1, 2>>

=============================================================================

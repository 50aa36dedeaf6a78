------------------------ MODULE MCContainerLifecycle ------------------------
(* Instances of ContainerLifecycle for TLC.  The spawns are model values;  *)
(* no symmetry is used, since the run checks liveness too.                 *)
EXTENDS ContainerLifecycle
=============================================================================

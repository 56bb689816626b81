--------------------------- MODULE MCTokenRotation --------------------------
(* One machine over several rotations.  With RotateAfter = 3 and Grace = 2 a
   token is, in turn, fresh, past the grace period of its predecessor, and due. *)
EXTENDS TokenRotation

(* One lost answer among many that arrive. *)
OnlyLoss == {"loss"}
=============================================================================

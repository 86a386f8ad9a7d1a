------------------------ MODULE MCAttachmentLifecycle ------------------------
(* The instance of AttachmentLifecycle that TLC checks: a message with one  *)
(* image and three upsets, or a video with its first frame and none.        *)
EXTENDS AttachmentLifecycle

CONSTANTS v, f

VideoAndFrame == {v, f}
OnlyFrame == {f}
OnlyVideo == {v}
Upsets == 0 :> 0 @@ 1 :> 3 @@ 2 :> 0
=============================================================================

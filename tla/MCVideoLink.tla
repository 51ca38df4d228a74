---------------------------- MODULE MCVideoLink ----------------------------
(* Small instances of VideoLink for TLC.                                   *)
EXTENDS VideoLinkInv
=============================================================================

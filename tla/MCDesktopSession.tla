------------------------- MODULE MCDesktopSession -------------------------
(***************************************************************************)
(* The instance of DesktopSession for TLC.                                 *)
(***************************************************************************)
EXTENDS DesktopSession
=============================================================================

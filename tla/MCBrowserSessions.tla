-------------------------- MODULE MCBrowserSessions --------------------------
(***************************************************************************)
(* Instance of BrowserSessions for TLC: three samples and two permits.     *)
(***************************************************************************)
EXTENDS BrowserSessions

CONSTANTS s1, s2, s3, h1, h2
=============================================================================

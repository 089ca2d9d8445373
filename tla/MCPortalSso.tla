----------------------------- MODULE MCPortalSso -----------------------------
(***************************************************************************)
(* Small instances of PortalSso.                                           *)
(***************************************************************************)
EXTENDS PortalSso

CONSTANTS c1, c2

TwoCourses == {c1, c2}
OneOffered == {c1}
===============================================================================

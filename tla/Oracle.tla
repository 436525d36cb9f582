------------------------------- MODULE Oracle -------------------------------
(***************************************************************************)
(* What every part of the harness answers with: the typed verdicts of      *)
(* types.py, and the absence of a record.                                  *)
(***************************************************************************)

CONSTANT None       \* no standing, no snapshot, no decision, no fallback

Verdicts == {"ALLOW", "HOLD", "DENY"}

=============================================================================

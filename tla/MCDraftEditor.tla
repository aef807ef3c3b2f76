---------------------------- MODULE MCDraftEditor ----------------------------
(* The editor page with a recording of two steps on one screenshot.        *)
EXTENDS DraftEditor
=============================================================================

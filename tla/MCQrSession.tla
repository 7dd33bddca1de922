---------------------------- MODULE MCQrSession ----------------------------
(* Small instances of QrSession for TLC. *)
EXTENDS QrSession
=============================================================================

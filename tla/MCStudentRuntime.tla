---------------------------- MODULE MCStudentRuntime ----------------------------
(* Small instances of StudentRuntime. *)
EXTENDS StudentRuntime
=============================================================================

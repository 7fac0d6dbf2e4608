--------------------------- MODULE MCSshSessions ---------------------------
(* SshSessions on small sets of requests, for TLC. *)
EXTENDS SshSessions
=============================================================================

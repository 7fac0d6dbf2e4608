---------------------------- MODULE MCFileUpload ----------------------------
(* FileUpload on two batches, for TLC. *)
EXTENDS FileUpload

\* A batch of two files, and one of one.
MCBatches == <<<<"a", "b">>, <<"c">>>>

=============================================================================

--------------------------- MODULE MCCallWorkflow ---------------------------
(***************************************************************************)
(* Small instances of CallWorkflow for TLC.                                *)
(***************************************************************************)
EXTENDS CallWorkflow, TLC

\* Exceptions are interchangeable where no constant singles one out, and so are
\* the worker processes that scan.
ExceptionSymmetry == Permutations(Exceptions)
ScannerSymmetry == Permutations(Scanners)
=============================================================================

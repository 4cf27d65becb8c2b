------------------------------ MODULE ScanPlan ------------------------------
(***************************************************************************)
(* What the reader of a planned scan (iceberg/scan.rs, `ParallelScan`) is  *)
(* given: the data files in plan order, and how the decode of each one     *)
(* goes.  A file is its place in the plan, an answer is the file and the   *)
(* answer's place in that file: whether an answer is a batch of rows or    *)
(* the error a batch ended in makes no difference to the reader, which     *)
(* goes on with the same file after both.                                  *)
(***************************************************************************)
EXTENDS Integers, Sequences

CONSTANTS Count,   \* how many files the plan holds
          Scripts  \* the ways a file may decode

ASSUME CountAssumption == Count \in Nat

ASSUME ScriptsAssumption ==
  Scripts \subseteq [opens : BOOLEAN, batches : Nat, panics : BOOLEAN]

Files == 1..Count

(* The answers a file's script leads to when a panic is answered with an   *)
(* error: a file that cannot be opened answers that error alone.           *)
AnswersOf(script) ==
  IF script.opens
  THEN script.batches + (IF script.panics THEN 1 ELSE 0)
  ELSE 1

(* Plan order: all of a file before any of the next.                       *)
Before(a, b) ==
  \/ a.file < b.file
  \/ a.file = b.file /\ a.place < b.place

AnswersIn(lengths) ==
  UNION {[file : {f}, place : 1..lengths[f]] : f \in Files}

Given(output) == {output[i] : i \in DOMAIN output}
=============================================================================

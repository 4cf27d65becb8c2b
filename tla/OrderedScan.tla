---------------------------- MODULE OrderedScan ----------------------------
(***************************************************************************)
(* What a scan promises, whichever of its readers answers: "Either way the *)
(* batches come back in exactly the plan's file order" (iceberg/scan.rs,   *)
(* `reader`).  Each call takes the first answer the plan still owes, the   *)
(* stream ends when none is owed, and the reader may be dropped between    *)
(* two calls.                                                              *)
(***************************************************************************)
EXTENDS ScanPlan

VARIABLES lengths,  \* how many answers each file has
          output,   \* the answers given so far, in order
          reader    \* "idle", "inside" a call, "ended" or "dropped"

vars == <<lengths, output, reader>>

Init == /\ lengths \in [Files -> Nat]
        /\ output = <<>>
        /\ reader = "idle"

Owed == AnswersIn(lengths) \ Given(output)

Call == /\ reader = "idle"
        /\ reader' = "inside"
        /\ UNCHANGED <<lengths, output>>

Answer == /\ reader = "inside"
          /\ \E a \in Owed : /\ \A b \in Owed \ {a} : Before(a, b)
                             /\ output' = Append(output, a)
          /\ reader' = "idle"
          /\ UNCHANGED lengths

End == /\ reader = "inside"
       /\ Owed = {}
       /\ reader' = "ended"
       /\ UNCHANGED <<lengths, output>>

Drop == /\ reader \in {"idle", "inside"}
        /\ reader' = "dropped"
        /\ UNCHANGED <<lengths, output>>

Next == Call \/ Answer \/ End \/ Drop

Spec == Init /\ [][Next]_vars
=============================================================================

------------------------------- MODULE Options -------------------------------
(***************************************************************************)
(* Options and fallible results (rust's Option and Result, errors not told *)
(* apart), and loops that stop at the first failure.                       *)
(*                                                                         *)
(* What may be absent is a sequence of at most one, and so is what may     *)
(* fail.                                                                   *)
(***************************************************************************)
EXTENDS Integers, Sequences, SequencesExt, TLC

None == <<>>
Some(value) == <<value>>
Holds(option) == option # None
The(option) == option[1]
OrElse(option, default) == IF option = None THEN default ELSE The(option)

\* A value that is computed once (rust's let), and what a `?' goes on with.
Bind(value, Next(_)) == CHOOSE result \in {Next(v) : v \in {value}} : TRUE
AndThen(option, Next(_)) == Bind(option, LAMBDA v : IF v = None THEN None ELSE Next(The(v)))

\* A loop that stops at the first failure.
Every(results) ==
    Bind(FlattenSeq(results), LAMBDA all : IF Len(all) = Len(results) THEN Some(all) ELSE None)

\* A key written only of what is there, and what is read of a key.
Entry(key, option) == IF option = None THEN <<>> ELSE key :> The(option)
Read(document, key) == IF key \in DOMAIN document THEN Some(document[key]) ELSE None

=============================================================================

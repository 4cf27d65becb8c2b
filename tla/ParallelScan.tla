---------------------------- MODULE ParallelScan ----------------------------
(***************************************************************************)
(* `ParallelScan` of iceberg/scan.rs: one detached worker thread a file,   *)
(* at most `Window` of them at once, all sending into one unbounded        *)
(* channel; the reader keeps what arrives early in a reorder buffer and    *)
(* releases it in plan order.                                              *)
(*                                                                         *)
(* A worker's step is the decode of one batch or one send.  A reader's     *)
(* step is one turn of the loop of `next`.  Dropping the reader drops the  *)
(* receiver, after which every send fails.                                 *)
(***************************************************************************)
EXTENDS ScanPlan, FiniteSets

CONSTANT Window  \* ReadSettings::parallelism

ASSUME WindowAssumption == Window \in Nat \ {0}

VARIABLES scripts,   \* how each file decodes
          worker,    \* where each file's worker is
          decoded,   \* answers each worker has come to
          channel,   \* messages sent and not received
          spawned,   \* files handed to a worker: the first `spawned`
          released,  \* files wholly released: the first `released`
          batches,   \* PartState::batches of each file
          done,      \* PartState::done of each file
          output,    \* the answers given so far
          reader,    \* "idle", "inside" next, "ended" or "dropped"
          late       \* history: answers each worker decoded after a drop

threads == <<worker, decoded, late>>
buffers == <<batches, done>>
vars == <<scripts, threads, channel, spawned, released, buffers, output, reader>>

Answers(f) == AnswersOf(scripts[f])

(* A message is an answer, or place 0: the file has no more.               *)
NoMore(f) == [file |-> f, place |-> 0]

(* spawn_next: the next file, if one remains, to a fresh worker.           *)
AtMost(count) == IF count < Count THEN count ELSE Count

SpawnedThrough(last, at) ==
  [f \in Files |-> IF at[f] = "unspawned" /\ f <= last THEN "decode" ELSE at[f]]

Init == /\ scripts \in [Files -> Scripts]
        /\ spawned = AtMost(Window)
        /\ worker = SpawnedThrough(spawned, [f \in Files |-> "unspawned"])
        /\ decoded = [f \in Files |-> 0]
        /\ channel = <<>>
        /\ released = 0
        /\ batches = [f \in Files |-> <<>>]
        /\ done = [f \in Files |-> FALSE]
        /\ output = <<>>
        /\ reader = "idle"
        /\ late = [f \in Files |-> 0]
-----------------------------------------------------------------------------
(* A worker: read_part.                                                    *)

(* The file opens and gives a batch, or one of the two fails; a panic is   *)
(* caught and stands for one error more.                                   *)
Decode(f) ==
  /\ worker[f] = "decode"
  /\ decoded[f] < Answers(f)
  /\ decoded' = [decoded EXCEPT ![f] = @ + 1]
  /\ worker' = [worker EXCEPT ![f] = "send"]
  /\ late' = [late EXCEPT ![f] = IF reader = "dropped" THEN @ + 1 ELSE @]
  /\ UNCHANGED <<scripts, channel, spawned, released, buffers, output, reader>>

(* Mutant: no catch_unwind, so a panic takes the thread and its marker.    *)
ExhaustUncaught(f) ==
  /\ worker[f] = "decode"
  /\ decoded[f] = Answers(f)
  /\ worker' = [worker EXCEPT ![f] = IF scripts[f].panics THEN "gone" ELSE "mark"]
  /\ UNCHANGED <<scripts, decoded, late, channel, spawned, released, buffers,
                 output, reader>>

Exhaust(f) ==
  /\ worker[f] = "decode"
  /\ decoded[f] = Answers(f)
  /\ worker' = [worker EXCEPT ![f] = "mark"]
  /\ UNCHANGED <<scripts, decoded, late, channel, spawned, released, buffers,
                 output, reader>>

(* Mutant: the outcome of a send is not looked at.                         *)
SendUnchecked(f) ==
  /\ worker[f] = "send"
  /\ worker' = [worker EXCEPT ![f] = "decode"]
  /\ channel' = IF reader = "dropped" THEN channel
                ELSE Append(channel, [file |-> f, place |-> decoded[f]])
  /\ UNCHANGED <<scripts, decoded, late, spawned, released, buffers, output, reader>>

(* Mutant: a bounded channel, whose full buffer blocks the sender.         *)
SendBounded(f) ==
  /\ worker[f] = "send"
  /\ Len(channel) < Window
  /\ worker' = [worker EXCEPT ![f] = "decode"]
  /\ channel' = IF reader = "dropped" THEN channel
                ELSE Append(channel, [file |-> f, place |-> decoded[f]])
  /\ UNCHANGED <<scripts, decoded, late, spawned, released, buffers, output, reader>>

(* A send that finds no receiver ends the loop over the file's batches.    *)
Send(f) ==
  /\ worker[f] = "send"
  /\ IF reader = "dropped"
     THEN /\ worker' = [worker EXCEPT ![f] = "mark"]
          /\ UNCHANGED channel
     ELSE /\ worker' = [worker EXCEPT ![f] = "decode"]
          /\ channel' = Append(channel, [file |-> f, place |-> decoded[f]])
  /\ UNCHANGED <<scripts, decoded, late, spawned, released, buffers, output, reader>>

(* The last send, after which the thread is gone.                          *)
Mark(f) ==
  /\ worker[f] = "mark"
  /\ worker' = [worker EXCEPT ![f] = "gone"]
  /\ channel' = IF reader = "dropped" THEN channel ELSE Append(channel, NoMore(f))
  /\ UNCHANGED <<scripts, decoded, late, spawned, released, buffers, output, reader>>

Work(f) == Decode(f) \/ Exhaust(f) \/ Send(f) \/ Mark(f)
-----------------------------------------------------------------------------
(* The reader: ParallelScan::next, and its drop.                           *)

Call == /\ reader = "idle"
        /\ reader' = "inside"
        /\ UNCHANGED <<scripts, threads, channel, spawned, released, buffers, output>>

Cursor == released + 1

Release == /\ reader = "inside"
           /\ released < Count
           /\ batches[Cursor] # <<>>
           /\ output' = Append(output, Head(batches[Cursor]))
           /\ batches' = [batches EXCEPT ![Cursor] = Tail(@)]
           /\ reader' = "idle"
           /\ UNCHANGED <<scripts, threads, channel, spawned, released, done>>

(* Mutant: goes past a file whose buffer happens to be empty.              *)
AdvanceUndone ==
  /\ reader = "inside"
  /\ released < Count
  /\ batches[Cursor] = <<>>
  /\ released' = released + 1
  /\ spawned' = AtMost(spawned + 1)
  /\ worker' = SpawnedThrough(spawned', worker)
  /\ UNCHANGED <<scripts, decoded, late, channel, buffers, output, reader>>

(* The cursor's file is drained: one more worker fits the window.          *)
Advance == /\ reader = "inside"
           /\ released < Count
           /\ batches[Cursor] = <<>>
           /\ done[Cursor]
           /\ released' = released + 1
           /\ spawned' = AtMost(spawned + 1)
           /\ worker' = SpawnedThrough(spawned', worker)
           /\ UNCHANGED <<scripts, decoded, late, channel, buffers, output, reader>>

(* Mutant: starts a worker whenever one ends, released or not.             *)
ReceiveSpawning ==
  /\ reader = "inside"
  /\ released < Count
  /\ batches[Cursor] = <<>>
  /\ ~done[Cursor]
  /\ channel # <<>>
  /\ IF Head(channel).place = 0
     THEN /\ done' = [done EXCEPT ![Head(channel).file] = TRUE]
          /\ spawned' = AtMost(spawned + 1)
          /\ UNCHANGED batches
     ELSE /\ batches' = [batches EXCEPT ![Head(channel).file] = Append(@, Head(channel))]
          /\ UNCHANGED <<done, spawned>>
  /\ worker' = SpawnedThrough(spawned', worker)
  /\ channel' = Tail(channel)
  /\ UNCHANGED <<scripts, decoded, late, released, output, reader>>

(* recv blocks until some worker has sent.                                 *)
Receive == /\ reader = "inside"
           /\ released < Count
           /\ batches[Cursor] = <<>>
           /\ ~done[Cursor]
           /\ channel # <<>>
           /\ LET message == Head(channel)
              IN IF message.place = 0
                 THEN /\ done' = [done EXCEPT ![message.file] = TRUE]
                      /\ UNCHANGED batches
                 ELSE /\ batches' = [batches EXCEPT
                                       ![message.file] = Append(@, message)]
                      /\ UNCHANGED done
           /\ channel' = Tail(channel)
           /\ UNCHANGED <<scripts, threads, spawned, released, output, reader>>

End == /\ reader = "inside"
       /\ released = Count
       /\ reader' = "ended"
       /\ UNCHANGED <<scripts, threads, channel, spawned, released, buffers, output>>

(* Between two calls; the workers are not joined.                          *)
Drop == /\ reader = "idle"
        /\ reader' = "dropped"
        /\ UNCHANGED <<scripts, threads, channel, spawned, released, buffers, output>>

Turn == Release \/ Advance \/ Receive \/ End

Next == Call \/ Turn \/ Drop \/ \E f \in Files : Work(f)

Spec == Init /\ [][Next]_vars

(* The threads are scheduled and every decode of a batch comes to an end;  *)
(* a call goes on until it answers.  Nothing makes the caller call again.  *)
FairSpec == /\ Spec
            /\ WF_vars(Turn)
            /\ \A f \in Files : WF_vars(Work(f))
-----------------------------------------------------------------------------
WorkerStates == {"unspawned", "decode", "send", "mark", "gone"}

Messages == [file : Files, place : Nat]

(* Types, with the file a buffered answer belongs to.                      *)
TypeOK ==
  /\ scripts \in [Files -> Scripts]
  /\ worker \in [Files -> WorkerStates]
  /\ decoded \in [Files -> Nat]
  /\ channel \in Seq(Messages)
  /\ spawned \in 0..Count
  /\ released \in 0..Count
  /\ batches \in [Files -> Seq(Messages)]
  /\ done \in [Files -> BOOLEAN]
  /\ output \in Seq(Messages)
  /\ reader \in {"idle", "inside", "ended", "dropped"}
  /\ late \in [Files -> Nat]

(* However the workers interleave, what a scan has given is a beginning of *)
(* the plan: before every answer given, exactly the answers the plan puts  *)
(* before it, so none is lost, repeated or out of turn; and a scan that    *)
(* has ended gave them all.                                                *)
PlanPrefix ==
  /\ \A i \in DOMAIN output :
       {output[j] : j \in 1..(i - 1)} =
         {a \in AnswersIn([f \in Files |-> Answers(f)]) : Before(a, output[i])}
  /\ reader = "ended" =>
       Given(output) = AnswersIn([f \in Files |-> Answers(f)])

(* A file is in flight from its worker's start to the release of the last  *)
(* of it.  "At most `window` files ... are ever in flight, ... so the      *)
(* channel and the reorder buffer together hold at most that many files'   *)
(* batches."                                                               *)
InFlight ==
  {f \in Files : \/ worker[f] \in {"decode", "send", "mark"}
                 \/ batches[f] # <<>>
                 \/ \E i \in DOMAIN channel : channel[i].file = f}

WithinWindow == Cardinality(InFlight) <= Window

(* A reader never waits on an empty channel for a worker that owes it      *)
(* nothing: not one that was never started, and not one that is gone,      *)
(* after a panic too ("a panicking decode reports an error instead of      *)
(* leaving the consumer waiting for a marker that would never come").      *)
SomeoneWillAnswer ==
  (/\ reader = "inside"
   /\ released < Count
   /\ batches[Cursor] = <<>>
   /\ ~done[Cursor]
   /\ channel = <<>>)
  => worker[Cursor] \in {"decode", "send", "mark"}

(* "Each worker exits at its next send instead of decoding a file nobody   *)
(* wants": past the drop a worker finishes one batch at most.              *)
StopsAfterDrop == \A f \in Files : late[f] <= 1

(* Every call of next answers, whatever the workers meet.                  *)
CallsAnswer == (reader = "inside") ~> (reader # "inside")

(* Detached workers do not outlive their work: each one started ends.      *)
WorkersEnd ==
  \A f \in Files : (worker[f] # "unspawned") ~> (worker[f] = "gone")

(* Nobody waits for ever: no caller of next, no worker that was started.   *)
EveryoneFinishes == CallsAnswer /\ WorkersEnd

Ordered == INSTANCE OrderedScan
             WITH lengths <- [f \in Files |-> Answers(f)]

(* The parallel reader cannot be told from the sequential one by its       *)
(* answers: both give the plan in order.                                   *)
ImplementsOrderedScan == Ordered!Spec

(* For TLC: files of no, one or two answers, one that cannot be opened and *)
(* ones whose decode panics, at once or after a batch.                     *)
SomeScripts ==
  {[opens |-> TRUE, batches |-> n, panics |-> FALSE] : n \in 0..2}
  \cup {[opens |-> FALSE, batches |-> 0, panics |-> FALSE]}
  \cup {[opens |-> TRUE, batches |-> n, panics |-> TRUE] : n \in 0..1}

=============================================================================

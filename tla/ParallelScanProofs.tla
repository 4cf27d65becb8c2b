------------------------ MODULE ParallelScanProofs ------------------------
(***************************************************************************)
(* Proofs about ParallelScan for every plan, window and way of decoding.   *)
(*                                                                         *)
(* What ties the output to the plan is the path each file's answers take:  *)
(* worker, channel, reorder buffer, output.  Two counts per file, how many *)
(* of its answers were given and how many received, cut the file's answers *)
(* 1, 2, ... into the stretch given, the stretch in the buffer, and the    *)
(* stretch in the channel, the last in order but mixed with other files'.  *)
(***************************************************************************)
EXTENDS ParallelScan, FiniteSetTheorems, SequenceTheorems, TLAPS

\* How many answers of a file have entered the channel.
Sent(f) == IF worker[f] = "send" THEN decoded[f] - 1 ELSE decoded[f]

\* Each worker's place against what its file decodes to.
WorkersHold ==
    \A f \in Files :
        /\ decoded[f] <= Answers(f)
        /\ worker[f] = "unspawned" => decoded[f] = 0
        /\ worker[f] = "send" => decoded[f] > 0
        /\ worker[f] \in {"mark", "gone"} /\ reader # "dropped" => decoded[f] = Answers(f)

\* Only files spawned and not released have a worker or anything held.
WindowHolds ==
    /\ spawned = AtMost(released + Window)
    /\ \A f \in Files : worker[f] = "unspawned" <=> f > spawned
    /\ \A f \in Files :
        f <= released \/ f > spawned =>
            /\ worker[f] \in {"unspawned", "gone"}
            /\ batches[f] = <<>>
            /\ \A i \in DOMAIN channel : channel[i].file # f

\* The buffer of a file holds the answers after those given, in order.
BuffersHold(given, received) ==
    \A f \in Files :
        /\ given[f] <= received[f]
        /\ received[f] <= Sent(f)
        /\ batches[f] =
            [i \in 1..(received[f] - given[f]) |-> [file |-> f, place |-> given[f] + i]]
        /\ f <= released => given[f] = Answers(f)
        /\ f > Cursor => given[f] = 0

\* A message in the channel is an answer sent and not received, or the
\* marker of a worker that is gone.
ChannelFits(received) ==
    \A i \in DOMAIN channel :
        \/ channel[i].place = 0 /\ worker[channel[i].file] = "gone"
        \/ channel[i].place \in received[channel[i].file] + 1..Sent(channel[i].file)

\* Each file's answers are in order in it, its marker last.
ChannelOrdered ==
    \A i, j \in DOMAIN channel :
        i < j /\ channel[i].file = channel[j].file =>
            /\ channel[i].place # 0
            /\ channel[j].place # 0 => channel[i].place < channel[j].place

\* None of the answers sent and not received is missing from it.
ChannelComplete(received) ==
    \A f \in Files : \A p \in received[f] + 1..Sent(f) :
        \E i \in DOMAIN channel : channel[i] = [file |-> f, place |-> p]

ChannelHolds(received) ==
    /\ ChannelFits(received)
    /\ ChannelOrdered
    /\ ChannelComplete(received)

\* A file is done once its marker arrives, and a worker gone has sent one.
MarkersHold(received) ==
    \A f \in Files :
        /\ done[f] =>
            /\ worker[f] = "gone"
            /\ received[f] = Answers(f)
            /\ \A i \in DOMAIN channel : channel[i].file # f
        /\ worker[f] = "gone" /\ ~done[f] =>
            \E i \in DOMAIN channel : channel[i] = NoMore(f)

\* The output holds the answers given and no others.
OutputHolds(given) ==
    Given(output) = AnswersIn(given)

Streams(given, received) ==
    /\ BuffersHold(given, received)
    /\ ChannelHolds(received)
    /\ MarkersHold(received)
    /\ OutputHolds(given)

AllAnswers == AnswersIn([f \in Files |-> Answers(f)])

\* Before each answer given are those the plan puts before it.
OutputOrdered ==
    \A i \in DOMAIN output :
        {output[j] : j \in 1..(i - 1)} = {a \in AllAnswers : Before(a, output[i])}

LateHolds ==
    \A f \in Files :
        /\ reader # "dropped" => late[f] = 0
        /\ late[f] <= 1
        /\ late[f] = 1 => worker[f] \in {"send", "mark", "gone"}

ScanInv ==
    /\ TypeOK
    /\ WorkersHold
    /\ WindowHolds
    /\ LateHolds
    /\ OutputOrdered
    /\ reader # "dropped" =>
        \E given, received \in [Files -> Nat] : Streams(given, received)
    /\ reader = "ended" => released = Count
-----------------------------------------------------------------------------
LEMMA AnswersType ==
    ASSUME TypeOK, NEW f \in Files
    PROVE  Answers(f) \in Nat
BY ScriptsAssumption DEF TypeOK, Answers, AnswersOf

LEMMA CountType == Count \in Nat /\ Window \in Nat /\ Window > 0
BY CountAssumption, WindowAssumption

LEMMA AnswersInMember ==
    ASSUME NEW lengths, NEW f \in Files, NEW p
    PROVE  [file |-> f, place |-> p] \in AnswersIn(lengths) <=> p \in 1..lengths[f]
BY DEF AnswersIn

LEMMA AnswersInForm ==
    ASSUME NEW lengths, NEW a \in AnswersIn(lengths)
    PROVE  /\ a \in [file : Files, place : Int]
           /\ a = [file |-> a.file, place |-> a.place]
           /\ a.place \in 1..lengths[a.file]
BY DEF AnswersIn

LEMMA ChannelTypes ==
    ASSUME TypeOK
    PROVE  /\ DOMAIN channel = 1..Len(channel) /\ Len(channel) \in Nat
           /\ \A i \in DOMAIN channel :
                /\ channel[i] \in Messages
                /\ channel[i].file \in Files
                /\ channel[i].place \in Nat
<1>1. channel \in Seq(Messages)
  BY DEF TypeOK
<1>2. \A m \in Messages : m.file \in Files /\ m.place \in Nat
  BY DEF Messages
<1> QED
  BY <1>1, <1>2

LEMMA WorkingIsSpawned ==
    ASSUME TypeOK, WindowHolds, NEW f \in Files, worker[f] \in {"decode", "send", "mark"}
    PROVE  f > released /\ f <= spawned
<1>1. f \in Int /\ released \in Int /\ spawned \in Int
  BY CountType DEF TypeOK, Files
<1>2. ~(f <= released \/ f > spawned)
  BY DEF WindowHolds
<1> QED
  BY <1>1, <1>2

LEMMA InitHolds == Init => ScanInv
<1> SUFFICES ASSUME Init PROVE ScanInv
  OBVIOUS
<1> USE CountType
<1>1. TypeOK
  BY DEF Init, TypeOK, AtMost, SpawnedThrough, Files, WorkerStates, Messages
<1>2. \A f \in Files : Answers(f) \in Nat
  BY <1>1, AnswersType
<1>3. WorkersHold
  BY <1>2 DEF Init, WorkersHold, SpawnedThrough
<1>4. WindowHolds
  BY DEF Init, WindowHolds, SpawnedThrough, AtMost, Files
<1>5. LateHolds /\ OutputOrdered
  BY DEF Init, LateHolds, OutputOrdered
<1>6. Streams([f \in Files |-> 0], [f \in Files |-> 0])
  <2> DEFINE zero == [f \in Files |-> 0]
  <2>1. BuffersHold(zero, zero)
    BY DEF Init, BuffersHold, Sent, SpawnedThrough, Files
  <2>2. ChannelHolds(zero)
    BY DEF Init, ChannelHolds, ChannelFits, ChannelOrdered, ChannelComplete, Sent, SpawnedThrough
  <2>3. MarkersHold(zero)
    BY DEF Init, MarkersHold, SpawnedThrough
  <2>4. OutputHolds(zero)
    BY AnswersInForm DEF Init, OutputHolds, Given
  <2> QED
    BY <2>1, <2>2, <2>3, <2>4 DEF Streams
<1>7. [f \in Files |-> 0] \in [Files -> Nat]
  OBVIOUS
<1> QED
  BY <1>1, <1>3, <1>4, <1>5, <1>6, <1>7 DEF ScanInv, Init
-----------------------------------------------------------------------------
\* What is sure of a plan stays so while nothing is given.
LEMMA OutputKept ==
    ASSUME OutputOrdered, UNCHANGED <<scripts, output>>
    PROVE  OutputOrdered'
<1>1. AllAnswers' = AllAnswers
  BY DEF AllAnswers, Answers
<1> QED
  BY <1>1 DEF OutputOrdered

LEMMA DecodeKeeps ==
    ASSUME ScanInv, NEW f \in Files, Decode(f)
    PROVE  ScanInv'
<1> USE CountType DEF Decode, threads, buffers
<1>1. TypeOK /\ WorkersHold /\ WindowHolds /\ LateHolds /\ OutputOrdered
  BY DEF ScanInv
<1>2. TypeOK'
  BY <1>1 DEF TypeOK, WorkerStates
<1>3. \A g \in Files : Answers(g) \in Nat /\ Answers(g)' = Answers(g)
  BY <1>1, AnswersType DEF Answers
<1>4. WorkersHold'
  BY <1>1, <1>3 DEF WorkersHold, TypeOK
<1>5. WindowHolds'
  BY <1>1 DEF WindowHolds, TypeOK, AtMost
<1>6. LateHolds'
  BY <1>1 DEF LateHolds, TypeOK
<1>7. OutputOrdered'
  BY <1>1, OutputKept
<1>8. ASSUME reader # "dropped"
      PROVE  \E given, received \in [Files -> Nat] : Streams(given, received)'
  <2>1. PICK given, received \in [Files -> Nat] : Streams(given, received)
    BY <1>8 DEF ScanInv
  <2>2. \A g \in Files : Sent(g)' = Sent(g)
    BY <1>1 DEF Sent, TypeOK
  <2>3. BuffersHold(given, received)'
    BY <2>1, <2>2, <1>3 DEF Streams, BuffersHold, Cursor
  <2>4. ChannelHolds(received)'
    <3>1. UNCHANGED channel /\ \A g \in Files : worker[g] = "gone" => worker'[g] = "gone"
      BY <1>1 DEF TypeOK
    <3>2. \A i \in DOMAIN channel : channel[i].file \in Files
      BY <1>1, ChannelTypes
    <3>3. ChannelFits(received)' /\ ChannelOrdered' /\ ChannelComplete(received)'
      BY <2>1, <2>2, <3>1, <3>2
      DEF Streams, ChannelHolds, ChannelFits, ChannelOrdered, ChannelComplete
    <3> QED
      BY <3>3 DEF ChannelHolds
  <2>5. MarkersHold(received)'
    BY <2>1, <1>1, <1>3 DEF Streams, MarkersHold, TypeOK
  <2>6. OutputHolds(given)'
    BY <2>1 DEF Streams, OutputHolds
  <2> QED
    BY <2>3, <2>4, <2>5, <2>6 DEF Streams
<1> QED
  BY <1>2, <1>4, <1>5, <1>6, <1>7, <1>8 DEF ScanInv

LEMMA ExhaustKeeps ==
    ASSUME ScanInv, NEW f \in Files, Exhaust(f)
    PROVE  ScanInv'
<1> USE CountType DEF Exhaust, threads, buffers
<1>1. TypeOK /\ WorkersHold /\ WindowHolds /\ LateHolds /\ OutputOrdered
  BY DEF ScanInv
<1>2. TypeOK'
  BY <1>1 DEF TypeOK, WorkerStates
<1>3. \A g \in Files : Answers(g) \in Nat /\ Answers(g)' = Answers(g)
  BY <1>1, AnswersType DEF Answers
<1>4. WorkersHold'
  BY <1>1, <1>3 DEF WorkersHold, TypeOK
<1>5. WindowHolds'
  BY <1>1 DEF WindowHolds, TypeOK, AtMost
<1>6. LateHolds'
  BY <1>1 DEF LateHolds, TypeOK
<1>7. OutputOrdered'
  BY <1>1, OutputKept
<1>8. ASSUME reader # "dropped"
      PROVE  \E given, received \in [Files -> Nat] : Streams(given, received)'
  <2>1. PICK given, received \in [Files -> Nat] : Streams(given, received)
    BY <1>8 DEF ScanInv
  <2>2. \A g \in Files : Sent(g)' = Sent(g)
    BY <1>1 DEF Sent, TypeOK
  <2>3. BuffersHold(given, received)'
    BY <2>1, <2>2, <1>3 DEF Streams, BuffersHold, Cursor
  <2>4. ChannelHolds(received)'
    <3>1. UNCHANGED channel /\ \A g \in Files : worker[g] = "gone" => worker'[g] = "gone"
      BY <1>1 DEF TypeOK
    <3>2. \A i \in DOMAIN channel : channel[i].file \in Files
      BY <1>1, ChannelTypes
    <3>3. ChannelFits(received)' /\ ChannelOrdered' /\ ChannelComplete(received)'
      BY <2>1, <2>2, <3>1, <3>2
      DEF Streams, ChannelHolds, ChannelFits, ChannelOrdered, ChannelComplete
    <3> QED
      BY <3>3 DEF ChannelHolds
  <2>5. MarkersHold(received)'
    BY <2>1, <1>1, <1>3 DEF Streams, MarkersHold, TypeOK
  <2>6. OutputHolds(given)'
    BY <2>1 DEF Streams, OutputHolds
  <2> QED
    BY <2>3, <2>4, <2>5, <2>6 DEF Streams
<1> QED
  BY <1>2, <1>4, <1>5, <1>6, <1>7, <1>8 DEF ScanInv

LEMMA SendKeeps ==
    ASSUME ScanInv, NEW f \in Files, Send(f)
    PROVE  ScanInv'
<1> USE CountType
<1>0. /\ worker[f] = "send"
      /\ worker' = [worker EXCEPT ![f] = IF reader = "dropped" THEN "mark" ELSE "decode"]
      /\ channel' = IF reader = "dropped" THEN channel
                    ELSE Append(channel, [file |-> f, place |-> decoded[f]])
      /\ UNCHANGED <<scripts, decoded, late, spawned, released, batches, done, output, reader>>
  BY DEF Send, buffers
<1>1. TypeOK /\ WorkersHold /\ WindowHolds /\ LateHolds /\ OutputOrdered
  BY DEF ScanInv
<1>2. /\ worker' \in [Files -> WorkerStates]
      /\ \A g \in Files : g # f => worker'[g] = worker[g]
      /\ worker'[f] = IF reader = "dropped" THEN "mark" ELSE "decode"
  BY <1>0, <1>1 DEF TypeOK, WorkerStates
<1>a. [file |-> f, place |-> decoded[f]] \in Messages
  BY <1>1 DEF TypeOK, Messages
<1>b. channel' \in Seq(Messages)
  BY <1>0, <1>1, <1>a DEF TypeOK
<1>c. TypeOK'
  BY <1>0, <1>1, <1>2, <1>b DEF TypeOK
<1>3. \A g \in Files : Answers(g) \in Nat /\ Answers(g)' = Answers(g)
  BY <1>0, <1>1, AnswersType DEF Answers
<1>4. WorkersHold'
  BY <1>0, <1>1, <1>3 DEF WorkersHold, TypeOK
<1>5. WindowHolds'
  <2>1. f > released /\ f <= spawned
    BY <1>0, <1>1, WorkingIsSpawned
  <2>2. \A i \in DOMAIN channel' : \/ i \in DOMAIN channel /\ channel'[i] = channel[i]
                                   \/ channel'[i].file = f
    BY <1>0, <1>1 DEF TypeOK
  <2>3. /\ UNCHANGED <<spawned, released, batches>>
        /\ AtMost(released + Window)' = AtMost(released + Window)
        /\ worker[f] = "send"
    BY <1>0 DEF AtMost
  <2>4. \A g \in Files : worker'[g] = "unspawned" <=> g > spawned
    BY <1>1, <1>2, <2>1, <2>3 DEF WindowHolds
  <2>5. ASSUME NEW g \in Files, g <= released \/ g > spawned
        PROVE  /\ worker'[g] \in {"unspawned", "gone"}
               /\ batches'[g] = <<>>
               /\ \A i \in DOMAIN channel' : channel'[i].file # g
    <3>1. /\ worker[g] \in {"unspawned", "gone"}
          /\ batches[g] = <<>>
          /\ \A i \in DOMAIN channel : channel[i].file # g
      BY <1>1, <2>5 DEF WindowHolds
    <3> QED
      BY <1>2, <2>2, <2>3, <3>1
  <2> QED
    BY <1>1, <2>3, <2>4, <2>5 DEF WindowHolds
<1>6. LateHolds'
  BY <1>0, <1>1 DEF LateHolds, TypeOK
<1>7. OutputOrdered'
  BY <1>0, <1>1, OutputKept
<1>8. ASSUME reader # "dropped"
      PROVE  \E given, received \in [Files -> Nat] : Streams(given, received)'
  <2>1. PICK given, received \in [Files -> Nat] : Streams(given, received)
    BY <1>0, <1>8 DEF ScanInv
  <2> DEFINE message == [file |-> f, place |-> decoded[f]]
  <2>2. /\ \A g \in Files : Sent(g)' = IF g = f THEN decoded[f] ELSE Sent(g)
        /\ Sent(f) = decoded[f] - 1
        /\ decoded[f] \in Nat \ {0}
        /\ \A g \in Files : Sent(g) \in Int
    BY <1>0, <1>1, <1>8 DEF Sent, TypeOK, WorkersHold
  <2>3. /\ channel' = Append(channel, message)
        /\ Len(channel') = Len(channel) + 1
        /\ DOMAIN channel' = 1..Len(channel) + 1
        /\ DOMAIN channel = 1..Len(channel)
        /\ \A i \in 1..Len(channel) : channel'[i] = channel[i]
        /\ channel'[Len(channel) + 1] = message
        /\ Len(channel) \in Nat
    BY <1>0, <1>1, <1>8 DEF TypeOK, Messages
  <2> HIDE DEF message
  <2>4. BuffersHold(given, received)'
    <3>1. UNCHANGED <<batches, released>> /\ Cursor' = Cursor
      BY <1>0 DEF Cursor
    <3>2. \A g \in Files : given[g] \in Nat /\ received[g] \in Nat /\ Sent(g) <= Sent(g)'
      BY <2>2
    <3>3. \A g \in Files : Sent(g)' \in Int
      BY <2>2
    <3> QED
      BY <2>1, <2>2, <1>3, <3>1, <3>2, <3>3 DEF Streams, BuffersHold
  <2>5. ChannelHolds(received)'
    <3>1. received[f] < decoded[f]
      <4>1. received[f] <= Sent(f) /\ received[f] \in Nat
        BY <2>1 DEF Streams, BuffersHold
      <4> QED
        BY <4>1, <2>2
    <3>2. /\ \A i \in DOMAIN channel : channel[i].file \in Files /\ channel[i].place \in Nat
          /\ \A g \in Files : received[g] \in Nat
      BY <1>1, ChannelTypes
    <3>3. message.file = f /\ message.place = decoded[f]
      BY DEF message
    <3>a. \A i \in DOMAIN channel :
            channel[i].file = f => channel[i].place # 0 /\ channel[i].place < decoded[f]
      <4>1. worker[f] # "gone"
        BY <1>0
      <4>2. \A i \in DOMAIN channel :
              channel[i].file = f => channel[i].place \in received[f] + 1..Sent(f)
        BY <2>1, <4>1 DEF Streams, ChannelHolds, ChannelFits
      <4> QED
        BY <2>2, <3>2, <4>2
    <3>4. ChannelFits(received)'
      <4>1. \A g \in Files : \A p \in received[g] + 1..Sent(g) : p \in received[g] + 1..Sent(g)'
        BY <2>2, <3>2
      <4>2. \A i \in DOMAIN channel :
              \/ channel[i].place = 0 /\ worker'[channel[i].file] = "gone"
              \/ \E g \in Files : channel[i].file = g /\ channel[i].place \in received[g] + 1..Sent(g)'
        BY <1>0, <1>2, <2>1, <3>2, <4>1 DEF Streams, ChannelHolds, ChannelFits
      <4>3. decoded[f] \in received[f] + 1..Sent(f)'
        BY <2>2, <3>1, <3>2
      <4>4. \A i \in DOMAIN channel' :
              \/ channel'[i].place = 0 /\ worker'[channel'[i].file] = "gone"
              \/ \E g \in Files : channel'[i].file = g /\ channel'[i].place \in received[g] + 1..Sent(g)'
        BY <2>3, <3>3, <4>2, <4>3
      <4> QED
        BY <4>4 DEF ChannelFits
    <3>5. ChannelOrdered'
      BY <2>1, <2>3, <3>3, <3>a DEF Streams, ChannelHolds, ChannelOrdered
    <3>6. ASSUME NEW g \in Files, NEW p \in received[g] + 1..Sent(g)'
          PROVE  \E i \in DOMAIN channel' : channel'[i] = [file |-> g, place |-> p]
      <4>1. CASE p \in received[g] + 1..Sent(g)
        BY <4>1, <2>1, <2>3 DEF Streams, ChannelHolds, ChannelComplete
      <4>2. CASE ~(p \in received[g] + 1..Sent(g))
        <5>1. g = f /\ p = decoded[f]
          BY <4>2, <3>6, <2>2
        <5> QED
          BY <1>0, <5>1, <2>3 DEF message
      <4> QED
        BY <1>0, <4>1, <4>2
    <3> QED
      BY <3>4, <3>5, <3>6 DEF ChannelHolds, ChannelComplete
  <2>6. MarkersHold(received)'
    <3>1. \A g \in Files : worker'[g] = "gone" <=> worker[g] = "gone"
      BY <1>0, <1>1, <1>8 DEF TypeOK
    <3>2. \A i \in DOMAIN channel' : \/ i \in DOMAIN channel /\ channel'[i] = channel[i]
                                     \/ channel'[i].file = f
      BY <1>0, <2>3 DEF message
    <3>3. \A g \in Files : done[g] => g # f
      BY <1>0, <2>1 DEF Streams, MarkersHold
    <3> QED
      BY <1>0, <2>1, <2>3, <3>1, <3>2, <3>3, <1>3 DEF Streams, MarkersHold, NoMore
  <2>7. OutputHolds(given)'
    BY <1>0, <2>1 DEF Streams, OutputHolds
  <2> QED
    BY <2>4, <2>5, <2>6, <2>7 DEF Streams
<1> QED
  BY <1>c, <1>0, <1>4, <1>5, <1>6, <1>7, <1>8 DEF ScanInv

LEMMA MarkKeeps ==
    ASSUME ScanInv, NEW f \in Files, Mark(f)
    PROVE  ScanInv'
<1> USE CountType
<1>0. /\ worker[f] = "mark"
      /\ worker' = [worker EXCEPT ![f] = "gone"]
      /\ channel' = IF reader = "dropped" THEN channel ELSE Append(channel, NoMore(f))
      /\ UNCHANGED <<scripts, decoded, late, spawned, released, batches, done, output, reader>>
  BY DEF Mark, buffers
<1>1. TypeOK /\ WorkersHold /\ WindowHolds /\ LateHolds /\ OutputOrdered
  BY DEF ScanInv
<1>2. /\ worker' \in [Files -> WorkerStates]
      /\ \A g \in Files : g # f => worker'[g] = worker[g]
      /\ worker'[f] = "gone"
  BY <1>0, <1>1 DEF TypeOK, WorkerStates
<1>3. \A g \in Files : Answers(g) \in Nat /\ Answers(g)' = Answers(g)
  BY <1>0, <1>1, AnswersType DEF Answers
<1>a. /\ NoMore(f) \in Messages
      /\ NoMore(f).file = f
      /\ NoMore(f).place = 0
  BY DEF NoMore, Messages
<1>b. channel' \in Seq(Messages)
  BY <1>0, <1>1, <1>a DEF TypeOK
<1>c. TypeOK'
  BY <1>0, <1>1, <1>2, <1>b DEF TypeOK
<1>4. WorkersHold'
  BY <1>0, <1>1, <1>2, <1>3 DEF WorkersHold, TypeOK
<1>5. WindowHolds'
  <2>1. f > released /\ f <= spawned
    BY <1>0, <1>1, WorkingIsSpawned
  <2>2. \A i \in DOMAIN channel' : \/ i \in DOMAIN channel /\ channel'[i] = channel[i]
                                   \/ channel'[i].file = f
    BY <1>0, <1>1, <1>a DEF TypeOK
  <2>3. /\ UNCHANGED <<spawned, released, batches>>
        /\ AtMost(released + Window)' = AtMost(released + Window)
        /\ worker[f] = "mark"
    BY <1>0 DEF AtMost
  <2>4. \A g \in Files : worker'[g] = "unspawned" <=> g > spawned
    BY <1>1, <1>2, <2>1, <2>3 DEF WindowHolds
  <2>5. ASSUME NEW g \in Files, g <= released \/ g > spawned
        PROVE  /\ worker'[g] \in {"unspawned", "gone"}
               /\ batches'[g] = <<>>
               /\ \A i \in DOMAIN channel' : channel'[i].file # g
    <3>1. /\ worker[g] \in {"unspawned", "gone"}
          /\ batches[g] = <<>>
          /\ \A i \in DOMAIN channel : channel[i].file # g
      BY <1>1, <2>5 DEF WindowHolds
    <3> QED
      BY <1>2, <2>2, <2>3, <3>1
  <2> QED
    BY <1>1, <2>3, <2>4, <2>5 DEF WindowHolds
<1>6. LateHolds'
  BY <1>0, <1>1, <1>2 DEF LateHolds, TypeOK
<1>7. OutputOrdered'
  BY <1>0, <1>1, OutputKept
<1>8. ASSUME reader # "dropped"
      PROVE  \E given, received \in [Files -> Nat] : Streams(given, received)'
  <2>1. PICK given, received \in [Files -> Nat] : Streams(given, received)
    BY <1>8 DEF ScanInv
  <2>2. \A g \in Files : Sent(g)' = Sent(g)
    BY <1>0, <1>2 DEF Sent
  <2>3. /\ DOMAIN channel' = 1..Len(channel) + 1
        /\ DOMAIN channel = 1..Len(channel)
        /\ Len(channel) \in Nat
        /\ \A i \in 1..Len(channel) : channel'[i] = channel[i]
        /\ channel'[Len(channel) + 1] = NoMore(f)
    BY <1>0, <1>1, <1>8, <1>a DEF TypeOK
  <2>4. BuffersHold(given, received)'
    <3>1. UNCHANGED <<batches, released>> /\ Cursor' = Cursor
      BY <1>0 DEF Cursor
    <3> QED
      BY <2>1, <2>2, <1>3, <3>1 DEF Streams, BuffersHold
  <2>5. \A i \in DOMAIN channel : channel[i].file = f => channel[i].place # 0
    <3>1. worker[f] # "gone"
      BY <1>0
    <3>2. \A i \in DOMAIN channel :
            channel[i].file = f => channel[i].place \in received[f] + 1..Sent(f)
      BY <2>1, <3>1 DEF Streams, ChannelHolds, ChannelFits
    <3> QED
      BY <3>2
  <2>6. ChannelFits(received)'
    <3>1. \A i \in DOMAIN channel : channel[i].file \in Files
      BY <1>1, ChannelTypes
    <3>2. \A i \in DOMAIN channel :
            \/ channel[i].place = 0 /\ worker'[channel[i].file] = "gone"
            \/ \E g \in Files : channel[i].file = g /\ channel[i].place \in received[g] + 1..Sent(g)'
      BY <1>2, <2>1, <2>2, <3>1 DEF Streams, ChannelHolds, ChannelFits
    <3>3. \A i \in DOMAIN channel' :
            \/ channel'[i].place = 0 /\ worker'[channel'[i].file] = "gone"
            \/ \E g \in Files : channel'[i].file = g /\ channel'[i].place \in received[g] + 1..Sent(g)'
      BY SMTT(30), <1>2, <1>a, <2>3, <3>2
    <3> QED
      BY <3>3 DEF ChannelFits
  <2>7. ChannelOrdered'
    BY <1>a, <2>1, <2>3, <2>5 DEF Streams, ChannelHolds, ChannelOrdered
  <2>8. ChannelComplete(received)'
    BY <2>1, <2>2, <2>3 DEF Streams, ChannelHolds, ChannelComplete
  <2>9. MarkersHold(received)'
    <3>1. ~done[f] /\ UNCHANGED done
      BY <1>0, <2>1 DEF Streams, MarkersHold
    <3>2. ASSUME NEW g \in Files, done[g]
          PROVE  /\ worker'[g] = "gone"
                 /\ received[g] = Answers(g)'
                 /\ \A i \in DOMAIN channel' : channel'[i].file # g
      <4>1. /\ worker[g] = "gone"
            /\ received[g] = Answers(g)
            /\ \A i \in DOMAIN channel : channel[i].file # g
        BY <2>1, <3>2 DEF Streams, MarkersHold
      <4>2. g # f
        BY <1>0, <4>1
      <4>3. ASSUME NEW i \in DOMAIN channel' PROVE channel'[i].file # g
        <5>1. CASE i \in 1..Len(channel)
          BY <2>3, <4>1, <5>1
        <5>2. CASE i = Len(channel) + 1
          BY <1>a, <2>3, <4>2, <5>2
        <5> QED
          BY <2>3, <5>1, <5>2
      <4> QED
        BY <1>2, <1>3, <4>1, <4>2, <4>3
    <3>3. ASSUME NEW g \in Files, worker'[g] = "gone", ~done[g]
          PROVE  \E i \in DOMAIN channel' : channel'[i] = NoMore(g)
      <4>1. CASE g = f
        BY SMTT(30), <2>3, <4>1
      <4>2. CASE g # f
        <5>1. worker[g] = "gone"
          BY <1>2, <3>3, <4>2
        <5>2. \E i \in DOMAIN channel : channel[i] = NoMore(g)
          BY <2>1, <3>3, <5>1 DEF Streams, MarkersHold
        <5> QED
          BY <2>3, <5>2
      <4> QED
        BY <4>1, <4>2
    <3>4. \A g \in Files : NoMore(g)' = NoMore(g)
      BY DEF NoMore
    <3> QED
      BY <3>1, <3>2, <3>3, <3>4 DEF MarkersHold
  <2>10. OutputHolds(given)'
    BY <1>0, <2>1 DEF Streams, OutputHolds
  <2> QED
    BY <2>4, <2>6, <2>7, <2>8, <2>9, <2>10 DEF Streams, ChannelHolds
<1> QED
  BY <1>c, <1>0, <1>4, <1>5, <1>6, <1>7, <1>8 DEF ScanInv
-----------------------------------------------------------------------------
\* A call, its end and a drop move nothing between worker and output.
LEMMA StreamsKept ==
    ASSUME NEW given, NEW received, Streams(given, received),
           UNCHANGED <<scripts, worker, decoded, channel, released, batches, done, output>>
    PROVE  Streams(given, received)'
BY DEF Streams, BuffersHold, ChannelHolds, ChannelFits, ChannelOrdered, ChannelComplete,
       MarkersHold, OutputHolds, Sent, Answers, Cursor, NoMore

LEMMA CallKeeps ==
    ASSUME ScanInv, Call \/ End \/ Drop
    PROVE  ScanInv'
<1>0. /\ UNCHANGED <<scripts, worker, decoded, late, channel, spawned, released, batches, done, output>>
      /\ reader # "dropped"
      /\ reader' \in {"idle", "inside", "ended", "dropped"}
      /\ reader' = "ended" => released = Count
  BY DEF Call, End, Drop, threads, buffers
<1>1. TypeOK /\ WorkersHold /\ WindowHolds /\ LateHolds /\ OutputOrdered
  BY DEF ScanInv
<1>2. TypeOK'
  BY <1>0, <1>1 DEF TypeOK
<1>3. WorkersHold'
  BY <1>0, <1>1 DEF WorkersHold, Answers
<1>4. WindowHolds'
  BY <1>0, <1>1 DEF WindowHolds, AtMost
<1>5. LateHolds'
  BY <1>0, <1>1 DEF LateHolds
<1>6. OutputOrdered'
  BY <1>0, <1>1, OutputKept
<1>7. \E given, received \in [Files -> Nat] : Streams(given, received)'
  BY <1>0, StreamsKept DEF ScanInv
<1> QED
  BY <1>0, <1>2, <1>3, <1>4, <1>5, <1>6, <1>7 DEF ScanInv
-----------------------------------------------------------------------------
LEMMA AdvanceKeeps ==
    ASSUME ScanInv, Advance
    PROVE  ScanInv'
<1> USE CountType
<1>0. /\ reader = "inside"
      /\ released < Count
      /\ batches[Cursor] = <<>>
      /\ done[Cursor]
      /\ released' = released + 1
      /\ spawned' = AtMost(spawned + 1)
      /\ worker' = SpawnedThrough(spawned', worker)
      /\ UNCHANGED <<scripts, decoded, late, channel, batches, done, output, reader>>
  BY DEF Advance, buffers
<1>1. TypeOK /\ WorkersHold /\ WindowHolds /\ LateHolds /\ OutputOrdered
  BY DEF ScanInv
<1>2. /\ released \in 0..Count /\ spawned \in 0..Count
      /\ Cursor \in Files /\ Cursor = released + 1
      /\ spawned' \in 0..Count
  BY <1>0, <1>1 DEF TypeOK, Cursor, Files, AtMost
<1>3. \A g \in Files : Answers(g) \in Nat /\ Answers(g)' = Answers(g)
  BY <1>0, <1>1, AnswersType DEF Answers
<1>4. /\ worker \in [Files -> WorkerStates]
      /\ \A g \in Files :
            worker'[g] = IF worker[g] = "unspawned" /\ g <= spawned' THEN "decode" ELSE worker[g]
  BY <1>0, <1>1 DEF TypeOK, SpawnedThrough
<1>5. worker' \in [Files -> WorkerStates]
  BY <1>0, <1>4 DEF SpawnedThrough, WorkerStates
<1>6. TypeOK'
  BY SMTT(30), <1>0, <1>1, <1>2, <1>5 DEF TypeOK
<1>7. PICK given, received \in [Files -> Nat] : Streams(given, received)
  BY <1>0 DEF ScanInv
<1>8. /\ worker[Cursor] = "gone"
      /\ received[Cursor] = Answers(Cursor)
      /\ \A i \in DOMAIN channel : channel[i].file # Cursor
  BY <1>0, <1>2, <1>7 DEF Streams, MarkersHold
<1>9. WorkersHold'
  BY <1>0, <1>1, <1>3, <1>4 DEF WorkersHold
<1>10. WindowHolds'
  <2>1. spawned' = AtMost(released' + Window)
    BY <1>0, <1>1, <1>2 DEF WindowHolds, AtMost
  <2>2. spawned <= spawned'
    BY <1>0, <1>2 DEF AtMost
  <2>3. \A g \in Files : worker'[g] = "unspawned" <=> g > spawned'
    BY <1>1, <1>2, <1>4, <2>2 DEF WindowHolds, Files
  <2>4. ASSUME NEW g \in Files, g <= released' \/ g > spawned'
        PROVE  /\ worker'[g] \in {"unspawned", "gone"}
               /\ batches'[g] = <<>>
               /\ \A i \in DOMAIN channel' : channel'[i].file # g
    <3>1. g = Cursor \/ g <= released \/ g > spawned
      BY <1>0, <1>2, <2>2, <2>4 DEF Files
    <3>2. /\ worker[g] \in {"unspawned", "gone"}
          /\ batches[g] = <<>>
          /\ \A i \in DOMAIN channel : channel[i].file # g
      BY <1>0, <1>1, <1>8, <3>1 DEF WindowHolds
    <3>3. worker'[g] \in {"unspawned", "gone"}
      <4>1. CASE worker[g] = "unspawned"
        <5>1. g > spawned
          BY <1>1, <4>1 DEF WindowHolds
        <5>2. released < spawned \/ spawned = Count
          BY <1>1, <1>2 DEF WindowHolds, AtMost
        <5>3. g > spawned'
          BY <1>0, <1>2, <2>4, <5>1, <5>2 DEF Files
        <5> QED
          BY <2>3, <5>3
      <4>2. CASE worker[g] = "gone"
        BY <1>4, <4>2
      <4> QED
        BY <3>2, <4>1, <4>2
    <3> QED
      BY <1>0, <3>2, <3>3
  <2> QED
    BY <2>1, <2>3, <2>4 DEF WindowHolds
<1>11. LateHolds'
  BY <1>0, <1>1, <1>4 DEF LateHolds
<1>12. OutputOrdered'
  BY <1>0, <1>1, OutputKept
<1>13. Streams(given, received)'
  <2>1. \A g \in Files : Sent(g)' = Sent(g) /\ (worker'[g] = "gone" <=> worker[g] = "gone")
    BY <1>0, <1>4 DEF Sent
  <2>2. BuffersHold(given, received)'
    <3>1. given[Cursor] = received[Cursor]
      <4>1. /\ given[Cursor] <= received[Cursor]
            /\ batches[Cursor] = [i \in 1..(received[Cursor] - given[Cursor]) |->
                                    [file |-> Cursor, place |-> given[Cursor] + i]]
            /\ given[Cursor] \in Nat /\ received[Cursor] \in Nat
        BY <1>2, <1>7 DEF Streams, BuffersHold
      <4>2. DOMAIN batches[Cursor] = 1..(received[Cursor] - given[Cursor])
        BY <4>1
      <4>3. DOMAIN batches[Cursor] = {}
        BY <1>0
      <4> QED
        BY SMTT(30), <4>1, <4>2, <4>3
    <3>2. Cursor' = Cursor + 1 /\ released' = Cursor
      BY <1>0 DEF Cursor
    <3>3. ASSUME NEW g \in Files
          PROVE  /\ g <= released' => given[g] = Answers(g)'
                 /\ g > Cursor' => given[g] = 0
      <4>1. g <= Cursor => g = Cursor \/ g <= released
        BY <1>2 DEF Files
      <4>2. /\ g <= released => given[g] = Answers(g)
            /\ g > Cursor => given[g] = 0
        BY <1>7 DEF Streams, BuffersHold
      <4>3. g \in Int
        BY DEF Files
      <4> QED
        BY <1>2, <1>3, <1>8, <3>1, <3>2, <4>1, <4>2, <4>3
    <3> QED
      BY <1>0, <1>7, <2>1, <3>3 DEF Streams, BuffersHold
  <2>3. ChannelHolds(received)'
    <3>1. \A i \in DOMAIN channel : channel[i].file \in Files
      BY <1>1, ChannelTypes
    <3> QED
      BY <1>0, <1>7, <2>1, <3>1
      DEF Streams, ChannelHolds, ChannelFits, ChannelOrdered, ChannelComplete
  <2>4. MarkersHold(received)'
    BY <1>0, <1>3, <1>7, <2>1 DEF Streams, MarkersHold, NoMore
  <2>5. OutputHolds(given)'
    BY <1>0, <1>7 DEF Streams, OutputHolds
  <2> QED
    BY <2>2, <2>3, <2>4, <2>5 DEF Streams
<1> QED
  BY <1>0, <1>6, <1>9, <1>10, <1>11, <1>12, <1>13 DEF ScanInv

LEMMA SameElements ==
    ASSUME NEW S, NEW s, NEW t, \A j \in S : s[j] = t[j]
    PROVE  {s[j] : j \in S} = {t[j] : j \in S}
<1>1. ASSUME NEW a PROVE a \in {s[j] : j \in S} <=> a \in {t[j] : j \in S}
  OBVIOUS
<1> QED
  BY <1>1, Zenon

LEMMA ReleaseKeeps ==
    ASSUME ScanInv, Release
    PROVE  /\ ScanInv'
           /\ Head(batches[Cursor]) \in AllAnswers \ Given(output)
           /\ Given(output) = {a \in AllAnswers : Before(a, Head(batches[Cursor]))}
<1> USE CountType
<1> DEFINE answer == Head(batches[Cursor])
<1>0. /\ reader = "inside"
      /\ released < Count
      /\ batches[Cursor] # <<>>
      /\ output' = Append(output, answer)
      /\ batches' = [batches EXCEPT ![Cursor] = Tail(@)]
      /\ reader' = "idle"
      /\ UNCHANGED <<scripts, worker, decoded, late, channel, spawned, released, done>>
  BY DEF Release, threads
<1>1. TypeOK /\ WorkersHold /\ WindowHolds /\ LateHolds /\ OutputOrdered
  BY DEF ScanInv
<1>2. /\ released \in 0..Count
      /\ Cursor \in Files /\ Cursor = released + 1 /\ Cursor' = Cursor
      /\ batches[Cursor] \in Seq(Messages)
      /\ output \in Seq(Messages)
  BY <1>0, <1>1 DEF TypeOK, Cursor, Files
<1>3. \A g \in Files : Answers(g) \in Nat /\ Answers(g)' = Answers(g)
  BY <1>0, <1>1, AnswersType DEF Answers
<1>4. PICK given, received \in [Files -> Nat] : Streams(given, received)
  BY <1>0 DEF ScanInv
<1>5. /\ given[Cursor] \in Nat /\ received[Cursor] \in Nat
      /\ given[Cursor] < received[Cursor]
      /\ received[Cursor] <= Answers(Cursor)
      /\ batches[Cursor] = [i \in 1..(received[Cursor] - given[Cursor]) |->
                              [file |-> Cursor, place |-> given[Cursor] + i]]
  <2>1. /\ given[Cursor] <= received[Cursor]
        /\ received[Cursor] <= Sent(Cursor)
        /\ batches[Cursor] = [i \in 1..(received[Cursor] - given[Cursor]) |->
                                [file |-> Cursor, place |-> given[Cursor] + i]]
        /\ given[Cursor] \in Nat /\ received[Cursor] \in Nat
    BY <1>2, <1>4 DEF Streams, BuffersHold
  <2>2. Sent(Cursor) <= Answers(Cursor) /\ Sent(Cursor) \in Int /\ Answers(Cursor) \in Nat
    <3>1. decoded[Cursor] \in Nat /\ decoded[Cursor] <= Answers(Cursor)
      BY <1>1, <1>2 DEF WorkersHold, TypeOK
    <3> QED
      BY <1>2, <1>3, <3>1 DEF Sent
  <2>3. Len(batches[Cursor]) # 0
    BY <1>0, <1>2
  <2>4. Len(batches[Cursor]) = received[Cursor] - given[Cursor]
    BY <2>1
  <2> QED
    BY <2>1, <2>2, <2>3, <2>4
<1>6. answer = [file |-> Cursor, place |-> given[Cursor] + 1]
  BY <1>2, <1>5
<1>7. /\ answer \in Messages
      /\ answer.file = Cursor
      /\ answer.place = given[Cursor] + 1
  BY <1>2, <1>5, <1>6 DEF Messages
<1> HIDE DEF answer
<1>8. answer \in AllAnswers
  <2>1. given[Cursor] + 1 \in 1..[f \in Files |-> Answers(f)][Cursor]
    BY <1>2, <1>3, <1>5
  <2> QED
    BY <1>2, <1>6, <2>1, AnswersInMember DEF AllAnswers
<1>9. \A g \in Files : /\ given[g] \in Nat
                       /\ g < Cursor => given[g] = Answers(g)
                       /\ g > Cursor => given[g] = 0
  <2>1. \A g \in Files : g < Cursor => g <= released
    BY <1>2 DEF Files
  <2> QED
    BY <1>4, <2>1 DEF Streams, BuffersHold
<1>10. Given(output) = AnswersIn(given)
  BY <1>4 DEF Streams, OutputHolds
<1>11. ASSUME NEW a
       PROVE  a \in Given(output) <=> a \in AllAnswers /\ Before(a, answer)
  <2>1. CASE a \in [file : Files, place : Int] /\ a = [file |-> a.file, place |-> a.place]
    <3>1. a \in AnswersIn(given) <=> a.place \in 1..given[a.file]
      BY <2>1, AnswersInMember
    <3>2. a \in AllAnswers <=> a.place \in 1..Answers(a.file)
      BY <2>1, AnswersInMember DEF AllAnswers
    <3>3. a.file \in Files /\ a.file \in Int /\ Cursor \in Int /\ a.place \in Int
      BY <1>2, <2>1 DEF Files
    <3>4. a.file < Cursor \/ a.file = Cursor \/ a.file > Cursor
      BY <3>3
    <3>5. Before(a, answer) <=> a.file < Cursor \/ (a.file = Cursor /\ a.place <= given[Cursor])
      BY <1>5, <1>7, <3>3 DEF Before
    <3>6. CASE a.file < Cursor
      BY <1>9, <1>10, <3>1, <3>2, <3>3, <3>5, <3>6
    <3>7. CASE a.file = Cursor
      BY <1>3, <1>5, <1>10, <3>1, <3>2, <3>3, <3>5, <3>7
    <3>8. CASE a.file > Cursor
      BY <1>9, <1>10, <3>1, <3>2, <3>3, <3>5, <3>8
    <3> QED
      BY <3>4, <3>6, <3>7, <3>8
  <2>2. CASE ~(a \in [file : Files, place : Int] /\ a = [file |-> a.file, place |-> a.place])
    BY <1>10, <2>2, AnswersInForm DEF AllAnswers
  <2> QED
    BY <2>1, <2>2
<1>12. Given(output) = {a \in AllAnswers : Before(a, answer)}
  BY <1>11
<1>13. answer \notin Given(output)
  <2>1. answer.file \in Int /\ answer.place \in Int
    BY <1>2, <1>5, <1>7 DEF Files
  <2>2. ~Before(answer, answer)
    BY <2>1 DEF Before
  <2> QED
    BY <1>12, <2>2
<1>14. /\ DOMAIN output = 1..Len(output) /\ Len(output) \in Nat
       /\ DOMAIN output' = 1..Len(output) + 1
       /\ \A i \in 1..Len(output) : output'[i] = output[i]
       /\ output'[Len(output) + 1] = answer
       /\ output' \in Seq(Messages)
  BY <1>0, <1>2, <1>7
<1>15. TypeOK'
  <2>1. Tail(batches[Cursor]) \in Seq(Messages)
    BY <1>0, <1>2
  <2>2. batches' \in [Files -> Seq(Messages)]
    BY <1>0, <1>1, <2>1 DEF TypeOK
  <2> QED
    BY <1>0, <1>1, <1>14, <2>2 DEF TypeOK
<1>16. WorkersHold'
  BY <1>0, <1>1, <1>3 DEF WorkersHold
<1>17. WindowHolds'
  <2>1. \A g \in Files : g <= released \/ g > spawned => g # Cursor
    BY <1>0, <1>1, <1>2 DEF WindowHolds
  <2>2. \A g \in Files : g # Cursor => batches'[g] = batches[g]
    BY <1>0, <1>1 DEF TypeOK
  <2> QED
    BY <1>0, <1>1, <2>1, <2>2 DEF WindowHolds, AtMost
<1>18. LateHolds'
  BY <1>0, <1>1 DEF LateHolds
<1>19. OutputOrdered'
  <2>1. AllAnswers' = AllAnswers
    BY <1>0 DEF AllAnswers, Answers
  <2>2. ASSUME NEW i \in DOMAIN output'
        PROVE  {output'[j] : j \in 1..(i - 1)} = {a \in AllAnswers : Before(a, output'[i])}
    <3>1. CASE i \in DOMAIN output
      <4>1. {output'[j] : j \in 1..(i - 1)} = {output[j] : j \in 1..(i - 1)}
        <5>1. \A j \in 1..(i - 1) : output'[j] = output[j]
          BY <1>14, <3>1
        <5> QED
          BY <5>1, SameElements
      <4> QED
        BY <1>1, <1>14, <3>1, <4>1 DEF OutputOrdered
    <3>2. CASE i = Len(output) + 1
      <4>1. {output'[j] : j \in 1..(i - 1)} = {output[j] : j \in DOMAIN output}
        <5>1. 1..(i - 1) = DOMAIN output /\ \A j \in 1..(i - 1) : output'[j] = output[j]
          BY <1>14, <3>2
        <5> QED
          BY <5>1, SameElements
      <4> QED
        BY <1>12, <1>14, <3>2, <4>1 DEF Given
    <3> QED
      BY <1>14, <3>1, <3>2
  <2> QED
    BY <2>1, <2>2 DEF OutputOrdered
<1>20. PICK next \in [Files -> Nat] :
          \A g \in Files : next[g] = IF g = Cursor THEN given[g] + 1 ELSE given[g]
  <2>1. [g \in Files |-> IF g = Cursor THEN given[g] + 1 ELSE given[g]] \in [Files -> Nat]
    BY <1>9
  <2> QED
    BY <2>1
<1>21. BuffersHold(next, received)'
  <2>1. \A g \in Files : Sent(g)' = Sent(g)
    BY <1>0 DEF Sent
  <2>2. batches'[Cursor] =
          [i \in 1..(received[Cursor] - next[Cursor]) |-> [file |-> Cursor, place |-> next[Cursor] + i]]
    <3>1. batches'[Cursor] = Tail(batches[Cursor])
      BY <1>0, <1>1, <1>2 DEF TypeOK
    <3>2. /\ Len(batches[Cursor]) = received[Cursor] - given[Cursor]
          /\ \A i \in 1..(received[Cursor] - given[Cursor]) :
                batches[Cursor][i] = [file |-> Cursor, place |-> given[Cursor] + i]
      BY <1>5
    <3>3. Tail(batches[Cursor]) =
            [i \in 1..(Len(batches[Cursor]) - 1) |-> batches[Cursor][i + 1]]
      BY <1>0, <1>2
    <3>4. Tail(batches[Cursor]) =
            [i \in 1..(received[Cursor] - given[Cursor] - 1) |->
                [file |-> Cursor, place |-> given[Cursor] + (i + 1)]]
      <4>1. received[Cursor] \in Nat /\ given[Cursor] \in Nat
        BY <1>5
      <4>2. \A i \in 1..(received[Cursor] - given[Cursor] - 1) :
               batches[Cursor][i + 1] = [file |-> Cursor, place |-> given[Cursor] + (i + 1)]
        BY <4>1, <3>2
      <4> QED
        BY <4>2, <3>2, <3>3
    <3> QED
      <4>1. next[Cursor] = given[Cursor] + 1
        BY <1>2, <1>20
      <4>2. received[Cursor] - next[Cursor] = received[Cursor] - given[Cursor] - 1
        BY <1>5, <4>1
      <4>3. ASSUME NEW i \in 1..(received[Cursor] - next[Cursor])
            PROVE  [file |-> Cursor, place |-> given[Cursor] + (i + 1)] =
                     [file |-> Cursor, place |-> next[Cursor] + i]
        <5>1. i \in Int /\ given[Cursor] \in Int
          BY <1>5
        <5>2. given[Cursor] + (i + 1) = next[Cursor] + i
          BY <4>1, <5>1
        <5> QED
          BY <5>2
      <4> DEFINE old(i) == [file |-> Cursor, place |-> given[Cursor] + (i + 1)]
                 new(i) == [file |-> Cursor, place |-> next[Cursor] + i]
      <4>4. \A i \in 1..(received[Cursor] - next[Cursor]) : old(i) = new(i)
        BY <4>3
      <4>5. batches'[Cursor] = [i \in 1..(received[Cursor] - next[Cursor]) |-> old(i)]
        BY <3>1, <3>4, <4>2
      <4> HIDE DEF old, new
      <4>6. batches'[Cursor] = [i \in 1..(received[Cursor] - next[Cursor]) |-> new(i)]
        BY <4>4, <4>5
      <4> QED
        BY <4>6 DEF new
  <2>3. \A g \in Files : g # Cursor => batches'[g] = batches[g]
    BY <1>0, <1>1 DEF TypeOK
  <2>4. ASSUME NEW g \in Files
        PROVE  /\ next[g] <= received[g]
               /\ received[g] <= Sent(g)'
               /\ batches'[g] =
                    [i \in 1..(received[g] - next[g]) |-> [file |-> g, place |-> next[g] + i]]
               /\ g <= released => next[g] = Answers(g)
               /\ g > Cursor => next[g] = 0
    <3>1. CASE g = Cursor
      <4>1. received[Cursor] <= Sent(Cursor)
        BY <1>2, <1>4 DEF Streams, BuffersHold
      <4> QED
        BY <1>2, <1>5, <1>20, <2>1, <2>2, <3>1, <4>1
    <3>2. CASE g # Cursor
      BY <1>4, <1>20, <2>1, <2>3, <3>2 DEF Streams, BuffersHold
    <3> QED
      BY <3>1, <3>2
  <2> QED
    BY <1>0, <1>2, <1>3, <2>4 DEF BuffersHold
<1>22. ChannelHolds(received)'
  BY <1>0, <1>4
  DEF Streams, ChannelHolds, ChannelFits, ChannelOrdered, ChannelComplete, Sent
<1>23. MarkersHold(received)'
  BY <1>0, <1>3, <1>4 DEF Streams, MarkersHold, NoMore
<1>24. OutputHolds(next)'
  <2>1. Given(output)' = Given(output) \cup {answer}
    <3>1. ASSUME NEW a
          PROVE  a \in Given(output)' <=> a \in Given(output) \cup {answer}
      <4>1. a \in Given(output)' <=> \E i \in 1..Len(output) + 1 : a = output'[i]
        BY <1>14 DEF Given
      <4>2. a \in Given(output) <=> \E i \in 1..Len(output) : a = output[i]
        BY <1>14 DEF Given
      <4>3. \A i : i \in 1..Len(output) + 1 <=> i \in 1..Len(output) \/ i = Len(output) + 1
        BY <1>14
      <4> QED
        BY <1>14, <4>1, <4>2, <4>3
    <3> QED
      BY <3>1
  <2>2. \A g \in Files : g = Cursor => given[g] + 1 \in Nat
    BY <1>5
  <2>3. ASSUME NEW a
        PROVE  a \in AnswersIn(next) <=> a \in AnswersIn(given) \cup {answer}
    <3>1. CASE a \in [file : Files, place : Int] /\ a = [file |-> a.file, place |-> a.place]
      <4>1. a \in AnswersIn(given) <=> a.place \in 1..given[a.file]
        BY <3>1, AnswersInMember
      <4>2. a \in AnswersIn(next) <=> a.place \in 1..next[a.file]
        BY <3>1, AnswersInMember
      <4>3. a = answer <=> a.file = Cursor /\ a.place = given[Cursor] + 1
        BY <1>6, <1>7, <3>1
      <4>4. a.file \in Files /\ a.place \in Int
        BY <3>1
      <4>5. CASE a.file = Cursor
        BY <1>5, <1>20, <4>1, <4>2, <4>3, <4>4, <4>5
      <4>6. CASE a.file # Cursor
        BY <1>20, <4>1, <4>2, <4>3, <4>4, <4>6
      <4> QED
        BY <4>5, <4>6
    <3>2. CASE ~(a \in [file : Files, place : Int] /\ a = [file |-> a.file, place |-> a.place])
      <4>1. answer \in [file : Files, place : Int] /\ answer = [file |-> answer.file, place |-> answer.place]
        BY <1>2, <1>5, <1>6, <1>7
      <4> QED
        BY <3>2, <4>1, AnswersInForm
    <3> QED
      BY <3>1, <3>2
  <2> QED
    BY <1>10, <2>1, <2>3 DEF OutputHolds
<1>25. Streams(next, received)'
  BY <1>21, <1>22, <1>23, <1>24 DEF Streams
<1> QED
  BY <1>0, <1>4, <1>8, <1>12, <1>13, <1>15, <1>16, <1>17, <1>18, <1>19, <1>20, <1>25
  DEF ScanInv, answer

\* The message received is the first the file's buffer still misses.
LEMMA HeadIsNext ==
    ASSUME TypeOK, WorkersHold, reader # "dropped", channel # <<>>,
           NEW given \in [Files -> Nat], NEW received \in [Files -> Nat],
           Streams(given, received)
    PROVE  LET f == channel[1].file IN
           /\ 1 \in DOMAIN channel
           /\ channel[1].place # 0 => channel[1].place = received[f] + 1
           /\ channel[1].place # 0 => received[f] + 1 <= Sent(f)
           /\ channel[1].place = 0 =>
                /\ worker[f] = "gone"
                /\ received[f] = Answers(f)
                /\ \A i \in DOMAIN channel : i # 1 => channel[i].file # f
<1> USE CountType
<1>1. /\ DOMAIN channel = 1..Len(channel) /\ Len(channel) \in Nat /\ Len(channel) > 0
      /\ 1 \in DOMAIN channel
      /\ channel[1].file \in Files /\ channel[1].place \in Nat
  <2>1. channel \in Seq(Messages) /\ Len(channel) > 0
    BY DEF TypeOK
  <2> QED
    BY <2>1, ChannelTypes
<1>2. PICK f \in Files : f = channel[1].file
  BY <1>1
<1>3. /\ received[f] \in Nat /\ Sent(f) \in Int
      /\ received[f] <= Sent(f)
      /\ Answers(f) \in Nat
  BY AnswersType DEF Streams, BuffersHold, Sent, TypeOK
<1>4. \A i \in DOMAIN channel : i # 1 /\ channel[i].file = f =>
        channel[1].place # 0 /\ (channel[i].place # 0 => channel[1].place < channel[i].place)
  BY SMTT(30), <1>1, <1>2 DEF Streams, ChannelHolds, ChannelOrdered
<1>5. \A p \in received[f] + 1..Sent(f) :
        \E i \in DOMAIN channel : channel[i] = [file |-> f, place |-> p]
  BY DEF Streams, ChannelHolds, ChannelComplete
<1>6. ASSUME channel[1].place # 0
      PROVE  channel[1].place = received[f] + 1 /\ received[f] + 1 <= Sent(f)
  <2>1. channel[1].place \in received[f] + 1..Sent(f)
    BY <1>1, <1>2, <1>6 DEF Streams, ChannelHolds, ChannelFits
  <2>2. received[f] + 1 \in received[f] + 1..Sent(f)
    BY <1>3, <2>1
  <2>3. PICK i \in DOMAIN channel : channel[i] = [file |-> f, place |-> received[f] + 1]
    BY <1>5, <2>2
  <2>4. channel[i].file = f /\ channel[i].place = received[f] + 1
    BY <2>3
  <2>5. i # 1 => channel[1].place < received[f] + 1
    BY <1>3, <1>4, <2>4
  <2> QED
    BY <1>1, <1>3, <2>1, <2>4, <2>5
<1>7. ASSUME channel[1].place = 0
      PROVE  /\ worker[f] = "gone"
             /\ received[f] = Answers(f)
             /\ \A i \in DOMAIN channel : i # 1 => channel[i].file # f
  <2>1. worker[f] = "gone"
    <3>1. ~(channel[1].place \in received[f] + 1..Sent(f))
      BY <1>3, <1>7
    <3> QED
      BY <1>1, <1>2, <3>1 DEF Streams, ChannelHolds, ChannelFits
  <2>2. \A i \in DOMAIN channel : i # 1 => channel[i].file # f
    BY <1>4, <1>7
  <2>3. Sent(f) = Answers(f)
    BY <2>1 DEF WorkersHold, Sent
  <2>4. ASSUME received[f] # Answers(f) PROVE FALSE
    <3>1. received[f] + 1 \in received[f] + 1..Sent(f)
      BY <1>3, <2>3, <2>4
    <3>2. PICK i \in DOMAIN channel : channel[i] = [file |-> f, place |-> received[f] + 1]
      BY <1>5, <3>1
    <3>3. channel[i].file = f /\ channel[i].place = received[f] + 1
      BY <3>2
    <3> QED
      BY <1>3, <1>7, <2>2, <3>3
  <2> QED
    BY <2>1, <2>2, <2>4
<1> QED
  BY <1>1, <1>2, <1>6, <1>7

LEMMA FunctionIsSeq ==
    ASSUME NEW S, NEW n \in Nat, NEW t \in [1..n -> S]
    PROVE  t \in Seq(S)
BY SeqDef

LEMMA AppendIs ==
    ASSUME NEW S, NEW s \in Seq(S), NEW e \in S, NEW t \in Seq(S),
           Len(t) = Len(s) + 1,
           \A i \in 1..Len(s) : t[i] = s[i],
           t[Len(s) + 1] = e
    PROVE  Append(s, e) = t
<1>1. Append(s, e) \in Seq(S) /\ Len(Append(s, e)) = Len(s) + 1
  BY AppendProperties
<1>2. \A i \in 1..Len(t) : Append(s, e)[i] = t[i]
  BY AppendProperties
<1> QED
  BY <1>1, <1>2, SeqEqual

LEMMA ReceiveKeeps ==
    ASSUME ScanInv, Receive
    PROVE  ScanInv'
<1> USE CountType
<1>0. /\ reader = "inside"
      /\ channel # <<>>
      /\ channel' = Tail(channel)
      /\ UNCHANGED <<scripts, worker, decoded, late, spawned, released, output, reader>>
  BY DEF Receive, threads
<1>1. TypeOK /\ WorkersHold /\ WindowHolds /\ LateHolds /\ OutputOrdered
  BY DEF ScanInv
<1>2. PICK given, received \in [Files -> Nat] : Streams(given, received)
  BY <1>0 DEF ScanInv
<1>3. PICK m \in Messages : m = channel[1] /\ m = Head(channel)
  <2>1. channel \in Seq(Messages)
    BY <1>1 DEF TypeOK
  <2> QED
    BY <1>0, <2>1
<1>4. PICK f \in Files : f = m.file
  BY DEF Messages
<1>5. /\ m.place \in Nat
      /\ m = [file |-> f, place |-> m.place]
  BY <1>4 DEF Messages
<1>6. /\ m.place # 0 => m.place = received[f] + 1 /\ received[f] + 1 <= Sent(f)
      /\ m.place = 0 =>
            /\ worker[f] = "gone"
            /\ received[f] = Answers(f)
            /\ \A i \in DOMAIN channel : i # 1 => channel[i].file # f
  BY <1>0, <1>1, <1>2, <1>3, <1>4, HeadIsNext
<1>7. /\ DOMAIN channel = 1..Len(channel) /\ Len(channel) \in Nat /\ Len(channel) > 0
      /\ DOMAIN channel' = 1..Len(channel) - 1
      /\ \A i \in DOMAIN channel' : i + 1 \in DOMAIN channel /\ channel'[i] = channel[i + 1]
      /\ channel' \in Seq(Messages)
  <2>1. channel \in Seq(Messages) /\ channel # <<>>
    BY <1>0, <1>1 DEF TypeOK
  <2>2. DOMAIN channel = 1..Len(channel) /\ Len(channel) \in Nat /\ Len(channel) > 0
    BY <2>1
  <2>3. Tail(channel) \in Seq(Messages) /\ Len(Tail(channel)) = Len(channel) - 1
    BY <2>1
  <2>4. \A i \in 1..Len(channel) - 1 : i + 1 \in 1..Len(channel) /\ Tail(channel)[i] = channel[i + 1]
    BY <2>1, <2>2
  <2>5. DOMAIN Tail(channel) = 1..Len(channel) - 1
    BY <2>2, <2>3
  <2> QED
    BY <1>0, <2>2, <2>3, <2>4, <2>5
<1>8. /\ m.place = 0 => done' = [done EXCEPT ![f] = TRUE] /\ batches' = batches
      /\ m.place # 0 => batches' = [batches EXCEPT ![f] = Append(@, m)] /\ done' = done
  BY <1>3, <1>4 DEF Receive
<1>9. \A g \in Files : Answers(g) \in Nat /\ Answers(g)' = Answers(g)
  BY <1>0, <1>1, AnswersType DEF Answers
<1>10. /\ done' \in [Files -> BOOLEAN]
       /\ batches' \in [Files -> Seq(Messages)]
       /\ \A g \in Files : g # f => batches'[g] = batches[g] /\ done'[g] = done[g]
  <2>1. CASE m.place = 0
    BY <1>1, <1>8, <2>1 DEF TypeOK
  <2>2. CASE m.place # 0
    <3>1. /\ batches \in [Files -> Seq(Messages)]
          /\ done \in [Files -> BOOLEAN]
      BY <1>1 DEF TypeOK
    <3>2. Append(batches[f], m) \in Seq(Messages)
      BY <3>1, AppendProperties
    <3> QED
      BY <1>8, <2>2, <3>1, <3>2
  <2> QED
    BY <2>1, <2>2
<1>11. TypeOK'
  BY <1>0, <1>1, <1>7, <1>10 DEF TypeOK
<1>12. WorkersHold'
  BY <1>0, <1>1, <1>9 DEF WorkersHold
<1>13. WindowHolds'
  <2>1. 1 \in DOMAIN channel /\ channel[1].file = f
    BY <1>3, <1>4, <1>7
  <2>2. ASSUME NEW g \in Files, g <= released \/ g > spawned
        PROVE  /\ worker[g] \in {"unspawned", "gone"}
               /\ batches'[g] = <<>>
               /\ \A i \in DOMAIN channel' : channel'[i].file # g
    <3>1. /\ worker[g] \in {"unspawned", "gone"}
          /\ batches[g] = <<>>
          /\ \A i \in DOMAIN channel : channel[i].file # g
      BY <1>1, <2>2 DEF WindowHolds
    <3>2. g # f
      BY <2>1, <3>1
    <3> QED
      BY <1>7, <1>10, <3>1, <3>2
  <2>3. /\ UNCHANGED <<worker, spawned, released>>
        /\ AtMost(released + Window)' = AtMost(released + Window)
    BY <1>0 DEF AtMost
  <2> QED
    BY <1>1, <2>2, <2>3 DEF WindowHolds
<1>14. LateHolds'
  BY <1>0, <1>1 DEF LateHolds
<1>15. OutputOrdered'
  BY <1>0, <1>1, OutputKept
<1>16. /\ \A g \in Files : received[g] \in Nat /\ given[g] \in Nat /\ Sent(g) \in Int /\ Sent(g)' = Sent(g)
       /\ \A i \in DOMAIN channel : channel[i].file \in Files /\ channel[i].place \in Nat
  <2>1. \A g \in Files : Sent(g) \in Int /\ Sent(g)' = Sent(g)
    BY <1>0, <1>1 DEF Sent, TypeOK
  <2> QED
    BY <1>1, <2>1, ChannelTypes
<1>17. PICK now \in [Files -> Nat] :
        \A g \in Files : now[g] = IF g = f /\ m.place # 0 THEN received[g] + 1 ELSE received[g]
  <2>1. [g \in Files |-> IF g = f /\ m.place # 0 THEN received[g] + 1 ELSE received[g]]
          \in [Files -> Nat]
    BY <1>16
  <2> QED
    BY <2>1
<1>18. BuffersHold(given, now)'
  <2>1. /\ given[f] <= received[f]
        /\ received[f] <= Sent(f)
        /\ batches[f] = [i \in 1..(received[f] - given[f]) |-> [file |-> f, place |-> given[f] + i]]
    BY <1>2 DEF Streams, BuffersHold
  <2>2. given[f] <= now[f] /\ now[f] <= Sent(f)
    BY <1>6, <1>16, <1>17, <2>1
  <2>3. batches'[f] = [i \in 1..(now[f] - given[f]) |-> [file |-> f, place |-> given[f] + i]]
    <3>1. CASE m.place = 0
      BY <1>8, <1>17, <2>1, <3>1
    <3>2. CASE m.place # 0
      <4> DEFINE buffer == batches[f]
                 answer(i) == [file |-> f, place |-> given[f] + i]
      <4>1. buffer \in Seq(Messages) /\ batches'[f] = Append(buffer, m)
        BY <1>1, <1>8, <3>2 DEF TypeOK
      <4>2. Len(buffer) = received[f] - given[f] /\ Len(buffer) \in Nat
        BY <1>16, <2>1, <4>1
      <4>3. \A i \in 1..Len(buffer) : buffer[i] = answer(i)
        BY <2>1, <4>2
      <4>4. m = answer(Len(buffer) + 1)
        <5>1. given[f] + (Len(buffer) + 1) = received[f] + 1
          BY <1>16, <4>2
        <5> QED
          BY <1>5, <1>6, <3>2, <5>1
      <4>5. now[f] - given[f] = Len(buffer) + 1
        BY <1>16, <1>17, <3>2, <4>2
      <4> HIDE DEF buffer, answer
      <4> DEFINE longer == [i \in 1..(Len(buffer) + 1) |-> answer(i)]
      <4>6. /\ longer \in Seq(Messages)
            /\ Len(longer) = Len(buffer) + 1
            /\ \A i \in 1..Len(buffer) : longer[i] = buffer[i]
            /\ longer[Len(buffer) + 1] = m
        <5>1. ASSUME NEW i \in 1..(Len(buffer) + 1) PROVE answer(i) \in Messages
          <6>1. CASE i \in 1..Len(buffer)
            BY <4>1, <4>3, <6>1, ElementOfSeq
          <6>2. CASE i = Len(buffer) + 1
            BY <4>4, <6>2
          <6> QED
            BY <4>2, <6>1, <6>2
        <5>2. longer \in [1..(Len(buffer) + 1) -> Messages]
          BY <5>1
        <5>3. longer \in Seq(Messages) /\ Len(longer) = Len(buffer) + 1
          <6>1. Len(buffer) + 1 \in Nat
            BY <4>2
          <6>2. DOMAIN longer = 1..(Len(buffer) + 1)
            OBVIOUS
          <6> HIDE DEF longer
          <6>3. longer \in Seq(Messages)
            BY <5>2, <6>1, FunctionIsSeq
          <6> QED
            BY <6>1, <6>2, <6>3, LenProperties
        <5> QED
          BY <4>2, <4>3, <4>4, <5>3
      <4> HIDE DEF longer
      <4>7. Append(buffer, m) = longer
        BY <4>1, <4>6, AppendIs
      <4>8. Append(buffer, m) = [i \in 1..(Len(buffer) + 1) |-> answer(i)]
        BY <4>7 DEF longer
      <4> QED
        BY <4>1, <4>5, <4>8 DEF answer
    <3> QED
      BY <3>1, <3>2
  <2>4. ASSUME NEW g \in Files
        PROVE  /\ given[g] <= now[g]
               /\ now[g] <= Sent(g)'
               /\ batches'[g] =
                    [i \in 1..(now[g] - given[g]) |-> [file |-> g, place |-> given[g] + i]]
               /\ g <= released => given[g] = Answers(g)
               /\ g > Cursor => given[g] = 0
    <3>1. CASE g = f
      <4>1. /\ g <= released => given[g] = Answers(g)
            /\ g > Cursor => given[g] = 0
        BY <1>2 DEF Streams, BuffersHold
      <4> QED
        BY <1>16, <2>2, <2>3, <3>1, <4>1
    <3>2. CASE g # f
      BY <1>2, <1>10, <1>16, <1>17, <3>2 DEF Streams, BuffersHold
    <3> QED
      BY <3>1, <3>2
  <2>5. Cursor' = Cursor
    BY <1>0 DEF Cursor
  <2> QED
    BY <1>0, <1>9, <2>4, <2>5 DEF BuffersHold
<1>19. ChannelHolds(now)'
  <2>1. ChannelFits(now)'
    <3>1. ASSUME NEW i \in DOMAIN channel'
          PROVE  \/ channel'[i].place = 0 /\ worker[channel'[i].file] = "gone"
                 \/ \E g \in Files : channel'[i].file = g /\ channel'[i].place \in now[g] + 1..Sent(g)
      <4>1. PICK k \in DOMAIN channel : k = i + 1 /\ k # 1 /\ k > 1 /\ channel'[i] = channel[k]
        BY <1>7
      <4>2. PICK g \in Files : g = channel[k].file
        BY <1>16
      <4>3. \/ channel[k].place = 0 /\ worker[g] = "gone"
            \/ channel[k].place \in received[g] + 1..Sent(g)
        BY <1>2, <4>2 DEF Streams, ChannelHolds, ChannelFits
      <4>4. CASE g = f /\ m.place # 0 /\ channel[k].place # 0
        <5>0. 1 \in DOMAIN channel /\ 1 < k /\ channel[1].file = channel[k].file
          BY <1>3, <1>4, <1>7, <4>1, <4>2, <4>4
        <5>a. channel[1].place < channel[k].place
          BY <1>2, <4>4, <5>0 DEF Streams, ChannelHolds, ChannelOrdered
        <5>1. m.place < channel[k].place
          BY <1>3, <5>a
        <5>2. channel[k].place \in now[g] + 1..Sent(g)
          BY <1>6, <1>16, <1>17, <4>3, <4>4, <5>1
        <5> QED
          BY <4>1, <4>2, <5>2
      <4>5. CASE g # f \/ m.place = 0
        BY <1>17, <4>1, <4>2, <4>3, <4>5
      <4>6. CASE channel[k].place = 0
        <5>1. ~(channel[k].place \in received[g] + 1..Sent(g))
          BY <1>16, <4>6
        <5> QED
          BY <4>1, <4>2, <4>3, <4>6, <5>1
      <4> QED
        BY <4>4, <4>5, <4>6
    <3> QED
      BY <1>0, <1>16, <3>1 DEF ChannelFits
  <2>2. ChannelOrdered'
    <3>1. ASSUME NEW i \in DOMAIN channel', NEW j \in DOMAIN channel',
                 i < j, channel'[i].file = channel'[j].file
          PROVE  /\ channel'[i].place # 0
                 /\ channel'[j].place # 0 => channel'[i].place < channel'[j].place
      <4>1. /\ i + 1 \in DOMAIN channel /\ channel'[i] = channel[i + 1]
            /\ j + 1 \in DOMAIN channel /\ channel'[j] = channel[j + 1]
            /\ i + 1 < j + 1
        BY <1>7, <3>1
      <4> QED
        BY <1>2, <3>1, <4>1 DEF Streams, ChannelHolds, ChannelOrdered
    <3> QED
      BY <3>1 DEF ChannelOrdered
  <2>3. ChannelComplete(now)'
    <3>1. ASSUME NEW g \in Files, NEW p \in now[g] + 1..Sent(g)
          PROVE  \E i \in DOMAIN channel' : channel'[i] = [file |-> g, place |-> p]
      <4>1. p \in received[g] + 1..Sent(g) /\ p \in Int /\ p > 0
        BY <1>16, <1>17, <3>1
      <4>2. PICK k \in DOMAIN channel : channel[k] = [file |-> g, place |-> p]
        BY <1>2, <4>1 DEF Streams, ChannelHolds, ChannelComplete
      <4>3. channel[k].file = g /\ channel[k].place = p
        BY <4>2
      <4>4. k # 1
        <5>1. CASE g = f /\ m.place # 0
          <6>1. p > received[f] + 1
            BY <1>16, <1>17, <3>1, <5>1
          <6> QED
            BY <1>3, <1>6, <1>16, <4>3, <5>1, <6>1
        <5>2. CASE g # f \/ m.place = 0
          BY <1>3, <1>4, <4>1, <4>3, <5>2
        <5> QED
          BY <5>1, <5>2
      <4>5. k - 1 \in DOMAIN channel' /\ channel'[k - 1] = channel[(k - 1) + 1] /\ (k - 1) + 1 = k
        BY <1>7, <4>4
      <4> QED
        BY <4>2, <4>5
    <3> QED
      BY <1>16, <3>1 DEF ChannelComplete
  <2> QED
    BY <2>1, <2>2, <2>3 DEF ChannelHolds
<1>20. MarkersHold(now)'
  <2>1. ASSUME NEW g \in Files, done'[g]
        PROVE  /\ worker[g] = "gone"
               /\ now[g] = Answers(g)
               /\ \A i \in DOMAIN channel' : channel'[i].file # g
    <3>1. CASE g = f /\ m.place = 0
      <4>1. \A i \in DOMAIN channel' : i + 1 \in DOMAIN channel /\ i + 1 # 1 /\ channel'[i] = channel[i + 1]
        BY <1>7
      <4> QED
        BY <1>6, <1>17, <3>1, <4>1
    <3>2. CASE ~(g = f /\ m.place = 0)
      <4>1. done[g]
        BY <1>8, <1>10, <2>1, <3>2
      <4>2. /\ worker[g] = "gone"
            /\ received[g] = Answers(g)
            /\ \A i \in DOMAIN channel : channel[i].file # g
        BY <1>2, <4>1 DEF Streams, MarkersHold
      <4>3. g # f
        BY SMTT(30), <1>3, <1>4, <1>7, <4>2
      <4> QED
        BY <1>7, <1>17, <4>2, <4>3
    <3> QED
      BY <3>1, <3>2
  <2>2. ASSUME NEW g \in Files, worker[g] = "gone", ~done'[g]
        PROVE  \E i \in DOMAIN channel' : channel'[i] = NoMore(g)
    <3>1. ~(g = f /\ m.place = 0)
      BY <1>1, <1>8, <2>2 DEF TypeOK
    <3>2. ~done[g]
      BY <1>8, <1>10, <2>2, <3>1
    <3>3. PICK k \in DOMAIN channel : channel[k] = NoMore(g)
      BY <1>2, <2>2, <3>2 DEF Streams, MarkersHold
    <3>4. channel[k].file = g /\ channel[k].place = 0
      BY <3>3 DEF NoMore
    <3>5. k # 1
      BY <1>3, <1>4, <3>1, <3>4
    <3>6. k - 1 \in DOMAIN channel' /\ channel'[k - 1] = channel[(k - 1) + 1] /\ (k - 1) + 1 = k
      BY <1>7, <3>5
    <3> QED
      BY <3>3, <3>6
  <2>3. \A g \in Files : NoMore(g)' = NoMore(g)
    BY DEF NoMore
  <2> QED
    BY <1>0, <1>9, <2>1, <2>2, <2>3 DEF MarkersHold
<1>21. OutputHolds(given)'
  BY <1>0, <1>2 DEF Streams, OutputHolds
<1>22. Streams(given, now)'
  BY <1>18, <1>19, <1>20, <1>21 DEF Streams
<1> QED
  BY <1>0, <1>11, <1>12, <1>13, <1>14, <1>15, <1>22 DEF ScanInv
-----------------------------------------------------------------------------
LEMMA StutterKeeps ==
    ASSUME ScanInv, UNCHANGED vars
    PROVE  ScanInv'
<1>0. UNCHANGED <<scripts, worker, decoded, late, channel, spawned, released, batches, done,
                  output, reader>>
  BY DEF vars, threads, buffers
<1>1. TypeOK /\ WorkersHold /\ WindowHolds /\ LateHolds /\ OutputOrdered
  BY DEF ScanInv
<1>2. TypeOK'
  BY <1>0, <1>1 DEF TypeOK
<1>3. WorkersHold'
  BY <1>0, <1>1 DEF WorkersHold, Answers
<1>4. WindowHolds'
  BY <1>0, <1>1 DEF WindowHolds, AtMost
<1>5. LateHolds'
  BY <1>0, <1>1 DEF LateHolds
<1>6. OutputOrdered'
  BY <1>0, <1>1, OutputKept
<1>7. reader # "dropped" => \E given, received \in [Files -> Nat] : Streams(given, received)'
  BY <1>0, StreamsKept DEF ScanInv
<1> QED
  BY <1>0, <1>1, <1>2, <1>3, <1>4, <1>5, <1>6, <1>7 DEF ScanInv

\* ParallelScan: the invariant the properties below rest on, for any plan and
\* window and however the workers are scheduled.
THEOREM ScanInvariant == Spec => []ScanInv
<1>1. ScanInv /\ [Next]_vars => ScanInv'
  <2> SUFFICES ASSUME ScanInv, [Next]_vars PROVE ScanInv'
    OBVIOUS
  <2>1. CASE Call \/ End \/ Drop
    BY <2>1, CallKeeps
  <2>2. CASE Release
    BY <2>2, ReleaseKeeps
  <2>3. CASE Advance
    BY <2>3, AdvanceKeeps
  <2>4. CASE Receive
    BY <2>4, ReceiveKeeps
  <2>5. CASE \E f \in Files : Work(f)
    <3>1. PICK f \in Files : Work(f)
      BY <2>5
    <3> QED
      BY <3>1, DecodeKeeps, ExhaustKeeps, SendKeeps, MarkKeeps DEF Work
  <2>6. CASE UNCHANGED vars
    BY <2>6, StutterKeeps
  <2> QED
    BY <2>1, <2>2, <2>3, <2>4, <2>5, <2>6 DEF Next, Turn
<1> QED
  BY InitHolds, <1>1, PTL DEF Spec

\* What has been given when no file is left to release is everything.
LEMMA AllGiven ==
    ASSUME ScanInv, reader # "dropped", released = Count
    PROVE  Given(output) = AllAnswers
<1> USE CountType
<1>1. PICK given, received \in [Files -> Nat] : Streams(given, received)
  BY DEF ScanInv
<1>2. \A f \in Files : given[f] = Answers(f)
  <2>1. \A f \in Files : f <= released
    BY DEF Files
  <2> QED
    BY <1>1, <2>1 DEF Streams, BuffersHold
<1>3. given = [f \in Files |-> Answers(f)]
  BY <1>2
<1> QED
  BY <1>1, <1>3 DEF Streams, OutputHolds, AllAnswers

\* ParallelScan: what a scan has given is a beginning of the plan in order,
\* and once it ended the whole of it (the reorder buffer of `next`).
THEOREM OutputIsPlanPrefix == Spec => []PlanPrefix
<1>1. ScanInv => PlanPrefix
  <2> SUFFICES ASSUME ScanInv PROVE PlanPrefix
    OBVIOUS
  <2>1. OutputOrdered
    BY DEF ScanInv
  <2>2. reader = "ended" => Given(output) = AllAnswers
    BY AllGiven DEF ScanInv
  <2> QED
    BY <2>1, <2>2 DEF PlanPrefix, OutputOrdered, AllAnswers
<1> QED
  BY ScanInvariant, <1>1, PTL

\* ParallelScan: never more files in flight than the read parallelism, which
\* is what bounds the memory of the channel and the reorder buffer.
THEOREM FilesInFlight == Spec => []WithinWindow
<1>1. ScanInv => WithinWindow
  <2> SUFFICES ASSUME ScanInv PROVE WithinWindow
    OBVIOUS
  <2>1. /\ spawned \in 0..Count /\ released \in 0..Count
        /\ spawned = AtMost(released + Window)
    BY DEF ScanInv, TypeOK, WindowHolds
  <2>2. InFlight \subseteq (released + 1)..spawned
    <3>1. ASSUME NEW f \in InFlight PROVE f \in Files /\ ~(f <= released \/ f > spawned)
      BY DEF InFlight, ScanInv, WindowHolds
    <3> QED
      BY <2>1, <3>1 DEF Files
  <2>3. /\ IsFiniteSet((released + 1)..spawned)
        /\ Cardinality((released + 1)..spawned) <= Window
    <3>1. /\ released + 1 \in Int /\ spawned \in Int
          /\ spawned - (released + 1) + 1 <= Window
          /\ 0 <= Window
      BY <2>1, CountType DEF AtMost
    <3> QED
      BY <3>1, FS_Interval
  <2>4. /\ Cardinality(InFlight) <= Cardinality((released + 1)..spawned)
        /\ IsFiniteSet(InFlight)
    BY <2>2, <2>3, FS_Subset
  <2>5. Cardinality(InFlight) \in Nat /\ Cardinality((released + 1)..spawned) \in Nat
    BY <2>3, <2>4, FS_CardinalityType
  <2> QED
    BY <2>3, <2>4, <2>5, CountType DEF WithinWindow
<1> QED
  BY ScanInvariant, <1>1, PTL

\* ParallelScan: a reader waiting in recv waits for a worker that will send,
\* so `next` never waits for a marker that would never come.
THEOREM ReaderHasASender == Spec => []SomeoneWillAnswer
<1>1. ScanInv => SomeoneWillAnswer
  <2> SUFFICES ASSUME ScanInv,
                      reader = "inside", released < Count, ~done[Cursor], channel = <<>>
               PROVE  worker[Cursor] \in {"decode", "send", "mark"}
    BY DEF SomeoneWillAnswer
  <2>1. /\ released \in 0..Count /\ Cursor \in Files
        /\ worker[Cursor] \in WorkerStates
    BY CountType DEF ScanInv, TypeOK, Cursor, Files
  <2>2. worker[Cursor] # "unspawned"
    <3>1. Cursor <= spawned
      BY <2>1, CountType DEF ScanInv, WindowHolds, AtMost, Cursor
    <3> QED
      BY <2>1, <3>1, CountType DEF ScanInv, WindowHolds, TypeOK, Cursor
  <2>3. worker[Cursor] # "gone"
    <3>1. PICK given, received \in [Files -> Nat] : Streams(given, received)
      BY DEF ScanInv
    <3> QED
      BY <2>1, <3>1 DEF Streams, MarkersHold
  <2> QED
    BY <2>1, <2>2, <2>3 DEF WorkerStates
<1> QED
  BY ScanInvariant, <1>1, PTL

\* ParallelScan: a worker whose reader was dropped decodes one batch more at
\* most (every send of `read_part` doubles as the liveness check).
THEOREM WorkersStop == Spec => []StopsAfterDrop
<1>1. ScanInv => StopsAfterDrop
  BY DEF ScanInv, LateHolds, StopsAfterDrop
<1> QED
  BY ScanInvariant, <1>1, PTL

\* ParallelScan: every behaviour of the parallel reader is one of the ordered
\* scan: "either way the batches come back in exactly the plan's file order".
THEOREM ParallelIsOrdered == Spec => ImplementsOrderedScan
<1> DEFINE lengths == [f \in Files |-> Answers(f)]
<1>1. Init => Ordered!Init
  <2> SUFFICES ASSUME Init PROVE Ordered!Init
    OBVIOUS
  <2>1. TypeOK
    BY InitHolds DEF ScanInv
  <2> QED
    BY <2>1, AnswersType DEF Init, Ordered!Init, Ordered!Files, Files
<1>2. ScanInv /\ [Next]_vars => [Ordered!Next]_(Ordered!vars)
  <2> SUFFICES ASSUME ScanInv, [Next]_vars
               PROVE  Ordered!Next \/ UNCHANGED Ordered!vars
    OBVIOUS
  <2>1. UNCHANGED scripts => lengths' = lengths
    BY DEF Answers
  <2>2. CASE Call
    BY <2>1, <2>2 DEF Call, Ordered!Next, Ordered!Call
  <2>3. CASE Drop
    BY <2>1, <2>3 DEF Drop, Ordered!Next, Ordered!Drop
  <2>4. CASE End
    <3>1. Given(output) = AllAnswers
      BY <2>4, AllGiven DEF End
    <3> QED
      BY <2>1, <2>4, <3>1
      DEF End, Ordered!Next, Ordered!End, Ordered!Owed, Ordered!Given, Given,
          Ordered!AnswersIn, Ordered!Files, AnswersIn, Files, AllAnswers
  <2>5. CASE Release
    <3> DEFINE a == Head(batches[Cursor])
    <3>1. /\ a \in AllAnswers \ Given(output)
          /\ Given(output) = {b \in AllAnswers : Before(b, a)}
      BY <2>5, ReleaseKeeps
    <3>2. Ordered!Owed = AllAnswers \ Given(output)
      BY DEF Ordered!Owed, Ordered!Given, Given, Ordered!AnswersIn, Ordered!Files,
             AnswersIn, Files, AllAnswers
    <3>3. /\ reader = "inside" /\ reader' = "idle"
          /\ output' = Append(output, a)
          /\ UNCHANGED scripts
      BY <2>5 DEF Release
    <3> HIDE DEF a
    <3>4. ASSUME NEW b \in Ordered!Owed \ {a} PROVE Ordered!Before(a, b)
      <4>1. b \in AllAnswers /\ ~Before(b, a) /\ b # a
        BY <3>1, <3>2, <3>4
      <4>2. /\ a.file \in Int /\ a.place \in Int /\ a = [file |-> a.file, place |-> a.place]
            /\ b.file \in Int /\ b.place \in Int /\ b = [file |-> b.file, place |-> b.place]
        BY <3>1, <4>1, AnswersInForm DEF AllAnswers, Files
      <4>3. a.file # b.file \/ a.place # b.place
        BY <4>1, <4>2
      <4> QED
        BY <4>1, <4>2, <4>3 DEF Before, Ordered!Before
    <3> QED
      BY <2>1, <3>1, <3>2, <3>3, <3>4 DEF Ordered!Next, Ordered!Answer
  <2>6. CASE Advance \/ Receive \/ (\E f \in Files : Work(f)) \/ UNCHANGED vars
    <3>1. UNCHANGED <<scripts, output, reader>>
      BY <2>6 DEF Advance, Receive, Work, Decode, Exhaust, Send, Mark, vars
    <3> QED
      BY <2>1, <3>1 DEF Ordered!vars
  <2> QED
    BY <2>2, <2>3, <2>4, <2>5, <2>6 DEF Next, Turn
<1> QED
  BY ScanInvariant, <1>1, <1>2, PTL DEF Spec, ImplementsOrderedScan, Ordered!Spec
=============================================================================

--------------------------- MODULE IcebergCommit ---------------------------
(***************************************************************************)
(* The optimistic commit protocol of rust/src/iceberg/table.rs: several    *)
(* writers, each holding a `Table` handle, publish numbered metadata       *)
(* documents `v<N>.metadata.json` and a `version-hint.text` on storage     *)
(* that has no compare-and-swap.  A commit looks up the current version,   *)
(* rebases or waits when it was beaten, then writes the next document and  *)
(* moves the hint.  Between any two of those steps another writer may run, *)
(* a write may fail, and the process may die.                              *)
(*                                                                         *)
(* A read or a write of one whole file is one step here; what a local      *)
(* memory-mapped file does inside that step is LocalFile's.                *)
(***************************************************************************)
EXTENDS Integers, FiniteSets

CONSTANTS
    Writers,      \* the processes holding a handle on the table
    Ops,          \* the operations those writers call
    Opens,        \* how they open the table: "open", "open_or_create"
    Retries,      \* IcebergOptions::commit_retries
    Serialized,   \* TRUE when a lock or a catalog admits one writer at a time
    Initially,    \* how the table may start: "none", "hinted", "bare"
    MaxCommits,   \* bound: how many commits are begun in all
    FaultKinds,   \* what may go wrong: "read", "document", "hint", "crash"
    MaxFaults     \* bound: how often something goes wrong in all

AllOps == {"append", "overwrite", "replace", "tag", "untag", "expire"}
SnapshotOps == {"append", "overwrite", "replace"}

\* `Retained::Only` commits answer OnConflict::Fail, everything else rebases.
FailOps == {"overwrite", "replace"}

ASSUME CommitAssumption ==
    /\ Ops \subseteq AllOps
    /\ Opens \subseteq {"open", "open_or_create"}
    /\ Retries \in Nat
    /\ Serialized \in BOOLEAN
    /\ Initially \subseteq {"none", "hinted", "bare"}
    /\ MaxCommits \in Nat
    /\ FaultKinds \subseteq {"read", "document", "hint", "crash"}
    /\ MaxFaults \in Nat

Ids == 1..MaxCommits
IdOrNone == 0..MaxCommits

\* A data file is the set of commits whose rows it holds: an append's file
\* holds its own rows, a compacted file the rows of the files it replaces.
Files == SUBSET Ids

(***************************************************************************)
(* A metadata document: the last sequence number, the current snapshot     *)
(* (0 for none), the retained snapshots, what the one tag name the clients *)
(* use points at (0 when there is no such tag), and the metadata log, here *)
(* the commits the document was built on.                                  *)
(***************************************************************************)
Meta == [seq : Nat, cur : IdOrNone, snaps : SUBSET Ids, tag : IdOrNone,
         log : SUBSET Ids]

NewTable == [seq |-> 0, cur |-> 0, snaps |-> {}, tag |-> 0, log |-> {}]

\* A `Table`: the parsed document and its number, 0 before a table is open.
Handle == [version : Nat, meta : Meta]
NoHandle == [version |-> 0, meta |-> NewTable]

\* A snapshot record and the manifest list it names; seq 0 is "not written".
Snapshot == [parent : IdOrNone, seq : Nat, files : SUBSET Files]

(***************************************************************************)
(* A call in progress.  `goal` is the call: "probe" and "open" are the two *)
(* lookups of open_or_create, "create" its other branch, "load" a plain    *)
(* open, "commit" a commit.  `pc` is where it stands: about to read the    *)
(* hint, about to read the document, about to write the next document,     *)
(* about to move the hint.                                                 *)
(***************************************************************************)
Txn == [pc : {"idle", "hint", "document", "write", "point"},
        goal : {"none", "probe", "open", "create", "load", "commit"},
        id : IdOrNone, seen : Nat, beaten : Nat, saved : Handle]
NoTxn == [pc |-> "idle", goal |-> "none", id |-> 0, seen |-> 0, beaten |-> 0,
          saved |-> NoHandle]

\* A call begins by looking the current version up.
NewCall(goal, id, h) ==
    [pc |-> "hint", goal |-> goal, id |-> id, seen |-> 0, beaten |-> 0, saved |-> h]

\* What a commit was asked to do, and the log its handle had when it planned.
Intent == [op : AllOps \cup {"none"}, new : SUBSET Files, kept : SUBSET Files,
           target : IdOrNone, parent : IdOrNone, base : SUBSET Ids]
NoIntent == [op |-> "none", new |-> {}, kept |-> {}, target |-> 0,
             parent |-> 0, base |-> {}]

Results == {"none", "running", "ok", "failed", "doubtful", "crashed"}

VARIABLES
    docs,      \* version -> its contents: {meta}, or {} for an empty file
    hint,      \* the number in version-hint.text, 0 when absent or empty
    snap,      \* commit -> its snapshot record, written once
    handle,    \* writer -> its Table
    txn,       \* writer -> the call it is in
    intent,    \* history: commit -> what it was asked to do
    result,    \* history: commit -> what its caller was told
    nextId,    \* the next commit's snapshot id
    faults     \* how often a storage call failed or a writer died

vars == <<docs, hint, snap, handle, txn, intent, result, nextId, faults>>
storage == <<docs, hint, snap>>
ghosts == <<intent, result, nextId>>

TypeOK ==
    /\ DOMAIN docs \subseteq Nat
    /\ \A v \in DOMAIN docs : docs[v] \subseteq Meta
    /\ hint \in Nat
    /\ snap \in [Ids -> Snapshot]
    /\ handle \in [Writers -> Handle]
    /\ txn \in [Writers -> Txn]
    /\ intent \in [Ids -> Intent]
    /\ result \in [Ids -> Results]
    /\ nextId \in Nat \ {0}
    /\ faults \in Nat

\* A table somebody else left: one empty document, with or without its hint.
Init ==
    /\ \E start \in Initially :
         /\ docs = IF start = "none" THEN [v \in {} |-> {}]
                   ELSE [v \in {1} |-> {NewTable}]
         /\ hint = IF start = "hinted" THEN 1 ELSE 0
    /\ snap = [i \in Ids |-> [parent |-> 0, seq |-> 0, files |-> {}]]
    /\ handle = [w \in Writers |-> NoHandle]
    /\ txn = [w \in Writers |-> NoTxn]
    /\ intent = [i \in Ids |-> NoIntent]
    /\ result = [i \in Ids |-> "none"]
    /\ nextId = 1
    /\ faults = 0

-----------------------------------------------------------------------------
(* The lookup every open and every commit makes.                           *)

\* find_metadata: the document the hint names when it has bytes, otherwise
\* the highest-numbered one in the directory, empty or not.
Usable(h) == h \in DOMAIN docs /\ docs[h] # {}
Locates(h, v) ==
    IF Usable(h) THEN v = h
    ELSE v \in DOMAIN docs /\ \A u \in DOMAIN docs : u <= v

\* find_metadata answered (v, m): the located document parsed.
Finds(h, v, m) == Locates(h, v) /\ m \in docs[v]
\* It answered None: no document at all.
FindsNone == DOMAIN docs = {}
\* It answered an error: the located document is empty, which is not JSON.
FindsBroken(h) == \E v \in DOMAIN docs : Locates(h, v) /\ docs[v] = {}

LiveFiles(m) == IF m.cur = 0 THEN {} ELSE snap[m.cur].files

\* Serialized writers run one call at a time; plain storage admits them all.
Writing(w) == txn[w].pc # "idle" /\ txn[w].goal # "load"
MayWrite == Serialized => \A w \in Writers : ~Writing(w)

Return(w, id, answer) ==
    /\ txn' = [txn EXCEPT ![w] = NoTxn]
    /\ result' = IF id = 0 THEN result ELSE [result EXCEPT ![id] = answer]

\* commit_document's `restore`: put the handle back and answer the error.
Restore(w, answer) ==
    /\ handle' = [handle EXCEPT ![w] = txn[w].saved]
    /\ Return(w, txn[w].id, answer)

-----------------------------------------------------------------------------
(* Opening and creating.                                                   *)

StartCall(w, goal) ==
    /\ txn[w].pc = "idle"
    /\ txn' = [txn EXCEPT ![w] = NewCall(goal, 0, handle[w])]
    /\ UNCHANGED <<storage, handle, ghosts, faults>>

OpenOrCreate(w) == "open_or_create" \in Opens /\ MayWrite /\ StartCall(w, "probe")
Open(w) == "open" \in Opens /\ StartCall(w, "load")

\* Every lookup first reads the hint.
ReadHint(w) ==
    /\ txn[w].pc = "hint"
    /\ txn' = [txn EXCEPT ![w].pc = "document", ![w].seen = hint]
    /\ UNCHANGED <<storage, handle, ghosts, faults>>

\* open_or_create's own lookup only decides which branch runs.
Probe(w) ==
    /\ txn[w].pc = "document" /\ txn[w].goal = "probe"
    /\ \/ /\ \E v \in DOMAIN docs : \E m \in docs[v] : Finds(txn[w].seen, v, m)
          /\ txn' = [txn EXCEPT ![w].pc = "hint", ![w].goal = "open"]
       \/ /\ FindsNone
          /\ txn' = [txn EXCEPT ![w].pc = "write", ![w].goal = "create"]
    /\ UNCHANGED <<storage, handle, ghosts, faults>>

\* Table::open (and locate): adopt the document that was found.
Load(w) ==
    /\ txn[w].pc = "document" /\ txn[w].goal \in {"open", "load"}
    /\ \E v \in DOMAIN docs : \E m \in docs[v] :
         /\ Finds(txn[w].seen, v, m)
         /\ handle' = [handle EXCEPT ![w] = [version |-> v, meta |-> m]]
    /\ txn' = [txn EXCEPT ![w] = NoTxn]
    /\ UNCHANGED <<storage, ghosts, faults>>

\* No document, or one that does not parse: the call is an error.
LoadFails(w) ==
    /\ txn[w].pc = "document" /\ txn[w].goal \in {"probe", "open", "load"}
    /\ FindsBroken(txn[w].seen) \/ (txn[w].goal # "probe" /\ FindsNone)
    /\ txn' = [txn EXCEPT ![w] = NoTxn]
    /\ UNCHANGED <<storage, handle, ghosts, faults>>

\* Table::create: version 1 is written whatever the directory holds by now.
Create(w) ==
    /\ txn[w].pc = "write" /\ txn[w].goal = "create"
    /\ handle' = [handle EXCEPT ![w] = [version |-> 1, meta |-> NewTable]]
    /\ docs' = [v \in DOMAIN docs \cup {1} |-> IF v = 1 THEN {NewTable} ELSE docs[v]]
    /\ txn' = [txn EXCEPT ![w].pc = "point"]
    /\ UNCHANGED <<hint, snap, ghosts, faults>>

-----------------------------------------------------------------------------
(* Beginning a commit: what the operation plans from its own handle.       *)

\* Mutant: the snapshot id is not a fresh one.
BeginReusingId(w, op, new, kept, target) ==
    /\ op \in Ops
    /\ txn[w].pc = "idle" /\ handle[w].version > 0
    /\ nextId <= MaxCommits
    /\ MayWrite
    /\ intent' = [intent EXCEPT ![nextId] =
         [op |-> op, new |-> new, kept |-> kept, target |-> target,
          parent |-> handle[w].meta.cur, base |-> handle[w].meta.log]]
    /\ result' = [result EXCEPT ![nextId] = "running"]
    /\ txn' = [txn EXCEPT ![w] = NewCall("commit", nextId, handle[w])]
    /\ UNCHANGED <<storage, handle, nextId, faults>>

Begin(w, op, new, kept, target) ==
    /\ op \in Ops
    /\ txn[w].pc = "idle" /\ handle[w].version > 0
    /\ nextId <= MaxCommits
    /\ MayWrite
    /\ intent' = [intent EXCEPT ![nextId] =
         [op |-> op, new |-> new, kept |-> kept, target |-> target,
          parent |-> handle[w].meta.cur, base |-> handle[w].meta.log]]
    /\ result' = [result EXCEPT ![nextId] = "running"]
    /\ txn' = [txn EXCEPT ![w] = NewCall("commit", nextId, handle[w])]
    /\ nextId' = nextId + 1
    /\ UNCHANGED <<storage, handle, faults>>

\* append: every live file is kept, and no rows means no new file.
Append(w) == \E new \in {{}, {{nextId}}} : Begin(w, "append", new, {}, 0)

\* overwrite_where and merge_where: the files the filters or the key bounds
\* exclude are carried over, the rest is replaced by the incoming rows.
Overwrite(w) ==
    \E new \in {{}, {{nextId}}}, kept \in SUBSET LiveFiles(handle[w].meta) :
        Begin(w, "overwrite", new, kept, 0)

\* Mutant: the compacted files are carried as well.
CompactCarryingAll(w) ==
    \E kept \in SUBSET LiveFiles(handle[w].meta) :
        LET selected == LiveFiles(handle[w].meta) \ kept IN
        /\ \E f, g \in selected : f # g
        /\ Begin(w, "replace", {UNION selected}, LiveFiles(handle[w].meta), 0)

\* compact: at least two files become one; with nothing selected there is
\* no commit at all.
Compact(w) ==
    \E kept \in SUBSET LiveFiles(handle[w].meta) :
        LET selected == LiveFiles(handle[w].meta) \ kept IN
        /\ \E f, g \in selected : f # g
        /\ Begin(w, "replace", {UNION selected}, kept, 0)

\* create_tag and remove_ref, through commit_changes.
CreateTag(w) == \E s \in handle[w].meta.snaps : Begin(w, "tag", {}, {}, s)
RemoveTag(w) == Begin(w, "untag", {}, {}, 0)

\* Mutant: a tag keeps nothing.
UnreferencedByMain(m) == m.snaps \ {m.cur}

\* expire_snapshots probes a copy first: nothing to expire is no commit.
Unreferenced(m) == m.snaps \ {m.cur, m.tag}
Expire(w) ==
    /\ Unreferenced(handle[w].meta) # {}
    /\ Begin(w, "expire", {}, {}, 0)

-----------------------------------------------------------------------------
(* The loop of commit_document.                                            *)

Committing(w) == txn[w].pc = "document" /\ txn[w].goal = "commit"
OpOf(w) == intent[txn[w].id].op

\* Mutant: what the lookup found is not compared with the handle.
ClearUnchecked(w) ==
    /\ Committing(w)
    /\ FindsNone \/ \E v \in DOMAIN docs : \E m \in docs[v] : Finds(txn[w].seen, v, m)
    /\ txn' = [txn EXCEPT ![w].pc = "write"]
    /\ UNCHANGED <<storage, handle, ghosts, faults>>

\* Nothing newer than the handle was found: the commit may write.
Clear(w) ==
    /\ Committing(w)
    /\ \/ FindsNone
       \/ \E v \in DOMAIN docs : \E m \in docs[v] :
            Finds(txn[w].seen, v, m) /\ v <= handle[w].version
    /\ txn' = [txn EXCEPT ![w].pc = "write"]
    /\ UNCHANGED <<storage, handle, ghosts, faults>>

\* Mutant: a commit that planned its files rebases as well.
BeatenAlwaysRebases(w) ==
    /\ Committing(w)
    /\ txn[w].beaten < Retries
    /\ \E v \in DOMAIN docs : \E m \in docs[v] :
         /\ Finds(txn[w].seen, v, m) /\ v > handle[w].version
         /\ handle' = [handle EXCEPT ![w] = [version |-> v, meta |-> m]]
    /\ txn' = [txn EXCEPT ![w].pc = "hint", ![w].beaten = @ + 1]
    /\ UNCHANGED <<storage, ghosts, faults>>

\* Mutant: being beaten is not counted.
BeatenUncounted(w) ==
    /\ Committing(w)
    /\ txn[w].beaten < Retries
    /\ \E v \in DOMAIN docs : \E m \in docs[v] :
         /\ Finds(txn[w].seen, v, m) /\ v > handle[w].version
         /\ handle' = IF OpOf(w) \in FailOps THEN handle
                      ELSE [handle EXCEPT ![w] = [version |-> v, meta |-> m]]
    /\ txn' = [txn EXCEPT ![w].pc = "hint"]
    /\ UNCHANGED <<storage, ghosts, faults>>

\* A newer version was found: adopt it and re-apply, or only look again.
Beaten(w) ==
    /\ Committing(w)
    /\ txn[w].beaten < Retries
    /\ \E v \in DOMAIN docs : \E m \in docs[v] :
         /\ Finds(txn[w].seen, v, m) /\ v > handle[w].version
         /\ handle' = IF OpOf(w) \in FailOps THEN handle
                      ELSE [handle EXCEPT ![w] = [version |-> v, meta |-> m]]
    /\ txn' = [txn EXCEPT ![w].pc = "hint", ![w].beaten = @ + 1]
    /\ UNCHANGED <<storage, ghosts, faults>>

\* Beaten more than `retries` times: a CommitConflict.
Conflict(w) ==
    /\ Committing(w)
    /\ txn[w].beaten >= Retries
    /\ \E v \in DOMAIN docs : \E m \in docs[v] :
         Finds(txn[w].seen, v, m) /\ v > handle[w].version
    /\ Restore(w, "failed")
    /\ UNCHANGED <<storage, intent, nextId, faults>>

\* The lookup itself is an error: the current document does not parse.
LookupFails(w) ==
    /\ Committing(w)
    /\ FindsBroken(txn[w].seen)
    /\ Restore(w, "failed")
    /\ UNCHANGED <<storage, intent, nextId, faults>>

\* The change closures that refuse: create_tag wants a free name and a
\* retained snapshot, remove_ref a tag that exists.
Applies(m, i) ==
    CASE intent[i].op = "tag" -> m.tag = 0 /\ intent[i].target \in m.snaps
      [] intent[i].op = "untag" -> m.tag # 0
      [] OTHER -> TRUE

\* Mutant: an append keeps what a rewrite would.
SnapshotForgetting(m, i) ==
    [parent |-> m.cur,
     seq |-> m.seq + 1,
     files |-> intent[i].new \cup intent[i].kept]

\* Commit i's snapshot on top of m: all live files of m are kept, or the
\* ones the plan kept.
SnapshotOn(m, i) ==
    [parent |-> m.cur,
     seq |-> m.seq + 1,
     files |-> intent[i].new \cup
               (IF intent[i].op = "append" THEN LiveFiles(m) ELSE intent[i].kept)]

\* The document commit i makes of m.  Which unreferenced snapshots an expiry
\* drops is for the retention rules of TableMetadata to say: `doomed` is any.
Updated(m, i, doomed) ==
    LET built == [m EXCEPT !.log = @ \cup {i}] IN
    CASE intent[i].op \in SnapshotOps ->
           [built EXCEPT !.seq = @ + 1, !.cur = i, !.snaps = @ \cup {i}]
      [] intent[i].op = "tag" -> [built EXCEPT !.tag = intent[i].target]
      [] intent[i].op = "untag" -> [built EXCEPT !.tag = 0]
      [] OTHER -> [built EXCEPT !.snaps = @ \ doomed]

\* apply's own writes: the manifest list behind a snapshot.
WriteSnapshot(w) ==
    snap' = IF OpOf(w) \in SnapshotOps
            THEN [snap EXCEPT ![txn[w].id] = SnapshotOn(handle[w].meta, txn[w].id)]
            ELSE snap

Doomable(w) ==
    IF OpOf(w) = "expire" THEN SUBSET Unreferenced(handle[w].meta) ELSE {{}}

ReadyToWrite(w) == txn[w].pc = "write" /\ txn[w].goal = "commit"

\* The change refused the document it was re-applied to.
Rejected(w) ==
    /\ ReadyToWrite(w)
    /\ ~Applies(handle[w].meta, txn[w].id)
    /\ Restore(w, "failed")
    /\ UNCHANGED <<storage, intent, nextId, faults>>

\* apply, then commit_metadata's first half: write document version + 1.
Publish(w) ==
    /\ ReadyToWrite(w)
    /\ Applies(handle[w].meta, txn[w].id)
    /\ WriteSnapshot(w)
    /\ \E doomed \in Doomable(w) :
         LET m == Updated(handle[w].meta, txn[w].id, doomed)
             n == handle[w].version + 1
         IN /\ handle' = [handle EXCEPT ![w] = [version |-> n, meta |-> m]]
            /\ docs' = [v \in DOMAIN docs \cup {n} |-> IF v = n THEN {m} ELSE docs[v]]
    /\ txn' = [txn EXCEPT ![w].pc = "point"]
    /\ UNCHANGED <<hint, ghosts, faults>>

\* commit_metadata's second half: the hint names the new document.
PointHint(w) ==
    /\ txn[w].pc = "point"
    /\ hint' = handle[w].version
    /\ Return(w, txn[w].id, "ok")
    /\ UNCHANGED <<docs, snap, handle, intent, nextId, faults>>

-----------------------------------------------------------------------------
(* Failing storage and dying writers.                                      *)

Fault(kind) == kind \in FaultKinds /\ faults < MaxFaults /\ faults' = faults + 1

\* Anything before the document's write fails: a read of the hint, of the
\* directory, of a document or a manifest list, the writes of a new one.
ReadFault(w) ==
    /\ txn[w].pc \in {"hint", "document", "write"}
    /\ Fault("read")
    /\ Restore(w, "failed")
    /\ UNCHANGED <<storage, intent, nextId>>

\* Mutant: the handle keeps the document that was not written.
DocumentFaultUnrestored(w) ==
    /\ txn[w].pc = "write" /\ txn[w].goal = "commit"
    /\ Applies(handle[w].meta, txn[w].id)
    /\ Fault("document")
    /\ WriteSnapshot(w)
    /\ handle' = [handle EXCEPT ![w] =
                   [version |-> handle[w].version + 1,
                    meta |-> Updated(handle[w].meta, txn[w].id, {})]]
    /\ Return(w, txn[w].id, "failed")
    /\ UNCHANGED <<docs, hint, intent, nextId>>

\* Writing the document fails.  write_all_bytes truncates before it writes,
\* so the file is what it was, or it is there and empty.
DocumentFault(w) ==
    /\ txn[w].pc = "write"
    /\ txn[w].goal = "commit" => Applies(handle[w].meta, txn[w].id)
    /\ Fault("document")
    /\ IF txn[w].goal = "commit" THEN WriteSnapshot(w) ELSE UNCHANGED snap
    /\ LET n == IF txn[w].goal = "commit" THEN handle[w].version + 1 ELSE 1 IN
       \/ UNCHANGED docs
       \/ docs' = [v \in DOMAIN docs \cup {n} |-> IF v = n THEN {} ELSE docs[v]]
    /\ Restore(w, "failed")
    /\ UNCHANGED <<hint, intent, nextId>>

\* Writing the hint fails the same way, with the new document in place.  The
\* caller is answered an error and keeps its old handle.
HintFault(w) ==
    /\ txn[w].pc = "point"
    /\ Fault("hint")
    /\ hint' \in {hint, 0}
    /\ Restore(w, "doubtful")
    /\ UNCHANGED <<docs, snap, intent, nextId>>

\* The process dies between two steps; its handle dies with it.
Crash(w) ==
    /\ txn[w].pc # "idle"
    /\ Fault("crash")
    /\ handle' = [handle EXCEPT ![w] = NoHandle]
    /\ Return(w, txn[w].id, "crashed")
    /\ UNCHANGED <<storage, intent, nextId>>

-----------------------------------------------------------------------------

Start(w) ==
    \/ OpenOrCreate(w) \/ Open(w)
    \/ Append(w) \/ Overwrite(w) \/ Compact(w)
    \/ CreateTag(w) \/ RemoveTag(w) \/ Expire(w)

\* The steps that carry a call to its end.
Step(w) ==
    \/ ReadHint(w) \/ Probe(w) \/ Load(w) \/ LoadFails(w) \/ Create(w)
    \/ Clear(w) \/ Beaten(w) \/ Conflict(w) \/ LookupFails(w)
    \/ Rejected(w) \/ Publish(w) \/ PointHint(w)

Misfortune(w) == ReadFault(w) \/ DocumentFault(w) \/ HintFault(w) \/ Crash(w)

Next == \E w \in Writers : Start(w) \/ Step(w) \/ Misfortune(w)

Spec == Init /\ [][Next]_vars

\* A call in progress keeps running: nothing in it waits for another call.
Fairness == \A w \in Writers : WF_vars(Step(w))

FairSpec == Spec /\ Fairness

-----------------------------------------------------------------------------
(* What must hold.                                                         *)

\* Every document there is: on storage, in a handle, or saved by a commit.
Documents ==
    (UNION {docs[v] : v \in DOMAIN docs})
      \cup {handle[w].meta : w \in Writers}
      \cup {txn[w].saved.meta : w \in Writers}

RowsOf(files) == UNION files
FilesOf(i) == IF i = 0 THEN {} ELSE snap[i].files

\* Commit i did to the snapshot it names as its parent what it was asked.
FollowsParent(i) ==
    LET s == snap[i]
        base == FilesOf(s.parent)
        asked == intent[i]
    IN /\ asked.op \in SnapshotOps
       /\ asked.op = "append" => s.files = base \cup asked.new
       /\ asked.op \in FailOps => s.parent = asked.parent
       /\ asked.op = "overwrite" => s.files \ asked.new \subseteq base
       /\ asked.op = "replace" => RowsOf(s.files) = RowsOf(base)

\* Every snapshot a document retains does to its parent what its commit was
\* asked to do, however often the commit was beaten: an append keeps every
\* file of the parent it names, and a commit that planned its files names
\* the very snapshot it planned against (commit_document's rebase rule).
SnapshotFollowsParent ==
    \A m \in Documents : \A i \in m.snaps : FollowsParent(i)

Disjoint(files) == \A f, g \in files : f # g => f \cap g = {}

\* No commit's rows are in a table twice: the files of one snapshot are
\* disjoint, whoever rebased onto whom.
RowsOnce == \A m \in Documents : \A i \in m.snaps : Disjoint(snap[i].files)

\* "the rebased commit sequences after the winner": along the chain sequence
\* numbers grow, and none is above the document's last sequence number.
SequencesGrow ==
    \A m \in Documents : \A i \in m.snaps :
        /\ snap[i].seq <= m.seq
        /\ snap[i].parent # 0 => snap[snap[i].parent].seq < snap[i].seq

\* A commit answered with a conflict, a refused change or a failed document
\* write is a commit that never happened: no document, on storage or in a
\* handle, is built on it.
FailedNeverPublished ==
    \A m \in Documents : \A i \in m.log : result[i] # "failed"

\* What a document names it retains, also after an expiry was re-run on the
\* document of a writer that tagged a snapshot meanwhile.
NamedIsRetained ==
    \A m \in Documents :
        (m.cur = 0 \/ m.cur \in m.snaps) /\ (m.tag = 0 \/ m.tag \in m.snaps)

\* Every call returns: the retries bound how often a commit can be beaten.
CallsReturn == \A w \in Writers : txn[w].pc # "idle" ~> txn[w].pc = "idle"

-----------------------------------------------------------------------------
(* The inductive invariant behind those properties, in named parts.        *)

\* A commit that has not written its document yet.
Proposing(w) == txn[w].goal = "commit" /\ txn[w].pc # "point"

\* A commit's id is its own: no two calls share one, nothing was written or
\* answered under an id before its call, and no document is built on it
\* before it writes one.
IdInv ==
    /\ \A i \in Ids : i >= nextId => result[i] = "none" /\ snap[i].seq = 0
    /\ \A w \in Writers :
         IF txn[w].goal = "commit"
         THEN /\ txn[w].id \in Ids /\ txn[w].id < nextId
              /\ result[txn[w].id] = "running"
              /\ intent[txn[w].id].op \in AllOps
         ELSE txn[w].id = 0
    /\ \A w, u \in Writers :
         txn[w].goal = "commit" /\ txn[u].goal = "commit" /\ w # u
            => txn[w].id # txn[u].id
    /\ \A w \in Writers : Proposing(w) => snap[txn[w].id].seq = 0

\* A document is built on commits that began and did not fail, none of them
\* still proposing, and retains snapshots that were written.
SoundDocument(m) ==
    /\ m.cur = 0 \/ m.cur \in m.snaps
    /\ m.tag = 0 \/ m.tag \in m.snaps
    /\ \A i \in m.snaps : 0 < snap[i].seq /\ snap[i].seq <= m.seq
    /\ \A i \in m.log : i < nextId /\ result[i] # "failed"
    /\ \A w \in Writers : Proposing(w) => txn[w].id \notin m.log

DocumentInv == \A m \in Documents : SoundDocument(m)

\* A written snapshot follows its parent, which was written before it, and
\* holds rows of written commits only, each once.
SoundSnapshot(i) ==
    /\ FollowsParent(i)
    /\ snap[i].parent # 0 => /\ 0 < snap[snap[i].parent].seq
                             /\ snap[snap[i].parent].seq < snap[i].seq
    /\ \A f \in snap[i].files : \A j \in f : 0 < snap[j].seq
    /\ Disjoint(snap[i].files)

SnapshotInv == \A i \in Ids : 0 < snap[i].seq => SoundSnapshot(i)

\* A commit that planned against its handle's snapshot still holds it.
Planned(w) ==
    LET i == txn[w].id
        asked == intent[i]
        live == LiveFiles(handle[w].meta)
    IN /\ asked.op \in {"append", "overwrite"} => asked.new \in {{}, {{i}}}
       /\ asked.op \in FailOps => /\ asked.parent = handle[w].meta.cur
                                  /\ asked.kept \subseteq live
       /\ asked.op = "replace" => asked.new = {UNION (live \ asked.kept)}

PlanInv == \A w \in Writers : Proposing(w) => Planned(w)

CommitInv == TypeOK /\ IdInv /\ DocumentInv /\ SnapshotInv /\ PlanInv

-----------------------------------------------------------------------------
(***************************************************************************)
(* What a reader finds, as find_metadata finds it in this state.           *)
(***************************************************************************)
VisibleVersions == {v \in DOMAIN docs : Locates(hint, v)}
Visible ==
    IF \E v \in VisibleVersions : docs[v] # {}
    THEN CHOOSE m \in UNION {docs[v] : v \in VisibleVersions} : TRUE
    ELSE NewTable

-----------------------------------------------------------------------------
(* "Serialized writers - a catalog, a lock, one writer per table - are     *)
(* what closes" the commit race (rust/src/iceberg/table.rs).  With         *)
(* Serialized = TRUE the commit protocol implements SerialTable: the table *)
(* a reader finds through find_metadata changes by whole commits only.     *)
Table == INSTANCE SerialTable WITH
    rows <- UNION LiveFiles(Visible),
    tag <- Visible.tag,
    log <- Visible.log,
    status <- result,
    promise <- [i \in Ids |-> [op |-> intent[i].op,
                               adds |-> IF intent[i].op = "replace" THEN {}
                                        ELSE UNION intent[i].new,
                               keeps |-> UNION intent[i].kept,
                               target |-> intent[i].target,
                               base |-> intent[i].base]]

\* Every step of the writers, with one storage failure and dying processes,
\* is a step of the abstract table or invisible: acknowledged commits stay,
\* conflicts and refused changes leave no trace, an overwrite or a compaction
\* replaces exactly the table it read.
ImplementsSerialTable == Table!Spec

\* "version numbers never move backwards" (commit_document), which is why a
\* beaten overwrite may only wait: what a lookup finds never gets older.
VersionsNeverMoveBack ==
    [][\A v \in VisibleVersions : \A u \in VisibleVersions' : v <= u]_vars

=============================================================================

------------------------ MODULE IcebergCommitProofs ------------------------
(***************************************************************************)
(* Proofs about IcebergCommit, for every set of writers, every number of   *)
(* retries, serialized or racing, with any storage failures and crashes:   *)
(* CommitInv is inductive, and the safety properties follow from it.       *)
(***************************************************************************)
EXTENDS IcebergCommit, TLAPS

\* The empty table is a sound document in every state.
LEMMA NewTableSound ==
    /\ NewTable \in Meta
    /\ SoundDocument(NewTable)
    /\ SoundDocument(NewTable)'
BY CommitAssumption DEF NewTable, Meta, SoundDocument, IdOrNone, Ids

\* Parsed documents have the type the parser gives them.
LEMMA DocumentsTyped ==
    ASSUME TypeOK
    PROVE  Documents \subseteq Meta
BY DEF TypeOK, Documents, Handle, Txn

\* A record of a typed snapshot map that is written is a record of Ids.
LEMMA LiveFilesTyped ==
    ASSUME TypeOK, NEW m \in Meta
    PROVE  LiveFiles(m) \subseteq Files
BY CommitAssumption DEF TypeOK, LiveFiles, Snapshot, Meta, IdOrNone, Ids

\* A sound document stays sound when written snapshots are left alone, no
\* commit it is built on turns out failed, and no proposal takes an id of it.
LEMMA StillSound ==
    ASSUME TypeOK, TypeOK', NEW m \in Meta, SoundDocument(m),
           \A i \in Ids : 0 < snap[i].seq => snap'[i] = snap[i],
           nextId <= nextId',
           \A i \in m.log : result'[i] # "failed",
           \A w \in Writers : Proposing(w)' => txn'[w].id \notin m.log
    PROVE  SoundDocument(m)'
<1>1. \A i \in m.snaps : 0 < snap'[i].seq /\ snap'[i].seq <= m.seq
  BY DEF SoundDocument, Meta
<1>2. \A i \in m.log : i < nextId' /\ result'[i] # "failed"
  BY DEF SoundDocument, Meta, TypeOK, Ids
<1> QED
  BY <1>1, <1>2 DEF SoundDocument

\* Written snapshots stay sound while they, and what was asked of their
\* commits, are left alone.
LEMMA SnapshotStays ==
    ASSUME TypeOK, SnapshotInv, NEW i \in Ids, 0 < snap[i].seq,
           \A j \in Ids : 0 < snap[j].seq =>
                snap'[j] = snap[j] /\ intent'[j] = intent[j]
    PROVE  SoundSnapshot(i)'
<1>1. SoundSnapshot(i)
  BY DEF SnapshotInv
<1>2. snap'[i] = snap[i] /\ intent'[i] = intent[i]
  OBVIOUS
<1>3. snap[i].parent \in IdOrNone /\ snap[i].files \subseteq Files
  BY DEF TypeOK, Snapshot
<1>4. FilesOf(snap[i].parent)' = FilesOf(snap[i].parent)
  BY <1>1, <1>2, <1>3 DEF FilesOf, SoundSnapshot, IdOrNone, Ids
<1>5. FollowsParent(i)'
  BY <1>1, <1>2, <1>4 DEF SoundSnapshot, FollowsParent, RowsOf
<1>6. snap'[i].parent # 0 => /\ 0 < snap'[snap'[i].parent].seq
                             /\ snap'[snap'[i].parent].seq < snap'[i].seq
  BY <1>1, <1>2, <1>3 DEF SoundSnapshot, IdOrNone, Ids
<1>7. \A f \in snap'[i].files : \A j \in f : 0 < snap'[j].seq
  BY <1>1, <1>2, <1>3 DEF SoundSnapshot, Files
<1> QED
  BY <1>1, <1>2, <1>5, <1>6, <1>7 DEF SoundSnapshot

-----------------------------------------------------------------------------
(* Steps that only move a call along.                                      *)

\* A call moves on without answering or beginning a commit, and what it
\* holds or writes are documents that were already there, or a new table.
LEMMA MovingOn ==
    ASSUME CommitInv, NEW w \in Writers, NEW t \in Txn, NEW h \in Handle,
           txn' = [txn EXCEPT ![w] = t],
           handle' = [handle EXCEPT ![w] = h],
           DOMAIN docs' \subseteq Nat,
           \A v \in DOMAIN docs' : docs'[v] \subseteq Documents \cup {NewTable},
           UNCHANGED <<hint, snap, ghosts, faults>>,
           IF t.goal = "commit"
             THEN /\ txn[w].goal = "commit" /\ t.id = txn[w].id
                  /\ t.pc = "point" <=> txn[w].pc = "point"
             ELSE t.id = 0,
           h.meta \in Documents \cup {NewTable},
           t.saved.meta \in Documents \cup {NewTable},
           h = handle[w] \/ ~Proposing(w) \/ OpOf(w) \notin FailOps
    PROVE  CommitInv'
<1> USE DEF CommitInv, ghosts
<1>1. TypeOK'
  <2>1. \A v \in DOMAIN docs' : docs'[v] \subseteq Meta
    BY DocumentsTyped, NewTableSound
  <2> QED
    BY <2>1 DEF TypeOK
<1>2. \A u \in Writers : Proposing(u)' => Proposing(u)
  BY DEF Proposing, TypeOK
<1>3. \A u \in Writers :
        IF txn'[u].goal = "commit"
        THEN txn[u].goal = "commit" /\ txn'[u].id = txn[u].id
        ELSE txn'[u].id = 0
  BY DEF TypeOK, IdInv
<1>4. IdInv'
  BY <1>2, <1>3 DEF IdInv, Proposing
<1>5. DocumentInv'
  <2>1. Documents' \subseteq Documents \cup {NewTable}
    <3>1. \A u \in Writers : handle'[u].meta \in Documents \cup {NewTable}
      BY DEF Documents, TypeOK
    <3>2. \A u \in Writers : txn'[u].saved.meta \in Documents \cup {NewTable}
      BY DEF Documents, TypeOK
    <3> QED
      BY <3>1, <3>2 DEF Documents
  <2>2. ASSUME NEW m \in Documents, SoundDocument(m)  PROVE  SoundDocument(m)'
    BY <2>2, <1>2, <1>3 DEF SoundDocument, Proposing
  <2> QED
    BY <2>1, <2>2, NewTableSound DEF DocumentInv
<1>6. SnapshotInv'
  BY DEF SnapshotInv, SoundSnapshot, FollowsParent, FilesOf, RowsOf
<1>7. PlanInv'
  <2>1. ASSUME NEW u \in Writers, Proposing(u)', OpOf(u) \in FailOps
        PROVE  handle'[u] = handle[u]
    BY <2>1, <1>2 DEF TypeOK
  <2>2. ASSUME NEW u \in Writers, Proposing(u)'  PROVE  Planned(u)'
    <3>1. Planned(u) /\ txn'[u].id = txn[u].id
      BY <2>2, <1>2, <1>3 DEF PlanInv, Proposing
    <3>2. CASE OpOf(u) \in FailOps
      BY <3>1, <3>2, <2>1, <2>2, <1>2 DEF Planned, LiveFiles, OpOf
    <3>3. CASE OpOf(u) \notin FailOps
      BY <3>1, <3>3 DEF Planned, OpOf, FailOps
    <3> QED
      BY <3>2, <3>3
  <2> QED
    BY <2>2 DEF PlanInv
<1> QED
  BY <1>1, <1>4, <1>5, <1>6, <1>7

\* A proposal's plan survives a snapshot written by somebody else, because
\* the snapshot it planned against is written already.
LEMMA PlanStays ==
    ASSUME CommitInv, NEW u \in Writers, Proposing(u),
           txn'[u] = txn[u], handle'[u] = handle[u], UNCHANGED intent,
           \A j \in Ids : 0 < snap[j].seq => snap'[j] = snap[j]
    PROVE  Planned(u)'
<1>1. Planned(u)
  BY DEF CommitInv, PlanInv
<1>2. handle[u].meta \in Meta /\ SoundDocument(handle[u].meta)
  BY DEF CommitInv, TypeOK, Handle, Documents, DocumentInv
<1>3. LiveFiles(handle[u].meta)' = LiveFiles(handle[u].meta)
  BY <1>2 DEF LiveFiles, SoundDocument, Meta
<1> QED
  BY <1>1, <1>3 DEF Planned

\* The snapshots stay sound when none is written.
LEMMA SnapshotsSame ==
    ASSUME SnapshotInv, UNCHANGED <<snap, intent>>
    PROVE  SnapshotInv'
BY DEF SnapshotInv, SoundSnapshot, FollowsParent, FilesOf, RowsOf

\* A call returns.  It is answered "failed" only before its document exists.
LEMMA Returning ==
    ASSUME CommitInv, NEW w \in Writers, NEW h \in Handle,
           NEW answer \in {"ok", "failed", "doubtful", "crashed"},
           Return(w, txn[w].id, answer),
           answer = "failed" => txn[w].pc # "point",
           handle' = [handle EXCEPT ![w] = h],
           h.meta \in Documents \cup {NewTable},
           DOMAIN docs' \subseteq Nat,
           \A v \in DOMAIN docs' : docs'[v] \subseteq Documents \cup {NewTable},
           snap' \in [Ids -> Snapshot],
           \A i \in Ids : i # txn[w].id \/ 0 < snap[i].seq => snap'[i] = snap[i],
           SnapshotInv',
           UNCHANGED <<intent, nextId>>,
           hint' \in Nat, faults' \in Nat
    PROVE  CommitInv'
<1> USE DEF CommitInv
<1> DEFINE id == txn[w].id
<1>0. NoTxn \in Txn /\ NoTxn.goal = "none" /\ NoTxn.id = 0 /\ NoTxn.saved.meta = NewTable
  BY NewTableSound, CommitAssumption DEF NoTxn, Txn, NoHandle, Handle, IdOrNone
<1>1. TypeOK'
  <2>1. id \in Ids \/ id = 0
    BY DEF TypeOK, Txn, IdOrNone, Ids
  <2>2. result' \in [Ids -> Results]
    BY <2>1 DEF TypeOK, Return, Results
  <2>3. txn' \in [Writers -> Txn]
    BY <1>0 DEF TypeOK, Return
  <2>4. \A v \in DOMAIN docs' : docs'[v] \subseteq Meta
    BY DocumentsTyped, NewTableSound
  <2> QED
    BY <2>2, <2>3, <2>4 DEF TypeOK
<1>2. \A u \in Writers : Proposing(u)' => Proposing(u) /\ u # w
  BY <1>0 DEF Proposing, TypeOK, Return
<1>3. \A u \in Writers : u # w => txn'[u] = txn[u]
  BY DEF TypeOK, Return
<1>4. \A i \in Ids : i # id => result'[i] = result[i]
  BY DEF TypeOK, Return
<1>5. IdInv'
  <2>1. \A j \in Ids : j >= nextId' => result'[j] = "none" /\ snap'[j].seq = 0
    BY <1>4 DEF IdInv, TypeOK, Ids
  <2>2. ASSUME NEW u \in Writers, u # w, txn[u].goal = "commit"
        PROVE  /\ txn[u].id \in Ids /\ txn[u].id < nextId
               /\ txn[u].id # id
               /\ result'[txn[u].id] = "running" /\ intent[txn[u].id].op \in AllOps
    BY <2>2, <1>4 DEF IdInv, Ids
  <2>3. \A u \in Writers : Proposing(u)' => snap'[txn'[u].id].seq = 0
    BY <2>2, <1>2, <1>3 DEF IdInv, Proposing
  <2> QED
    BY <2>1, <2>2, <2>3, <1>0, <1>3 DEF IdInv, Return, TypeOK
<1>6. DocumentInv'
  <2>1. Documents' \subseteq Documents \cup {NewTable}
    <3>1. \A u \in Writers : handle'[u].meta \in Documents \cup {NewTable}
      BY DEF Documents, TypeOK
    <3>2. \A u \in Writers : txn'[u].saved.meta \in Documents \cup {NewTable}
      BY <1>0 DEF Documents, TypeOK, Return
    <3> QED
      BY <3>1, <3>2 DEF Documents
  <2>2. ASSUME NEW m \in Documents  PROVE  SoundDocument(m)'
    <3>1. m \in Meta /\ SoundDocument(m)
      BY DocumentsTyped DEF DocumentInv
    <3>2. \A i \in m.log : result'[i] # "failed"
      <4>1. SUFFICES ASSUME id \in m.log, answer = "failed"  PROVE FALSE
        BY <3>1, <1>4 DEF SoundDocument, Meta, Return, TypeOK
      <4>2. txn[w].goal = "commit"
        BY <4>1, <3>1 DEF IdInv, Meta, Ids
      <4> QED
        BY <4>1, <4>2, <3>1 DEF SoundDocument, Proposing
    <3>3. \A u \in Writers : Proposing(u)' => txn'[u].id \notin m.log
      BY <3>1, <1>2, <1>3 DEF SoundDocument
    <3> QED
      BY <3>1, <3>2, <3>3, <1>1, StillSound DEF TypeOK
  <2> QED
    BY <2>1, <2>2, NewTableSound DEF DocumentInv
<1>7. PlanInv'
  <2> SUFFICES ASSUME NEW u \in Writers, Proposing(u)'  PROVE  Planned(u)'
    BY DEF PlanInv
  <2>1. Proposing(u) /\ txn'[u] = txn[u] /\ handle'[u] = handle[u]
    BY <1>2, <1>3 DEF TypeOK
  <2> QED
    BY <2>1, PlanStays
<1> QED
  BY <1>1, <1>5, <1>6, <1>7

-----------------------------------------------------------------------------
(* Beginning a commit.                                                     *)

\* A commit begins under a fresh id, with a plan made of its own handle.
LEMMA Beginning ==
    ASSUME CommitInv, NEW w \in Writers, NEW op, NEW target \in IdOrNone,
           NEW new \in SUBSET Files, NEW kept \in SUBSET Files,
           Begin(w, op, new, kept, target),
           op \in {"append", "overwrite"} => new \in {{}, {{nextId}}},
           op \in FailOps => kept \subseteq LiveFiles(handle[w].meta),
           op = "replace" => new = {UNION (LiveFiles(handle[w].meta) \ kept)}
    PROVE  CommitInv'
<1> USE DEF CommitInv
<1> DEFINE t == NewCall("commit", nextId, handle[w])
           asked == [op |-> op, new |-> new, kept |-> kept, target |-> target,
                     parent |-> handle[w].meta.cur, base |-> handle[w].meta.log]
<1>0. nextId \in Ids /\ op \in AllOps
  BY CommitAssumption DEF TypeOK, Begin, Ids
<1>1. t \in Txn /\ t.id = nextId /\ t.goal = "commit" /\ t.pc = "hint" /\ t.saved = handle[w]
  BY <1>0, CommitAssumption DEF NewCall, Txn, TypeOK, IdOrNone, Ids
<1>2. asked \in Intent
  BY <1>0 DEF TypeOK, Handle, Meta, Intent
<1>3. /\ txn' = [txn EXCEPT ![w] = t]
      /\ intent' = [intent EXCEPT ![nextId] = asked]
      /\ result' = [result EXCEPT ![nextId] = "running"]
      /\ nextId' = nextId + 1
      /\ UNCHANGED <<docs, hint, snap, handle, faults>>
  BY DEF Begin, storage
<1>4. TypeOK'
  <2>1. intent' \in [Ids -> Intent]
    BY <1>2, <1>3 DEF TypeOK
  <2>2. txn' \in [Writers -> Txn]
    BY <1>1, <1>3 DEF TypeOK
  <2>3. result' \in [Ids -> Results]
    BY <1>3 DEF TypeOK, Results
  <2> QED
    BY <1>3, <2>1, <2>2, <2>3 DEF TypeOK
<1>5. \A u \in Writers : u # w => txn'[u] = txn[u] /\ (Proposing(u)' <=> Proposing(u))
  BY <1>3 DEF TypeOK, Proposing
<1>6. txn'[w] = t
  BY <1>3 DEF TypeOK
<1>7. \A i \in Ids : i # nextId => result'[i] = result[i] /\ intent'[i] = intent[i]
  BY <1>3 DEF TypeOK
<1>8. IdInv'
  <2>1. \A i \in Ids : i >= nextId' => result'[i] = "none" /\ snap'[i].seq = 0
    BY <1>3, <1>7 DEF IdInv, TypeOK, Ids
  <2>2. \A u \in Writers : u # w /\ txn'[u].goal = "commit" =>
          /\ txn'[u].id \in Ids /\ txn'[u].id < nextId
          /\ result'[txn'[u].id] = "running" /\ intent'[txn'[u].id].op \in AllOps
    BY <1>5, <1>7 DEF IdInv, TypeOK, Ids
  <2>3. /\ txn'[w].id = nextId /\ result'[nextId] = "running"
        /\ intent'[nextId].op \in AllOps /\ snap'[nextId].seq = 0
    BY <1>0, <1>1, <1>3, <1>6 DEF IdInv, TypeOK, Ids
  <2> QED
    BY <1>0, <1>1, <1>3, <1>5, <1>6, <2>1, <2>2, <2>3 DEF IdInv, TypeOK, Ids, Proposing
<1>9. DocumentInv'
  <2>1. Documents' \subseteq Documents
    BY <1>1, <1>3 DEF Documents, TypeOK
  <2>2. ASSUME NEW m \in Documents  PROVE  SoundDocument(m)'
    <3>1. m \in Meta /\ SoundDocument(m)
      BY DocumentsTyped DEF DocumentInv
    <3>2. \A i \in m.log : i \in Ids /\ i # nextId
      BY <3>1 DEF SoundDocument, Meta, TypeOK, Ids
    <3>3. \A i \in m.log : result'[i] # "failed"
      BY <3>1, <3>2, <1>7 DEF SoundDocument
    <3>4. \A u \in Writers : Proposing(u)' => txn'[u].id \notin m.log
      BY <3>1, <3>2, <1>1, <1>5, <1>6 DEF SoundDocument
    <3> QED
      BY <3>1, <3>3, <3>4, <1>3, <1>4, StillSound DEF TypeOK
  <2> QED
    BY <2>1, <2>2 DEF DocumentInv
<1>10. SnapshotInv'
  <2>1. \A j \in Ids : 0 < snap[j].seq => snap'[j] = snap[j] /\ intent'[j] = intent[j]
    BY <1>3, <1>7 DEF IdInv, TypeOK, Ids
  <2> QED
    BY <2>1, <1>3, SnapshotStays DEF SnapshotInv
<1>11. PlanInv'
  <2>1. ASSUME NEW u \in Writers, u # w, Proposing(u)'  PROVE  Planned(u)'
    <3>1. Planned(u) /\ txn'[u] = txn[u]
      BY <2>1, <1>5 DEF PlanInv
    <3>2. intent'[txn[u].id] = intent[txn[u].id]
      BY <2>1, <1>5, <1>7 DEF IdInv, Proposing, TypeOK, Ids
    <3> QED
      BY <3>1, <3>2, <1>3 DEF Planned, LiveFiles
  <2>2. Planned(w)'
    <3>1. intent'[txn'[w].id] = asked /\ txn'[w].id = nextId
      BY <1>0, <1>1, <1>3, <1>6 DEF TypeOK
    <3> QED
      BY <3>1, <1>3 DEF Planned, LiveFiles
  <2> QED
    BY <2>1, <2>2 DEF PlanInv
<1> QED
  BY <1>4, <1>8, <1>9, <1>10, <1>11

-----------------------------------------------------------------------------
(* Writing a commit's snapshot and its document.                           *)

\* Merging some files of a table into one changes none of its rows.
LEMMA MergedRows ==
    ASSUME NEW live, NEW kept, kept \subseteq live
    PROVE  UNION ({UNION (live \ kept)} \cup kept) = UNION live
OBVIOUS

\* A file of rows nobody has yet leaves a table's files disjoint.
LEMMA AddedDisjoint ==
    ASSUME NEW live, NEW kept, kept \subseteq live, NEW i, NEW new, new \in {{}, {{i}}},
           Disjoint(live), \A f \in live : i \notin f
    PROVE  Disjoint(new \cup kept)
<1>1. ASSUME NEW f \in new \cup kept, NEW g \in new \cup kept, NEW x, x \in f, x \in g
      PROVE  f = g
  <2>1. f \in kept \/ f = {i}
    OBVIOUS
  <2>2. g \in kept \/ g = {i}
    OBVIOUS
  <2> QED
    BY <1>1, <2>1, <2>2 DEF Disjoint
<1> QED
  BY <1>1 DEF Disjoint

\* Merging some of a table's disjoint files leaves its files disjoint.
LEMMA MergedDisjoint ==
    ASSUME NEW live, NEW kept, kept \subseteq live, Disjoint(live)
    PROVE  Disjoint({UNION (live \ kept)} \cup kept)
<1>1. \A f \in kept : f \cap UNION (live \ kept) = {}
  BY DEF Disjoint
<1> QED
  BY <1>1 DEF Disjoint

\* The snapshot a proposal writes was not written before, is of the right
\* shape, and follows the snapshot its handle has as the current one.
LEMMA SnapshotWritten ==
    ASSUME CommitInv, NEW w \in Writers, NEW i, NEW m,
           i = txn[w].id, m = handle[w].meta,
           Proposing(w), WriteSnapshot(w), UNCHANGED intent
    PROVE  /\ snap' \in [Ids -> Snapshot]
           /\ \A j \in Ids : j # i => snap'[j] = snap[j]
           /\ \A j \in Ids : 0 < snap[j].seq => snap'[j] = snap[j]
           /\ OpOf(w) \in SnapshotOps => snap'[i].seq = m.seq + 1
           /\ SnapshotInv'
<1> USE DEF CommitInv
<1>0. PICK s : s = SnapshotOn(m, i)
  OBVIOUS
<1>1. i \in Ids /\ i < nextId /\ snap[i].seq = 0
  BY DEF IdInv, Proposing
<1>2. m \in Meta /\ m \in Documents /\ SoundDocument(m)
  BY DEF TypeOK, Handle, Documents, DocumentInv
<1>3. LiveFiles(m) \subseteq Files
  BY <1>2, LiveFilesTyped
<1>4. s \in Snapshot
  BY <1>0, <1>1, <1>2, <1>3 DEF SnapshotOn, Snapshot, TypeOK, Intent, Meta
<1>5. snap' = IF OpOf(w) \in SnapshotOps THEN [snap EXCEPT ![i] = s] ELSE snap
  BY <1>0 DEF WriteSnapshot
<1>6. snap' \in [Ids -> Snapshot]
  BY <1>4, <1>5 DEF TypeOK
<1>7. \A j \in Ids : j # i => snap'[j] = snap[j]
  BY <1>5 DEF TypeOK
<1>8. \A j \in Ids : 0 < snap[j].seq => snap'[j] = snap[j]
  BY <1>1, <1>7
<1>9. OpOf(w) \in SnapshotOps => snap'[i] = s
  BY <1>1, <1>5 DEF TypeOK
<1>10. s.seq = m.seq + 1 /\ s.parent = m.cur
  BY <1>0 DEF SnapshotOn
<1>11. OpOf(w) \in SnapshotOps => SoundSnapshot(i)'
  <2> SUFFICES ASSUME OpOf(w) \in SnapshotOps  PROVE SoundSnapshot(i)'
    OBVIOUS
  <2>1. PICK live, kept, new :
            live = LiveFiles(m) /\ kept = intent[i].kept /\ new = intent[i].new
    OBVIOUS
  <2>2. m.cur # 0 => /\ m.cur \in Ids /\ m.cur # i
                     /\ 0 < snap[m.cur].seq /\ snap[m.cur].seq <= m.seq
                     /\ snap'[m.cur] = snap[m.cur]
    BY <1>1, <1>2, <1>7 DEF SoundDocument, Meta
  <2>3. (IF m.cur = 0 THEN {} ELSE snap'[m.cur].files) = live
    BY <2>1, <2>2 DEF LiveFiles
  <2>4. /\ intent[i].op = "append" =>
              /\ s.files = new \cup live
              /\ new \in {{}, {{i}}}
        /\ intent[i].op = "overwrite" =>
              /\ s.files = new \cup kept
              /\ new \in {{}, {{i}}}
              /\ kept \subseteq live
        /\ intent[i].op = "replace" =>
              /\ s.files = {UNION (live \ kept)} \cup kept
              /\ kept \subseteq live
        /\ intent[i].op \in FailOps => s.parent = intent[i].parent
        /\ intent[i].op \in {"append", "overwrite", "replace"}
    <3>1. Planned(w)
      BY DEF PlanInv
    <3>2. /\ intent[i].op \in {"append", "overwrite"} => new \in {{}, {{i}}}
          /\ intent[i].op \in FailOps => /\ intent[i].parent = m.cur
                                         /\ kept \subseteq live
          /\ intent[i].op = "replace" => new = {UNION (live \ kept)}
      BY <3>1, <2>1 DEF Planned
    <3>3. s.files = new \cup
                    (IF intent[i].op = "append" THEN live ELSE kept)
      BY <1>0, <2>1 DEF SnapshotOn
    <3> QED
      BY <3>2, <3>3, <1>10 DEF FailOps, OpOf, SnapshotOps
  <2>5. FollowsParent(i)'
    <3>1. intent[i].op = "append" => s.files = live \cup new
      BY <2>4
    <3>2. intent[i].op = "overwrite" => s.files \ new \subseteq live
      BY <2>4
    <3>3. intent[i].op = "replace" => UNION s.files = UNION live
      BY <2>4, MergedRows
    <3>4. FilesOf(snap[i].parent)' = live
      BY <2>3, <1>9, <1>10 DEF FilesOf
    <3>5. snap'[i] = s /\ intent'[i] = intent[i]
      BY <1>9
    <3> QED
      BY <3>1, <3>2, <3>3, <3>4, <3>5, <2>1, <2>4 DEF FollowsParent, RowsOf, SnapshotOps
  <2>6. s.parent # 0 => 0 < snap'[s.parent].seq /\ snap'[s.parent].seq < s.seq
    BY <2>2, <1>2, <1>6, <1>10 DEF Meta, Snapshot
  <2>7. \A f \in live : \A j \in f : j \in Ids /\ 0 < snap[j].seq
    BY <2>1, <2>2, <1>3 DEF LiveFiles, SnapshotInv, SoundSnapshot, Files
  <2>8. Disjoint(live)
    BY <2>1, <2>2 DEF LiveFiles, SnapshotInv, SoundSnapshot, Disjoint
  <2>9. \A f \in s.files : \A j \in f : 0 < snap'[j].seq
    <3>1. 0 < snap'[i].seq
      BY <1>2, <1>9, <1>10 DEF Meta
    <3>2. \A f \in live : \A j \in f : 0 < snap'[j].seq
      BY <2>7, <1>8
    <3>3. CASE intent[i].op = "append"
      BY <3>1, <3>2, <3>3, <2>4
    <3>4. CASE intent[i].op = "overwrite"
      BY <3>1, <3>2, <3>4, <2>4
    <3>5. CASE intent[i].op = "replace"
      BY <3>2, <3>5, <2>4
    <3> QED
      BY <3>3, <3>4, <3>5, <2>4
  <2>10. Disjoint(s.files)
    <3>1. \A f \in live : i \notin f
      BY <2>7, <1>1
    <3>2. CASE intent[i].op = "append"
      <4>1. s.files = new \cup live /\ new \in {{}, {{i}}} /\ live \subseteq live
        BY <3>2, <2>4
      <4>2. Disjoint(new \cup live)
        BY ONLY <4>1, <3>1, <2>8, AddedDisjoint
      <4> QED
        BY <4>1, <4>2
    <3>3. CASE intent[i].op = "overwrite"
      <4>1. s.files = new \cup kept /\ new \in {{}, {{i}}} /\ kept \subseteq live
        BY <3>3, <2>4
      <4>2. Disjoint(new \cup kept)
        BY ONLY <4>1, <3>1, <2>8, AddedDisjoint
      <4> QED
        BY <4>1, <4>2
    <3>4. CASE intent[i].op = "replace"
      <4>1. s.files = {UNION (live \ kept)} \cup kept /\ kept \subseteq live
        BY <3>4, <2>4
      <4>2. Disjoint({UNION (live \ kept)} \cup kept)
        BY ONLY <4>1, <2>8, MergedDisjoint
      <4> QED
        BY <4>1, <4>2
    <3> QED
      BY <3>2, <3>3, <3>4, <2>4
  <2> QED
    BY <1>9, <2>5, <2>6, <2>9, <2>10 DEF SoundSnapshot
<1>12. SnapshotInv'
  <2>1. ASSUME NEW j \in Ids, j # i, 0 < snap'[j].seq  PROVE SoundSnapshot(j)'
    BY <2>1, <1>7, <1>8, SnapshotStays
  <2>2. 0 < snap'[i].seq => SoundSnapshot(i)'
    BY <1>1, <1>5, <1>11
  <2> QED
    BY <2>1, <2>2 DEF SnapshotInv
<1> QED
  BY <1>6, <1>7, <1>8, <1>9, <1>10, <1>12

\* What each kind of commit makes of a document.
LEMMA UpdatedFields ==
    ASSUME NEW m \in Meta, NEW i \in Ids, NEW doomed, TypeOK
    PROVE  LET u == Updated(m, i, doomed) IN
           /\ u \in Meta
           /\ u.log = m.log \cup {i}
           /\ intent[i].op \in SnapshotOps =>
                u.seq = m.seq + 1 /\ u.cur = i /\ u.snaps = m.snaps \cup {i} /\ u.tag = m.tag
           /\ intent[i].op \notin SnapshotOps => u.seq = m.seq /\ u.cur = m.cur
           /\ intent[i].op = "tag" => u.tag = intent[i].target /\ u.snaps = m.snaps
           /\ intent[i].op = "untag" => u.tag = 0 /\ u.snaps = m.snaps
           /\ intent[i].op \notin SnapshotOps \cup {"tag", "untag"} =>
                u.tag = m.tag /\ u.snaps = m.snaps \ doomed
<1>1. m.log \cup {i} \in SUBSET Ids /\ m.snaps \cup {i} \in SUBSET Ids /\ m.seq + 1 \in Nat
  BY DEF Meta
<1>2. i \in IdOrNone /\ 0 \in IdOrNone /\ intent[i].target \in IdOrNone
  BY CommitAssumption DEF IdOrNone, Ids, TypeOK, Intent
<1>3. CASE intent[i].op \in SnapshotOps
  BY <1>1, <1>2, <1>3 DEF Updated, Meta, SnapshotOps
<1>4. CASE intent[i].op = "tag"
  BY <1>1, <1>2, <1>4 DEF Updated, Meta, SnapshotOps
<1>5. CASE intent[i].op = "untag"
  BY <1>1, <1>2, <1>5 DEF Updated, Meta, SnapshotOps
<1>6. CASE intent[i].op \notin SnapshotOps \cup {"tag", "untag"}
  BY <1>1, <1>2, <1>6 DEF Updated, Meta, SnapshotOps
<1> QED
  BY <1>3, <1>4, <1>5, <1>6

\* apply and the write of the next document.
LEMMA Publishing ==
    ASSUME CommitInv, NEW w \in Writers, Publish(w)
    PROVE  CommitInv'
<1> USE DEF CommitInv
<1>a. PICK doomed \in Doomable(w) :
        LET u == Updated(handle[w].meta, txn[w].id, doomed)
            n == handle[w].version + 1
        IN /\ handle' = [handle EXCEPT ![w] = [version |-> n, meta |-> u]]
           /\ docs' = [v \in DOMAIN docs \cup {n} |-> IF v = n THEN {u} ELSE docs[v]]
  BY Zenon DEF Publish
<1>b. PICK i, m, n : i = txn[w].id /\ m = handle[w].meta /\ n = handle[w].version + 1
  OBVIOUS
<1>c. PICK u : u = Updated(m, i, doomed)
  OBVIOUS
<1>1. /\ i = txn[w].id /\ m = handle[w].meta
      /\ doomed \in Doomable(w)
      /\ u = Updated(m, i, doomed) /\ n = handle[w].version + 1
      /\ handle' = [handle EXCEPT ![w] = [version |-> n, meta |-> u]]
      /\ docs' = [v \in DOMAIN docs \cup {n} |-> IF v = n THEN {u} ELSE docs[v]]
  BY <1>a, <1>b, <1>c, Zenon
<1>2. /\ txn[w].pc = "write" /\ txn[w].goal = "commit" /\ Proposing(w)
      /\ Applies(m, i) /\ WriteSnapshot(w)
      /\ txn' = [txn EXCEPT ![w].pc = "point"]
      /\ UNCHANGED <<hint, intent, result, nextId, faults>>
  BY <1>1 DEF Publish, ReadyToWrite, Proposing, ghosts
<1>3. /\ i \in Ids /\ i < nextId /\ snap[i].seq = 0
      /\ result[i] = "running" /\ intent[i].op \in AllOps
  BY <1>1, <1>2 DEF IdInv
<1>4. m \in Meta /\ n \in Nat /\ m \in Documents /\ SoundDocument(m)
  BY <1>1 DEF TypeOK, Handle, Documents, DocumentInv
<1>5. u \in Meta
  BY <1>1, <1>3, <1>4, UpdatedFields
<1>6. /\ snap' \in [Ids -> Snapshot]
      /\ \A j \in Ids : j # i => snap'[j] = snap[j]
      /\ \A j \in Ids : 0 < snap[j].seq => snap'[j] = snap[j]
      /\ OpOf(w) \in SnapshotOps => snap'[i].seq = m.seq + 1
      /\ SnapshotInv'
  BY <1>1, <1>2, SnapshotWritten
<1>7. /\ txn' \in [Writers -> Txn]
      /\ \A x \in Writers : x # w => txn'[x] = txn[x]
      /\ txn'[w].id = i /\ txn'[w].goal = "commit" /\ txn'[w].pc = "point"
      /\ txn'[w].saved = txn[w].saved
  BY <1>1, <1>2 DEF TypeOK, Txn
<1>8. TypeOK'
  <2>1. [version |-> n, meta |-> u] \in Handle
    BY <1>4, <1>5 DEF Handle
  <2>2. handle' \in [Writers -> Handle]
    BY <1>1, <2>1 DEF TypeOK
  <2>3. DOMAIN docs' \subseteq Nat /\ \A v \in DOMAIN docs' : docs'[v] \subseteq Meta
    BY <1>1, <1>4, <1>5 DEF TypeOK
  <2> QED
    BY <1>2, <1>6, <1>7, <2>2, <2>3 DEF TypeOK
<1>9. \A x \in Writers : Proposing(x)' => Proposing(x) /\ x # w
  BY <1>7 DEF Proposing
<1>10. IdInv'
  <2>1. \A j \in Ids : j >= nextId' => result'[j] = "none" /\ snap'[j].seq = 0
    BY <1>2, <1>3, <1>6 DEF IdInv, TypeOK, Ids
  <2>2. \A x \in Writers : Proposing(x)' => snap'[txn'[x].id].seq = 0
    <3> SUFFICES ASSUME NEW x \in Writers, Proposing(x)'
                 PROVE  snap'[txn'[x].id].seq = 0
      OBVIOUS
    <3>1. x # w /\ Proposing(x) /\ txn'[x] = txn[x] /\ txn[x].goal = "commit"
      BY <1>7, <1>9 DEF Proposing
    <3>2. txn[x].id \in Ids /\ txn[x].id # i
      BY <1>1, <1>2, <3>1 DEF IdInv
    <3> QED
      BY <3>1, <3>2, <1>6 DEF IdInv
  <2>3. \A x \in Writers : txn'[x].id = txn[x].id /\ txn'[x].goal = txn[x].goal
    BY <1>1, <1>2, <1>7
  <2> QED
    BY <2>1, <2>2, <2>3, <1>2 DEF IdInv
<1>11. SoundDocument(u)'
  <2>1. u.cur = 0 \/ u.cur \in u.snaps
    <3>1. CASE intent[i].op \in SnapshotOps
      BY <3>1, <1>1, <1>3, <1>4, UpdatedFields
    <3>2. CASE intent[i].op \in {"tag", "untag"}
      BY <3>2, <1>1, <1>3, <1>4, UpdatedFields DEF SnapshotOps, SoundDocument
    <3>3. CASE intent[i].op = "expire"
      BY <3>3, <1>1, <1>3, <1>4, UpdatedFields
         DEF SnapshotOps, SoundDocument, Doomable, OpOf, Unreferenced
    <3> QED
      BY <3>1, <3>2, <3>3, <1>3 DEF AllOps, SnapshotOps
  <2>2. u.tag = 0 \/ u.tag \in u.snaps
    <3>1. CASE intent[i].op \in SnapshotOps
      BY <3>1, <1>1, <1>3, <1>4, UpdatedFields DEF SoundDocument
    <3>2. CASE intent[i].op \in {"tag", "untag"}
      BY <3>2, <1>1, <1>2, <1>3, <1>4, UpdatedFields DEF SnapshotOps, Applies
    <3>3. CASE intent[i].op = "expire"
      BY <3>3, <1>1, <1>3, <1>4, UpdatedFields
         DEF SnapshotOps, SoundDocument, Doomable, OpOf, Unreferenced
    <3> QED
      BY <3>1, <3>2, <3>3, <1>3 DEF AllOps, SnapshotOps
  <2>3. \A j \in u.snaps : 0 < snap'[j].seq /\ snap'[j].seq <= u.seq
    <3>1. \A j \in m.snaps : /\ 0 < snap'[j].seq /\ snap'[j].seq <= m.seq
                             /\ snap'[j].seq \in Nat
      BY <1>4, <1>6 DEF SoundDocument, Meta, Snapshot
    <3>2. CASE intent[i].op \in SnapshotOps
      <4>1. snap'[i].seq = m.seq + 1 /\ m.seq \in Nat
        BY <3>2, <1>1, <1>4, <1>6 DEF OpOf, Meta
      <4>2. u.seq = m.seq + 1 /\ u.snaps = m.snaps \cup {i}
        BY <3>2, <1>1, <1>3, <1>4, UpdatedFields
      <4> QED
        BY <4>1, <4>2, <3>1
    <3>3. CASE intent[i].op \notin SnapshotOps
      <4>1. u.seq = m.seq /\ u.snaps \subseteq m.snaps
        BY <3>3, <1>1, <1>3, <1>4, UpdatedFields
      <4> QED
        BY <4>1, <3>1
    <3> QED
      BY <3>2, <3>3
  <2>4. u.log = m.log \cup {i}
    BY <1>1, <1>3, <1>4, UpdatedFields
  <2>5. \A j \in u.log : j < nextId' /\ result'[j] # "failed"
    BY <2>4, <1>2, <1>3, <1>4 DEF SoundDocument
  <2>6. \A x \in Writers : Proposing(x)' => txn'[x].id \notin u.log
    <3> SUFFICES ASSUME NEW x \in Writers, Proposing(x)'
                 PROVE  txn'[x].id \notin u.log
      OBVIOUS
    <3>1. x # w /\ Proposing(x) /\ txn'[x] = txn[x] /\ txn[x].goal = "commit"
      BY <1>7, <1>9 DEF Proposing
    <3>2. txn[x].id # i /\ txn[x].id \notin m.log
      BY <1>1, <1>2, <1>4, <3>1 DEF IdInv, SoundDocument
    <3> QED
      BY <3>1, <3>2, <2>4
  <2> QED
    BY <2>1, <2>2, <2>3, <2>5, <2>6 DEF SoundDocument
<1>12. DocumentInv'
  <2>1. Documents' \subseteq Documents \cup {u}
    <3>1. \A v \in DOMAIN docs' : docs'[v] \subseteq Documents \cup {u}
      BY <1>1 DEF Documents
    <3>2. \A x \in Writers : handle'[x].meta \in Documents \cup {u}
      BY <1>1 DEF Documents, TypeOK
    <3>3. \A x \in Writers : txn'[x].saved.meta \in Documents
      BY <1>7 DEF Documents
    <3>4. \A d \in Documents' : \/ \E v \in DOMAIN docs' : d \in docs'[v]
                               \/ \E x \in Writers : d = handle'[x].meta
                               \/ \E y \in Writers : d = txn'[y].saved.meta
      BY DEF Documents
    <3> QED
      BY <3>1, <3>2, <3>3, <3>4
  <2>2. ASSUME NEW d \in Documents  PROVE  SoundDocument(d)'
    <3>1. d \in Meta /\ SoundDocument(d)
      BY DocumentsTyped DEF DocumentInv
    <3>2. \A x \in Writers : Proposing(x)' => txn'[x].id \notin d.log
      BY <3>1, <1>7, <1>9 DEF SoundDocument
    <3>3. \A j \in d.log : result'[j] # "failed"
      BY <3>1, <1>2 DEF SoundDocument
    <3> QED
      BY <3>1, <3>2, <3>3, <1>2, <1>6, <1>8, StillSound DEF TypeOK
  <2> QED
    BY <2>1, <2>2, <1>11 DEF DocumentInv
<1>13. PlanInv'
  <2> SUFFICES ASSUME NEW x \in Writers, Proposing(x)'  PROVE  Planned(x)'
    BY DEF PlanInv
  <2>1. x # w /\ Proposing(x) /\ txn'[x] = txn[x]
    BY <1>7, <1>9
  <2>2. handle'[x] = handle[x]
    BY <1>1, <2>1 DEF TypeOK
  <2> QED
    BY <2>1, <2>2, <1>2, <1>6, PlanStays
<1> QED
  BY <1>6, <1>8, <1>10, <1>12, <1>13

-----------------------------------------------------------------------------
(* The actions, by what they do.                                           *)

\* Lookups: a call starts, reads the hint, finds a document or does not.
LEMMA LookingUp ==
    ASSUME CommitInv, NEW w \in Writers,
           OpenOrCreate(w) \/ Open(w) \/ ReadHint(w) \/ Probe(w) \/ Load(w)
             \/ LoadFails(w) \/ Clear(w) \/ Beaten(w)
    PROVE  CommitInv'
<1> USE DEF CommitInv, storage, ghosts
<1>1. /\ DOMAIN docs \subseteq Nat
      /\ \A v \in DOMAIN docs : docs[v] \subseteq Documents \cup {NewTable}
      /\ \A v \in DOMAIN docs : docs[v] \subseteq Meta
      /\ handle[w] \in Handle /\ handle[w].meta \in Documents
      /\ txn[w] \in Txn /\ txn[w].saved.meta \in Documents
      /\ handle = [handle EXCEPT ![w] = handle[w]]
  BY DEF TypeOK, Documents
<1>2. txn[w].goal # "commit" => txn[w].id = 0
  BY DEF IdInv
<1>3. NoTxn \in Txn /\ NoTxn.goal = "none" /\ NoTxn.id = 0 /\ NoTxn.saved.meta = NewTable
  BY NewTableSound, CommitAssumption DEF NoTxn, Txn, NoHandle, Handle, IdOrNone
<1>4. CASE OpenOrCreate(w) \/ Open(w)
  <2>1. PICK goal \in {"probe", "load"} : StartCall(w, goal)
    BY <1>4 DEF OpenOrCreate, Open
  <2>2. PICK t : t = NewCall(goal, 0, handle[w])
    OBVIOUS
  <2>3. t \in Txn /\ t.goal # "commit" /\ t.id = 0 /\ t.saved = handle[w]
    BY <1>1, <2>2, CommitAssumption DEF NewCall, Txn, IdOrNone
  <2>4. txn' = [txn EXCEPT ![w] = t] /\ UNCHANGED <<storage, handle, ghosts, faults>>
    BY <2>1, <2>2 DEF StartCall
  <2> QED
    BY <1>1, <2>3, <2>4, MovingOn
<1>5. CASE ReadHint(w)
  <2>1. PICK t : t = [txn[w] EXCEPT !.pc = "document", !.seen = hint]
    OBVIOUS
  <2>2. t \in Txn /\ t.goal = txn[w].goal /\ t.id = txn[w].id /\ t.pc = "document"
        /\ t.saved = txn[w].saved
    BY <1>1, <2>1 DEF Txn, TypeOK
  <2>3. txn' = [txn EXCEPT ![w] = t] /\ txn[w].pc = "hint"
        /\ UNCHANGED <<storage, handle, ghosts, faults>>
    BY <1>5, <2>1 DEF ReadHint
  <2> QED
    BY <1>1, <1>2, <2>2, <2>3, MovingOn
<1>6. CASE Probe(w)
  <2>1. PICK at \in {"hint", "write"}, goal \in {"open", "create"} :
            /\ txn' = [txn EXCEPT ![w].pc = at, ![w].goal = goal]
            /\ UNCHANGED <<storage, handle, ghosts, faults>>
    BY <1>6 DEF Probe
  <2>2. PICK t : t = [txn[w] EXCEPT !.pc = at, !.goal = goal]
    OBVIOUS
  <2>3. t \in Txn /\ t.goal = goal /\ t.id = 0 /\ t.saved = txn[w].saved
    BY <1>1, <1>2, <1>6, <2>2 DEF Txn, Probe
  <2>4. txn' = [txn EXCEPT ![w] = t]
    BY <2>1, <2>2
  <2> QED
    BY <1>1, <2>1, <2>3, <2>4, MovingOn
<1>7. CASE Load(w)
  <2>0. PICK v \in DOMAIN docs : \E m \in docs[v] :
            handle' = [handle EXCEPT ![w] = [version |-> v, meta |-> m]]
    BY <1>7 DEF Load
  <2>1. PICK m \in docs[v] :
            handle' = [handle EXCEPT ![w] = [version |-> v, meta |-> m]]
    BY <2>0
  <2>2. [version |-> v, meta |-> m] \in Handle
    BY <1>1 DEF Handle
  <2>3. txn' = [txn EXCEPT ![w] = NoTxn] /\ ~Proposing(w)
        /\ UNCHANGED <<storage, ghosts, faults>>
    BY <1>7 DEF Load, Proposing
  <2> QED
    BY <1>1, <1>3, <2>1, <2>2, <2>3, MovingOn
<1>8. CASE LoadFails(w)
  <2>1. txn' = [txn EXCEPT ![w] = NoTxn] /\ UNCHANGED <<storage, handle, ghosts, faults>>
    BY <1>8 DEF LoadFails
  <2> QED
    BY <1>1, <1>3, <2>1, MovingOn
<1>9. CASE Clear(w)
  <2>1. PICK t : t = [txn[w] EXCEPT !.pc = "write"]
    OBVIOUS
  <2>2. t \in Txn /\ t.goal = txn[w].goal /\ t.id = txn[w].id /\ t.pc = "write"
        /\ t.saved = txn[w].saved
    BY <1>1, <2>1 DEF Txn
  <2>3. txn' = [txn EXCEPT ![w] = t] /\ txn[w].pc = "document"
        /\ UNCHANGED <<storage, handle, ghosts, faults>>
    BY <1>9, <2>1 DEF Clear, Committing
  <2> QED
    BY <1>1, <1>2, <2>2, <2>3, MovingOn
<1>10. CASE Beaten(w)
  <2>0. PICK b \in Nat : b = txn[w].beaten + 1
    BY <1>1 DEF Txn
  <2>1. PICK t : t = [txn[w] EXCEPT !.pc = "hint", !.beaten = b]
    OBVIOUS
  <2>2. t \in Txn /\ t.goal = txn[w].goal /\ t.id = txn[w].id /\ t.pc = "hint"
        /\ t.saved = txn[w].saved
    BY <1>1, <2>1 DEF Txn
  <2>3. txn' = [txn EXCEPT ![w] = t] /\ txn[w].pc = "document"
        /\ UNCHANGED <<storage, ghosts, faults>>
    BY <1>10, <2>0, <2>1, Zenon DEF Beaten, Committing
  <2>a. PICK v \in DOMAIN docs : \E m \in docs[v] :
            handle' = IF OpOf(w) \in FailOps THEN handle
                      ELSE [handle EXCEPT ![w] = [version |-> v, meta |-> m]]
    BY <1>10 DEF Beaten
  <2>4. PICK m \in docs[v] :
            handle' = IF OpOf(w) \in FailOps THEN handle
                      ELSE [handle EXCEPT ![w] = [version |-> v, meta |-> m]]
    BY <2>a
  <2>5. CASE OpOf(w) \in FailOps
    <3>1. handle' = [handle EXCEPT ![w] = handle[w]]
      BY <1>1, <2>4, <2>5
    <3> QED
      BY <1>1, <1>2, <2>2, <2>3, <3>1, MovingOn
  <2>6. CASE OpOf(w) \notin FailOps
    <3>1. [version |-> v, meta |-> m] \in Handle
      BY <1>1 DEF Handle
    <3>2. handle' = [handle EXCEPT ![w] = [version |-> v, meta |-> m]]
      BY <2>4, <2>6
    <3> QED
      BY <1>1, <1>2, <2>2, <2>3, <2>6, <3>1, <3>2, MovingOn
  <2> QED
    BY <2>5, <2>6
<1> QED
  BY <1>4, <1>5, <1>6, <1>7, <1>8, <1>9, <1>10

\* Version 1 is written.
LEMMA Creating ==
    ASSUME CommitInv, NEW w \in Writers, Create(w)
    PROVE  CommitInv'
<1> USE DEF CommitInv
<1>1. PICK t : t = [txn[w] EXCEPT !.pc = "point"]
  OBVIOUS
<1>2. t \in Txn /\ t.goal = "create" /\ t.id = 0 /\ t.saved.meta \in Documents
  BY <1>1 DEF Create, TypeOK, Txn, IdInv, Documents
<1>3. PICK h : h = [version |-> 1, meta |-> NewTable]
  OBVIOUS
<1>4. h \in Handle /\ h.meta = NewTable
  BY <1>3, NewTableSound DEF Handle
<1>5. /\ txn' = [txn EXCEPT ![w] = t] /\ handle' = [handle EXCEPT ![w] = h]
      /\ ~Proposing(w)
      /\ UNCHANGED <<hint, snap, ghosts, faults>>
  BY <1>1, <1>3 DEF Create, Proposing
<1>6. /\ DOMAIN docs' \subseteq Nat
      /\ \A v \in DOMAIN docs' : docs'[v] \subseteq Documents \cup {NewTable}
  BY DEF Create, TypeOK, Documents
<1> QED
  BY <1>2, <1>4, <1>5, <1>6, MovingOn

\* A commit begins, whatever the operation.
LEMMA Commencing ==
    ASSUME CommitInv, NEW w \in Writers,
           Append(w) \/ Overwrite(w) \/ Compact(w)
             \/ CreateTag(w) \/ RemoveTag(w) \/ Expire(w)
    PROVE  CommitInv'
<1>1. handle[w].meta \in Meta /\ LiveFiles(handle[w].meta) \subseteq Files
  BY LiveFilesTyped DEF CommitInv, TypeOK, Handle
<1>2. nextId <= MaxCommits => {{}, {{nextId}}} \subseteq SUBSET Files
  BY CommitAssumption DEF CommitInv, TypeOK, Files, Ids
<1>3. 0 \in IdOrNone /\ handle[w].meta.snaps \subseteq IdOrNone
  BY <1>1, CommitAssumption DEF IdOrNone, Ids, Meta
<1>4. CASE Append(w)
  <2>1. PICK new \in {{}, {{nextId}}} : Begin(w, "append", new, {}, 0)
    BY <1>4 DEF Append
  <2>2. new \in SUBSET Files /\ {} \in SUBSET Files
    BY <1>2, <2>1 DEF Begin
  <2> QED
    BY <1>3, <2>1, <2>2, Beginning DEF FailOps
<1>5. CASE Overwrite(w)
  <2>1. PICK new \in {{}, {{nextId}}}, kept \in SUBSET LiveFiles(handle[w].meta) :
            Begin(w, "overwrite", new, kept, 0)
    BY <1>5 DEF Overwrite
  <2>2. new \in SUBSET Files /\ kept \in SUBSET Files
    BY <1>1, <1>2, <2>1 DEF Begin
  <2> QED
    BY <1>3, <2>1, <2>2, Beginning
<1>6. CASE Compact(w)
  <2>1. PICK kept \in SUBSET LiveFiles(handle[w].meta) :
            Begin(w, "replace", {UNION (LiveFiles(handle[w].meta) \ kept)}, kept, 0)
    BY <1>6 DEF Compact
  <2>2. UNION (LiveFiles(handle[w].meta) \ kept) \in Files /\ kept \in SUBSET Files
    BY <1>1 DEF Files
  <2> QED
    BY <1>3, <2>1, <2>2, Beginning
<1>7. CASE CreateTag(w) \/ RemoveTag(w) \/ Expire(w)
  <2>1. PICK op \in {"tag", "untag", "expire"}, target \in IdOrNone :
            Begin(w, op, {}, {}, target)
    BY <1>3, <1>7 DEF CreateTag, RemoveTag, Expire
  <2>2. {} \in SUBSET Files
    OBVIOUS
  <2>3. op \notin {"append", "overwrite", "replace"} /\ op \notin FailOps
    BY DEF FailOps
  <2> QED
    BY <2>1, <2>2, <2>3, Beginning
<1> QED
  BY <1>4, <1>5, <1>6, <1>7

\* A call ends without writing a document: with an answer or with its process.
LEMMA Ending ==
    ASSUME CommitInv, NEW w \in Writers,
           Conflict(w) \/ LookupFails(w) \/ Rejected(w) \/ PointHint(w)
             \/ ReadFault(w) \/ HintFault(w) \/ Crash(w)
    PROVE  CommitInv'
<1> USE DEF CommitInv
<1>1. /\ handle[w] \in Handle /\ handle[w].meta \in Documents
      /\ txn[w].saved \in Handle /\ txn[w].saved.meta \in Documents
      /\ NoHandle \in Handle /\ NoHandle.meta = NewTable
      /\ handle = [handle EXCEPT ![w] = handle[w]]
  BY NewTableSound DEF TypeOK, Documents, Txn, NoHandle, Handle
<1>2. UNCHANGED <<docs, snap, intent, nextId>>
  BY DEF Conflict, LookupFails, Rejected, PointHint, ReadFault, HintFault, Crash,
         storage, ghosts
<1>3. hint' \in Nat /\ faults' \in Nat
  BY DEF Conflict, LookupFails, Rejected, PointHint, ReadFault, HintFault, Crash,
         Fault, storage, TypeOK, Handle
<1>4. /\ DOMAIN docs' \subseteq Nat
      /\ \A v \in DOMAIN docs' : docs'[v] \subseteq Documents \cup {NewTable}
      /\ snap' \in [Ids -> Snapshot]
      /\ \A i \in Ids : snap'[i] = snap[i]
  BY <1>2 DEF TypeOK, Documents
<1>5. SnapshotInv'
  BY <1>2, SnapshotsSame
<1>6. PICK answer \in {"ok", "failed", "doubtful", "crashed"},
           h \in {handle[w], txn[w].saved, NoHandle} :
        /\ handle' = [handle EXCEPT ![w] = h]
        /\ Return(w, txn[w].id, answer)
        /\ answer = "failed" => txn[w].pc # "point"
  <2>1. CASE PointHint(w)
    BY <2>1, <1>1 DEF PointHint
  <2>2. CASE Crash(w)
    BY <2>2 DEF Crash
  <2>3. CASE HintFault(w)
    BY <2>3 DEF HintFault, Restore
  <2>4. CASE Conflict(w) \/ LookupFails(w) \/ Rejected(w) \/ ReadFault(w)
    BY <2>4 DEF Conflict, LookupFails, Rejected, ReadFault, Restore, Committing,
                ReadyToWrite
  <2> QED
    BY <2>1, <2>2, <2>3, <2>4
<1> QED
  BY <1>1, <1>2, <1>3, <1>4, <1>5, <1>6, Returning

\* The document's write fails, after the snapshot's own writes.
LEMMA DocumentFaulting ==
    ASSUME CommitInv, NEW w \in Writers, DocumentFault(w)
    PROVE  CommitInv'
<1> USE DEF CommitInv
<1>1. txn[w].saved \in Handle /\ txn[w].saved.meta \in Documents
  BY DEF TypeOK, Documents, Txn
<1>2. /\ txn[w].pc = "write" /\ Return(w, txn[w].id, "failed")
      /\ handle' = [handle EXCEPT ![w] = txn[w].saved]
      /\ UNCHANGED <<hint, intent, nextId>>
  BY DEF DocumentFault, Restore
<1>3. hint' \in Nat /\ faults' \in Nat
  BY DEF DocumentFault, Fault, TypeOK
<1>4. PICK n : n = IF txn[w].goal = "commit" THEN handle[w].version + 1 ELSE 1
  OBVIOUS
<1>5. n \in Nat
  BY <1>4 DEF TypeOK, Handle
<1>6. \/ UNCHANGED docs
      \/ docs' = [v \in DOMAIN docs \cup {n} |-> IF v = n THEN {} ELSE docs[v]]
  BY <1>4, Zenon DEF DocumentFault
<1>7. /\ DOMAIN docs' \subseteq Nat
      /\ \A v \in DOMAIN docs' : docs'[v] \subseteq Documents \cup {NewTable}
  BY <1>5, <1>6 DEF TypeOK, Documents
<1>8. /\ snap' \in [Ids -> Snapshot]
      /\ \A i \in Ids : i # txn[w].id \/ 0 < snap[i].seq => snap'[i] = snap[i]
      /\ SnapshotInv'
  <2>1. CASE txn[w].goal = "commit"
    <3>1. Proposing(w) /\ WriteSnapshot(w)
      BY <2>1, <1>2 DEF Proposing, DocumentFault
    <3> QED
      BY <1>2, <3>1, SnapshotWritten
  <2>2. CASE txn[w].goal # "commit"
    <3>1. UNCHANGED <<snap, intent>>
      BY <2>2, <1>2 DEF DocumentFault
    <3> QED
      BY <3>1, SnapshotsSame DEF TypeOK
  <2> QED
    BY <2>1, <2>2
<1> QED
  BY <1>1, <1>2, <1>3, <1>7, <1>8, Returning

-----------------------------------------------------------------------------
(* The invariant, and what follows from it.                                *)

LEMMA InitInv == Init => CommitInv
<1> SUFFICES ASSUME Init  PROVE CommitInv
  OBVIOUS
<1>1. /\ NoTxn \in Txn /\ NoTxn.goal = "none" /\ NoTxn.id = 0
      /\ NoTxn.saved.meta = NewTable
      /\ NoHandle \in Handle /\ NoHandle.meta = NewTable
      /\ NoIntent \in Intent
  BY NewTableSound, CommitAssumption
     DEF NoTxn, Txn, NoHandle, Handle, IdOrNone, NoIntent, Intent
<1>2. DOMAIN docs \subseteq Nat /\ \A v \in DOMAIN docs : docs[v] \subseteq {NewTable}
  BY DEF Init
<1>3. TypeOK
  <2>1. snap \in [Ids -> Snapshot]
    BY CommitAssumption DEF Init, Snapshot, IdOrNone
  <2>2. hint \in Nat /\ nextId \in Nat \ {0} /\ faults \in Nat
    BY DEF Init
  <2>3. result \in [Ids -> Results]
    BY DEF Init, Results
  <2> QED
    BY <1>1, <1>2, <2>1, <2>2, <2>3, NewTableSound DEF Init, TypeOK
<1>4. Documents \subseteq {NewTable}
  BY <1>1, <1>2 DEF Documents, Init
<1>5. IdInv
  BY <1>1 DEF Init, IdInv, Proposing
<1>6. DocumentInv
  BY <1>4, NewTableSound DEF DocumentInv
<1>7. SnapshotInv
  BY DEF Init, SnapshotInv
<1>8. PlanInv
  BY <1>1 DEF Init, PlanInv, Proposing
<1> QED
  BY <1>3, <1>5, <1>6, <1>7, <1>8 DEF CommitInv

LEMMA StepInv == CommitInv /\ [Next]_vars => CommitInv'
<1> SUFFICES ASSUME CommitInv, [Next]_vars  PROVE CommitInv'
  OBVIOUS
<1>1. ASSUME NEW w \in Writers, Start(w)  PROVE CommitInv'
  BY <1>1, LookingUp, Commencing DEF Start
<1>2. ASSUME NEW w \in Writers, Step(w)  PROVE CommitInv'
  BY <1>2, LookingUp, Creating, Ending, Publishing DEF Step
<1>3. ASSUME NEW w \in Writers, Misfortune(w)  PROVE CommitInv'
  BY <1>3, Ending, DocumentFaulting DEF Misfortune
<1>4. CASE UNCHANGED vars
  <2> USE <1>4 DEF CommitInv, vars
  <2>1. TypeOK'
    BY DEF TypeOK
  <2>2. IdInv'
    BY DEF IdInv, Proposing
  <2>3. DocumentInv'
    BY DEF DocumentInv, Documents, SoundDocument, Proposing
  <2>4. SnapshotInv'
    BY SnapshotsSame
  <2>5. PlanInv'
    BY DEF PlanInv, Planned, Proposing, LiveFiles
  <2> QED
    BY <2>1, <2>2, <2>3, <2>4, <2>5
<1> QED
  BY <1>1, <1>2, <1>3, <1>4 DEF Next

\* The named parts of CommitInv hold in every state the protocol reaches:
\* types, ownership of commit ids, sound documents, sound snapshots, and
\* plans that still match the handle they were made of.
THEOREM CommitInvariant == Spec => []CommitInv
BY InitInv, StepInv, PTL DEF Spec

\* Whatever races, fails or dies, the state keeps its type: every document
\* on storage is one that parses or an empty file, and every handle holds a
\* document that parsed.
THEOREM TypeInvariant == Spec => []TypeOK
BY CommitInvariant, PTL DEF CommitInv

\* A commit that was beaten never undoes the winner: in every document every
\* append has its parent's files, and every rewrite replaces files of the
\* very snapshot it planned against.
THEOREM ParentsFollowed == Spec => []SnapshotFollowsParent
<1>1. CommitInv => SnapshotFollowsParent
  BY DocumentsTyped DEF CommitInv, SnapshotFollowsParent, DocumentInv, SoundDocument,
     SnapshotInv, SoundSnapshot, Meta
<1> QED
  BY <1>1, CommitInvariant, PTL

\* No commit's rows are in a table twice, in any snapshot any document keeps.
THEOREM RowsAreOnce == Spec => []RowsOnce
<1>1. CommitInv => RowsOnce
  BY DocumentsTyped DEF CommitInv, RowsOnce, DocumentInv, SoundDocument,
     SnapshotInv, SoundSnapshot, Meta
<1> QED
  BY <1>1, CommitInvariant, PTL

\* A rebased commit sequences after the winner: sequence numbers grow from
\* parent to child and none passes its document's last sequence number.
THEOREM SequencesAlwaysGrow == Spec => []SequencesGrow
<1>1. CommitInv => SequencesGrow
  BY DocumentsTyped DEF CommitInv, SequencesGrow, DocumentInv, SoundDocument,
     SnapshotInv, SoundSnapshot, Meta
<1> QED
  BY <1>1, CommitInvariant, PTL

\* A commit whose caller was told it failed is in no document, on storage or
\* in a handle, however its document write or its retries went.
THEOREM FailuresUnpublished == Spec => []FailedNeverPublished
<1>1. CommitInv => FailedNeverPublished
  BY DEF CommitInv, FailedNeverPublished, DocumentInv, SoundDocument
<1> QED
  BY <1>1, CommitInvariant, PTL

\* The current snapshot and the tagged one are always retained, also when an
\* expiry was re-applied to a document in which they moved.
THEOREM NamesRetained == Spec => []NamedIsRetained
<1>1. CommitInv => NamedIsRetained
  BY DEF CommitInv, NamedIsRetained, DocumentInv, SoundDocument
<1> QED
  BY <1>1, CommitInvariant, PTL

-----------------------------------------------------------------------------
(***************************************************************************)
(* Serialized writers implement SerialTable, for every set of writers, any *)
(* number of commits, retries, dying processes and failing reads: the      *)
(* table a reader finds through find_metadata changes by whole commits.    *)
(*                                                                         *)
(* One lock is not enough by itself.  Two things must not come together    *)
(* with a hint that lost its bytes, because the lookup then falls back to  *)
(* the highest-numbered document there is: a document write that failed    *)
(* half way, whose empty file the fallback would take for the table, and a *)
(* plain open outside the lock, which may adopt the document a dying       *)
(* writer left unnamed.  So the theorems have either hypothesis: the hint  *)
(* is there and keeps its bytes, or every document is whole and opens wait *)
(* their turn.                                                             *)
(***************************************************************************)

\* The hint is there from the start and no write of it fails.
HintKept == Initially \subseteq {"hinted"} /\ "hint" \notin FaultKinds

\* No document write fails half way, and every open is made by a writer
\* whose turn it is.
LookupsInTurn == "document" \notin FaultKinds /\ "open" \notin Opens

-----------------------------------------------------------------------------
(* The invariant, around (v, m): the document a lookup finds, or version 0 *)
(* and the empty table before there is one.                                *)

Shows(v, m) ==
    IF DOMAIN docs = {} THEN v = 0 /\ m = NewTable
    ELSE v \in DOMAIN docs /\ Locates(hint, v) /\ docs[v] = {m}

Rows(m) == UNION LiveFiles(m)

\* Making n of m is commit i's whole effect, and due to it.
Owed(i, m, n) ==
    LET asked == intent[i]
        adds == UNION asked.new
        keeps == UNION asked.kept
    IN /\ i \notin m.log /\ n.log = m.log \cup {i}
       /\ asked.op \in FailOps => asked.base = m.log
       /\ CASE asked.op = "append" -> Rows(n) = Rows(m) \cup adds /\ n.tag = m.tag
            [] asked.op = "overwrite" -> /\ keeps \subseteq Rows(m)
                                         /\ Rows(n) = keeps \cup adds /\ n.tag = m.tag
            [] asked.op = "tag" -> m.tag = 0 /\ n.tag = asked.target /\ Rows(n) = Rows(m)
            [] asked.op = "untag" -> m.tag # 0 /\ n.tag = 0 /\ Rows(n) = Rows(m)
            [] OTHER -> Rows(n) = Rows(m) /\ n.tag = m.tag

\* A handle is the table, or an earlier table.
Known(h, v, m) ==
    /\ h.version <= v
    /\ h.meta.log \subseteq m.log
    /\ h.version = v => h.meta = m

StorageInv ==
    /\ \A v \in DOMAIN docs : v > 0 /\ \A m, n \in docs[v] : m = n
    /\ hint = 0 \/ Usable(hint)
    /\ \/ HintKept /\ Usable(hint)
       \/ /\ LookupsInTurn
          /\ \A v \in DOMAIN docs : docs[v] # {}
          /\ \A w \in Writers : txn[w].goal # "load"

OneWriter == \A w, u \in Writers : Writing(w) /\ Writing(u) => w = u

\* At most one document is ahead of the table, everything else is behind it.
Behind(v, m) ==
    \A u \in DOMAIN docs :
        u <= v + 1 /\ (u <= v => \A n \in docs[u] : n.log \subseteq m.log)

\* A writer's lookup is of the present, a plain open's of the past.
Looking(w, v) ==
    txn[w].pc = "document" =>
       IF txn[w].goal = "load" THEN Usable(txn[w].seen) /\ txn[w].seen <= v
       ELSE txn[w].seen = hint

\* What a writer about to move the hint has written is the table already,
\* or the commit the table is due.
Written(w, v, m) ==
    /\ txn[w].goal \in {"commit", "create"}
    /\ handle[w].version \in DOMAIN docs
    /\ docs[handle[w].version] = {handle[w].meta}
    /\ \/ /\ handle[w].version = v /\ hint = 0
          /\ txn[w].goal = "commit" => txn[w].id \in m.log
       \/ /\ handle[w].version = v + 1
          /\ txn[w].goal = "commit" /\ Owed(txn[w].id, m, handle[w].meta)

InTurn(w, v, m) ==
    /\ Known(txn[w].saved, v, m)
    /\ txn[w].pc # "point" => Known(handle[w], v, m)
    /\ Looking(w, v)
    /\ txn[w].goal = "commit" => handle[w].version > 0
    /\ Proposing(w) /\ OpOf(w) \in FailOps
           => intent[txn[w].id].base = handle[w].meta.log
    /\ txn[w].pc = "write" =>
         \/ txn[w].goal = "commit" /\ handle[w].version = v
         \/ txn[w].goal = "create" /\ v = 0
    /\ txn[w].pc = "point" => Written(w, v, m)

Around(v, m) == Shows(v, m) /\ Behind(v, m) /\ \A w \in Writers : InTurn(w, v, m)

SerialInv ==
    /\ StorageInv
    /\ OneWriter
    /\ \E v \in DOMAIN docs \cup {0}, m \in Documents \cup {NewTable} : Around(v, m)

-----------------------------------------------------------------------------
(* What a reader finds.                                                    *)

\* Around (v, m), v is the version a lookup finds and m the table.
LEMMA Reading ==
    ASSUME NEW CONSTANT v, NEW CONSTANT m
    PROVE  /\ DOMAIN docs \subseteq Nat /\ Shows(v, m) =>
                /\ Visible = m
                /\ \A u \in VisibleVersions : u = v
           /\ (DOMAIN docs \subseteq Nat /\ Shows(v, m))' =>
                /\ Visible' = m
                /\ \A u \in VisibleVersions' : u = v
<1>1. ASSUME DOMAIN docs \subseteq Nat, Shows(v, m)
      PROVE  Visible = m /\ \A u \in VisibleVersions : u = v
  <2>1. CASE DOMAIN docs = {}
    BY <1>1, <2>1 DEF Shows, Visible, VisibleVersions
  <2>2. CASE DOMAIN docs # {}
    <3>1. v \in DOMAIN docs /\ Locates(hint, v) /\ docs[v] = {m}
      BY <1>1, <2>2 DEF Shows
    <3>2. \A u \in DOMAIN docs : Locates(hint, u) => u = v
      BY <1>1, <3>1 DEF Locates
    <3>3. VisibleVersions = {v}
      BY <3>1, <3>2 DEF VisibleVersions
    <3>4. UNION {docs[u] : u \in VisibleVersions} = {m}
      BY <3>1, <3>3
    <3> QED
      BY <3>1, <3>3, <3>4 DEF Visible
  <2> QED
    BY <2>1, <2>2
<1>2. ASSUME (DOMAIN docs \subseteq Nat)', Shows(v, m)'
      PROVE  Visible' = m /\ \A u \in VisibleVersions' : u = v
  <2>1. CASE DOMAIN docs' = {}
    BY <1>2, <2>1 DEF Shows, Visible, VisibleVersions
  <2>2. CASE DOMAIN docs' # {}
    <3>1. v \in DOMAIN docs' /\ Locates(hint, v)' /\ docs'[v] = {m}
      BY <1>2, <2>2 DEF Shows
    <3>2. \A u \in DOMAIN docs' : Locates(hint, u)' => u = v
      BY <1>2, <3>1 DEF Locates
    <3>3. VisibleVersions' = {v}
      BY <3>1, <3>2 DEF VisibleVersions
    <3>4. (UNION {docs[u] : u \in VisibleVersions})' = {m}
      BY <3>1, <3>3
    <3> QED
      BY <3>1, <3>3, <3>4 DEF Visible
  <2> QED
    BY <2>1, <2>2
<1> QED
  BY <1>1, <1>2

\* The rows of a sound document do not change while written snapshots stay.
LEMMA RowsStay ==
    ASSUME CommitInv, NEW m \in Documents \cup {NewTable},
           \A i \in Ids : 0 < snap[i].seq => snap'[i] = snap[i]
    PROVE  LiveFiles(m)' = LiveFiles(m)
<1>1. m \in Meta /\ SoundDocument(m)
  BY DocumentsTyped, NewTableSound DEF CommitInv, DocumentInv
<1> QED
  BY <1>1 DEF LiveFiles, SoundDocument, Meta

\* The table somewhere is around has the type of one.
LEMMA Somewhere ==
    ASSUME CommitInv, StorageInv, NEW CONSTANT v, NEW CONSTANT m, Around(v, m)
    PROVE  /\ v \in Nat /\ m \in Documents \cup {NewTable}
           /\ m \in Meta /\ SoundDocument(m)
           /\ DOMAIN docs # {} <=> v > 0
<1>1. v \in Nat /\ (DOMAIN docs # {} <=> v > 0) /\ m \in Documents \cup {NewTable}
  BY DEF CommitInv, TypeOK, Around, Shows, StorageInv, Documents
<1> QED
  BY <1>1, DocumentsTyped, NewTableSound DEF CommitInv, DocumentInv

-----------------------------------------------------------------------------
(* Steps of the abstract table.                                            *)

\* A step that leaves the table alone and answers nobody is invisible.
LEMMA Unseen ==
    ASSUME NEW CONSTANT m, Visible = m, Visible' = m,
           LiveFiles(m)' = LiveFiles(m), UNCHANGED <<intent, result>>
    PROVE  UNCHANGED Table!vars
BY DEF Table!vars

\* An answer that leaves the table alone is the abstract table's answer.
LEMMA Answering ==
    ASSUME CommitInv, NEW CONSTANT m, Visible = m, Visible' = m,
           LiveFiles(m)' = LiveFiles(m), UNCHANGED intent,
           NEW w \in Writers, txn[w].goal # "commit" => txn[w].id = 0,
           NEW answer \in {"ok", "failed", "doubtful", "crashed"},
           Return(w, txn[w].id, answer),
           txn[w].goal = "commit" /\ answer = "ok" => txn[w].id \in m.log,
           txn[w].goal = "commit" /\ answer = "failed" => txn[w].id \notin m.log
    PROVE  [Table!Next]_(Table!vars)
<1>1. CASE txn[w].goal = "commit"
  <2>1. PICK i \in Ids : i = txn[w].id /\ result[i] = "running"
    BY <1>1 DEF CommitInv, IdInv
  <2>2. result' = [result EXCEPT ![i] = answer]
    BY <2>1, CommitAssumption DEF Return, Ids
  <2>3. Table!Answer(i)
    BY <1>1, <2>1, <2>2 DEF Table!Answer
  <2>4. i \in Table!Ids
    BY DEF Ids, Table!Ids
  <2> QED
    BY <2>3, <2>4 DEF Table!Next
<1>2. CASE txn[w].goal # "commit"
  <2>1. UNCHANGED result
    BY <1>2 DEF Return
  <2> QED
    BY <2>1, Unseen
<1> QED
  BY <1>1, <1>2

\* A commit that makes n of m, answered now or later, takes effect.
LEMMA TakingEffect ==
    ASSUME CommitInv, NEW CONSTANT m, NEW CONSTANT n, Visible = m, Visible' = n,
           LiveFiles(m)' = LiveFiles(m), UNCHANGED intent,
           NEW CONSTANT i \in Ids, result[i] = "running", Owed(i, m, n)',
           \E s \in {"running", "ok", "doubtful"} : result' = [result EXCEPT ![i] = s]
    PROVE  Table!Next
<1>1. Rows(m)' = Rows(m) /\ intent'[i] = intent[i]
  BY DEF Rows
<1>2. intent[i].op \in AllOps \cup {"none"}
  BY DEF CommitInv, TypeOK, Intent
<1>3. Table!Effect(i)
  BY <1>1, <1>2 DEF Table!Effect, Owed, Rows, FailOps, AllOps
<1>4. Table!TakeEffect(i)
  BY <1>1, <1>3 DEF Table!TakeEffect, Owed
<1>5. i \in Table!Ids
  BY DEF Ids, Table!Ids
<1> QED
  BY <1>4, <1>5 DEF Table!Next

-----------------------------------------------------------------------------
(* Steps that leave storage alone.                                         *)

VersionsKept == \A v \in VisibleVersions : \A u \in VisibleVersions' : v <= u

\* What every step of the protocol does.
Progress == SerialInv' /\ [Table!Next]_(Table!vars) /\ VersionsKept

\* A writer is where it was while storage, its call and its handle stay.
LEMMA Undisturbed ==
    ASSUME NEW CONSTANT v, NEW CONSTANT m, NEW u \in Writers, InTurn(u, v, m),
           UNCHANGED storage, txn'[u] = txn[u], handle'[u] = handle[u],
           txn[u].goal = "commit" => intent'[txn[u].id] = intent[txn[u].id]
    PROVE  InTurn(u, v, m)'
<1>1. Known(txn[u].saved, v, m)' /\ (txn'[u].pc # "point" => Known(handle[u], v, m)')
  BY DEF InTurn, Known
<1>2. Looking(u, v)'
  BY DEF InTurn, Looking, Usable, storage
<1>3. ASSUME txn'[u].pc = "point"  PROVE Written(u, v, m)'
  <2>1. Written(u, v, m)
    BY <1>3 DEF InTurn
  <2>2. ASSUME txn[u].goal = "commit", Owed(txn[u].id, m, handle[u].meta)
        PROVE  Owed(txn[u].id, m, handle[u].meta)'
    <3>1. /\ intent'[txn'[u].id] = intent[txn[u].id] /\ txn'[u].id = txn[u].id
          /\ Rows(m)' = Rows(m) /\ Rows(handle[u].meta)' = Rows(handle[u].meta)
      BY <2>2 DEF Rows, LiveFiles, storage
    <3> QED
      BY <2>2, <3>1 DEF Owed
  <2> QED
    BY <2>1, <2>2 DEF Written, storage
<1> QED
  BY <1>1, <1>2, <1>3 DEF InTurn, Proposing, OpOf

\* A call moves on, starts or ends, and storage stays.
LEMMA CallMoves ==
    ASSUME CommitInv, StorageInv, OneWriter,
           NEW CONSTANT v, NEW CONSTANT m, Around(v, m), NEW w \in Writers,
           NEW t \in Txn, NEW h \in Handle,
           txn' = [txn EXCEPT ![w] = t], handle' = [handle EXCEPT ![w] = h],
           UNCHANGED storage,
           \A i \in Ids : i < nextId => intent'[i] = intent[i],
           t.pc = "idle" \/ t.goal = "load" \/ Writing(w)
             \/ \A u \in Writers : ~Writing(u),
           t.goal = "load" => txn[w].goal = "load" \/ "open" \in Opens,
           InTurn(w, v, m)'
    PROVE  /\ SerialInv' /\ VersionsKept
           /\ Visible = m /\ Visible' = m /\ LiveFiles(m)' = LiveFiles(m)
<1>0. v \in Nat /\ DOMAIN docs \subseteq Nat /\ Shows(v, m) /\ Behind(v, m)
  BY Somewhere DEF CommitInv, TypeOK, Around
<1>1. \A u \in Writers : u # w => txn'[u] = txn[u] /\ handle'[u] = handle[u]
  BY DEF CommitInv, TypeOK
<1>2. txn'[w] = t
  BY DEF CommitInv, TypeOK
<1>3. StorageInv'
  BY <1>1, <1>2 DEF StorageInv, Usable, storage, LookupsInTurn, HintKept
<1>4. OneWriter'
  BY <1>1, <1>2 DEF OneWriter, Writing
<1>5. Shows(v, m)' /\ Behind(v, m)'
  BY <1>0 DEF Shows, Behind, Locates, Usable, storage
<1>6. \A u \in Writers : InTurn(u, v, m)'
  <2> SUFFICES ASSUME NEW u \in Writers, u # w  PROVE InTurn(u, v, m)'
    OBVIOUS
  <2>1. txn[u].goal = "commit" => intent'[txn[u].id] = intent[txn[u].id]
    BY DEF CommitInv, IdInv
  <2> QED
    BY <1>1, <2>1, Undisturbed DEF Around
<1>7. v \in DOMAIN docs' \cup {0} /\ m \in Documents' \cup {NewTable}
  BY <1>5 DEF Shows, Documents
<1>8. Visible = m /\ Visible' = m /\ VersionsKept
  BY <1>0, <1>5, Reading DEF VersionsKept, storage
<1>9. LiveFiles(m)' = LiveFiles(m)
  BY DEF LiveFiles, storage
<1> QED
  BY <1>3, <1>4, <1>5, <1>6, <1>7, <1>8, <1>9 DEF SerialInv, Around

\* What a lookup finds: a writer the table, a plain open it or an earlier one.
LEMMA Found ==
    ASSUME CommitInv, StorageInv, NEW CONSTANT v, NEW CONSTANT m, Around(v, m),
           NEW w \in Writers, txn[w].pc = "document"
    PROVE  /\ \A u \in DOMAIN docs : \A n \in docs[u] :
                Finds(txn[w].seen, u, n) =>
                   /\ Known([version |-> u, meta |-> n], v, m)
                   /\ txn[w].goal # "load" => u = v /\ n = m
           /\ FindsNone => v = 0
<1>1. FindsNone <=> v = 0
  BY Somewhere DEF FindsNone
<1>2. ASSUME NEW u \in DOMAIN docs, NEW n \in docs[u], Finds(txn[w].seen, u, n)
      PROVE  /\ Known([version |-> u, meta |-> n], v, m)
             /\ txn[w].goal # "load" => u = v /\ n = m
  <2>0. /\ v \in DOMAIN docs /\ docs[v] = {m} /\ Locates(hint, v)
        /\ DOMAIN docs \subseteq Nat
    BY DEF Around, Shows, CommitInv, TypeOK
  <2>1. CASE txn[w].goal = "load"
    <3>1. Usable(txn[w].seen) /\ txn[w].seen <= v
      BY <2>1 DEF Around, InTurn, Looking
    <3>2. u <= v
      BY <1>2, <3>1 DEF Finds, Locates
    <3>3. n.log \subseteq m.log
      BY <3>2 DEF Around, Behind
    <3> QED
      BY <2>0, <2>1, <3>2, <3>3 DEF Known
  <2>2. CASE txn[w].goal # "load"
    <3>1. txn[w].seen = hint
      BY <2>2 DEF Around, InTurn, Looking
    <3>2. u = v /\ n = m
      BY <1>2, <2>0, <3>1 DEF Finds, Locates
    <3> QED
      BY <2>0, <3>2 DEF Known
  <2> QED
    BY <2>1, <2>2
<1> QED
  BY <1>1, <1>2

\* An open starts.
LEMMA OpenStarts ==
    ASSUME CommitInv, StorageInv, OneWriter, Serialized,
           NEW CONSTANT v, NEW CONSTANT m, Around(v, m), NEW w \in Writers,
           OpenOrCreate(w) \/ Open(w)
    PROVE  Progress
<1>1. PICK goal \in {"probe", "load"} :
         /\ StartCall(w, goal)
         /\ goal = "load" => "open" \in Opens
         /\ goal = "probe" => \A u \in Writers : ~Writing(u)
  BY DEF OpenOrCreate, Open, MayWrite
<1>2. PICK t : t = NewCall(goal, 0, handle[w])
  OBVIOUS
<1>3. /\ t \in Txn /\ t.goal = goal /\ t.pc = "hint" /\ t.saved = handle[w]
      /\ handle[w] \in Handle
  BY <1>2, CommitAssumption DEF NewCall, Txn, IdOrNone, CommitInv, TypeOK
<1>4. /\ txn' = [txn EXCEPT ![w] = t] /\ handle' = [handle EXCEPT ![w] = handle[w]]
      /\ txn[w].pc = "idle" /\ UNCHANGED <<storage, handle, ghosts, faults>>
  BY <1>1, <1>2 DEF StartCall, CommitInv, TypeOK
<1>5. txn'[w] = t /\ handle'[w] = handle[w] /\ Known(handle[w], v, m)
  BY <1>4 DEF Around, InTurn, CommitInv, TypeOK
<1>6. InTurn(w, v, m)'
  BY <1>3, <1>5 DEF InTurn, Known, Looking, Proposing
<1>7. /\ SerialInv' /\ VersionsKept
      /\ Visible = m /\ Visible' = m /\ LiveFiles(m)' = LiveFiles(m)
  BY <1>1, <1>3, <1>4, <1>6, CallMoves DEF ghosts
<1> QED
  BY <1>4, <1>7, Unseen DEF Progress, ghosts

\* Holding nothing is holding an earlier table.
LEMMA NothingKnown ==
    ASSUME CommitInv, StorageInv, NEW CONSTANT v, NEW CONSTANT m, Around(v, m)
    PROVE  /\ Known(NoHandle, v, m) /\ NoHandle \in Handle
           /\ NoTxn \in Txn /\ NoTxn.pc = "idle" /\ NoTxn.goal = "none"
           /\ NoTxn.saved = NoHandle
<1>1. v \in Nat /\ (v = 0 => m = NewTable)
  BY Somewhere DEF Around, Shows
<1>2. NoHandle \in Handle /\ NoHandle.version = 0 /\ NoHandle.meta = NewTable
  BY NewTableSound DEF NoHandle, Handle
<1>3. NewTable.log = {}
  BY DEF NewTable
<1> QED
  BY <1>1, <1>2, <1>3, CommitAssumption DEF Known, NoTxn, Txn, IdOrNone

\* A call reads the hint, or finds what it looks for.
LEMMA LookupMoves ==
    ASSUME CommitInv, StorageInv, OneWriter,
           NEW CONSTANT v, NEW CONSTANT m, Around(v, m), NEW w \in Writers,
           ReadHint(w) \/ Probe(w) \/ Load(w) \/ LoadFails(w) \/ Clear(w) \/ Beaten(w)
    PROVE  Progress
<1>0. /\ v \in Nat /\ txn[w] \in Txn /\ handle[w] \in Handle
      /\ InTurn(w, v, m) /\ Known(txn[w].saved, v, m)
      /\ DOMAIN docs \subseteq Nat /\ \A u \in DOMAIN docs : docs[u] \subseteq Meta
  BY Somewhere DEF CommitInv, TypeOK, Around, InTurn
<1>1. /\ txn[w].pc \in {"hint", "document"} /\ Known(handle[w], v, m)
      /\ UNCHANGED <<storage, ghosts, faults>>
  BY <1>0 DEF ReadHint, Probe, Load, LoadFails, Clear, Beaten, Committing, InTurn
<1>2. SUFFICES ASSUME NEW t \in Txn, NEW h \in Handle,
                      txn' = [txn EXCEPT ![w] = t], handle' = [handle EXCEPT ![w] = h],
                      t.pc = "idle" \/ t.goal = "load" \/ Writing(w),
                      t.goal = "load" => txn[w].goal = "load",
                      InTurn(w, v, m)'
               PROVE  Progress
  <2>1. CASE ReadHint(w)
    <3>1. PICK t : t = [txn[w] EXCEPT !.pc = "document", !.seen = hint]
      OBVIOUS
    <3>2. /\ t \in Txn /\ t.goal = txn[w].goal /\ t.pc = "document" /\ t.id = txn[w].id
          /\ t.saved = txn[w].saved /\ t.seen = hint
      BY <1>0, <3>1 DEF Txn, CommitInv, TypeOK
    <3>3. txn' = [txn EXCEPT ![w] = t] /\ handle' = [handle EXCEPT ![w] = handle[w]]
      BY <2>1, <3>1 DEF ReadHint, CommitInv, TypeOK
    <3>4. txn'[w] = t /\ handle'[w] = handle[w]
      BY <3>3 DEF CommitInv, TypeOK
    <3>5. txn[w].goal = "load" => Usable(hint) /\ hint <= v
      BY <1>0 DEF StorageInv, Around, Shows, Locates, Usable
    <3>6. Looking(w, v)'
      BY <1>1, <3>2, <3>4, <3>5 DEF Looking, Usable, storage
    <3>7. InTurn(w, v, m)'
      BY <1>0, <1>1, <2>1, <3>2, <3>4, <3>6
         DEF InTurn, Known, Proposing, OpOf, ReadHint, ghosts
    <3> QED
      BY <1>0, <1>1, <3>2, <3>3, <3>7, <1>2 DEF Writing
  <2>2. CASE Probe(w)
    <3>1. PICK at \in {"hint", "write"}, goal \in {"open", "create"} :
            /\ txn' = [txn EXCEPT ![w].pc = at, ![w].goal = goal]
            /\ at = "write" => goal = "create" /\ FindsNone
            /\ UNCHANGED handle
      BY <2>2 DEF Probe
    <3>2. PICK t : t = [txn[w] EXCEPT !.pc = at, !.goal = goal]
      OBVIOUS
    <3>3. /\ t \in Txn /\ t.goal = goal /\ t.pc = at /\ t.saved = txn[w].saved
      BY <1>0, <3>2 DEF Txn
    <3>4. txn' = [txn EXCEPT ![w] = t] /\ handle' = [handle EXCEPT ![w] = handle[w]]
      BY <3>1, <3>2 DEF CommitInv, TypeOK
    <3>5. txn'[w] = t /\ handle'[w] = handle[w]
      BY <3>4 DEF CommitInv, TypeOK
    <3>6. txn[w].pc = "document" /\ txn[w].goal = "probe"
      BY <2>2 DEF Probe
    <3>7. at = "write" => v = 0
      BY <3>1, <3>6, Found
    <3>8. InTurn(w, v, m)'
      BY <1>0, <1>1, <3>1, <3>3, <3>5, <3>7 DEF InTurn, Known, Looking, Proposing
    <3> QED
      BY <1>0, <3>3, <3>4, <3>6, <3>8, <1>2 DEF Writing
  <2>3. CASE Load(w) \/ LoadFails(w)
    <3>1. txn' = [txn EXCEPT ![w] = NoTxn]
      BY <2>3 DEF Load, LoadFails
    <3>2. PICK h \in Handle : Known(h, v, m) /\ handle' = [handle EXCEPT ![w] = h]
      <4>1. CASE Load(w)
        <5>1. PICK u \in DOMAIN docs : \E n \in docs[u] :
                /\ Finds(txn[w].seen, u, n)
                /\ handle' = [handle EXCEPT ![w] = [version |-> u, meta |-> n]]
          BY <4>1 DEF Load
        <5>2. PICK n \in docs[u] :
                /\ Finds(txn[w].seen, u, n)
                /\ handle' = [handle EXCEPT ![w] = [version |-> u, meta |-> n]]
          BY <5>1
        <5>3. Known([version |-> u, meta |-> n], v, m)
          BY <4>1, <5>2, Found DEF Load
        <5>4. [version |-> u, meta |-> n] \in Handle
          BY <1>0 DEF Handle
        <5> QED
          BY <5>2, <5>3, <5>4
      <4>2. CASE LoadFails(w)
        <5>1. handle' = [handle EXCEPT ![w] = handle[w]]
          BY <4>2 DEF LoadFails, CommitInv, TypeOK
        <5> QED
          BY <5>1, <1>0, <1>1
      <4> QED
        BY <2>3, <4>1, <4>2
    <3>3. txn'[w] = NoTxn /\ handle'[w] = h
      BY <3>1, <3>2 DEF CommitInv, TypeOK
    <3>4. InTurn(w, v, m)'
      BY <3>2, <3>3, NothingKnown DEF InTurn, Known, Looking, Proposing
    <3> QED
      BY <3>1, <3>2, <3>4, NothingKnown, <1>2
  <2>4. CASE Clear(w)
    <3>1. PICK t : t = [txn[w] EXCEPT !.pc = "write"]
      OBVIOUS
    <3>2. /\ t \in Txn /\ t.goal = "commit" /\ t.pc = "write" /\ t.id = txn[w].id
          /\ t.saved = txn[w].saved /\ txn[w].goal = "commit" /\ txn[w].pc = "document"
      BY <1>0, <2>4, <3>1 DEF Txn, Clear, Committing
    <3>3. txn' = [txn EXCEPT ![w] = t] /\ handle' = [handle EXCEPT ![w] = handle[w]]
      BY <2>4, <3>1 DEF Clear, CommitInv, TypeOK, ghosts
    <3>4. txn'[w] = t /\ handle'[w] = handle[w]
      BY <3>3 DEF CommitInv, TypeOK
    <3>5. handle[w].version = v
      <4>1. handle[w].version > 0 /\ handle[w].version <= v /\ handle[w].version \in Nat
        BY <1>0, <1>1, <3>2 DEF InTurn, Known, Handle
      <4>2. ~FindsNone
        BY <4>1, <1>0, <3>2, Found
      <4>3. PICK u \in DOMAIN docs : \E n \in docs[u] :
              Finds(txn[w].seen, u, n) /\ u <= handle[w].version
        BY <2>4, <4>2 DEF Clear
      <4>4. PICK n \in docs[u] : Finds(txn[w].seen, u, n) /\ u <= handle[w].version
        BY <4>3
      <4>5. txn[w].pc = "document" /\ txn[w].goal # "load"
        BY <3>2
      <4>6. u = v
        BY <4>4, <4>5, Found
      <4> QED
        BY <1>0, <4>1, <4>4, <4>6
    <3>6. InTurn(w, v, m)'
      BY <1>0, <1>1, <3>2, <3>4, <3>5
         DEF InTurn, Known, Looking, Proposing, OpOf, ghosts
    <3> QED
      BY <1>0, <3>2, <3>3, <3>6, <1>2 DEF Writing
  <2>5. CASE Beaten(w)
    <3>0. PICK b \in Nat : b = txn[w].beaten + 1
      BY <1>0 DEF Txn
    <3>1. PICK t : t = [txn[w] EXCEPT !.pc = "hint", !.beaten = b]
      OBVIOUS
    <3>2. /\ t \in Txn /\ t.goal = "commit" /\ t.pc = "hint" /\ t.id = txn[w].id
          /\ t.saved = txn[w].saved /\ txn[w].goal = "commit" /\ txn[w].pc = "document"
      BY <1>0, <2>5, <3>1 DEF Txn, Beaten, Committing
    <3>3. txn' = [txn EXCEPT ![w] = t]
      BY <2>5, <3>0, <3>1, Zenon DEF Beaten
    <3>4. PICK h \in Handle :
            /\ handle' = [handle EXCEPT ![w] = h] /\ Known(h, v, m) /\ h.version > 0
            /\ OpOf(w) \in FailOps => h = handle[w]
      <4>1. PICK u \in DOMAIN docs : \E n \in docs[u] :
              /\ Finds(txn[w].seen, u, n) /\ u > handle[w].version
              /\ handle' = IF OpOf(w) \in FailOps THEN handle
                           ELSE [handle EXCEPT ![w] = [version |-> u, meta |-> n]]
        BY <2>5 DEF Beaten
      <4>2. PICK n \in docs[u] :
              /\ Finds(txn[w].seen, u, n) /\ u > handle[w].version
              /\ handle' = IF OpOf(w) \in FailOps THEN handle
                           ELSE [handle EXCEPT ![w] = [version |-> u, meta |-> n]]
        BY <4>1
      <4>3. handle = [handle EXCEPT ![w] = handle[w]] /\ handle[w].version > 0
            /\ handle[w].version \in Nat
        BY <1>0, <3>2 DEF CommitInv, TypeOK, InTurn, Handle
      <4>4. [version |-> u, meta |-> n] \in Handle /\ Known([version |-> u, meta |-> n], v, m)
        BY <1>0, <3>2, <4>2, Found DEF Handle
      <4>5. CASE OpOf(w) \in FailOps
        BY <1>0, <1>1, <4>2, <4>3, <4>5
      <4>6. CASE OpOf(w) \notin FailOps
        <5>1. handle' = [handle EXCEPT ![w] = [version |-> u, meta |-> n]]
          BY <4>2, <4>6
        <5>2. u > 0
          BY <1>0, <4>2, <4>3
        <5> QED
          BY <5>1, <5>2, <4>4, <4>6
      <4> QED
        BY <4>5, <4>6
    <3>5. txn'[w] = t /\ handle'[w] = h
      BY <3>3, <3>4 DEF CommitInv, TypeOK
    <3>6. InTurn(w, v, m)'
      BY <1>0, <1>1, <3>2, <3>4, <3>5
         DEF InTurn, Known, Looking, Proposing, OpOf, ghosts
    <3> QED
      BY <3>2, <3>3, <3>4, <3>6, <1>2 DEF Writing
  <2> QED
    BY <2>1, <2>2, <2>3, <2>4, <2>5
<1>3. /\ SerialInv' /\ VersionsKept
      /\ Visible = m /\ Visible' = m /\ LiveFiles(m)' = LiveFiles(m)
  BY <1>1, <1>2, CallMoves DEF ghosts
<1> QED
  BY <1>1, <1>3, Unseen DEF Progress, ghosts

\* A commit begins with what the abstract table's caller may ask: a plan made
\* of the table or of an earlier one.
LEMMA Asking ==
    ASSUME CommitInv, NEW CONSTANT v, NEW CONSTANT m, Visible = m, Visible' = m,
           LiveFiles(m)' = LiveFiles(m),
           NEW w \in Writers, NEW op, NEW target \in IdOrNone,
           NEW new \in SUBSET Files, NEW kept \in SUBSET Files,
           Begin(w, op, new, kept, target),
           op \in {"append", "overwrite"} => new \in {{}, {{nextId}}},
           op \in {"tag", "untag", "expire"} => new = {},
           Known(handle[w], v, m)
    PROVE  Table!Next
<1>1. PICK i \in Ids : i = nextId
  BY CommitAssumption DEF Begin, CommitInv, TypeOK, Ids
<1>2. result[i] = "none" /\ op \in AllOps
  BY <1>1, CommitAssumption DEF CommitInv, IdInv, TypeOK, Begin, Ids
<1>3. PICK adds : adds = IF op = "replace" THEN {} ELSE UNION new
  OBVIOUS
<1>4. adds \in {{}} \cup {{i}}
  <2>1. UNION {} = {} /\ UNION {{i}} = {i}
    OBVIOUS
  <2>2. op = "replace" \/ new \in {{}, {{i}}}
    BY <1>1, <1>2 DEF AllOps
  <2> QED
    BY <1>3, <2>1, <2>2
<1>5. PICK keeps : keeps = UNION kept
  OBVIOUS
<1>6. keeps \in SUBSET Ids
  BY <1>5 DEF Files
<1>7. PICK base : base = handle[w].meta.log
  OBVIOUS
<1>8. base \in SUBSET m.log
  BY <1>7 DEF Known
<1>9. PICK asked : asked = [op |-> op, new |-> new, kept |-> kept, target |-> target,
                            parent |-> handle[w].meta.cur, base |-> base]
  OBVIOUS
<1>10. intent' = [intent EXCEPT ![i] = asked] /\ result' = [result EXCEPT ![i] = "running"]
  BY <1>1, <1>7, <1>9 DEF Begin
<1>11. PICK promised :
         promised = [op |-> op, adds |-> adds, keeps |-> keeps, target |-> target,
                     base |-> base]
  OBVIOUS
<1> DEFINE promise == [j \in Ids |->
             [op |-> intent[j].op,
              adds |-> IF intent[j].op = "replace" THEN {} ELSE UNION intent[j].new,
              keeps |-> UNION intent[j].kept,
              target |-> intent[j].target, base |-> intent[j].base]]
<1>14. promise' = [promise EXCEPT ![i] = promised]
  <2>1. intent'[i] = asked /\ \A j \in Ids : j # i => intent'[j] = intent[j]
    BY <1>10 DEF CommitInv, TypeOK
  <2>2. asked.op = op /\ asked.new = new /\ asked.kept = kept
        /\ asked.target = target /\ asked.base = base
    BY <1>9
  <2>3. promise'[i] = promised
    BY <1>3, <1>5, <1>11, <2>1, <2>2
  <2>4. \A j \in Ids : j # i => promise'[j] = promise[j]
    BY <2>1
  <2>5. \A j \in Ids : promise'[j] = IF j = i THEN promised ELSE promise[j]
    BY <2>3, <2>4
  <2>6. promise' = [j \in Ids |-> promise'[j]]
    OBVIOUS
  <2>7. [promise EXCEPT ![i] = promised]
          = [j \in Ids |-> IF j = i THEN promised ELSE promise[j]]
    OBVIOUS
  <2> HIDE DEF promise
  <2> QED
    BY <2>5, <2>6, <2>7
<1>15. /\ op \in {"append", "overwrite", "replace", "tag", "untag", "expire"}
       /\ target \in 0..MaxCommits
  BY <1>2 DEF AllOps, IdOrNone
<1>16. Table!Ask(i)
  <2> HIDE DEF promise
  <2>1. \E o \in {"append", "overwrite", "replace", "tag", "untag", "expire"},
           a \in {{}} \cup {{i}}, k \in SUBSET (1..MaxCommits), t \in 0..MaxCommits,
           b \in SUBSET Visible.log :
             promise' = [promise EXCEPT ![i] =
               [op |-> o, adds |-> a, keeps |-> k, target |-> t, base |-> b]]
    BY <1>4, <1>6, <1>8, <1>11, <1>14, <1>15, Zenon DEF Ids
  <2>2. UNCHANGED <<UNION LiveFiles(Visible), Visible.tag, Visible.log>>
    OBVIOUS
  <2> QED
    BY <1>2, <1>10, <2>1, <2>2, Zenon DEF Table!Ask, Table!Ids, promise
<1> QED
  BY <1>16 DEF Table!Next, Table!Ids, Ids

\* A commit begins.
LEMMA CommitBegins ==
    ASSUME CommitInv, StorageInv, OneWriter, Serialized,
           NEW CONSTANT v, NEW CONSTANT m, Around(v, m),
           NEW w \in Writers, NEW op, NEW target \in IdOrNone,
           NEW new \in SUBSET Files, NEW kept \in SUBSET Files,
           Begin(w, op, new, kept, target),
           op \in {"append", "overwrite"} => new \in {{}, {{nextId}}},
           op \in {"tag", "untag", "expire"} => new = {}
    PROVE  Progress
<1>1. PICK t : t = NewCall("commit", nextId, handle[w])
  OBVIOUS
<1>2. /\ t \in Txn /\ t.goal = "commit" /\ t.pc = "hint" /\ t.saved = handle[w]
      /\ t.id = nextId /\ handle[w] \in Handle /\ nextId \in Ids
  BY <1>1, CommitAssumption
     DEF NewCall, Txn, IdOrNone, Ids, Begin, CommitInv, TypeOK
<1>3. /\ txn' = [txn EXCEPT ![w] = t] /\ handle' = [handle EXCEPT ![w] = handle[w]]
      /\ txn[w].pc = "idle" /\ UNCHANGED storage /\ handle[w].version > 0
  BY <1>1 DEF Begin, CommitInv, TypeOK
<1>4. txn'[w] = t /\ handle'[w] = handle[w] /\ Known(handle[w], v, m)
  BY <1>3 DEF Around, InTurn, CommitInv, TypeOK
<1>5. intent'[nextId].base = handle[w].meta.log
  BY <1>2 DEF Begin, CommitInv, TypeOK
<1>6. InTurn(w, v, m)'
  BY <1>2, <1>3, <1>4, <1>5 DEF InTurn, Known, Looking
<1>7. \A i \in Ids : i < nextId => intent'[i] = intent[i]
  BY DEF Begin, CommitInv, TypeOK, Ids
<1>8. \A u \in Writers : ~Writing(u)
  BY DEF Begin, MayWrite
<1>9. /\ SerialInv' /\ VersionsKept
      /\ Visible = m /\ Visible' = m /\ LiveFiles(m)' = LiveFiles(m)
  BY <1>2, <1>3, <1>6, <1>7, <1>8, CallMoves
<1> QED
  BY <1>4, <1>9, Asking DEF Progress

LEMMA CommitsBegin ==
    ASSUME CommitInv, StorageInv, OneWriter, Serialized,
           NEW CONSTANT v, NEW CONSTANT m, Around(v, m), NEW w \in Writers,
           Append(w) \/ Overwrite(w) \/ Compact(w)
             \/ CreateTag(w) \/ RemoveTag(w) \/ Expire(w)
    PROVE  Progress
<1>1. handle[w].meta \in Meta /\ LiveFiles(handle[w].meta) \subseteq Files
  BY LiveFilesTyped DEF CommitInv, TypeOK, Handle
<1>2. nextId <= MaxCommits => {{}, {{nextId}}} \subseteq SUBSET Files
  BY CommitAssumption DEF CommitInv, TypeOK, Files, Ids
<1>3. 0 \in IdOrNone /\ handle[w].meta.snaps \subseteq IdOrNone
  BY <1>1, CommitAssumption DEF IdOrNone, Ids, Meta
<1>4. CASE Append(w)
  <2>1. PICK new \in {{}, {{nextId}}} : Begin(w, "append", new, {}, 0)
    BY <1>4 DEF Append
  <2>2. new \in SUBSET Files /\ {} \in SUBSET Files
    BY <1>2, <2>1 DEF Begin
  <2> QED
    BY <1>3, <2>1, <2>2, CommitBegins
<1>5. CASE Overwrite(w)
  <2>1. PICK new \in {{}, {{nextId}}}, kept \in SUBSET LiveFiles(handle[w].meta) :
            Begin(w, "overwrite", new, kept, 0)
    BY <1>5 DEF Overwrite
  <2>2. new \in SUBSET Files /\ kept \in SUBSET Files
    BY <1>1, <1>2, <2>1 DEF Begin
  <2> QED
    BY <1>3, <2>1, <2>2, CommitBegins
<1>6. CASE Compact(w)
  <2>1. PICK kept \in SUBSET LiveFiles(handle[w].meta) :
            Begin(w, "replace", {UNION (LiveFiles(handle[w].meta) \ kept)}, kept, 0)
    BY <1>6 DEF Compact
  <2>2. {UNION (LiveFiles(handle[w].meta) \ kept)} \in SUBSET Files /\ kept \in SUBSET Files
    BY <1>1 DEF Files
  <2> QED
    BY <1>3, <2>1, <2>2, CommitBegins
<1>7. CASE CreateTag(w) \/ RemoveTag(w) \/ Expire(w)
  <2>1. PICK op \in {"tag", "untag", "expire"}, target \in IdOrNone :
            Begin(w, op, {}, {}, target)
    BY <1>3, <1>7 DEF CreateTag, RemoveTag, Expire
  <2>2. {} \in SUBSET Files /\ op \notin {"append", "overwrite"}
    OBVIOUS
  <2> QED
    BY <2>1, <2>2, CommitBegins
<1> QED
  BY <1>4, <1>5, <1>6, <1>7

\* A call ends with an answer, or with its process, before it wrote anything.
LEMMA CallEnds ==
    ASSUME CommitInv, StorageInv, OneWriter,
           NEW CONSTANT v, NEW CONSTANT m, Around(v, m), NEW w \in Writers,
           Conflict(w) \/ LookupFails(w) \/ Rejected(w) \/ ReadFault(w) \/ Crash(w)
    PROVE  Progress
<1>1. PICK answer \in {"failed", "crashed"}, h \in {txn[w].saved, NoHandle} :
        /\ handle' = [handle EXCEPT ![w] = h]
        /\ Return(w, txn[w].id, answer)
        /\ UNCHANGED <<storage, intent, nextId>>
        /\ answer = "failed" => txn[w].pc # "point"
  <2>1. CASE Crash(w)
    BY <2>1 DEF Crash
  <2>2. CASE Conflict(w) \/ LookupFails(w) \/ Rejected(w) \/ ReadFault(w)
    BY <2>2 DEF Conflict, LookupFails, Rejected, ReadFault, Restore, Committing,
                ReadyToWrite
  <2> QED
    BY <2>1, <2>2
<1>2. h \in Handle /\ Known(h, v, m)
  BY NothingKnown DEF CommitInv, TypeOK, Txn, Around, InTurn
<1>3. txn' = [txn EXCEPT ![w] = NoTxn]
  BY <1>1 DEF Return
<1>4. txn'[w] = NoTxn /\ handle'[w] = h
  BY <1>1, <1>3 DEF CommitInv, TypeOK
<1>5. InTurn(w, v, m)'
  BY <1>2, <1>4, NothingKnown DEF InTurn, Known, Looking, Proposing
<1>6. /\ SerialInv' /\ VersionsKept
      /\ Visible = m /\ Visible' = m /\ LiveFiles(m)' = LiveFiles(m)
  BY <1>1, <1>2, <1>3, <1>5, CallMoves, NothingKnown
<1>7. txn[w].goal = "commit" /\ answer = "failed" => txn[w].id \notin m.log
  BY <1>1, Somewhere DEF SoundDocument, Proposing
<1>8. txn[w].goal # "commit" => txn[w].id = 0
  BY DEF CommitInv, IdInv
<1> QED
  BY <1>1, <1>6, <1>7, <1>8, Answering DEF Progress

-----------------------------------------------------------------------------
(* Steps that write to storage.                                            *)

\* Who is not writing is not disturbed when the table moves on.
LEMMA Bystanding ==
    ASSUME NEW CONSTANT v \in Nat, NEW CONSTANT m,
           NEW CONSTANT v2 \in Nat, NEW CONSTANT m2,
           NEW u \in Writers, InTurn(u, v, m), ~Writing(u),
           txn[u] \in Txn, handle[u] \in Handle,
           txn'[u] = txn[u], handle'[u] = handle[u], UNCHANGED intent,
           v <= v2, m.log \subseteq m2.log, v = v2 => m = m2,
           \A x \in DOMAIN docs : x <= v => x \in DOMAIN docs' /\ docs'[x] = docs[x]
    PROVE  InTurn(u, v2, m2)'
<1>1. txn[u].pc = "idle" \/ txn[u].goal = "load"
  BY DEF Writing
<1>2. Known(txn[u].saved, v2, m2)' /\ Known(handle[u], v2, m2)'
  <2>1. txn[u].pc # "point"
    BY <1>1 DEF InTurn, Written
  <2>2. txn[u].saved.version \in Nat /\ handle[u].version \in Nat
    BY DEF Txn, Handle
  <2> QED
    BY <2>1, <2>2 DEF InTurn, Known
<1>3. Looking(u, v2)'
  <2> SUFFICES ASSUME txn[u].pc = "document"
               PROVE  Usable(txn[u].seen)' /\ txn[u].seen <= v2
    BY <1>1 DEF Looking, Usable
  <2>1. Usable(txn[u].seen) /\ txn[u].seen <= v /\ txn[u].seen \in Nat
    BY <1>1 DEF InTurn, Looking, Txn
  <2> QED
    BY <2>1 DEF Usable
<1>4. txn[u].pc \notin {"write", "point"}
  BY <1>1 DEF InTurn, Written
<1> QED
  BY <1>2, <1>3, <1>4 DEF InTurn, Proposing, OpOf

\* Documents up to version v, and written snapshots, are left alone.
OldDocumentsStay(v) ==
    \A x \in DOMAIN docs : x <= v => x \in DOMAIN docs' /\ docs'[x] = docs[x]
SnapshotsStay == \A i \in Ids : 0 < snap[i].seq => snap'[i] = snap[i]

\* The writer whose turn it is moves the table from (v, m) to (v2, m2).
LEMMA TableMoves ==
    ASSUME CommitInv, CommitInv', StorageInv, OneWriter,
           NEW CONSTANT v, NEW CONSTANT m, Around(v, m),
           NEW CONSTANT v2 \in Nat, NEW CONSTANT m2,
           NEW w \in Writers, Writing(w), NEW t, NEW h,
           txn' = [txn EXCEPT ![w] = t], handle' = [handle EXCEPT ![w] = h],
           UNCHANGED intent,
           v <= v2, m.log \subseteq m2.log, v = v2 => m = m2,
           OldDocumentsStay(v), SnapshotsStay,
           StorageInv', Shows(v2, m2)', Behind(v2, m2)', InTurn(w, v2, m2)'
    PROVE  /\ SerialInv' /\ VersionsKept
           /\ Visible = m /\ Visible' = m2 /\ LiveFiles(m)' = LiveFiles(m)
<1>0. /\ v \in Nat /\ m \in Documents \cup {NewTable} /\ Shows(v, m)
      /\ DOMAIN docs \subseteq Nat /\ DOMAIN docs' \subseteq Nat
  BY Somewhere DEF CommitInv, TypeOK, Around
<1>1. \A u \in Writers : u # w =>
         ~Writing(u) /\ txn'[u] = txn[u] /\ handle'[u] = handle[u]
  BY DEF CommitInv, TypeOK, OneWriter
<1>2. OneWriter'
  BY <1>1 DEF OneWriter, Writing
<1>3. \A u \in Writers : InTurn(u, v2, m2)'
  <2> SUFFICES ASSUME NEW u \in Writers, u # w  PROVE InTurn(u, v2, m2)'
    OBVIOUS
  <2>1. InTurn(u, v, m) /\ txn[u] \in Txn /\ handle[u] \in Handle
    BY DEF Around, CommitInv, TypeOK
  <2> QED
    BY <1>0, <1>1, <2>1, Bystanding DEF OldDocumentsStay
<1>4. v2 \in DOMAIN docs' \cup {0} /\ m2 \in Documents' \cup {NewTable}
  BY DEF Shows, Documents
<1>5. Visible = m /\ Visible' = m2 /\ VersionsKept
  BY <1>0, Reading DEF VersionsKept
<1> QED
  BY <1>0, <1>2, <1>3, <1>4, <1>5, RowsStay DEF SerialInv, Around, SnapshotsStay

\* The writer whose turn it is writes, and the table is what it was.
LEMMA TableStays ==
    ASSUME CommitInv, CommitInv', StorageInv, OneWriter,
           NEW CONSTANT v, NEW CONSTANT m, Around(v, m),
           NEW w \in Writers, Writing(w), NEW t, NEW h,
           txn' = [txn EXCEPT ![w] = t], handle' = [handle EXCEPT ![w] = h],
           UNCHANGED intent, OldDocumentsStay(v), SnapshotsStay,
           StorageInv', Shows(v, m)', Behind(v, m)', InTurn(w, v, m)'
    PROVE  /\ SerialInv' /\ VersionsKept
           /\ Visible = m /\ Visible' = m /\ LiveFiles(m)' = LiveFiles(m)
<1>1. PICK v2 \in Nat : v2 = v
  BY Somewhere
<1>2. PICK m2 : m2 = m
  OBVIOUS
<1>3. /\ v <= v2 /\ m.log \subseteq m2.log /\ (v = v2 => m = m2)
      /\ Shows(v2, m2)' /\ Behind(v2, m2)' /\ InTurn(w, v2, m2)'
  BY <1>1, <1>2
<1> QED
  BY <1>1, <1>2, <1>3, TableMoves

\* What a commit writes is its whole effect on the table, and due to it.
LEMMA PublishOwes ==
    ASSUME CommitInv, StorageInv, NEW CONSTANT v, NEW CONSTANT m, Around(v, m),
           NEW w \in Writers, ReadyToWrite(w), Applies(handle[w].meta, txn[w].id),
           WriteSnapshot(w), UNCHANGED intent,
           NEW CONSTANT i, i = txn[w].id, NEW CONSTANT doomed, NEW CONSTANT n,
           n = Updated(m, i, doomed)
    PROVE  /\ handle[w].version = v /\ handle[w].meta = m /\ v > 0
           /\ i \in Ids /\ result[i] = "running"
           /\ SnapshotsStay
           /\ Owed(i, m, n)'
<1>1. /\ handle[w].version = v /\ v > 0 /\ v \in Nat /\ handle[w].meta = m
      /\ Proposing(w)
  BY Somewhere DEF Around, InTurn, Known, ReadyToWrite, Proposing
<1>2. i \in Ids /\ i # 0 /\ result[i] = "running" /\ intent[i].op \in AllOps
  BY <1>1, CommitAssumption DEF CommitInv, IdInv, Proposing, Ids
<1>3. \A j \in Ids : 0 < snap[j].seq => snap'[j] = snap[j]
  BY <1>1, SnapshotWritten
<1>4. m \in Documents \cup {NewTable} /\ m \in Meta /\ i \notin m.log
  BY <1>1, Somewhere DEF SoundDocument
<1>5. Rows(m)' = Rows(m)
  BY <1>3, <1>4, RowsStay DEF Rows
<1>6. LET u == n IN
      /\ u.log = m.log \cup {i}
      /\ intent[i].op \in SnapshotOps => u.cur = i /\ u.tag = m.tag
      /\ intent[i].op \notin SnapshotOps => u.cur = m.cur
      /\ intent[i].op = "tag" => u.tag = intent[i].target
      /\ intent[i].op = "untag" => u.tag = 0
      /\ intent[i].op \notin SnapshotOps \cup {"tag", "untag"} => u.tag = m.tag
  BY <1>2, <1>4, UpdatedFields DEF CommitInv
<1>7. intent[i].op \in FailOps => intent[i].base = m.log
  BY <1>1 DEF Around, InTurn, OpOf
<1>8. /\ intent[i].op \in FailOps => intent[i].kept \subseteq LiveFiles(m)
      /\ intent[i].op = "replace" =>
            intent[i].new = {UNION (LiveFiles(m) \ intent[i].kept)}
  BY <1>1 DEF CommitInv, PlanInv, Planned
<1>9. ASSUME intent[i].op \in SnapshotOps  PROVE Owed(i, m, n)'
  <2>1. snap'[i] = SnapshotOn(m, i)
    BY <1>1, <1>2, <1>9 DEF WriteSnapshot, OpOf, CommitInv, TypeOK
  <2>2. LiveFiles(n)' = intent[i].new \cup
          (IF intent[i].op = "append" THEN LiveFiles(m) ELSE intent[i].kept)
    BY <1>2, <1>6, <1>9, <2>1 DEF LiveFiles, SnapshotOn
  <2>3. CASE intent[i].op = "append"
    <3>1. Rows(n)' = Rows(m) \cup (UNION intent[i].new)
      BY <2>2, <2>3 DEF Rows
    <3> QED
      BY <1>4, <1>5, <1>6, <1>9, <2>3, <3>1 DEF Owed, FailOps
  <2>4. CASE intent[i].op = "overwrite"
    <3>1. Rows(n)' = (UNION intent[i].kept) \cup (UNION intent[i].new)
      BY <2>2, <2>4 DEF Rows
    <3>2. (UNION intent[i].kept) \subseteq Rows(m)
      BY <1>8, <2>4 DEF Rows, FailOps
    <3> QED
      BY <1>4, <1>5, <1>6, <1>7, <1>9, <2>4, <3>1, <3>2 DEF Owed
  <2>5. CASE intent[i].op = "replace"
    <3>1. Rows(n)' = Rows(m)
      <4>1. LiveFiles(n)' = {UNION (LiveFiles(m) \ intent[i].kept)} \cup intent[i].kept
        BY <1>8, <2>2, <2>5
      <4>2. intent[i].kept \subseteq LiveFiles(m)
        BY <1>8, <2>5 DEF FailOps
      <4>3. UNION ({UNION (LiveFiles(m) \ intent[i].kept)} \cup intent[i].kept)
              = UNION LiveFiles(m)
        BY <4>2, MergedRows
      <4> QED
        BY <4>1, <4>3 DEF Rows
    <3> QED
      BY <1>4, <1>5, <1>6, <1>7, <1>9, <2>5, <3>1 DEF Owed
  <2> QED
    BY <1>9, <2>3, <2>4, <2>5 DEF SnapshotOps
<1>10. ASSUME intent[i].op \notin SnapshotOps  PROVE Owed(i, m, n)'
  <2>1. Rows(n)' = Rows(m)
    BY <1>5, <1>6, <1>10 DEF Rows, LiveFiles
  <2>2. intent[i].op \in {"tag", "untag", "expire"}
    BY <1>2, <1>10 DEF AllOps, SnapshotOps
  <2>3. /\ intent[i].op = "tag" => m.tag = 0
        /\ intent[i].op = "untag" => m.tag # 0
    BY <1>1 DEF Applies
  <2> QED
    BY <1>4, <1>5, <1>6, <1>10, <2>1, <2>2, <2>3 DEF Owed, FailOps, SnapshotOps
<1> QED
  BY <1>1, <1>2, <1>3, <1>9, <1>10 DEF SnapshotsStay

\* The first document: a table with no rows is no table to a reader.
LEMMA TableIsCreated ==
    ASSUME CommitInv, CommitInv', StorageInv, OneWriter,
           NEW CONSTANT v, NEW CONSTANT m, Around(v, m), NEW w \in Writers, Create(w)
    PROVE  Progress
<1>1. v = 0 /\ m = NewTable /\ DOMAIN docs = {} /\ Known(txn[w].saved, v, m)
  BY Somewhere DEF Around, InTurn, Create, Shows
<1>2. hint = 0 /\ LookupsInTurn /\ \A u \in Writers : txn[u].goal # "load"
  BY <1>1 DEF StorageInv, Usable
<1>3. PICK t : t = [txn[w] EXCEPT !.pc = "point"]
  OBVIOUS
<1>4. t.goal = "create" /\ t.pc = "point" /\ t.saved = txn[w].saved
  BY <1>3 DEF Create, CommitInv, TypeOK, Txn
<1>5. PICK h : h = [version |-> 1, meta |-> NewTable]
  OBVIOUS
<1>6. /\ txn' = [txn EXCEPT ![w] = t] /\ handle' = [handle EXCEPT ![w] = h]
      /\ DOMAIN docs' = {1} /\ docs'[1] = {NewTable}
      /\ UNCHANGED <<hint, snap, ghosts, faults>>
  BY <1>1, <1>3, <1>5 DEF Create
<1>7. txn'[w] = t /\ handle'[w] = h
  BY <1>6 DEF CommitInv, TypeOK
<1>8. StorageInv'
  <2>1. \A u \in Writers : txn'[u].goal # "load"
    BY <1>2, <1>4, <1>6 DEF CommitInv, TypeOK
  <2> QED
    BY <1>2, <1>6, <2>1 DEF StorageInv, LookupsInTurn
<1>9. Shows(1, NewTable)' /\ Behind(1, NewTable)'
  BY <1>2, <1>6 DEF Shows, Behind, Locates, Usable
<1>10. InTurn(w, 1, NewTable)'
  <2>1. Known(txn[w].saved, 1, NewTable)'
    <3>1. txn[w].saved.version \in Nat
      BY DEF CommitInv, TypeOK, Txn, Handle
    <3> QED
      BY <1>1, <1>4, <1>7, <3>1 DEF Known
  <2>2. Written(w, 1, NewTable)'
    BY <1>2, <1>4, <1>5, <1>6, <1>7 DEF Written
  <2> QED
    BY <1>4, <1>7, <2>1, <2>2 DEF InTurn, Looking, Proposing
<1>11. Writing(w)
  BY DEF Create, Writing
<1>12. OldDocumentsStay(v) /\ SnapshotsStay
  BY <1>1, <1>6 DEF OldDocumentsStay, SnapshotsStay
<1>13. /\ v <= 1 /\ m.log \subseteq m.log /\ (v = 1 => m = m)
       /\ Shows(1, m)' /\ Behind(1, m)' /\ InTurn(w, 1, m)'
  BY <1>1, <1>9, <1>10
<1>14. UNCHANGED intent
  BY <1>6 DEF ghosts
<1>15. /\ SerialInv' /\ VersionsKept
       /\ Visible = m /\ Visible' = m /\ LiveFiles(m)' = LiveFiles(m)
  BY <1>6, <1>8, <1>11, <1>12, <1>13, <1>14, TableMoves
<1> QED
  BY <1>6, <1>15, Unseen DEF Progress, ghosts

\* A commit writes its document: ahead of the table while the hint names
\* the table, and the table itself when there is no hint.
LEMMA DocumentIsWritten ==
    ASSUME CommitInv, CommitInv', StorageInv, OneWriter,
           NEW CONSTANT v, NEW CONSTANT m, Around(v, m), NEW w \in Writers, Publish(w)
    PROVE  Progress
<1>1. PICK i : i = txn[w].id
  OBVIOUS
<1>2. PICK doomed : \E n : /\ n = Updated(handle[w].meta, i, doomed)
        /\ handle' = [handle EXCEPT ![w] = [version |-> handle[w].version + 1, meta |-> n]]
        /\ docs' = [x \in DOMAIN docs \cup {handle[w].version + 1} |->
                      IF x = handle[w].version + 1 THEN {n} ELSE docs[x]]
  BY <1>1, Zenon DEF Publish
<1>3. PICK n : /\ n = Updated(handle[w].meta, i, doomed)
        /\ handle' = [handle EXCEPT ![w] = [version |-> handle[w].version + 1, meta |-> n]]
        /\ docs' = [x \in DOMAIN docs \cup {handle[w].version + 1} |->
                      IF x = handle[w].version + 1 THEN {n} ELSE docs[x]]
  BY <1>2
<1>4. /\ ReadyToWrite(w) /\ Applies(handle[w].meta, txn[w].id) /\ WriteSnapshot(w)
      /\ UNCHANGED <<hint, ghosts, faults>>
      /\ txn' = [txn EXCEPT ![w].pc = "point"]
  BY DEF Publish
<1>5. v \in Nat /\ handle[w].version = v /\ handle[w].meta = m /\ v > 0
  BY <1>4, Somewhere DEF Around, InTurn, Known, ReadyToWrite
<1>6. /\ i \in Ids /\ result[i] = "running" /\ SnapshotsStay
      /\ Owed(i, m, n)' /\ UNCHANGED intent
  <2>1. n = Updated(m, i, doomed) /\ UNCHANGED intent
    BY <1>3, <1>4, <1>5 DEF ghosts
  <2> QED
    BY <1>1, <1>4, <2>1, PublishOwes
<1>7. n.log = m.log \cup {i}
  BY <1>6 DEF Owed
<1>8. PICK t : t = [txn[w] EXCEPT !.pc = "point"]
  OBVIOUS
<1>9. /\ t.goal = "commit" /\ t.pc = "point" /\ t.saved = txn[w].saved /\ t.id = i
      /\ Known(txn[w].saved, v, m) /\ Writing(w)
  BY <1>1, <1>4, <1>8 DEF ReadyToWrite, CommitInv, TypeOK, Txn, Around, InTurn, Writing
<1>10. PICK h : h = [version |-> v + 1, meta |-> n]
  OBVIOUS
<1>11. /\ txn' = [txn EXCEPT ![w] = t] /\ handle' = [handle EXCEPT ![w] = h]
       /\ DOMAIN docs' = DOMAIN docs \cup {v + 1} /\ docs'[v + 1] = {n}
       /\ \A x \in DOMAIN docs : x # v + 1 => docs'[x] = docs[x]
  BY <1>3, <1>4, <1>5, <1>8, <1>10
<1>12. /\ txn'[w] = t /\ \A u \in Writers : u # w => txn'[u] = txn[u]
       /\ handle'[w] = h /\ handle'[w].version = v + 1 /\ handle'[w].meta = n
  BY <1>10, <1>11 DEF CommitInv, TypeOK
<1>13. /\ v \in DOMAIN docs /\ docs[v] = {m} /\ Locates(hint, v) /\ Behind(v, m)
       /\ DOMAIN docs \subseteq Nat
  BY <1>5, Somewhere DEF Around, Shows, CommitInv, TypeOK
<1>14. StorageInv'
  <2>1. \A x \in DOMAIN docs' : x > 0 /\ \A a, b \in docs'[x] : a = b
    BY <1>5, <1>11 DEF StorageInv
  <2>2. Usable(hint) => Usable(hint)'
    BY <1>4, <1>11, <1>13 DEF Usable
  <2>3. (\A x \in DOMAIN docs : docs[x] # {}) => \A x \in DOMAIN docs' : docs'[x] # {}
    BY <1>11
  <2>4. (\A u \in Writers : txn[u].goal # "load")
           => \A u \in Writers : txn'[u].goal # "load"
    BY <1>9, <1>12
  <2> QED
    BY <1>4, <2>1, <2>2, <2>3, <2>4 DEF StorageInv, HintKept, LookupsInTurn
<1>15. OldDocumentsStay(v)
  BY <1>5, <1>11, <1>13 DEF OldDocumentsStay
<1>16. CASE Usable(hint)
  <2>1. hint = v
    BY <1>13, <1>16 DEF Locates
  <2>2. Shows(v, m)'
    BY <1>4, <1>5, <1>11, <1>13, <2>1 DEF Shows, Locates, Usable
  <2>3. Behind(v, m)'
    BY <1>5, <1>11, <1>13 DEF Behind
  <2>4. Written(w, v, m)'
    BY <1>6, <1>9, <1>10, <1>11, <1>12 DEF Written
  <2>5. InTurn(w, v, m)'
    BY <1>5, <1>9, <1>12, <2>4 DEF InTurn, Known, Looking, Proposing
  <2>6. /\ SerialInv' /\ VersionsKept
        /\ Visible = m /\ Visible' = m /\ LiveFiles(m)' = LiveFiles(m)
    BY <1>6, <1>9, <1>11, <1>14, <1>15, <2>2, <2>3, <2>5, TableStays
  <2> QED
    BY <1>4, <2>6, Unseen DEF Progress, ghosts
<1>17. CASE ~Usable(hint)
  <2>1. hint = 0 /\ \A u \in DOMAIN docs : u <= v /\ u > 0
    BY <1>13, <1>17 DEF StorageInv, Locates
  <2>2. Shows(v + 1, n)'
    BY <1>4, <1>5, <1>11, <1>13, <2>1 DEF Shows, Locates, Usable
  <2>3. Behind(v + 1, n)'
    BY <1>5, <1>7, <1>11, <1>13, <2>1 DEF Behind
  <2>4. Written(w, v + 1, n)'
    BY <1>4, <1>7, <1>9, <1>10, <1>11, <1>12, <2>1 DEF Written
  <2>5. Known(txn[w].saved, v + 1, n)
    <3>1. txn[w].saved.version \in Nat
      BY DEF CommitInv, TypeOK, Txn, Handle
    <3> QED
      BY <1>5, <1>7, <1>9, <3>1 DEF Known
  <2>6. InTurn(w, v + 1, n)'
    BY <1>5, <1>9, <1>12, <2>4, <2>5 DEF InTurn, Known, Looking, Proposing
  <2>7. v + 1 \in Nat /\ v <= v + 1 /\ v # v + 1 /\ m.log \subseteq n.log
    BY <1>5, <1>7
  <2>8. /\ SerialInv' /\ VersionsKept
        /\ Visible = m /\ Visible' = n /\ LiveFiles(m)' = LiveFiles(m)
    BY <1>6, <1>9, <1>11, <1>14, <1>15, <2>2, <2>3, <2>6, <2>7, TableMoves
  <2>9. result' = [result EXCEPT ![i] = "running"]
    BY <1>4, <1>6 DEF ghosts, CommitInv, TypeOK
  <2> QED
    BY <1>4, <1>6, <2>8, <2>9, TakingEffect DEF Progress, ghosts
<1> QED
  BY <1>16, <1>17

\* A document write that failed leaves the table, and the commit, alone: the
\* hint names a whole document.
LEMMA DocumentIsSpoilt ==
    ASSUME CommitInv, CommitInv', StorageInv, OneWriter,
           NEW CONSTANT v, NEW CONSTANT m, Around(v, m), NEW w \in Writers,
           DocumentFault(w)
    PROVE  Progress
<1>1. HintKept /\ Usable(hint)
  BY DEF DocumentFault, Fault, StorageInv, LookupsInTurn
<1>2. /\ v \in Nat /\ v > 0 /\ hint = v /\ v \in DOMAIN docs /\ docs[v] = {m}
      /\ Behind(v, m) /\ DOMAIN docs \subseteq Nat
  BY <1>1, Somewhere DEF Around, Shows, Locates, Usable, CommitInv, TypeOK
<1>3. /\ txn[w].pc = "write" /\ txn[w].goal = "commit" /\ handle[w].version = v
      /\ Known(txn[w].saved, v, m) /\ Proposing(w) /\ Writing(w)
  BY <1>2 DEF DocumentFault, Around, InTurn, Proposing, Writing
<1>4. /\ WriteSnapshot(w) /\ UNCHANGED <<hint, intent>>
      /\ \/ UNCHANGED docs
         \/ docs' = [x \in DOMAIN docs \cup {v + 1} |-> IF x = v + 1 THEN {} ELSE docs[x]]
      /\ handle' = [handle EXCEPT ![w] = txn[w].saved]
      /\ txn' = [txn EXCEPT ![w] = NoTxn]
      /\ Return(w, txn[w].id, "failed")
  BY <1>3, Zenon DEF DocumentFault, Restore, Return
<1>5. SnapshotsStay
  BY <1>3, <1>4, SnapshotWritten DEF SnapshotsStay
<1>6. \A x \in DOMAIN docs' : \/ x \in DOMAIN docs /\ docs'[x] = docs[x]
                              \/ x = v + 1 /\ docs'[x] = {}
  BY <1>4
<1>7. OldDocumentsStay(v)
  BY <1>2, <1>4 DEF OldDocumentsStay
<1>8. /\ txn'[w] = NoTxn /\ \A u \in Writers : u # w => txn'[u] = txn[u]
      /\ handle'[w] = txn[w].saved
  BY <1>4 DEF CommitInv, TypeOK
<1>9. v \in DOMAIN docs' /\ docs'[v] = {m}
  BY <1>2, <1>7 DEF OldDocumentsStay
<1>10. StorageInv'
  <2>1. \A x \in DOMAIN docs' : x > 0 /\ \A a, b \in docs'[x] : a = b
    BY <1>2, <1>6 DEF StorageInv
  <2>2. Usable(hint)'
    BY <1>2, <1>4, <1>9 DEF Usable
  <2> QED
    BY <1>1, <2>1, <2>2 DEF StorageInv, HintKept
<1>11. Shows(v, m)'
  BY <1>2, <1>4, <1>9 DEF Shows, Locates, Usable
<1>12. Behind(v, m)'
  BY <1>2, <1>6 DEF Behind
<1>13. InTurn(w, v, m)'
  BY <1>3, <1>8, NothingKnown DEF InTurn, Known, Looking, Proposing
<1>14. /\ SerialInv' /\ VersionsKept
       /\ Visible = m /\ Visible' = m /\ LiveFiles(m)' = LiveFiles(m)
  BY <1>3, <1>4, <1>5, <1>7, <1>10, <1>11, <1>12, <1>13, TableStays
<1>15. txn[w].id \notin m.log
  BY <1>3, Somewhere DEF SoundDocument
<1> QED
  BY <1>3, <1>4, <1>14, <1>15, Answering DEF Progress

\* The hint is moved, or its write fails: the table is what the hint named,
\* or becomes what the writer wrote, as a whole.
LEMMA HintMoves ==
    ASSUME CommitInv, CommitInv', StorageInv, OneWriter,
           NEW CONSTANT v, NEW CONSTANT m, Around(v, m), NEW w \in Writers,
           PointHint(w) \/ HintFault(w)
    PROVE  Progress
<1>1. PICK answer \in {"ok", "doubtful"}, h \in {handle[w], txn[w].saved} :
        /\ handle' = [handle EXCEPT ![w] = h]
        /\ Return(w, txn[w].id, answer)
        /\ UNCHANGED <<docs, snap, intent>>
        /\ \/ /\ hint' = handle[w].version /\ h = handle[w] /\ answer = "ok"
           \/ /\ hint' \in {hint, 0} /\ h = txn[w].saved /\ answer = "doubtful"
              /\ LookupsInTurn /\ \A x \in DOMAIN docs : docs[x] # {}
              /\ \A u \in Writers : txn[u].goal # "load"
  <2>1. CASE PointHint(w)
    <3>1. handle' = [handle EXCEPT ![w] = handle[w]]
      BY <2>1 DEF PointHint, CommitInv, TypeOK
    <3> QED
      BY <2>1, <3>1 DEF PointHint
  <2>2. CASE HintFault(w)
    <3>1. LookupsInTurn /\ (\A x \in DOMAIN docs : docs[x] # {})
          /\ \A u \in Writers : txn[u].goal # "load"
      BY <2>2 DEF HintFault, Fault, StorageInv, HintKept
    <3> QED
      BY <2>2, <3>1 DEF HintFault, Restore
  <2> QED
    BY <2>1, <2>2
<1>2. /\ v \in Nat /\ Shows(v, m) /\ Behind(v, m) /\ Written(w, v, m)
      /\ Known(txn[w].saved, v, m) /\ DOMAIN docs \subseteq Nat
      /\ txn[w].saved.version \in Nat
  BY Somewhere DEF Around, InTurn, PointHint, HintFault, CommitInv, TypeOK, Txn, Handle
<1>3. txn' = [txn EXCEPT ![w] = NoTxn] /\ Writing(w)
  BY <1>1, <1>2 DEF Return, Writing, Written, PointHint, HintFault
<1>4. /\ txn'[w] = NoTxn /\ \A u \in Writers : u # w => txn'[u] = txn[u]
      /\ handle'[w] = h
  BY <1>1, <1>3 DEF CommitInv, TypeOK
<1>5. PICK y, n : /\ y = handle[w].version /\ n = handle[w].meta
                  /\ y \in DOMAIN docs /\ docs[y] = {n} /\ y \in Nat /\ y > 0
  BY <1>2 DEF Written, StorageInv
<1>6. StorageInv'
  <2>1. \A u \in Writers : txn[u].goal # "load" => txn'[u].goal # "load"
    BY <1>4, NothingKnown
  <2>2. hint' = y \/ hint' = hint \/ hint' = 0
    BY <1>1, <1>5
  <2>3. hint' = 0 \/ Usable(hint)'
    BY <1>1, <1>5, <2>2 DEF StorageInv, Usable
  <2>4. CASE answer = "ok"
    BY <1>1, <1>5, <2>1, <2>3, <2>4 DEF StorageInv, Usable, HintKept, LookupsInTurn
  <2>5. CASE answer = "doubtful"
    BY <1>1, <2>1, <2>3, <2>5 DEF StorageInv, LookupsInTurn
  <2> QED
    BY <2>4, <2>5
<1>7. OldDocumentsStay(v) /\ SnapshotsStay /\ UNCHANGED intent
  BY <1>1 DEF OldDocumentsStay, SnapshotsStay
<1>8. Behind(v, m)'
  BY <1>1, <1>2 DEF Behind
<1>9. ASSUME NEW v2 \in Nat, NEW m2, v <= v2, m.log \subseteq m2.log, v = v2 => m = m2,
             answer = "ok" => v2 = y /\ m2 = n
      PROVE  InTurn(w, v2, m2)'
  <2>1. Known(h, v2, m2)
    BY <1>1, <1>2, <1>5, <1>9 DEF Known
  <2>2. Known(NoHandle, v2, m2)
    BY <1>2, <1>9, NothingKnown DEF Known, NoHandle, Shows
  <2> QED
    BY <1>4, <2>1, <2>2, NothingKnown DEF InTurn, Known, Looking, Proposing
<1>10. txn[w].goal # "commit" => txn[w].id = 0
  BY DEF CommitInv, IdInv
<1>11. CASE Shows(v, m)' /\ (answer = "ok" => y = v)
  <2>1. y = v => n = m
    BY <1>2, <1>5 DEF Shows
  <2>2. InTurn(w, v, m)'
    <3>1. /\ v \in Nat /\ v <= v /\ m.log \subseteq m.log /\ (v = v => m = m)
          /\ answer = "ok" => v = y /\ m = n
      BY <1>2, <1>11, <2>1
    <3> QED
      BY <3>1, <1>9
  <2>3. /\ SerialInv' /\ VersionsKept
        /\ Visible = m /\ Visible' = m /\ LiveFiles(m)' = LiveFiles(m)
    BY <1>1, <1>3, <1>6, <1>7, <1>8, <1>11, <2>2, TableStays
  <2>4. txn[w].goal = "commit" /\ answer = "ok" => txn[w].id \in m.log
    BY <1>2, <1>5, <1>11 DEF Written
  <2> QED
    BY <1>1, <1>10, <2>3, <2>4, Answering DEF Progress
<1>12. CASE Shows(y, n)' /\ y = v + 1
  <2>1. txn[w].goal = "commit" /\ Owed(txn[w].id, m, n)
    BY <1>2, <1>5, <1>12 DEF Written
  <2>2. PICK i \in Ids : i = txn[w].id /\ i # 0 /\ result[i] = "running"
    BY <2>1, CommitAssumption DEF CommitInv, IdInv, Ids
  <2>3. v <= y /\ v # y /\ m.log \subseteq n.log /\ (v = y => m = n)
    BY <1>2, <1>12, <2>1 DEF Owed
  <2>4. Owed(i, m, n)'
    BY <1>1, <2>1, <2>2 DEF Owed, Rows, LiveFiles
  <2>5. Behind(y, n)'
    BY <1>1, <1>2, <1>5, <1>12, <2>3 DEF Behind
  <2>6. InTurn(w, y, n)'
    BY <1>5, <1>9, <2>3
  <2>7. /\ SerialInv' /\ VersionsKept
        /\ Visible = m /\ Visible' = n /\ LiveFiles(m)' = LiveFiles(m)
    <3>1. handle' = [handle EXCEPT ![w] = h] /\ y \in Nat /\ Shows(y, n)'
      BY <1>1, <1>5, <1>12
    <3> QED
      BY <3>1, <1>3, <1>6, <1>7, <2>3, <2>5, <2>6, TableMoves
  <2>8. result' = [result EXCEPT ![i] = answer]
    BY <1>1, <2>2 DEF Return
  <2> QED
    BY <1>1, <2>2, <2>4, <2>7, <2>8, TakingEffect DEF Progress
<1>13. \/ Shows(v, m)' /\ (answer = "ok" => y = v)
       \/ Shows(y, n)' /\ y = v + 1
  <2>1. (y = v /\ hint = 0) \/ y = v + 1
    BY <1>2, <1>5 DEF Written
  <2>2. CASE hint' = y
    <3>1. Shows(y, n)'
      BY <1>1, <1>5, <2>2 DEF Shows, Locates, Usable
    <3>2. y = v => n = m
      BY <1>2, <1>5 DEF Shows
    <3> QED
      BY <2>1, <3>1, <3>2
  <2>3. CASE hint' = hint /\ answer = "doubtful"
    BY <1>1, <1>2, <2>3 DEF Shows, Locates, Usable
  <2>4. CASE hint' = 0 /\ answer = "doubtful"
    <3>1. 0 \notin DOMAIN docs
      BY DEF StorageInv
    <3>2. CASE y = v /\ hint = 0
      BY <1>1, <1>2, <2>4, <3>2 DEF Shows, Locates, Usable
    <3>3. CASE y = v + 1
      BY <1>1, <1>2, <1>5, <2>4, <3>1, <3>3 DEF Shows, Locates, Usable, Behind
    <3> QED
      BY <2>1, <3>2, <3>3
  <2> QED
    BY <1>1, <1>5, <2>2, <2>3, <2>4
<1> QED
  BY <1>11, <1>12, <1>13

-----------------------------------------------------------------------------
(* The theorems.                                                           *)

LEMMA InitSerial ==
    ASSUME HintKept \/ LookupsInTurn
    PROVE  Init => SerialInv /\ Table!Init
<1> SUFFICES ASSUME Init  PROVE SerialInv /\ Table!Init
  OBVIOUS
<1>1. /\ NoTxn.pc = "idle" /\ NoTxn.goal = "none" /\ NoTxn.saved = NoHandle
      /\ NoHandle.version = 0 /\ NoHandle.meta = NewTable /\ NewTable.log = {}
      /\ NewTable.cur = 0 /\ NewTable.tag = 0
  BY DEF NoTxn, NoHandle, NewTable
<1>2. PICK v \in {0, 1} :
        /\ DOMAIN docs = (IF v = 0 THEN {} ELSE {1})
        /\ v = 1 => docs[1] = {NewTable}
        /\ hint = 0 \/ (hint = 1 /\ v = 1)
        /\ HintKept => hint = 1
  BY DEF Init, HintKept
<1>3. StorageInv
  <2>1. \A w \in Writers : txn[w].goal # "load"
    BY <1>1 DEF Init
  <2> QED
    BY <1>2, <2>1 DEF StorageInv, Usable
<1>4. OneWriter
  BY <1>1 DEF Init, OneWriter, Writing
<1>5. Shows(v, NewTable) /\ Behind(v, NewTable)
  BY <1>1, <1>2 DEF Shows, Behind, Locates, Usable
<1>6. \A w \in Writers : InTurn(w, v, NewTable)
  BY <1>1, <1>2 DEF Init, InTurn, Known, Looking, Proposing
<1>7. Visible = NewTable
  BY <1>2, <1>5, Reading
<1>8. Table!Init
  <2>1. LiveFiles(Visible) = {} /\ Visible.tag = 0 /\ Visible.log = {}
    BY <1>1, <1>7 DEF LiveFiles
  <2>2. \A i \in Ids : intent[i] = NoIntent /\ result[i] = "none"
    BY DEF Init
  <2>3. \A i \in Ids :
          [op |-> intent[i].op,
           adds |-> IF intent[i].op = "replace" THEN {} ELSE UNION intent[i].new,
           keeps |-> UNION intent[i].kept,
           target |-> intent[i].target, base |-> intent[i].base]
          = [op |-> "none", adds |-> {}, keeps |-> {}, target |-> 0, base |-> {}]
    <3> SUFFICES ASSUME NEW i \in Ids
                 PROVE  [op |-> intent[i].op,
                         adds |-> IF intent[i].op = "replace" THEN {} ELSE UNION intent[i].new,
                         keeps |-> UNION intent[i].kept,
                         target |-> intent[i].target, base |-> intent[i].base]
                        = [op |-> "none", adds |-> {}, keeps |-> {}, target |-> 0, base |-> {}]
      OBVIOUS
    <3>1. /\ intent[i].op = "none" /\ intent[i].new = {} /\ intent[i].kept = {}
          /\ intent[i].target = 0 /\ intent[i].base = {}
      BY <2>2 DEF NoIntent
    <3>2. UNION {} = {}
      OBVIOUS
    <3> QED
      BY <3>1, <3>2
  <2>4. result = [i \in Table!Ids |-> "none"]
    BY DEF Init, Ids, Table!Ids
  <2> QED
    BY <2>1, <2>3, <2>4 DEF Table!Init, Table!Ids, Ids
<1> QED
  BY <1>2, <1>3, <1>4, <1>5, <1>6, <1>8 DEF SerialInv, Around

LEMMA StepSerial ==
    ASSUME Serialized
    PROVE  CommitInv /\ SerialInv /\ [Next]_vars => Progress
<1> SUFFICES ASSUME CommitInv, SerialInv, [Next]_vars  PROVE Progress
  OBVIOUS
<1>1. CommitInv'
  BY StepInv
<1>2. PICK v, m : Around(v, m)
  BY DEF SerialInv
<1>3. StorageInv /\ OneWriter
  BY DEF SerialInv
<1>4. ASSUME NEW w \in Writers, Start(w)  PROVE Progress
  BY <1>2, <1>3, <1>4, OpenStarts, CommitsBegin DEF Start
<1>5. ASSUME NEW w \in Writers, Step(w)  PROVE Progress
  <2>1. CASE ReadHint(w) \/ Probe(w) \/ Load(w) \/ LoadFails(w) \/ Clear(w) \/ Beaten(w)
    BY <1>2, <1>3, <2>1, LookupMoves
  <2>2. CASE Conflict(w) \/ LookupFails(w) \/ Rejected(w)
    BY <1>2, <1>3, <2>2, CallEnds
  <2>3. CASE Create(w)
    BY <1>1, <1>2, <1>3, <2>3, TableIsCreated
  <2>4. CASE Publish(w)
    BY <1>1, <1>2, <1>3, <2>4, DocumentIsWritten
  <2>5. CASE PointHint(w)
    BY <1>1, <1>2, <1>3, <2>5, HintMoves
  <2> QED
    BY <1>5, <2>1, <2>2, <2>3, <2>4, <2>5 DEF Step
<1>6. ASSUME NEW w \in Writers, Misfortune(w)  PROVE Progress
  <2>1. CASE ReadFault(w) \/ Crash(w)
    BY <1>2, <1>3, <2>1, CallEnds
  <2>2. CASE DocumentFault(w)
    BY <1>1, <1>2, <1>3, <2>2, DocumentIsSpoilt
  <2>3. CASE HintFault(w)
    BY <1>1, <1>2, <1>3, <2>3, HintMoves
  <2> QED
    BY <1>6, <2>1, <2>2, <2>3 DEF Misfortune
<1>7. CASE UNCHANGED vars
  <2>1. UNCHANGED storage /\ UNCHANGED <<intent, result, txn, handle>>
    BY <1>7 DEF vars, storage
  <2>2. \A u \in Writers : InTurn(u, v, m)'
    BY <1>2, <2>1, Undisturbed DEF Around
  <2>3. Shows(v, m)' /\ Behind(v, m)'
    BY <1>2, <2>1 DEF Around, Shows, Behind, Locates, Usable, storage
  <2>4. StorageInv' /\ OneWriter'
    BY <1>3, <2>1 DEF StorageInv, OneWriter, Usable, Writing, HintKept, LookupsInTurn, storage
  <2>5. v \in DOMAIN docs' \cup {0} /\ m \in Documents' \cup {NewTable}
    BY <2>3 DEF Shows, Documents
  <2>6. SerialInv'
    BY <2>2, <2>3, <2>4, <2>5 DEF SerialInv, Around
  <2>7. Visible = m /\ Visible' = m /\ VersionsKept
    BY <1>2, <1>3, <2>1, <2>3, Reading, Somewhere
       DEF Around, CommitInv, TypeOK, VersionsKept, storage
  <2>8. LiveFiles(m)' = LiveFiles(m)
    BY <2>1 DEF LiveFiles, storage
  <2> QED
    BY <2>1, <2>6, <2>7, <2>8, Unseen DEF Progress
<1> QED
  BY <1>4, <1>5, <1>6, <1>7 DEF Next

\* Serialized writers implement SerialTable: whatever fails or dies, the
\* table readers find changes by whole commits, in the order they are made
\* visible; an answered commit stays, a failed one leaves no trace, and an
\* overwrite or a compaction replaces exactly the table it was planned on.
THEOREM SerializedCommits ==
    ASSUME Serialized, HintKept \/ LookupsInTurn
    PROVE  Spec => ImplementsSerialTable
<1>1. Init => CommitInv /\ SerialInv /\ Table!Init
  BY InitInv, InitSerial
<1>2. CommitInv /\ SerialInv /\ [Next]_vars
         => (CommitInv /\ SerialInv)' /\ [Table!Next]_(Table!vars)
  BY StepInv, StepSerial DEF Progress
<1> QED
  BY <1>1, <1>2, PTL DEF Spec, ImplementsSerialTable, Table!Spec

\* The version a lookup finds never gets older: a beaten overwrite may wait
\* for the table it planned on, and no reader goes back in time.
THEOREM VersionsOnlyGrow ==
    ASSUME Serialized, HintKept \/ LookupsInTurn
    PROVE  Spec => VersionsNeverMoveBack
<1>1. Init => CommitInv /\ SerialInv
  BY InitInv, InitSerial
<1>2. CommitInv /\ SerialInv /\ [Next]_vars
         => (CommitInv /\ SerialInv)' /\ VersionsKept
  BY StepInv, StepSerial DEF Progress
<1> QED
  BY <1>1, <1>2, PTL DEF Spec, VersionsNeverMoveBack, VersionsKept

=============================================================================

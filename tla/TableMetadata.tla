--------------------------- MODULE TableMetadata ---------------------------
(***************************************************************************)
(* The snapshots, branches and tags of one metadata document, as           *)
(* rust/src/iceberg/metadata.rs changes them: what a commit, a ref         *)
(* operation and an expiry do to what the document retains and names.      *)
(* Each action is one change closure of Table::commit_changes or           *)
(* Table::commit applied to the current document; how documents race is    *)
(* IcebergCommit's.                                                        *)
(***************************************************************************)
EXTENDS Integers, FiniteSets

CONSTANTS
    Names,        \* the names of branches and tags besides "main"
    Keeps,        \* values of min-snapshots-to-keep
    Ages,         \* values of max-snapshot-age-ms and max-ref-age-ms
    MaxSnapshots, \* bound: how many snapshots are committed
    MaxTime       \* bound: how far the clock runs

None == -1

ASSUME MetadataAssumption ==
    /\ "main" \notin Names
    /\ Keeps \subseteq Nat \ {0} /\ Ages \subseteq Nat
    /\ MaxSnapshots \in Nat /\ MaxTime \in Nat

Ids == 1..MaxSnapshots

\* SnapshotRef: `keep`, `age` and `life` are the retention fields.
Ref == [id : Ids, kind : {"branch", "tag"}, keep : Keeps \cup {None},
        age : Ages \cup {None}, life : Ages \cup {None}]

Branch(id) == [id |-> id, kind |-> "branch", keep |-> None, age |-> None, life |-> None]
Tag(id) == [Branch(id) EXCEPT !.kind = "tag"]

VARIABLES
    snapshots,   \* the retained ids
    parent,      \* id -> its parent, 0 for none
    time,        \* id -> its timestamp-ms
    current,     \* current-snapshot-id, 0 for none
    refs,        \* name -> reference
    logged,      \* the ids the snapshot-log names
    now,         \* the clock
    nextId,      \* the next snapshot's id
    expired      \* history: the cutoff of the expiry that made this document, or None

document == <<snapshots, parent, time, current, refs, logged>>
vars == <<document, now, nextId, expired>>

Init ==
    /\ snapshots = {} /\ current = 0
    /\ parent = [i \in Ids |-> 0] /\ time = [i \in Ids |-> 0]
    /\ refs = [n \in {} |-> Branch(1)] /\ logged = {}
    /\ now = 0 /\ nextId = 1
    /\ expired = None

With(name, ref) == [n \in DOMAIN refs \cup {name} |-> IF n = name THEN ref ELSE refs[n]]
Without(names) == [n \in DOMAIN refs \ names |-> refs[n]]

-----------------------------------------------------------------------------
(* Walking parents.                                                        *)

\* The ids met from `id` upwards in the retained `held`, the first id that is
\* not retained included: step n is the n-th, 0 past the end.
Walk(id, held) ==
    LET step[n \in 1..(MaxSnapshots + 1)] ==
            IF n = 1 THEN id
            ELSE IF step[n - 1] \in held THEN parent[step[n - 1]] ELSE 0
    IN step

\* descends_from.
DescendsFrom(descendant, ancestor) ==
    \E n \in 1..Cardinality(snapshots) : Walk(descendant, snapshots)[n] = ancestor

-----------------------------------------------------------------------------
(* Commits and references.                                                 *)

\* set_current_snapshot: main is replaced by a plain branch.  The snapshot has
\* its writer's clock, which may be behind.
CommitSnapshot ==
    /\ nextId \in Ids
    /\ \E t \in 0..now : time' = [time EXCEPT ![nextId] = t]
    /\ snapshots' = snapshots \cup {nextId}
    /\ parent' = [parent EXCEPT ![nextId] = current]
    /\ current' = nextId
    /\ logged' = logged \cup {nextId}
    /\ refs' = With("main", Branch(nextId))
    /\ nextId' = nextId + 1
    /\ expired' = None
    /\ UNCHANGED now

\* set_snapshot_ref's effect: main is the current snapshot.
Point(name, ref) ==
    /\ refs' = With(name, ref)
    /\ IF name = "main" /\ current # ref.id
       THEN current' = ref.id /\ logged' = logged \cup {ref.id}
       ELSE UNCHANGED <<current, logged>>

\* A reference operation touches no snapshot.
OnlyRefs ==
    /\ expired' = None
    /\ UNCHANGED <<snapshots, parent, time, now, nextId>>

\* set_snapshot_ref, as a caller sets a reference with its retention.
SetRef(name) ==
    /\ \E ref \in Ref :
         /\ ref.id \in snapshots
         /\ ref.kind = "tag" => name # "main" /\ ref.keep = None /\ ref.age = None
         /\ Point(name, ref)
    /\ OnlyRefs

\* create_branch and create_tag.
CreateRef(name) ==
    /\ name \notin DOMAIN refs
    /\ \E id \in snapshots : \E ref \in {Branch(id), Tag(id)} :
         (name = "main" => ref.kind = "branch") /\ Point(name, ref)
    /\ OnlyRefs

\* Mutant: main is removed and its snapshot stays current.
RemoveRefOnly(name) ==
    /\ name \in DOMAIN refs
    /\ refs' = Without({name})
    /\ UNCHANGED <<current, logged>>
    /\ OnlyRefs

\* remove_snapshot_ref: a table without main has no current snapshot.
RemoveRef(name) ==
    /\ name \in DOMAIN refs
    /\ refs' = Without({name})
    /\ current' = IF name = "main" THEN 0 ELSE current
    /\ UNCHANGED logged
    /\ OnlyRefs

\* rename_ref: a branch may become main when there is none.
RenameRef(from, to) ==
    /\ from \in DOMAIN refs \ {"main"} /\ to \notin DOMAIN refs
    /\ to = "main" => refs[from].kind = "branch"
    /\ refs' = [n \in (DOMAIN refs \ {from}) \cup {to} |->
                   IF n = to THEN refs[from] ELSE refs[n]]
    /\ IF to = "main" /\ current # refs[from].id
       THEN current' = refs[from].id /\ logged' = logged \cup {refs[from].id}
       ELSE UNCHANGED <<current, logged>>
    /\ OnlyRefs

\* Mutant: the head must descend from the target.
FastForwardBackwards(name) ==
    /\ name \in DOMAIN refs /\ refs[name].kind = "branch"
    /\ \E id \in snapshots :
         /\ DescendsFrom(refs[name].id, id)
         /\ Point(name, [refs[name] EXCEPT !.id = id])
    /\ OnlyRefs

\* fast_forward_branch: the target descends from the branch's head.
FastForward(name) ==
    /\ name \in DOMAIN refs /\ refs[name].kind = "branch"
    /\ \E id \in snapshots :
         /\ DescendsFrom(id, refs[name].id)
         /\ Point(name, [refs[name] EXCEPT !.id = id])
    /\ OnlyRefs

-----------------------------------------------------------------------------
(* Expiry.                                                                 *)

\* The references past their own max-ref-age; main never is.
Outlived(named, at) ==
    {n \in DOMAIN named \ {"main"} :
        named[n].life # None /\ at - time[named[n].id] > named[n].life}

\* Mutant: the head does not count among the snapshots to keep.
BranchKeepsBesides(ref, cutoff, at) ==
    LET oldest == IF ref.age = None THEN cutoff ELSE at - ref.age
        least == IF ref.keep = None THEN 1 ELSE ref.keep
        up == Walk(ref.id, snapshots)
    IN {up[n] : n \in {n \in 2..Cardinality(snapshots) :
           up[n] \in snapshots /\ (n < least \/ time[up[n]] >= oldest)}}

\* What one branch keeps of its head's ancestors: the youngest `least` of
\* them, the head counted, and those its own age limit, or the caller's
\* cutoff, does not make old.
BranchKeeps(ref, cutoff, at) ==
    LET oldest == IF ref.age = None THEN cutoff ELSE at - ref.age
        least == IF ref.keep = None THEN 1 ELSE ref.keep
        up == Walk(ref.id, snapshots)
    IN {up[n] : n \in {n \in 2..Cardinality(snapshots) :
           up[n] \in snapshots /\ (n <= least \/ time[up[n]] >= oldest)}}

\* Mutant: an outlived reference still anchors its snapshot.
RetainedByAll(cutoff) ==
    ({current} \ {0}) \cup {refs[n].id : n \in DOMAIN refs}
      \cup UNION {BranchKeeps(refs[n], cutoff, now) :
                     n \in {n \in DOMAIN refs : refs[n].kind = "branch"}}

\* expire_snapshots_older_than: what stays once the outlived references went.
Retained(cutoff) ==
    LET live == Without(Outlived(refs, now)) IN
    ({current} \ {0}) \cup {live[n].id : n \in DOMAIN live}
      \cup UNION {BranchKeeps(live[n], cutoff, now) :
                     n \in {n \in DOMAIN live : live[n].kind = "branch"}}

Doomed(cutoff) == snapshots \ Retained(cutoff)

\* Table::expire_snapshots: with no snapshot to drop nothing is committed.
Expire(cutoff) ==
    /\ IF Doomed(cutoff) = {} THEN UNCHANGED <<snapshots, refs, logged>>
       ELSE /\ snapshots' = snapshots \ Doomed(cutoff)
            /\ refs' = Without(Outlived(refs, now))
            /\ logged' = logged \ Doomed(cutoff)
    /\ expired' = cutoff
    /\ UNCHANGED <<parent, time, current, now, nextId>>

\* remove_snapshots: neither the current one nor one a reference names.
RemoveSnapshot(id) ==
    /\ id \in snapshots /\ id # current
    /\ \A n \in DOMAIN refs : refs[n].id # id
    /\ snapshots' = snapshots \ {id}
    /\ logged' = logged \ {id}
    /\ expired' = None
    /\ UNCHANGED <<parent, time, current, refs, now, nextId>>

Tick ==
    /\ now < MaxTime
    /\ now' = now + 1
    /\ expired' = None
    /\ UNCHANGED <<document, nextId>>

AllNames == Names \cup {"main"}

Next ==
    \/ CommitSnapshot \/ Tick
    \/ \E name \in AllNames :
         SetRef(name) \/ CreateRef(name) \/ RemoveRef(name) \/ FastForward(name)
    \/ \E from \in Names, to \in AllNames : RenameRef(from, to)
    \/ \E cutoff \in 0..(MaxTime + 1) : Expire(cutoff)
    \/ \E id \in Ids : RemoveSnapshot(id)

Spec == Init /\ [][Next]_vars

-----------------------------------------------------------------------------
(* What must hold.                                                         *)

\* What validate checks, and what remove_snapshot_ref says of main: every
\* name and every log entry resolves, and main and current-snapshot-id are
\* two spellings of one thing.
DocumentHolds ==
    /\ \A n \in DOMAIN refs : refs[n].id \in snapshots
    /\ logged \subseteq snapshots
    /\ current = IF "main" \in DOMAIN refs THEN refs["main"].id ELSE 0

Reached(id, held) == {Walk(id, held)[n] : n \in 1..(MaxSnapshots + 1)} \cap held

\* "Fast-forwarding is the one branch move that cannot lose history": what the
\* branch reached before, it still reaches.
FastForwardKeepsHistory ==
    [][\A name \in AllNames : FastForward(name) =>
         Reached(refs[name].id, snapshots) \subseteq Reached(refs'[name].id, snapshots)]_vars

\* "What survives is exactly what the Iceberg retention rules name": of each
\* branch an expiry found alive, the head, as many of its snapshots as it says,
\* or all it has, and every one that is not old; of each tag its target.
ExpiryKeepsWhatRefsName ==
    [][expired' # None =>
         \A n \in DOMAIN refs \ Outlived(refs, now) :
            LET ref == refs[n]
                had == Reached(ref.id, snapshots)
                has == had \cap snapshots'
                oldest == IF ref.age = None THEN expired' ELSE now - ref.age
            IN /\ ref.id \in snapshots'
               /\ ref.kind = "branch" =>
                    /\ \A id \in had : time[id] >= oldest => id \in snapshots'
                    /\ ref.keep # None => Cardinality(has) >= ref.keep \/ has = had]_vars

\* No snapshot was committed by a clock behind its parent's.
ClocksAgree == \A id \in 1..(nextId - 1) : parent[id] # 0 => time[parent[id]] <= time[id]

\* Expiring twice drops no more than expiring once: after an expiry, nothing
\* the same expiry would drop is left.  Clocks that disagree are the exception:
\* the walk stops at an expired snapshot and no longer reaches a younger one
\* above it.
ExpiryIsComplete == ClocksAgree /\ expired # None => Doomed(expired) = {}

=============================================================================

---------------------------- MODULE SerialTable ----------------------------
(***************************************************************************)
(* What a table promises the callers of serialized writers, with no word   *)
(* of documents, hints, versions or retries: commits take effect one at a  *)
(* time and for good, an append adds its rows to whatever is there, a      *)
(* commit that planned against the table takes effect only on exactly the  *)
(* table it planned against, and an answer tells the truth about it.       *)
(***************************************************************************)
EXTENDS Integers

CONSTANT MaxCommits

Ids == 1..MaxCommits

VARIABLES
    rows,      \* the commits whose rows a reader finds
    tag,       \* the snapshot the tag names, 0 for no tag
    log,       \* the commits that have taken effect
    status,    \* commit -> what its caller has been told
    promise    \* commit -> what its caller asked for

vars == <<rows, tag, log, status, promise>>

Init ==
    /\ rows = {} /\ tag = 0 /\ log = {}
    /\ status = [i \in Ids |-> "none"]
    /\ promise = [i \in Ids |-> [op |-> "none", adds |-> {}, keeps |-> {},
                                 target |-> 0, base |-> {}]]

\* A caller asks; what it planned against is some table there has been.
Ask(i) ==
    /\ status[i] = "none"
    /\ status' = [status EXCEPT ![i] = "running"]
    /\ \E op \in {"append", "overwrite", "replace", "tag", "untag", "expire"},
          adds \in {{}} \cup {{i}}, keeps \in SUBSET Ids, target \in 0..MaxCommits,
          base \in SUBSET log :
         promise' = [promise EXCEPT ![i] =
            [op |-> op, adds |-> adds, keeps |-> keeps, target |-> target, base |-> base]]
    /\ UNCHANGED <<rows, tag, log>>

\* How commit i changes the table, and when it may.
Effect(i) ==
    LET p == promise[i] IN
    CASE p.op = "append" -> rows' = rows \cup p.adds /\ tag' = tag
      [] p.op = "overwrite" -> /\ p.base = log /\ p.keeps \subseteq rows
                               /\ rows' = p.keeps \cup p.adds /\ tag' = tag
      [] p.op = "replace" -> p.base = log /\ rows' = rows /\ tag' = tag
      [] p.op = "tag" -> tag = 0 /\ tag' = p.target /\ rows' = rows
      [] p.op = "untag" -> tag # 0 /\ tag' = 0 /\ rows' = rows
      [] OTHER -> rows' = rows /\ tag' = tag

\* A commit takes effect once; its answer may come with it or later.
TakeEffect(i) ==
    /\ status[i] = "running" /\ i \notin log
    /\ log' = log \cup {i}
    /\ Effect(i)
    /\ \E s \in {"running", "ok", "doubtful"} : status' = [status EXCEPT ![i] = s]
    /\ UNCHANGED promise

\* "ok" is said of a commit that took effect and "failed" of one that never
\* will; a caller whose hint write failed, or who died, cannot tell.
Answer(i) ==
    /\ status[i] = "running"
    /\ \/ i \in log /\ status' = [status EXCEPT ![i] = "ok"]
       \/ i \notin log /\ status' = [status EXCEPT ![i] = "failed"]
       \/ \E s \in {"doubtful", "crashed"} : status' = [status EXCEPT ![i] = s]
    /\ UNCHANGED <<rows, tag, log, promise>>

Next == \E i \in Ids : Ask(i) \/ TakeEffect(i) \/ Answer(i)

Spec == Init /\ [][Next]_vars

=============================================================================

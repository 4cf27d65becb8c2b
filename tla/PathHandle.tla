----------------------------- MODULE PathHandle -----------------------------
(***************************************************************************)
(* A local location that is whatever is there, rust/src/local/path.rs.     *)
(* The handle looks when it is first used and keeps the implementation it  *)
(* chose, a Folder or a File; its kind is looked up each time.  The File   *)
(* it resolves to is one of LocalFile's handles, `Leaf`; the others are    *)
(* used next to it, and somebody may make or remove a folder at the        *)
(* location, which is the one way its kind changes under the handle.       *)
(***************************************************************************)
EXTENDS LocalFile

CONSTANT Leaf    \* the handle a path resolves to when it is a file

ASSUME PathAssumption == Leaf \in Handles

VARIABLES
    folder,      \* whether a folder is at the location
    slot,        \* what the path resolved to: "none", "folder", "file"
    settled      \* history: how it did: by looking, by writing, or, with
                 \* nothing there, by "handling" it

pathVars == <<folder, slot, settled>>
allVars == <<vars, pathVars>>

PathTypeOK ==
    /\ slot \in {"none", "folder", "file"}
    /\ settled \in {"unsettled", "looked", "written", "handled", "removed"}
    /\ folder => ~exists
    /\ slot # "file" => file[Leaf] = Lazy

PathInit ==
    /\ Init
    /\ folder \in IF exists THEN {FALSE} ELSE BOOLEAN
    /\ slot = "none" /\ settled = "unsettled"

\* IOPath::path_kind.
Kind == IF folder THEN "folder" ELSE IF exists THEN "file" ELSE "none"

Settle(kind, how) ==
    /\ slot' = IF slot = "none" THEN kind ELSE slot
    /\ settled' = IF slot = "none" /\ kind # "none" THEN how ELSE settled

\* with_resolved: nothing there stays undecided.
Resolve == Settle(Kind, "looked") /\ UNCHANGED folder

\* with_resolved_mut: nothing there is settled as a file.
ResolveMut(how) ==
    /\ Settle(IF Kind = "folder" THEN "folder" ELSE "file",
              IF Kind = "none" THEN how ELSE "looked")
    /\ UNCHANGED folder

\* The File refuses a folder; a Folder refuses bytes; neither holds any.
Refused == UNCHANGED vars

Look == Resolve /\ UNCHANGED vars

PathRead ==
    /\ Resolve
    /\ IF slot' = "file" /\ ~folder /\ exists THEN Read(Leaf) ELSE Refused

PathWrite ==
    /\ ResolveMut("written")
    /\ IF slot' = "file" /\ ~folder THEN Write(Leaf) \/ Reserve(Leaf) ELSE Refused

\* truncate looks first: a folder is truncated as one, which makes nothing new;
\* a path that resolved to a folder since removed makes it again.
PathTruncate ==
    IF folder THEN UNCHANGED allVars
    ELSE \/ /\ ResolveMut("written")
            /\ slot' = "file" /\ Truncate(Leaf)
         \/ /\ slot = "folder"
            /\ folder' = ~exists
            /\ UNCHANGED <<vars, slot, settled>>

\* flush, open and close.
PathHandled ==
    /\ ResolveMut("handled")
    /\ IF slot' = "file" /\ ~folder
       THEN \/ Open(Leaf) \/ Flush(Leaf) \/ LetGo(Leaf)
            \/ (~exists \/ file[Leaf].state = "lazy") /\ Refused
       ELSE Refused

\* The path is dropped, and with it its leaf.
PathDropped ==
    /\ slot' = "none" /\ settled' = "unsettled" /\ UNCHANGED folder
    /\ IF file[Leaf].state = "lazy" THEN UNCHANGED vars ELSE LetGo(Leaf)

\* Another handle on the location, which refuses a folder.
Another == ~folder /\ (\E h \in Handles \ {Leaf} : Step(h)) /\ UNCHANGED pathVars

\* A child is written below the location, or the folder is removed again.
FolderMade == Kind = "none" /\ folder' = TRUE /\ UNCHANGED <<vars, slot, settled>>
FolderRemoved ==
    /\ folder /\ folder' = FALSE
    /\ settled' = IF slot = "none" THEN settled ELSE "removed"
    /\ UNCHANGED <<vars, slot>>

PathNext ==
    \/ Look \/ PathRead \/ PathWrite \/ PathTruncate \/ PathHandled \/ PathDropped
    \/ Another \/ FolderMade \/ FolderRemoved

PathSpec == PathInit /\ [][PathNext]_allVars

-----------------------------------------------------------------------------

\* "an existing directory behaves as a folder, an existing file as a file, and
\* a location that does not exist yet stays undecided until a write settles
\* it" (IOPath): whatever comes into being, the path works through what is
\* there, unless open, flush or close settled it while nothing was, or the
\* folder it had found was removed.
ResolutionFits ==
    settled \notin {"handled", "removed"} /\ Kind # "none" => slot \in {"none", Kind}

\* A path that has not resolved holds no leaf, and one that has, the right one.
ResolutionHolds == PathTypeOK /\ ResolutionFits

=============================================================================

-------------------------- MODULE MCCommitHistory --------------------------
(* Commits for TLC: an execution is a race of writers over the documents of *)
(* a table, the manifests one table's commits write and read again, or the  *)
(* edits of one document, saved and opened again.                           *)
EXTENDS MCIcebergCommit

VARIABLES
    doing, table, manifests, commits, live, document, kept, stored, edits, unmarked

OfManifests == INSTANCE MCTableFiles
M == INSTANCE ManifestCommits WITH
        Tables <- OfManifests!AnyTables, Schema <- OfManifests!AnySchema,
        Specs <- OfManifests!FileSpecs, Contents <- OfManifests!AnyContents,
        Paths <- OfManifests!TwoPaths
D == INSTANCE TableDocument WITH
        Created <- OfManifests!AnyCreated, Foreign <- OfManifests!AnyForeign,
        NewSchemas <- OfManifests!AnySchemas, NewSpecs <- OfManifests!AnySpecs,
        NewOrders <- OfManifests!AnyOrders, Keys <- {"k"}, Strings <- {"v", "w"}, Uuids <- {"u"},
        MaxEdits <- 2

manifestVars == <<table, manifests, commits, live>>
NoManifests == table = <<>> /\ manifests = <<>> /\ commits = 0 /\ live = <<>>
documentVars == <<document, kept, stored, edits, unmarked>>
NoDocument == document = <<>> /\ kept = <<>> /\ stored = <<>> /\ edits = 0 /\ unmarked = {}

HistoryInit ==
    /\ Init
    /\ \/ doing = "race" /\ NoManifests /\ NoDocument
       \/ doing = "manifests" /\ M!ManifestInit /\ NoDocument
       \/ doing = "document" /\ D!DocumentInit /\ NoManifests
HistoryStep ==
    /\ UNCHANGED doing
    /\ \/ doing = "race" /\ Next /\ UNCHANGED <<manifestVars, documentVars>>
       \/ doing = "manifests" /\ M!ManifestNext /\ UNCHANGED <<vars, documentVars>>
       \/ doing = "document" /\ D!DocumentNext /\ UNCHANGED <<vars, manifestVars>>
HistorySpec == HistoryInit /\ [][HistoryStep]_<<doing, vars, manifestVars, documentVars>>

\* Manifests and lists read back as written, and each file of the table keeps
\* the number of the commit that added it, whoever carries it (manifest.rs:203).
ManifestsKeepOrder == doing = "manifests" =>
    (commits = 0 => OfManifests!EncodingsReadBack) /\ M!FilesKeepOrder

\* What a table document says reads back from what is written, in the shape of
\* its version or of an older writer (metadata.rs:16-19).
DocumentsReadBack == doing = "document" => D!DocumentsReadBack

\* Edits number things once, and nothing invalid is kept or stored
\* (metadata.rs, validate).
EditsKeepNumbers == doing = "document" => D!EditsKeepNumbers

=============================================================================

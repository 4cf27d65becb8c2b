----------------------------- MODULE Locations -----------------------------
(***************************************************************************)
(* A location in a caller's hands (rust/src/uri.rs): read from text, from  *)
(* JSON or from a platform path, held as a URI, a URL or a URN, renamed    *)
(* part by part, joined, walked up and written back; and what is read off  *)
(* it: the glob it is, the partitions its directories spell                *)
(* (rust/src/uri/pattern.rs), and the listings that filter by them         *)
(* (rust/src/io/mod.rs, IOBase::glob; rust/src/local).                     *)
(* In the patterns of one segment every piece is a single character.       *)
(***************************************************************************)
EXTENDS Uris

\* GLOB_CHARACTERS.
GlobCharacters == {"*", "?", "["}
IsPattern(segment) == Has(segment, GlobCharacters)

-----------------------------------------------------------------------------
(* Patterns of one segment.                                                *)

Code == "!" :> 33 @@ "*" :> 42 @@ "-" :> 45 @@ "1" :> 49 @@ "2" :> 50 @@ "?" :> 63 @@ "C" :> 67
     @@ "[" :> 91 @@ "]" :> 93 @@ "^" :> 94 @@ "c" :> 99

Run == [step |-> "run"]
One == [step |-> "one"]
Literal(piece) == [step |-> "literal", piece |-> piece]
Class(negated, ranges) == [step |-> "class", negated |-> negated, ranges |-> ranges]

\* Step::accepts.
Accepts(step, piece) ==
    CASE step.step = "one" -> TRUE
      [] step.step = "literal" -> step.piece = piece
      [] step.step = "class" ->
           step.negated # \E n \in DOMAIN step.ranges :
               /\ Code[step.ranges[n][1]] <= Code[piece]
               /\ Code[piece] <= Code[step.ranges[n][2]]

\* One turn of the loop that reads a class: a range, or a single piece; a
\* hyphen before the closing bracket, or at the end, stands for itself.
NextRange(body) ==
    LET low == Head(body)
        after == After(body, 2)
    IN IF Len(body) = 1 \/ body[2] # "-" THEN [ranges |-> <<<<low, low>>>>, left |-> Tail(body)]
       ELSE IF after = <<>> \/ Starts(after, "]")
       THEN [ranges |-> <<<<low, low>>, <<"-", "-">>>>, left |-> after]
       ELSE [ranges |-> <<<<low, Head(after)>>>>, left |-> Tail(after)]

\* A closing bracket that comes first is a piece of the class.
RECURSIVE ClassBody(_, _)
ClassBody(body, ranges) ==
    IF body = <<>> THEN [closed |-> FALSE, ranges |-> ranges, left |-> <<>>]
    ELSE IF Starts(body, "]") /\ ranges # <<>>
    THEN [closed |-> TRUE, ranges |-> ranges, left |-> Tail(body)]
    ELSE ClassBody(NextRange(body).left, ranges \o NextRange(body).ranges)

\* pattern_tail.
Rebuilt(ranges, negated) ==
    (IF negated THEN <<Literal("!")>> ELSE <<>>)
    \o FlattenSeq([n \in DOMAIN ranges |->
           IF ranges[n][1] = ranges[n][2] THEN <<Literal(ranges[n][1])>>
           ELSE <<Literal(ranges[n][1]), Literal("-"), Literal(ranges[n][2])>>])

ClassSteps(rest) ==
    LET negated == rest # <<>> /\ Head(rest) \in {"!", "^"}
        class == ClassBody(IF negated THEN Tail(rest) ELSE rest, <<>>)
    IN [steps |-> IF class.closed THEN <<Class(negated, class.ranges)>>
                  ELSE <<Literal("[")>> \o Rebuilt(class.ranges, negated),
        left |-> class.left]

FirstSteps(pattern) ==
    CASE Head(pattern) = "*" -> [steps |-> <<Run>>, left |-> Tail(pattern)]
      [] Head(pattern) = "?" -> [steps |-> <<One>>, left |-> Tail(pattern)]
      [] Head(pattern) = "[" -> ClassSteps(Tail(pattern))
      [] OTHER -> [steps |-> <<Literal(Head(pattern))>>, left |-> Tail(pattern)]

\* parse_steps.
RECURSIVE Steps(_)
Steps(pattern) ==
    IF pattern = <<>> THEN <<>>
    ELSE LET first == FirstSteps(pattern) IN first.steps \o Steps(first.left)

\* A row of the table: the prefixes of the text the steps so far match.
NextRow(row, step, text) ==
    IF step = Run THEN [n \in DOMAIN row |-> \E m \in 0..n : row[m]]
    ELSE [n \in DOMAIN row |-> n > 0 /\ row[n - 1] /\ Accepts(step, text[n])]

RECURSIVE MatchRow(_, _)
MatchRow(steps, text) ==
    IF steps = <<>> THEN [n \in 0..Len(text) |-> n = 0]
    ELSE NextRow(MatchRow(Front(steps), text), Last(steps), text)

MatchesSegment(text, pattern) == MatchRow(Steps(pattern), text)[Len(text)]

-----------------------------------------------------------------------------
(* Patterns of whole paths.                                                *)

PatternParts(pattern) == NonEmpty(Split(pattern, "/"))
AnyDepth == <<"*", "*">>

\* matches_segments: ** takes any number of segments, any other part one.
RECURSIVE MatchesSegments(_, _)
MatchesSegments(segments, parts) ==
    IF parts = <<>> THEN segments = <<>>
    ELSE \E taken \in
             IF Head(parts) = AnyDepth THEN 0..Len(segments)
             ELSE IF segments # <<>> /\ MatchesSegment(Head(segments), Head(parts)) THEN {1}
             ELSE {} :
         MatchesSegments(After(segments, taken), Tail(parts))

\* Url::matches_glob: a pattern of one part is about the name.
MatchesGlob(url, pattern) ==
    LET parts == PatternParts(pattern) IN
    IF Len(parts) = 1
    THEN FileName(url.path) # <<>> /\ MatchesSegment(FileName(url.path), parts[1])
    ELSE MatchesSegments(Segments(url.path), parts)

\* Url::segments_under; a location outside the root is under it nowhere.
Under(url, root) ==
    url.scheme = root.scheme /\ url.authority = root.authority
    /\ IsPrefix(Segments(root.path), Segments(url.path))
SegmentsUnder(url, root) == After(Segments(url.path), Len(Segments(root.path)))

\* Url::matches_glob_under.
MatchesGlobUnder(url, root, pattern) ==
    Under(url, root) /\ MatchesSegments(SegmentsUnder(url, root), PatternParts(pattern))

IsGlob(url) == \E n \in DOMAIN Segments(url.path) : IsPattern(Segments(url.path)[n])

\* Mutant: the root is one level too deep.
GlobRootDeeper(url, levels) ==
    LET above == ParentPaths(url.path)
    IN IF levels < 2 \/ above = <<>> THEN url
       ELSE [url EXCEPT !.path = above[IF levels > Len(above) THEN Len(above) ELSE levels - 1]]

\* One parent for every segment from the first pattern on; the root is its own.
GlobRoot(url, levels) ==
    LET above == ParentPaths(url.path)
    IN IF above = <<>> THEN url
       ELSE [url EXCEPT !.path = above[IF levels > Len(above) THEN Len(above) ELSE levels]]

\* Url::glob_parts, of a location that is a glob.
GlobParts(url) ==
    LET segments == Segments(url.path)
        split == SelectInSeq(segments, IsPattern)
    IN [root |-> GlobRoot(url, Len(segments) - split + 1),
        pattern |-> Joined(After(segments, split - 1), "/")]

-----------------------------------------------------------------------------
(* Listings.  A tree is the set of the paths below its root, each a        *)
(* sequence of names.                                                      *)

Private(name) == Starts(name, ".")

\* IOFolder::list_folder: a private directory is not descended into either.
Listed(tree, recursive, private) ==
    {path \in tree :
        /\ recursive \/ Len(path) = 1
        /\ private \/ \A n \in DOMAIN path : ~Private(path[n])}
Below(tree, names) ==
    {After(path, Len(names)) : path \in {path \in tree : IsPrefix(names, path) /\ path # names}}

Deep(parts) == Len(parts) > 1 \/ parts[1] = AnyDepth

\* IOBase::glob: down the fixed names, then every listed entry that matches.
Glob(tree, pattern, private) ==
    LET parts == PatternParts(pattern)
        first == SelectInSeq(parts, IsPattern)
        fixed == IF first = 0 THEN parts ELSE Upto(parts, first - 1)
        rest == After(parts, Len(fixed))
    IN IF rest = <<>> THEN tree \cap {fixed}
       ELSE {fixed \o path : path \in
                {path \in Listed(Below(tree, fixed), Deep(rest), private) :
                    MatchesSegments(path, rest)}}

-----------------------------------------------------------------------------
(* Partitions.                                                             *)

\* hive_pair: none, or the column and the value.
HivePair(segment) ==
    LET equals == Position(segment, {"="})
    IN IF equals < 2 \/ Has(Upto(segment, equals - 1), {" "}) THEN <<>>
       ELSE <<<<Upto(segment, equals - 1), After(segment, equals)>>>>

HivePairs(segments) == FlattenSeq([n \in DOMAIN segments |-> HivePair(segments[n])])
HivePartitionsUnder(url, root) ==
    IF Under(url, root) THEN HivePairs(SegmentsUnder(url, root)) ELSE <<>>

\* with_hive_partition, and the directories leaf_name spells.
Directory(column, value) == column \o <<"=">> \o value

-----------------------------------------------------------------------------
CONSTANTS
    Texts,      \* what locations are read from
    Paths,      \* platform paths locations are made of
    Names,      \* texts given for names, stems and extensions
    Medias,     \* media types given: [base, codings]
    Joins,      \* texts joined to a path
    Partitions, \* sequences of <<column, value>> directories are named after
    Subtrees,   \* what there is below a root: sets of sequences of names
    SegmentTexts, SegmentPatterns,  \* single-character pieces only
    MaxPath,    \* bound: pieces in a path
    MaxChanges  \* bound: changes made to a location

VARIABLES view, location, changes

locationVars == <<view, location, changes>>

\* What is set, and to what.
Edits ==
    ({"file_name", "stem", "extension"} \X Names)
    \cup ({"extensions"} \X ({<<>>} \cup {<<name, <<"gz">>>> : name \in Names}))
    \cup ({"media_type"} \X Medias)
    \cup ({"mime_type"} \X {media.base : media \in Medias})
    \cup ({"remove", "clear"} \X {<<>>})

PathEdit(path, edit) ==
    CASE edit[1] = "file_name" -> SetFileName(path, edit[2])
      [] edit[1] = "stem" -> SetStem(path, edit[2])
      [] edit[1] = "extension" -> SetExtension(path, edit[2])
      [] edit[1] = "extensions" -> SetExtensions(path, edit[2])
      [] edit[1] = "media_type" -> SetMediaType(path, edit[2])
      [] edit[1] = "mime_type" -> SetMimeType(path, edit[2])
      [] edit[1] = "remove" -> RemoveExtension(path)
      [] edit[1] = "clear" -> ClearExtensions(path)

\* Uri's and Url's setters; a name under an authority gets its slash.
EditedUri(as, uri, edit, path) ==
    LET full == IF edit[1] = "file_name" /\ uri.marked /\ ~Absolute(path)
                THEN <<"/">> \o path ELSE path
        candidate == [uri EXCEPT !.path = full]
    IN IF path = Refused THEN Failed
       ELSE IF edit[1] \in {"remove", "clear"} THEN candidate
       ELSE IF Valid(candidate) THEN As(as, candidate) ELSE Failed

\* Urn's edit the namespace-specific string.
EditedUrn(urn, path) ==
    IF path = Refused THEN Failed
    ELSE ToUrn([urn EXCEPT !.path = Namespace(@) \o <<":">> \o path])

Edited(as, uri, edit) ==
    IF as = "urn" THEN EditedUrn(uri, PathEdit(NamespaceSpecific(uri.path), edit))
    ELSE EditedUri(as, uri, edit, PathEdit(uri.path, edit))

\* Uri::joinpath and Url::joinpath.
JoinedTo(as, uri, value) ==
    LET path == JoinPath(uri.path, value) IN
    IF path = Refused THEN Failed
    ELSE IF Valid([uri EXCEPT !.path = path]) THEN As(as, [uri EXCEPT !.path = path]) ELSE Failed

RECURSIVE Descended(_, _)
Descended(url, segments) ==
    IF segments = <<>> \/ url = Failed THEN url
    ELSE Descended(IF Head(segments) = Here THEN url ELSE JoinedTo("url", url, Head(segments)),
                   Tail(segments))

\* Url::join_path, one segment per component: the root is the location of the
\* whole path, and the components after it are appended all the same.
JoinPathOf(url, path) ==
    Descended(IF Absolute(path) THEN As("url", FromPath(path)) ELSE url, Segments(path))

\* UriParents and UrlParents: those that are locations of the same kind.
ParentsOf(as, uri) ==
    LET above == ParentPaths(uri.path) IN
    SelectSeq([n \in DOMAIN above |-> [uri EXCEPT !.path = above[n]]],
              LAMBDA parent : Valid(parent) /\ As(as, parent) # Failed)

LocationInit ==
    \E as \in {"uri", "url", "urn"} :
        \E read \in {As(as, FromStr(text)) : text \in Texts} \cup {As(as, FromPath(path)) : path \in Paths} :
            read # Failed /\ view = as /\ location = read /\ changes = 0

Becomes(uri) ==
    /\ uri # Failed
    /\ Len(uri.path) <= MaxPath /\ changes < MaxChanges
    /\ location' = uri /\ changes' = changes + 1
    /\ UNCHANGED view

EditPart == \E edit \in Edits : Becomes(Edited(view, location, edit))
JoinValue == view # "urn" /\ \E value \in Joins : Becomes(JoinedTo(view, location, value))
JoinFile == view = "url" /\ \E path \in Paths : Becomes(JoinPathOf(location, path))
WalkUp == view # "urn" /\ ParentsOf(view, location) # <<>> /\ Becomes(ParentsOf(view, location)[1])
ViewAs ==
    \E as \in {"uri", "url", "urn"} \ {view} :
        /\ As(as, location) # Failed
        /\ view' = as /\ location' = As(as, location)
        /\ UNCHANGED changes

LocationNext == EditPart \/ JoinValue \/ JoinFile \/ WalkUp \/ ViewAs
LocationSpec == LocationInit /\ [][LocationNext]_locationVars

-----------------------------------------------------------------------------
(* Reading back.                                                           *)

\* The scheme and what follows it are read as a Windows drive and its path.
DriveLike(uri) == Len(uri.scheme) = 1 /\ uri.scheme[1] \in Letters /\ (uri.marked \/ Absolute(uri.path))

\* A local path that begins with two slashes names a server, with more loses them.
ManySlashes(uri) == uri.authority = <<>> /\ Absolute(uri.path) /\ Absolute(Tail(uri.path))

\* What is left of a location by the platform path it names.
OfPath(uri) ==
    LET path == EncodedPath(Decoded(uri.path)) IN
    [FromParts(uri) EXCEPT !.path = IF uri.authority # <<>> /\ path = <<>> THEN <<"/">> ELSE path,
                           !.marked = @ \/ Absolute(uri.path)]

\* A location is what its text, its JSON and its platform path say: each reads
\* back as the location in its canonical form.
ReadsBack ==
    /\ ~DriveLike(location) =>
          As(view, FromStr(Display(location))) = As(view, FromParts(location))
    /\ As(view, FromJson(location)) = As(view, FromParts(location))
    /\ As(view, location) = location
    /\ ToPath(location) # Refused /\ ~ManySlashes(location) =>
          FromPath(ToPath(location)) = FromParts(OfPath(location))

-----------------------------------------------------------------------------
(* Names.                                                                  *)

Resource(as, uri) == IF as = "urn" THEN NamespaceSpecific(uri.path) ELSE uri.path
Above(path) == Upto(path, Len(path) - Len(FileName(path)))

\* A new extension after a last dot makes that dot the first of the extensions.
SameBase(name, after) == Ends(name, ".") \/ Base(after) = Base(name)

EditShows(edit, name, after) ==
    CASE edit[1] = "file_name" -> after = Hex(edit[2])
      [] edit[1] = "stem" ->
           /\ Extension(name) # <<>> => Extension(after) = Extension(name) /\ Stem(after) = Hex(edit[2])
           /\ Extension(name) = <<>> => after = Hex(edit[2])
      [] edit[1] = "extension" -> Extension(after) = Hex(edit[2]) /\ Stem(after) = Stem(name)
      [] edit[1] = "extensions" ->
           Extensions(after) = [n \in DOMAIN edit[2] |-> Hex(edit[2][n])] /\ SameBase(name, after)
      [] edit[1] = "media_type" -> MediaOf(Extensions(after)) = edit[2] /\ SameBase(name, after)
      [] edit[1] = "mime_type" ->
           MediaOf(<<Extension(after)>>) = MediaOf(<<PreferredExtension(edit[2])>>)
      [] edit[1] = "remove" -> after = Stem(name) /\ after # name
      [] edit[1] = "clear" -> Extensions(after) = <<>> /\ Base(after) = Base(name)

\* What was set is read back; what was not set stays.
EditsKeepTheRest ==
    \A edit \in Edits : \A after \in {Edited(view, location, edit)} \ {Failed} :
        /\ [after EXCEPT !.path = location.path] = location
        /\ view = "urn" => Namespace(after.path) = Namespace(location.path)
        /\ \/ Above(Resource(view, after)) = Above(Resource(view, location))
           \/ Above(Resource(view, after)) = <<"/">> /\ Resource(view, location) = <<>>
        /\ EditShows(edit, FileName(Resource(view, location)), FileName(Resource(view, after)))

-----------------------------------------------------------------------------
(* Joining and walking up.                                                 *)

ResolvedAfter(path, value) ==
    IF Absolute(value) THEN Resolved(Segments(value), TRUE)
    ELSE Resolved(Segments(path) \o Segments(value), Absolute(path))

\* Joining is resolving dot segments, whichever way the value is spelt, and
\* leaves the other parts alone; the parents of the parent are the other parents.
JoinsResolve ==
    view # "urn" =>
      /\ \A value \in Joins : \A after \in {JoinedTo(view, location, value)} \ {Failed} :
           /\ Parts(after.path) = ResolvedAfter(location.path, value)
           /\ [after EXCEPT !.path = location.path] = location
           /\ \/ Absolute(after.path) = (Absolute(location.path) \/ Absolute(value))
              \/ Parts(after.path) = <<>> /\ Ends(value, "/")
      /\ LET above == ParentsOf(view, location) IN
         above # <<>> => ParentsOf(view, above[1]) = Tail(above)

\* A name, an extension or a media type that was set is read back, and nothing
\* but the name has changed; what is joined is found below, or instead of, the
\* path it was joined to.
NamesAreKept == EditsKeepTheRest /\ JoinsResolve

\* "an absolute path replaces this URL's path rather than extending it"
\* (Url::join_path).
JoinPathReplaces ==
    view = "url" =>
        \A path \in Paths : Absolute(path) /\ JoinPathOf(location, path) # Failed =>
            Parts(JoinPathOf(location, path).path) = Parts(FromPath(path).path)

-----------------------------------------------------------------------------
(* Patterns.                                                               *)

\* What a pattern matches, by the choices it leaves.
RECURSIVE Fits(_, _)
Fits(steps, text) ==
    IF steps = <<>> THEN text = <<>>
    ELSE \E taken \in IF Head(steps) = Run THEN 0..Len(text)
                      ELSE IF text # <<>> /\ Accepts(Head(steps), Head(text)) THEN {1} ELSE {} :
             Fits(Tail(steps), After(text, taken))

RangeOfOne(pattern) ==
    \E n \in 1..Len(pattern) - 2 : pattern[n] = pattern[n + 2] /\ pattern[n + 1] = "-"

\* The table of prefixes decides what some choice of runs would; a pattern
\* that uses no wildcard matches itself.
SegmentsMatch ==
    \A pattern \in SegmentPatterns :
        /\ \A text \in SegmentTexts : MatchesSegment(text, pattern) = Fits(Steps(pattern), text)
        /\ ~Has(pattern, {"*", "?", "]", "^"}) /\ ~RangeOfOne(pattern) =>
              \A text \in SegmentTexts \cup {pattern} : MatchesSegment(text, pattern) = (text = pattern)

Dotted(path) == \E n \in DOMAIN Segments(path) : Segments(path)[n] \in {Here, Up}

Candidates(url) ==
    UNION {{[url EXCEPT !.path = Rendered(path, TRUE)] : path \in tree} : tree \in Subtrees}

\* The pattern below the root a location was split into selects what the whole
\* location does, and a listing of the tree under that root finds all of it.
GlobsSelect ==
    view = "url" /\ IsGlob(location) /\ ~Dotted(location.path) =>
        LET glob == GlobParts(location) IN
        /\ \A url \in Candidates(location) :
             MatchesGlobUnder(url, glob.root, glob.pattern)
             = MatchesSegments(Segments(url.path), Segments(location.path))
        /\ \A tree \in Subtrees, private \in BOOLEAN :
             LET parts == Segments(location.path)
                 fixed == SelectInSeq(parts, IsPattern) - 1
             IN Glob(tree, Joined(parts, "/"), private)
                = {path \in tree :
                     /\ Len(path) > fixed /\ MatchesSegments(path, parts)
                     /\ private \/ \A n \in fixed + 1..Len(path) : ~Private(path[n])}

\* A pattern of one part is that pattern at any depth.
NamesMatchAnywhere ==
    view = "url" /\ ~Ends(location.path, "/") =>
        \A value \in Joins : Len(PatternParts(value)) = 1 =>
            MatchesGlob(location, value)
            = (Segments(location.path) # <<>> /\ MatchesGlob(location, <<"*", "*", "/">> \o value))

\* A pattern selects the same locations whichever way it is asked.
PatternsSelect == SegmentsMatch /\ GlobsSelect /\ NamesMatchAnywhere

-----------------------------------------------------------------------------
(* Partitions.                                                             *)

Directories(pairs) == [n \in DOMAIN pairs |-> Directory(pairs[n][1], pairs[n][2])]

\* The value is spelt as it is: nothing escapes it.
Spellable(value) == ~Has(value, {"/"} \cup Escapes)

BareDrive(path) == Len(path) = 3 /\ path[2] \in Letters /\ path[3] = ":"

Entry(root, names) ==
    FromPath(ToPath(root) \o (IF Ends(ToPath(root), "/") THEN <<>> ELSE <<"/">>) \o Decoded(Joined(names, "/")))

\* The columns and values a folder's directories were named after are those
\* that are read off the files listed below it.
PartitionsReadBack ==
    view = "url" /\ ToPath(location) # Refused /\ FromPath(ToPath(location)) = location
    /\ ~BareDrive(location.path) =>
        \A pairs \in Partitions :
            LET child == JoinedTo("url", location, Joined(Directories(pairs), "/")) IN
            child # Failed /\ (\A n \in DOMAIN pairs : Spellable(pairs[n][2])) =>
                HivePartitionsUnder(Entry(location, Directories(pairs)), location) = pairs
=============================================================================

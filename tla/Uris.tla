-------------------------------- MODULE Uris --------------------------------
(***************************************************************************)
(* Locations: the texts and paths they are made of, how they are read from *)
(* text, from structural JSON and from platform paths, and how they are    *)
(* written back (rust/src/uri.rs).  A text is a sequence of pieces: a      *)
(* mark, a percent escape, a single letter, which may name a drive, or a   *)
(* longer word whose characters no rule tells apart.  "::1" stands for an  *)
(* IPv6 address and "v1" for the version of a literal yet to come.         *)
(* Positions and wording of the errors are left out; a refusal is Failed.  *)
(***************************************************************************)
EXTENDS Integers, Sequences, SequencesExt, TLC

\* What an operation that refuses its arguments gives instead of a text.
Refused == <<"refused">>

Escaped == "%20" :> " " @@ "%25" :> "%" @@ "%2F" :> "/" @@ "%3A" :> ":" @@ "%3F" :> "?" @@ "%43" :> "C"
        @@ "%5C" :> "\\" @@ "%0A" :> "newline" @@ "%FF" :> "not UTF-8"
LowerHex == "%2f" :> "%2F" @@ "%3a" :> "%3A"
HexDigits == "%20" :> "20" @@ "%25" :> "25" @@ "%2F" :> "2F" @@ "%3A" :> "3A" @@ "%3F" :> "3F" @@ "%43" :> "43"
          @@ "%5C" :> "5C" @@ "%0A" :> "0A" @@ "%FF" :> "FF" @@ "%2f" :> "2f" @@ "%3a" :> "3a"
Escapes == DOMAIN Escaped \cup DOMAIN LowerHex

Digits == {"1", "2"}
Letters == {"c", "C"}
Delimiters == {"*", "+", "="}
InAuthority == {":", "@", "[", "]", "::1"}
InPath == {"/", ":", "@"}
InQuery == InPath \cup {"?"}
Special == InAuthority \cup InQuery \cup {"#", "%", " ", "\\", "newline"} \cup Escapes

LowerCase(piece) ==
    CASE piece = "C" -> "c" [] piece = "FILE" -> "file" [] piece = "ISBN" -> "isbn" [] OTHER -> piece
UpperLetter(piece) == IF piece \in Letters THEN "C" ELSE piece

\* is_unreserved, and the classes that add some marks to it.
Unreserved(piece) == piece \notin Special \cup Delimiters
Allowed(piece, marks) == Unreserved(piece) \/ piece \in Delimiters \cup marks

\* validate_component.
Component(text, marks) ==
    \A n \in DOMAIN text : text[n] \in Escapes \/ Allowed(text[n], marks)

\* normalize_percent_hex.
Hex(text) == [n \in DOMAIN text |-> IF text[n] \in DOMAIN LowerHex THEN LowerHex[text[n]] ELSE text[n]]

-----------------------------------------------------------------------------
Position(text, marks) == SelectInSeq(text, LAMBDA piece : piece \in marks)
LastPosition(text, marks) == SelectLastInSeq(text, LAMBDA piece : piece \in marks)
Has(text, marks) == Position(text, marks) # 0
Upto(text, n) == SubSeq(text, 1, n)
After(text, n) == SubSeq(text, n + 1, Len(text))
Starts(text, mark) == text # <<>> /\ Head(text) = mark
Ends(text, mark) == text # <<>> /\ Last(text) = mark

Split(text, mark) ==
    LET cuts == SelectSeq([n \in 1..Len(text) + 1 |-> n],
                          LAMBDA n : n > Len(text) \/ text[n] = mark)
    IN [n \in DOMAIN cuts |->
           SubSeq(text, IF n = 1 THEN 1 ELSE cuts[n - 1] + 1, cuts[n] - 1)]
Joined(parts, mark) ==
    IF parts = <<>> THEN <<>>
    ELSE Tail(FlattenSeq([n \in DOMAIN parts |-> <<mark>> \o parts[n]]))
NonEmpty(parts) == SelectSeq(parts, LAMBDA part : part # <<>>)

\* UriPath::segments.
Segments(path) == NonEmpty(Split(path, "/"))

Absolute(path) == Starts(path, "/")

-----------------------------------------------------------------------------
(* File names.                                                             *)

\* file_name_from_path: the text after the last slash; none when it is empty.
FileName(path) == After(path, LastPosition(path, {"/"}))

\* extension_from_file_name, stem_from_file_name: none is the empty text.
LastDot(name) ==
    LET dot == LastPosition(name, {"."}) IN IF dot > 1 /\ dot < Len(name) THEN dot ELSE 0
Extension(name) == IF LastDot(name) = 0 THEN <<>> ELSE After(name, LastDot(name))
Stem(name) == IF LastDot(name) = 0 THEN name ELSE Upto(name, LastDot(name) - 1)

\* compound_extension_start: the first dot, a leading one aside.
FirstDot(name) ==
    LET dot == SelectInSubSeq(name, IF Starts(name, ".") THEN 2 ELSE 1, Len(name),
                              LAMBDA piece : piece = ".")
    IN IF dot < Len(name) THEN dot ELSE 0
Extensions(name) ==
    IF FirstDot(name) = 0 THEN <<>> ELSE NonEmpty(Split(After(name, FirstDot(name)), "."))
Base(name) == IF FirstDot(name) = 0 THEN name ELSE Upto(name, FirstDot(name) - 1)

\* The types some extensions stand for; a custom type prefers none.
MimeOf == <<"csv">> :> "csv" @@ <<"tar">> :> "tar" @@ <<"bin">> :> "bin" @@ <<"gz">> :> "gz"
Codings == {"gz"}
PreferredExtension(mime) == IF mime = "custom" THEN Refused ELSE <<mime>>

\* MediaType::from_extensions: what is not a coding hides all that precedes it.
MediaOf(extensions) ==
    LET Coding(extension) == extension \in DOMAIN MimeOf /\ MimeOf[extension] \in Codings
        last == SelectLastInSeq(extensions, LAMBDA extension : ~Coding(extension))
        outer == [n \in 1..Len(extensions) - last |-> MimeOf[extensions[last + n]]]
    IN IF last = 0 THEN [base |-> "bin", codings |-> outer]
       ELSE IF extensions[last] = <<"tgz">> THEN [base |-> "tar", codings |-> <<"gz">> \o outer]
       ELSE [base |-> IF extensions[last] \in DOMAIN MimeOf THEN MimeOf[extensions[last]] ELSE "bin",
             codings |-> outer]
MediaType(path) == MediaOf(Extensions(FileName(path)))

-----------------------------------------------------------------------------
(* What replaces a name or a part of it.                                   *)

ReplaceFileName(path, name) == Upto(path, Len(path) - Len(FileName(path))) \o name

\* normalize_resource_segment and normalize_extension.
Segment(value) == value # <<>> /\ ~Has(value, {"/"}) /\ Component(value, InPath)
ExtensionText(value) == Segment(value) /\ ~Has(value, {"."})

SetFileName(path, value) ==
    IF Segment(value) THEN ReplaceFileName(path, Hex(value)) ELSE Refused

SetStem(path, value) ==
    LET extension == Extension(FileName(path)) IN
    IF ~Segment(value) \/ FileName(path) = <<>> THEN Refused
    ELSE ReplaceFileName(path,
             Hex(value) \o IF extension = <<>> THEN <<>> ELSE <<".">> \o extension)

\* Mutant: the whole name is kept before the new extension.
SetExtensionAppends(path, value) ==
    IF ~ExtensionText(value) \/ FileName(path) = <<>> THEN Refused
    ELSE ReplaceFileName(path, FileName(path) \o <<".">> \o Hex(value))

SetExtension(path, value) ==
    IF ~ExtensionText(value) \/ FileName(path) = <<>> THEN Refused
    ELSE ReplaceFileName(path, Stem(FileName(path)) \o <<".">> \o Hex(value))

SetExtensions(path, values) ==
    IF FileName(path) = <<>> \/ \E n \in DOMAIN values : ~ExtensionText(values[n]) THEN Refused
    ELSE ReplaceFileName(path, Base(FileName(path))
             \o FlattenSeq([n \in DOMAIN values |-> <<".">> \o Hex(values[n])]))

SetMimeType(path, mime) ==
    IF mime = "custom" THEN Refused ELSE SetExtension(path, PreferredExtension(mime))

SetMediaType(path, media) ==
    IF media.base = "custom" THEN Refused
    ELSE SetExtensions(path, [n \in 1..Len(media.codings) + 1 |->
             PreferredExtension(IF n = 1 THEN media.base ELSE media.codings[n - 1])])

\* remove_extension and clear_extensions report whether there was one.
RemoveExtension(path) ==
    IF Extension(FileName(path)) = <<>> THEN Refused
    ELSE ReplaceFileName(path, Stem(FileName(path)))
ClearExtensions(path) ==
    IF FirstDot(FileName(path)) = 0 THEN Refused
    ELSE ReplaceFileName(path, Base(FileName(path)))

-----------------------------------------------------------------------------
(* Dot segments.                                                           *)

Here == <<".">>
Up == <<".", ".">>

Entered(parts, segment, absolute) ==
    IF segment = Here THEN parts
    ELSE IF segment # Up THEN Append(parts, segment)
    ELSE IF parts # <<>> /\ Last(parts) # Up THEN Front(parts)
    ELSE IF absolute THEN parts ELSE Append(parts, Up)

RECURSIVE Resolved(_, _)
Resolved(segments, absolute) ==
    IF segments = <<>> THEN <<>>
    ELSE Entered(Resolved(Front(segments), absolute), Last(segments), absolute)

\* UriPath::parts.
Parts(path) == Resolved(Segments(path), Absolute(path))

\* join_parts and normalize_path_text.
Rendered(parts, absolute) == (IF absolute THEN <<"/">> ELSE <<>>) \o Joined(parts, "/")
Normal(text, absolute) ==
    LET rendered == Rendered(Resolved(Segments(text), absolute), absolute)
    IN IF Len(text) > 1 /\ Ends(text, "/") /\ ~Ends(rendered, "/")
       THEN Append(rendered, "/") ELSE rendered

\* UriPath::joinpath.
JoinPath(path, value) ==
    LET between == IF path = <<>> \/ Ends(path, "/") \/ value = <<>> THEN <<>> ELSE <<"/">>
        text == IF Absolute(value) THEN Normal(value, TRUE)
                ELSE Normal(path \o between \o value, Absolute(path))
    IN IF Component(text, InPath) THEN Hex(text) ELSE Refused

\* UriPath::parent and parents: the parts without the last, again and again.
ParentPaths(path) ==
    LET parts == Parts(path)
    IN [n \in DOMAIN parts |-> Rendered(Upto(parts, Len(parts) - n), Absolute(path))]

FileScheme == <<"file">>
UrnScheme == <<"urn">>

Failed == [failed |-> TRUE]
NoPart == <<>>
SomePart(text) == <<text>>

Uri(scheme, authority, path, marked, query, fragment) ==
    [scheme |-> scheme, authority |-> authority, path |-> path, marked |-> marked,
     query |-> query, fragment |-> fragment]

-----------------------------------------------------------------------------
(* Components.                                                             *)

\* Scheme::from_str, in lower case.
SchemeText(text) ==
    /\ text # <<>> /\ Head(text) \notin Digits \cup {"+", "-", "."}
    /\ \A n \in DOMAIN text :
         \/ text[n] \in {"+", "-", "."}
         \/ Unreserved(text[n]) /\ text[n] \notin {"_", "~"}
SchemeOf(text) == [n \in DOMAIN text |-> LowerCase(text[n])]

\* validate_ip_literal: a version and an address, or IPv6 with a zone.
IpLiteral(text) ==
    IF Starts(text, "v1")
    THEN /\ Len(text) > 2 /\ text[2] = "."
         /\ \A n \in 3..Len(text) : Allowed(text[n], {":"})
    ELSE LET zone == Position(text, {"%25"})
             address == IF zone = 0 THEN text ELSE Upto(text, zone - 1)
         IN /\ address = <<"::1">>
            /\ zone # 0 => After(text, zone) # <<>> /\ Component(After(text, zone), {})
                           /\ ~Has(After(text, zone), Delimiters)

AllDigits(text) == \A n \in DOMAIN text : text[n] \in Digits

\* validate_authority.
AuthorityText(text) ==
    LET at == LastPosition(text, {"@"})
        host == After(text, at)
        close == Position(host, {"]"})
        colon == LastPosition(host, {":"})
    IN /\ Component(text, InAuthority)
       /\ Position(text, {"@"}) = at
       /\ ~Has(Upto(text, at), {"[", "]"})
       /\ text # <<>> => host # <<>>
       /\ IF Starts(host, "[")
          THEN /\ close > 2 /\ IpLiteral(SubSeq(host, 2, close - 1))
               /\ close < Len(host) =>
                     host[close + 1] = ":" /\ AllDigits(After(host, close + 1))
          ELSE /\ ~Has(host, {"[", "]"})
               /\ Position(host, {":"}) = colon
               /\ colon # 0 => colon > 1 /\ AllDigits(After(host, colon))

\* is_windows_drive_absolute.
DriveAbsolute(text) ==
    Len(text) > 2 /\ text[1] \in Letters /\ text[2] = ":" /\ text[3] \in {"/", "\\"}

\* canonicalize_file_drive.
CanonicalDrive(uri) ==
    IF /\ Len(uri.authority) = 2 /\ uri.authority[1] \in Letters /\ uri.authority[2] = ":"
       /\ Absolute(uri.path)
    THEN [uri EXCEPT !.authority = <<>>, !.marked = TRUE,
                     !.path = <<"/", UpperLetter(uri.authority[1]), ":">> \o @]
    ELSE IF DriveAbsolute(uri.path)
    THEN [uri EXCEPT !.marked = TRUE, !.path = <<"/", UpperLetter(@[1])>> \o Tail(@)]
    ELSE IF Absolute(uri.path) /\ DriveAbsolute(Tail(uri.path))
    THEN [uri EXCEPT !.marked = TRUE, !.path = <<"/", UpperLetter(@[2])>> \o After(@, 2)]
    ELSE uri

\* Uri::validate, the checks across components.
Valid(uri) ==
    /\ uri.authority # <<>> => uri.marked
    /\ uri.marked /\ uri.path # <<>> => Absolute(uri.path)
    /\ ~uri.marked => ~(Absolute(uri.path) /\ Absolute(Tail(uri.path)))
    /\ \A n \in DOMAIN uri.query : Component(uri.query[n], InQuery)
    /\ \A n \in DOMAIN uri.fragment : Component(uri.fragment[n], InQuery)

HexPart(part) == [n \in DOMAIN part |-> Hex(part[n])]

\* Mutant: a drive is taken as it was spelt.
FromPartsAsSpelt(uri) ==
    IF Valid(uri)
    THEN [uri EXCEPT !.query = HexPart(@), !.fragment = HexPart(@)]
    ELSE Failed

\* from_parts_with_authority.
FromParts(uri) ==
    LET drive == IF uri.scheme = FileScheme THEN CanonicalDrive(uri) ELSE uri IN
    IF Valid(drive)
    THEN [drive EXCEPT !.query = HexPart(@), !.fragment = HexPart(@)]
    ELSE Failed

-----------------------------------------------------------------------------
(* Platform paths.                                                         *)

Separators == {"/", "\\"}

\* encode_file_path and authority_from_file_server.  A percent escape means
\* nothing in a path: it is the three characters that spell it.
PercentEncoded(text, marks) ==
    FlattenSeq([n \in DOMAIN text |->
        IF text[n] \in Escapes THEN <<"%25", HexDigits[text[n]]>>
        ELSE IF Allowed(text[n], marks) THEN <<text[n]>>
        ELSE <<CHOOSE escape \in DOMAIN Escaped : Escaped[escape] = text[n]>>])
EncodedPath(text) ==
    PercentEncoded([n \in DOMAIN text |-> IF text[n] = "\\" THEN "/" ELSE text[n]], InPath)

Trimmed(text, marks) ==
    LET first == SelectInSeq(text, LAMBDA piece : piece \notin marks)
    IN IF first = 0 THEN <<>> ELSE After(text, first - 1)

Unc(text) ==
    Len(text) > 1 /\ (\/ text[1] = "\\" /\ text[2] = "\\"
                      \/ text[1] = "/" /\ text[2] = "/" /\ ~(Len(text) > 2 /\ text[3] = "/"))

\* The server of \\server\share, and the share below it.
FromUnc(text) ==
    LET separator == Position(text, Separators)
        server == IF separator = 0 THEN text ELSE Upto(text, separator - 1)
        share == IF separator = 0 THEN <<>> ELSE After(text, separator)
        authority == PercentEncoded(server, InAuthority)
    IN IF server = <<>> \/ ~AuthorityText(authority) THEN Failed
       ELSE FromParts(Uri(FileScheme, authority, <<"/">> \o EncodedPath(share), TRUE, NoPart, NoPart))

\* Uri::from_path.
FromPath(text) ==
    IF text = <<>> \/ Has(text, {"newline"}) THEN Failed
    ELSE IF Unc(text) THEN FromUnc(Trimmed(text, Separators))
    ELSE IF Absolute(text)
    THEN FromParts(Uri(FileScheme, <<>>, <<"/">> \o EncodedPath(Trimmed(text, {"/"})), TRUE, NoPart, NoPart))
    ELSE IF DriveAbsolute(text)
    THEN FromParts(Uri(FileScheme, <<>>, <<"/", UpperLetter(text[1])>> \o EncodedPath(Tail(text)),
                       TRUE, NoPart, NoPart))
    ELSE FromParts(Uri(FileScheme, <<>>, EncodedPath(text), FALSE, NoPart, NoPart))

Decoded(text) == [n \in DOMAIN text |-> IF text[n] \in Escapes THEN Escaped[text[n]] ELSE text[n]]

\* decode_file_component.
Decodable(text) ==
    \A n \in DOMAIN text : text[n] \in Escapes =>
        Escaped[text[n]] \notin Separators \cup {"newline", "not UTF-8"}

\* encoded_windows_drive_position.
EncodedDrive(path, decoded) ==
    LET offset == IF DriveAbsolute(decoded) THEN 0 ELSE 1 IN
    /\ DriveAbsolute(After(decoded, offset)) /\ (offset = 1 => Absolute(decoded))
    /\ \E n \in 1..3 : path[offset + n] # decoded[offset + n]

\* validate_file_authority_round_trip.
AuthorityRoundTrips(text) ==
    \A n \in DOMAIN text : text[n] \in Escapes => ~Allowed(Escaped[text[n]], InAuthority)

\* file_path_from_uri.
ToPath(uri) ==
    LET path == Decoded(uri.path) IN
    IF \/ uri.scheme # FileScheme
       \/ uri.path = <<>> /\ uri.authority = <<>>
       \/ uri.query # NoPart \/ uri.fragment # NoPart
       \/ ~Decodable(uri.path) \/ ~Decodable(uri.authority)
       \/ uri.authority = <<>> /\ EncodedDrive(uri.path, path)
       \/ ~AuthorityRoundTrips(uri.authority)
    THEN Refused
    ELSE IF uri.authority # <<>>
    THEN <<"/", "/">> \o Decoded(uri.authority)
            \o (IF Absolute(path) THEN <<>> ELSE <<"/">>) \o path
    ELSE IF Len(path) > 3 /\ Absolute(path) /\ DriveAbsolute(Tail(path)) THEN Tail(path)
    ELSE path

-----------------------------------------------------------------------------
(* Text and structural JSON.                                               *)

\* Display.
Display(uri) ==
    uri.scheme \o <<":">>
    \o (IF uri.marked THEN <<"/", "/">> \o uri.authority ELSE <<>>)
    \o uri.path
    \o FlattenSeq([n \in DOMAIN uri.query |-> <<"?">> \o uri.query[n]])
    \o FlattenSeq([n \in DOMAIN uri.fragment |-> <<"#">> \o uri.fragment[n]])

\* A file: location may spell its separators the other way.
Slashed(text) ==
    LET end == Position(text, {"?", "#"}) IN
    IF Len(text) > 1 /\ LowerCase(text[1]) = "file" /\ text[2] = ":"
    THEN [n \in DOMAIN text |-> IF text[n] = "\\" /\ (end = 0 \/ n < end) THEN "/" ELSE text[n]]
    ELSE text

\* What follows the scheme: a fragment after the first "#", a query before it
\* after the first "?", and an authority after "//".
FromScheme(scheme, text) ==
    LET hash == Position(text, {"#"})
        before == IF hash = 0 THEN text ELSE Upto(text, hash - 1)
        mark == Position(before, {"?"})
        hierarchy == IF mark = 0 THEN before ELSE Upto(before, mark - 1)
        marked == Len(hierarchy) > 1 /\ hierarchy[1] = "/" /\ hierarchy[2] = "/"
        rest == After(hierarchy, 2)
        slash == Position(rest, {"/"})
        end == IF slash = 0 THEN Len(rest) ELSE slash - 1
        authority == IF marked THEN Upto(rest, end) ELSE <<>>
        path == IF marked THEN After(rest, end) ELSE hierarchy
    IN IF AuthorityText(authority) /\ Component(path, InPath)
       THEN FromParts(Uri(scheme, Hex(authority), Hex(path), marked,
                          IF mark = 0 THEN NoPart ELSE SomePart(After(before, mark)),
                          IF hash = 0 THEN NoPart ELSE SomePart(After(text, hash))))
       ELSE Failed

\* Uri::from_str: what has no scheme, or a drive for one, is a platform path.
FromStr(given) ==
    LET text == Slashed(given)
        colon == Position(text, {":"})
    IN IF \/ DriveAbsolute(text)
          \/ Len(text) > 1 /\ text[1] = "\\" /\ text[2] = "\\"
          \/ colon = 0
          \/ Has(Upto(text, colon), {"/"})
       THEN FromPath(text)
       ELSE IF SchemeText(Upto(text, colon - 1))
       THEN FromScheme(SchemeOf(Upto(text, colon - 1)), After(text, colon))
       ELSE Failed

\* Deserialize: every part again by its own rules, and then all together.
FromJson(parts) ==
    IF SchemeText(parts.scheme) /\ AuthorityText(parts.authority) /\ Component(parts.path, InPath)
    THEN FromParts([parts EXCEPT !.scheme = SchemeOf(@), !.authority = Hex(@), !.path = Hex(@)])
    ELSE Failed

-----------------------------------------------------------------------------
(* Locations that must be URLs or URNs.                                    *)

\* Url::from_uri.
ToUrl(uri) ==
    IF /\ uri # Failed
       /\ uri.scheme # UrnScheme
       /\ uri.marked
       /\ uri.scheme = FileScheme \/ uri.authority # <<>>
    THEN uri ELSE Failed

Colon(path) == Position(path, {":"})
Namespace(path) == Upto(path, Colon(path) - 1)
NamespaceSpecific(path) == After(path, Colon(path))

\* validate_namespace: at least two characters, alphanumeric but for hyphens.
NamespaceText(text) ==
    LET Alphanumeric(piece) == Unreserved(piece) /\ piece \notin {"-", ".", "_", "~"}
    IN /\ text # <<>> /\ text # <<"urn">>
       /\ Len(text) > 1 \/ text[1] \notin Letters \cup Digits
       /\ Alphanumeric(Head(text)) /\ Alphanumeric(Last(text))
       /\ \A n \in DOMAIN text : Alphanumeric(text[n]) \/ text[n] = "-"

\* validate_urn_query: a resolution, a query after its own marker, or both.
UrnQuery(text) ==
    LET Marker(n, piece) == n < Len(text) /\ text[n] = "?" /\ text[n + 1] = piece
        split == {n \in 2..Len(text) : Marker(n, "=")}
    IN /\ Len(text) > 1
       /\ \A n \in 2..Len(text) : ~Marker(n, "+")
       /\ \/ text[1] = "=" /\ split = {}
          \/ /\ text[1] = "+"
             /\ \A n \in split : split = {n} /\ n > 2 /\ n + 1 < Len(text)

\* Urn::from_uri.
ToUrn(uri) ==
    IF /\ uri # Failed
       /\ uri.scheme = UrnScheme /\ ~uri.marked
       /\ Colon(uri.path) # 0 /\ NamespaceText(Namespace(uri.path))
       /\ NamespaceSpecific(uri.path) # <<>>
       /\ \A n \in DOMAIN uri.query : UrnQuery(uri.query[n])
    THEN [uri EXCEPT !.path = SchemeOf(Namespace(@)) \o <<":">> \o NamespaceSpecific(@)]
    ELSE Failed

As(view, uri) ==
    IF uri = Failed THEN Failed
    ELSE CASE view = "uri" -> uri [] view = "url" -> ToUrl(uri) [] view = "urn" -> ToUrn(uri)

=============================================================================

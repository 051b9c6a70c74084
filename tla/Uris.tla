--------------------------------- MODULE Uris ---------------------------------
(***************************************************************************)
(* File names on their way between the editor and the server: AbsolutePath *)
(* and lsDocumentUri (lsp.cpp), Uri (uri.cpp), path normalisation          *)
(* (utils.cpp) and PathMapping (path_mapping.cpp), as built for POSIX.     *)
(*                                                                         *)
(* A string is a sequence of characters; "localhost", whose letters are    *)
(* only compared as a word, counts as one.  A behaviour builds a path      *)
(* character by character, and the property looks at each.                 *)
(***************************************************************************)
EXTENDS Integers, Sequences, SequencesExt

CONSTANTS
    PathChars,    \* characters of paths
    MaxPath,      \* length of a path
    Mapping       \* the entries of a PathMapping, [client, server] in order

VARIABLE path

\* The two hexadecimal digits of the characters that are not unreserved.
Hex ==
    [c \in {":", "%", " ", "?", "#", "/"} |->
        CASE c = ":" -> <<"3", "A">> [] c = "%" -> <<"2", "5">>
          [] c = " " -> <<"2", "0">> [] c = "?" -> <<"3", "F">>
          [] c = "#" -> <<"2", "3">> [] OTHER -> <<"2", "F">>]

HexDigits == {"0", "2", "3", "5", "A", "F", "a"}

\* The byte of two digits; "*" stands for the ones no path here is made of.
Byte(hi, lo) ==
    IF \E c \in DOMAIN Hex : Hex[c] = <<hi, lo>>
    THEN CHOOSE c \in DOMAIN Hex : Hex[c] = <<hi, lo>> ELSE "*"

EncodeByte(c, safe) ==
    IF c \in DOMAIN Hex \ safe THEN <<"%", Hex[c][1], Hex[c][2]>> ELSE <<c>>

\* The encoding of the first i characters, for every i.
Encodings(s, safe) ==
    LET upTo[i \in 0..Len(s)] ==
          IF i = 0 THEN <<>> ELSE upTo[i - 1] \o EncodeByte(s[i], safe)
    IN upTo
PercentEncode(s, safe) == Encodings(s, safe)[Len(s)]

PercentEncodeFilePath(s) == PercentEncode(s, {"/"})
PercentEncodeTestPath(s) == PercentEncode(s, {"/", ":"})
percent_encode_uri_component(s) == PercentEncode(s, {})

NormalizePathSeparators(s) ==
    [i \in DOMAIN s |-> IF s[i] = "\\" THEN "/" ELSE s[i]]

IsEscape(s, i) ==
    s[i] = "%" /\ i + 2 <= Len(s) /\ s[i + 1] \in HexDigits /\ s[i + 2] \in HexDigits

\* One round of the loop over the characters, and the loop as a function of the
\* number of its rounds; a round after its end changes nothing.
DecodeRound(s, d) ==
    IF d.at >= Len(s) THEN d
    ELSE IF IsEscape(s, d.at + 1)
    THEN [at |-> d.at + 3, out |-> Append(d.out, Byte(s[d.at + 2], s[d.at + 3]))]
    ELSE [at |-> d.at + 1, out |-> Append(d.out, s[d.at + 1])]

Decodings(s) ==
    LET after[k \in 0..Len(s)] ==
          IF k = 0 THEN [at |-> 0, out |-> <<>>] ELSE DecodeRound(s, after[k - 1])
    IN after

\* PercentDecodeFilePath turns a backslash it copies, not one it decodes, into
\* a slash.
percent_decode_uri_component(s) == Decodings(s)[Len(s)].out
PercentDecodeFilePath(s) == percent_decode_uri_component(NormalizePathSeparators(s))

-----------------------------------------------------------------------------
(* Paths *)

Letters == {"a", "A", "F"}
IsWindowsDrivePath(p) == Len(p) >= 2 /\ p[2] = ":" /\ p[1] \in Letters
IsAbsoluteFilePath(p) == (p # <<>> /\ p[1] = "/") \/ IsWindowsDrivePath(p)

LastSlash(p) ==
    LET slashes == {i \in DOMAIN p : p[i] = "/"}
    IN IF slashes = {} THEN 0 ELSE CHOOSE i \in slashes : \A j \in slashes : j <= i

Slashed(p) == IF Last(p) # "/" THEN Append(p, "/") ELSE p

\* One round of RealPathNotExpandSymlink: "." and an empty token are skipped,
\* ".." strips a component.
Resolve(resolved, token) ==
    LET r == Slashed(resolved)
    IN IF token \in {<<>>, <<".">>} THEN r
       ELSE IF token # <<".", ".">> THEN r \o token
       ELSE IF Len(r) > 1 THEN SubSeq(r, 1, LastSlash(SubSeq(r, 1, Len(r) - 1))) ELSE r

\* What is resolved and the token begun after the first i characters behind the
\* root, for every i: a slash ends a token.
Scan(d, c) ==
    IF c = "/" THEN [resolved |-> Resolve(d.resolved, d.token), token |-> <<>>]
    ELSE [resolved |-> d.resolved, token |-> Append(d.token, c)]

Scans(root, s) ==
    LET after[i \in 0..Len(s)] ==
          IF i = 0 THEN [resolved |-> root, token |-> <<>>] ELSE Scan(after[i - 1], s[i])
    IN after

IsShare(p) == Len(p) >= 2 /\ p[1] = "/" /\ p[2] = "/" /\ (Len(p) = 2 \/ p[3] # "/")

\* NormalizePath of a path that begins with a slash; exactly two slashes at the
\* beginning are kept.  The empty path is the invalid one.
NormalizePath(p) ==
    IF p = <<>> THEN <<>>
    ELSE LET root == IF IsShare(p) THEN <<"/", "/">> ELSE <<"/">>
             rest == SubSeq(p, Len(root) + 1, Len(p))
             last == Scans(root, rest)[Len(rest)]
             done == Resolve(last.resolved, last.token)
         IN IF Len(done) > 1 /\ Last(done) = "/" THEN Front(done) ELSE done

GetDirName(p) ==
    LET q == IF Len(p) > 1 /\ Last(p) = "/" THEN Front(p) ELSE p
    IN IF p = <<"/">> THEN p
       ELSE IF LastSlash(q) = 0 THEN <<".", "/">> ELSE SubSeq(q, 1, LastSlash(q))

GetBaseName(p) ==
    IF LastSlash(p) # 0 /\ LastSlash(p) < Len(p)
    THEN SubSeq(p, LastSlash(p) + 1, Len(p)) ELSE p

-----------------------------------------------------------------------------
(* URIs.  A file URI is what follows "file:"; a test URI what follows
   "test://". *)

\* MakeFileUriFromPath, lsDocumentUri::SetPath.
MakeFileUriFromPath(p) ==
    LET q == NormalizePathSeparators(p)
        absolute == IF IsAbsoluteFilePath(q) THEN q ELSE <<"/">> \o q
        encoded == PercentEncodeFilePath(absolute)
    IN IF IsWindowsDrivePath(absolute) THEN <<"/", "/", "/">> \o encoded
       ELSE IF IsPrefix(<<"/", "/">>, encoded) THEN encoded
       ELSE <<"/", "/">> \o encoded

First(s, chars) ==
    LET found == {i \in DOMAIN s : s[i] \in chars}
    IN IF found = {} THEN Len(s) + 1 ELSE CHOOSE i \in found : \A j \in found : i <= j

StripUriPathSuffix(s) == SubSeq(s, 1, First(s, {"?", "#"}) - 1)

\* Fault: the authority of a share is taken for a host and left out.
RawPathWithoutAuthority(uri) ==
    LET rest == SubSeq(uri, 3, Len(uri))
    IN PercentDecodeFilePath(StripUriPathSuffix(
           SubSeq(rest, First(rest, {"/", "?", "#"}), Len(rest))))

\* RawPathFromFileUri: an authority other than localhost becomes a share.
RawPathFromFileUri(uri) ==
    LET rest == SubSeq(uri, 3, Len(uri))
        authority == SubSeq(rest, 1, First(rest, {"/", "?", "#"}) - 1)
        p == StripUriPathSuffix(SubSeq(rest, Len(authority) + 1, Len(rest)))
    IN IF authority \in {<<>>, <<"localhost">>} THEN PercentDecodeFilePath(p)
       ELSE PercentDecodeFilePath(<<"/", "/">> \o authority \o p)

GetAbsolutePath(uri) == NormalizePath(RawPathFromFileUri(uri))

\* The slashes at the beginning are left out.
NormalizeTestPath(p) ==
    LET q == NormalizePathSeparators(p)
        skipped == {i \in 0..Len(q) : \A j \in 1..i : q[j] = "/"}
    IN SubSeq(q, Max(skipped) + 1, Len(q))

from_test_path(p) == <<"/">> \o PercentEncodeTestPath(NormalizeTestPath(p))

\* to_absolute_path of a test URI.
TestToAbsolutePath(body) ==
    LET p == percent_decode_uri_component(body)
    IN NormalizePath(IF p = <<>> \/ p[1] # "/" THEN <<"/">> \o p ELSE p)

-----------------------------------------------------------------------------
(* PathMapping *)

MatchesPathPrefix(value, prefix) ==
    /\ IsPrefix(prefix, value)
    /\ \/ value = prefix
       \/ prefix # <<>> /\ (Last(prefix) \in {"/", "\\"} \/ value[Len(prefix) + 1] \in {"/", "\\"})

RemapPrefix(value, from, to) ==
    IF MatchesPathPrefix(value, from)
    THEN to \o SubSeq(value, Len(from) + 1, Len(value)) ELSE value

\* The first entry that changes the path.
Remapped(value, from, to) ==
    LET changing == {i \in DOMAIN Mapping : RemapPrefix(value, from[i], to[i]) # value}
    IN IF changing = {} THEN value
       ELSE RemapPrefix(value, from[Min(changing)], to[Min(changing)])

Client == [i \in DOMAIN Mapping |-> Mapping[i].client]
Server == [i \in DOMAIN Mapping |-> Mapping[i].server]
client_to_server(p) == Remapped(p, Client, Server)
server_to_client(p) == Remapped(p, Server, Client)

\* remap_uri_to_server and remap_uri_to_client.
remap_uri_to_server(uri) == MakeFileUriFromPath(client_to_server(RawPathFromFileUri(uri)))
remap_uri_to_client(p) == MakeFileUriFromPath(server_to_client(p))

-----------------------------------------------------------------------------
UriInit == path = <<"/">>

Type(c) == Len(path) < MaxPath /\ path' = Append(path, c)

UriNext == \E c \in PathChars : Type(c)

UriSpec == UriInit /\ [][UriNext]_path

-----------------------------------------------------------------------------
(* Assumption on the constants: a backslash is no character of a path, as it
   is taken for a separator; mapped directories are absolute, neither the root
   nor a share; the server's ends in a slash where the client's does, as
   otherwise the remapped path runs the two names together; and no server
   directory lies in another. *)

UriChars == PathChars \cup {"/"}
PlainDirectory(p) == Len(p) > 1 /\ p[1] = "/" /\ p[2] # "/"

ASSUME UriAssumption ==
    /\ "\\" \notin PathChars
    /\ Mapping \in Seq([client : Seq(UriChars), server : Seq(UriChars)])
    /\ \A i \in DOMAIN Mapping : PlainDirectory(Mapping[i].client) /\ PlainDirectory(Mapping[i].server)
    /\ \A i \in DOMAIN Mapping : Last(Mapping[i].client) = "/" => Last(Mapping[i].server) = "/"
    /\ \A i, j \in DOMAIN Mapping :
          i # j => ~MatchesPathPrefix(Mapping[i].server, Mapping[j].server)

-----------------------------------------------------------------------------
(* Properties *)

\* A share of localhost, and the root of all shares, are not kept.
KeptByUris(p) == p # <<"/", "/">> /\ ~IsPrefix(<<"/", "/", "localhost">>, p)

Mapped(p) == \E i \in DOMAIN Mapping : MatchesPathPrefix(p, Mapping[i].client)

\* A path the server has made absolute survives the way to the editor and back
\* in a file URI, in a test URI and in a component, with characters that are
\* escaped and names that look like escapes; so does one under a mapped
\* directory on its way through the mapping; normalising it again changes
\* nothing, and directory and name make up the path.
PathsComeBack ==
    LET p == NormalizePath(path)
        uri == MakeFileUriFromPath(p)
    IN /\ NormalizePath(p) = p
       /\ KeptByUris(p) => GetAbsolutePath(uri) = p
       /\ ~IsShare(p) => TestToAbsolutePath(from_test_path(p)) = p
       /\ percent_decode_uri_component(percent_encode_uri_component(path)) = path
       /\ Len(p) > 1 /\ Last(p) # "/" => GetDirName(p) \o GetBaseName(p) = p
       /\ Mapped(p) => remap_uri_to_client(RawPathFromFileUri(remap_uri_to_server(uri))) = uri
=============================================================================

------------------------------ MODULE MCFileList ------------------------------
(* Instances of FileList for TLC, and the codecs over bounded inputs. *)
EXTENDS FileList

\* " a", "%41", "A" and "a/", which is refused
FourNames == {<<32, 97>>, <<37, 52, 49>>, <<65>>, <<97, 47>>}

\* The first two files are of one size.
TwoSizes == [n \in FourNames |-> IF n = <<65>> THEN 2 ELSE 1]

ByBytes == [n \in FourNames |-> 1000 * n[1] + Len(n)]

\* "s/"
OneDir == <<115, 47>>

\* none, "A", "%4" and, longer than is read, "'&+<"
FourKeywords == {<<>>, <<65>>, <<37, 52>>, <<39, 38, 43, 60>>}

OneOrTwo == <<2, 1>>

\* "z=3&p=9&q=a+", "p=%zz", "z=-1&&s=sd"
ThreeUrls == {<<122, 61, 51, 38, 112, 61, 57, 38, 113, 61, 97, 43>>,
              <<112, 61, 37, 122, 122>>,
              <<122, 61, 45, 49, 38, 38, 115, 61, 115, 100>>}

\* Bytes of every class the codecs tell apart.
Bytes == {0, 32, 37, 39, 38, 43, 47, 52, 61, 65, 92, 127, 128, 255}
Short == UNION {[1 .. n -> Bytes] : n \in 0 .. 3}

\* What is encoded is decoded to itself: names in links, keywords in links and
\* in the form, names in headers, keywords in the search box.
ASSUME CodecsInvert ==
  \A s \in Short :
    /\ UrlDecode(UrlEncodePathSegment(s)) = {s}
    /\ DecodeQueryValue(UrlEncodePathSegment(s)) = {s}
    /\ DecodeQueryValue(FormValue(s)) = {s}
    /\ Base64Decode(Base64Encode(s)) = {s}
    /\ AttributeValue(HtmlEscape(s)) = s

\* The bytes of a link or of a list query are none that end it.
ASSUME EncodedBytes ==
  \A s \in Short : Range(UrlEncodePathSegment(s)) \subseteq Letters \cup Digits \cup {37, 45, 95, 46}

\* No encoding reads back a name of more than one path component.
ASSUME SafeNames ==
  \A s \in Short : IsSafeFileName(s) => FileName(OneDir \o s) = s

\* The keywords above, what is read of the long one, and that of the first url.
Texts == FourKeywords \cup {<<39, 38, 43>>, <<97, 32>>}

\* What the proofs assume of the codecs.
ASSUME CodecsReadBack == QueriesReadBack(Texts) /\ NamesReadBack
=============================================================================

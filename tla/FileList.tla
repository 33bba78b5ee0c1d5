------------------------------- MODULE FileList -------------------------------
(***************************************************************************)
(* The page that lists the stored files, and a visitor who searches, turns *)
(* pages and deletes from it while other clients upload and delete:        *)
(* ListHandler.hpp, PageRender.hpp, the list query of                      *)
(* MysqlMetadataStore.hpp, and the names in the links of the page.  The    *)
(* table is the set of its rows; how it is kept is the matter of Service.  *)
(***************************************************************************)
EXTENDS HttpCodec

CONSTANTS
  Names,         \* the file names clients use
  SizeOf,        \* the size of the file of each name
  Rank,          \* the order of names under MySQL's collation
  Dir,           \* the storage directory
  Keywords,      \* what visitors search for
  FormSizes,     \* page sizes the form offers, the preselected one first
  MaxPageSize, MaxKeyword,
  Urls,          \* queries visitors may type
  MaxTime        \* bound: seconds at which files are uploaded

ASSUME ListAssumption ==
  /\ IsFiniteSet(Names)
  /\ SizeOf \in [Names -> Nat] /\ Rank \in [Names -> Nat]
  /\ \A m, n \in Names : Rank[m] = Rank[n] => m = n
  /\ Names \subseteq Seq(Byte) /\ Dir \in Seq(Byte) \ {<<>>} /\ Last(Dir) = Slash
  /\ 1 \in DOMAIN FormSizes /\ Range(FormSizes) \subseteq 1 .. MaxPageSize
  \* regex_replace, which puts the list into the page, has its own use for $
  /\ \A s \in Names \cup Keywords : ~Contains(s, Dollar)
  /\ MaxPageSize \in Nat \ {0} /\ MaxKeyword \in Nat /\ MaxTime \in Nat

VARIABLES
  rows,    \* the upload time of each stored name
  now,     \* the time in seconds
  wanted,  \* the keyword, the sort and the page size the visitor has asked for
  shown,   \* the page the visitor looks at, of which url is the query, or Blank
  walk     \* what the visitor saw turning pages from the first one on

listVars == <<rows, now, wanted, shown, walk>>

\* "upload-desc" and so on, by their initials
UploadDesc == <<117, 100>>
UploadAsc == <<117, 97>>
NameAsc == <<110, 97>>
NameDesc == <<110, 100>>
SizeAsc == <<115, 97>>
SizeDesc == <<115, 100>>
Sorts == {UploadDesc, UploadAsc, NameAsc, NameDesc, SizeAsc, SizeDesc}

\* "page", "page_size", "q", "sort"
PageParam == <<112>>
SizeParam == <<122>>
KeywordParam == <<113>>
SortParam == <<115>>

DefaultQuery == [keyword |-> <<>>, sort |-> UploadDesc, size |-> FormSizes[1]]

Blank == [url |-> <<>>, query |-> DefaultQuery, page |-> 0, pages |-> 0, files |-> <<>>]

\* A walk in progress saw the names seen; it ought to see those of due.
NoWalk == [on |-> FALSE, due |-> {}, seen |-> {}]

ListInit ==
  /\ rows = [n \in {} |-> 0]
  /\ now = 0
  /\ wanted = DefaultQuery
  /\ shown = Blank
  /\ walk = NoWalk
-----------------------------------------------------------------------------
LowerCase(b) == IF b \in 65 .. 90 THEN b + 32 ELSE b

\* MySQL's LIKE: % and _ stand for others, a backslash for the next byte, and
\* case does not matter.
Like(text, pattern) ==
  LET p == [i \in DOMAIN pattern |-> LowerCase(pattern[i])]
      t == [i \in DOMAIN text |-> LowerCase(text[i])]
      m[i \in 1 .. Len(p) + 2, j \in 1 .. Len(t) + 1] ==
        IF i > Len(p) THEN j > Len(t)
        ELSE IF p[i] = Percent THEN m[i + 1, j] \/ (j <= Len(t) /\ m[i, j + 1])
        ELSE /\ j <= Len(t)
             /\ IF p[i] = Backslash /\ i < Len(p) THEN p[i + 1] = t[j] /\ m[i + 2, j + 1]
                ELSE p[i] \in {95, t[j]} /\ m[i + 1, j + 1]
  IN  m[1, 1]

\* ListWhereSql: the keyword is looked for in the storage path.
Matching(keyword) ==
  {n \in DOMAIN rows :
     keyword = <<>> \/ Like(Dir \o n, <<Percent>> \o keyword \o <<Percent>>)}

\* Fault: rows that agree in the column come in any order.
ColumnOnly(sort, m, n) ==
  CASE sort = NameAsc -> Rank[m] < Rank[n]
    [] sort = NameDesc -> Rank[m] > Rank[n]
    [] sort = SizeAsc -> SizeOf[m] < SizeOf[n]
    [] sort = SizeDesc -> SizeOf[m] > SizeOf[n]
    [] sort = UploadAsc -> rows[m] < rows[n]
    [] sort = UploadDesc -> rows[m] > rows[n]
\* ListOrderBySql: the url decides between rows that agree in the column.
Before(sort, m, n) ==
  LET tie == Rank[m] < Rank[n]
  IN  CASE sort = NameAsc -> Rank[m] < Rank[n]
        [] sort = NameDesc -> Rank[m] > Rank[n]
        [] sort = SizeAsc -> SizeOf[m] < SizeOf[n] \/ (SizeOf[m] = SizeOf[n] /\ tie)
        [] sort = SizeDesc -> SizeOf[m] > SizeOf[n] \/ (SizeOf[m] = SizeOf[n] /\ tie)
        [] sort = UploadAsc -> rows[m] < rows[n] \/ (rows[m] = rows[n] /\ tie)
        [] sort = UploadDesc -> rows[m] > rows[n] \/ (rows[m] = rows[n] /\ tie)

\* The orders MySQL may return them in.
Orderings(sort, names) ==
  {s \in SetToSeqs(names) : \A i, j \in DOMAIN s : i < j => ~Before(sort, s[j], s[i])}

\* Fault: rounds down.
PageCountFloor(total, size) == Max({1, total \div size})
PageCount(total, size) == IF total = 0 THEN 1 ELSE (total + size - 1) \div size

\* As much of a keyword as is read.
Cut(keyword) == SubSeq(keyword, 1, Min({Len(keyword), MaxKeyword}))

\* What ParseListQuery takes from the parameters, page included.
ListQuery(params) ==
  LET number(key, default) ==
        IF key \notin DOMAIN params \/ ParseSizeValue(params[key]) = {} THEN default
        ELSE CHOOSE n \in ParseSizeValue(params[key]) : TRUE
      keyword == IF KeywordParam \in DOMAIN params THEN params[KeywordParam] ELSE <<>>
      sort == IF SortParam \in DOMAIN params THEN params[SortParam] ELSE UploadDesc
  IN  [page |-> number(PageParam, 1),
       query |-> [keyword |-> Cut(keyword),
                  sort |-> IF sort \in Sorts THEN sort ELSE UploadDesc,
                  size |-> Min({MaxPageSize, number(SizeParam, FormSizes[1])})]]

\* The first row of a page, counted from 0.
Offset(page, size) == (page - 1) * size

\* The pages url may be answered with: the rows of the last page at most, in an
\* order the query leaves.  None if url cannot be decoded.
PageOf(url, asked, order) ==
  LET size  == asked.query.size
      pages == PageCount(Len(order), size)
      page  == Min({asked.page, pages})
      skip  == Offset(page, size)
  IN  [url |-> url, query |-> asked.query, page |-> page, pages |-> pages,
       files |-> SubSeq(order, skip + 1, Min({Len(order), skip + size}))]

Handle(url) ==
  UNION {LET asked == ListQuery(params)
         IN  {PageOf(url, asked, order) :
                order \in Orderings(asked.query.sort, Matching(asked.query.keyword))} :
         params \in ParseQueryParams(url)}
-----------------------------------------------------------------------------
Parameter(key, value) == key \o <<Equals>> \o value

Joined(parameters) ==
  FoldLeft(LAMBDA url, p : IF url = <<>> THEN p ELSE url \o <<Ampersand>> \o p, <<>>, parameters)

BuildPageLink(page, query) ==
  Joined(<<Parameter(PageParam, Decimal(page)), Parameter(SizeParam, Decimal(query.size))>> \o
         (IF query.keyword = <<>> THEN <<>>
          ELSE <<Parameter(KeywordParam, UrlEncodePathSegment(query.keyword))>>) \o
         (IF query.sort = UploadDesc THEN <<>>
          ELSE <<Parameter(SortParam, UrlEncodePathSegment(query.sort))>>))

\* What a browser sends for the form of the page.
FormCode ==
  [b \in Byte |-> IF b = Space THEN <<Plus>>
                  ELSE IF b \in Digits \cup Letters \cup {42, 45, 95, Dot} THEN <<b>>
                  ELSE PercentCode(b)]

FormValue(s) == Encoded(s, FormCode)

FileTools(query) ==
  Joined(<<Parameter(PageParam, Decimal(1)),
           Parameter(KeywordParam, FormValue(query.keyword)),
           Parameter(SortParam, FormValue(query.sort)),
           Parameter(SizeParam, FormValue(Decimal(query.size)))>>)

\* Fault: the keyword is put into the search box as it is.
PresetUnescaped(page) ==
  [keyword |-> AttributeValue(page.query.keyword),
   sort    |-> page.query.sort,
   size    |-> IF page.query.size \in Range(FormSizes) THEN page.query.size ELSE FormSizes[1]]
\* What the form holds before the visitor touches it; a page size that is no
\* option of it gives way to the first.
Preset(page) ==
  [keyword |-> AttributeValue(HtmlEscape(page.query.keyword)),
   sort    |-> page.query.sort,
   size    |-> IF page.query.size \in Range(FormSizes) THEN page.query.size ELSE FormSizes[1]]

FileName(path) ==
  IF Contains(path, Slash) THEN SubSeq(path, SelectLastInSeq(path, LAMBDA b : b = Slash) + 1, Len(path))
  ELSE path

\* Fault: the name is put into the links as it is.
LinkTargetPlain(n) == {t \in UrlDecode(FileName(Dir \o n)) : IsSafeFileName(t)}
\* The names the handlers read in the links of the row of n.
LinkTarget(n) ==
  {t \in UrlDecode(UrlEncodePathSegment(FileName(Dir \o n))) : IsSafeFileName(t)}

\* The names the handlers read in the FileName header of an upload of n.
HeaderTarget(n) == {t \in Base64Decode(Base64Encode(n)) : IsSafeFileName(t)}
-----------------------------------------------------------------------------
\* The visitor asks for url and is shown the answer, first of a walk or not.
Show(url, first) ==
  \E page \in Handle(url) :
    /\ shown' = page
    /\ walk' = IF first
               THEN [on |-> TRUE, due |-> Matching(page.query.keyword), seen |-> Range(page.files)]
               ELSE [walk EXCEPT !.seen = @ \cup Range(page.files)]
    /\ UNCHANGED <<rows, now>>

\* The query of url counts as what the visitor wants, whatever the page.
TypeUrl(url) ==
  \E page \in Handle(url) :
    /\ shown' = page
    /\ wanted' = page.query
    /\ walk' = NoWalk
    /\ UNCHANGED <<rows, now>>

\* "/", also the form's reset link
Open ==
  /\ Show(<<>>, TRUE)
  /\ wanted' = DefaultQuery

Submit(query) ==
  /\ shown # Blank
  /\ Show(FileTools(query), TRUE)

\* The visitor types a keyword and submits ...
Search(keyword) ==
  /\ Submit([Preset(shown) EXCEPT !.keyword = keyword])
  /\ wanted' = [keyword |-> keyword, sort |-> wanted.sort, size |-> Preset(shown).size]

\* ... or picks another sort, or another size, which submits the form.
Resort(sort) ==
  /\ Submit([Preset(shown) EXCEPT !.sort = sort])
  /\ wanted' = [wanted EXCEPT !.sort = sort, !.size = Preset(shown).size]

Resize(size) ==
  /\ Submit([Preset(shown) EXCEPT !.size = size])
  /\ wanted' = [wanted EXCEPT !.size = size]

Turn(page) ==
  /\ page \in 1 .. shown.pages
  /\ Show(BuildPageLink(page, shown.query), FALSE)
  /\ UNCHANGED wanted

FollowPrevious == Turn(shown.page - 1)

FollowNext == Turn(shown.page + 1)

\* By hand, or 300 ms after an upload or a delete from this page.
Reload ==
  /\ shown # Blank
  /\ Show(shown.url, FALSE)
  /\ UNCHANGED wanted

\* The delete button of a file shown, which may be gone by now.
DeleteShown ==
  \E n \in Range(shown.files) : \E t \in LinkTarget(n) :
    /\ t \in DOMAIN rows
    /\ rows' = Restrict(rows, DOMAIN rows \ {t})
    /\ walk' = NoWalk
    /\ UNCHANGED <<now, wanted, shown>>

\* An upload by anyone; a name that is taken is refused.
UploadFile(n) ==
  \E t \in HeaderTarget(n) :
    /\ t \notin DOMAIN rows
    /\ rows' = [u \in DOMAIN rows \cup {t} |-> IF u = t THEN now ELSE rows[u]]
    /\ UNCHANGED <<now, wanted, shown, walk>>

DeleteByAnother(n) ==
  /\ n \in DOMAIN rows
  /\ rows' = Restrict(rows, DOMAIN rows \ {n})
  /\ walk' = NoWalk
  /\ UNCHANGED <<now, wanted, shown>>

Tick ==
  /\ now < MaxTime
  /\ now' = now + 1
  /\ UNCHANGED <<rows, wanted, shown, walk>>

ListNext ==
  \/ Open \/ FollowPrevious \/ FollowNext \/ Reload \/ DeleteShown \/ Tick
  \/ \E url \in Urls : TypeUrl(url)
  \/ \E keyword \in Keywords : Search(keyword)
  \/ \E sort \in Sorts : Resort(sort)
  \/ \E size \in Range(FormSizes) : Resize(size)
  \/ \E n \in Names : UploadFile(n) \/ DeleteByAnother(n)

ListSpec == ListInit /\ [][ListNext]_listVars
-----------------------------------------------------------------------------
\* A visitor who turns the pages from the first to the last has seen every file
\* that matched at the start and still exists, though others upload meanwhile:
\* the order MySQL is asked for is total, and the pages cover it.
WalkMissesNothing ==
  walk.on /\ shown.page = shown.pages => walk.due \subseteq walk.seen

\* The keyword (as much of it as is read), the sort and the page size survive
\* the links, the search box and the form: each page shown answers what the
\* visitor asked for last.
QueryKept ==
  shown # Blank =>
    shown.query = [wanted EXCEPT !.keyword = Cut(@)]

\* A file is stored under the very name its client sent in base64, and the links
\* in its row of the page lead to it and to no other.
LinksLeadBack ==
  /\ DOMAIN rows \subseteq Names
  /\ \A n \in Range(shown.files) : LinkTarget(n) = {n}
-----------------------------------------------------------------------------
\* The queries a page may show when keywords are among texts.
Queries(texts) == [keyword : {Cut(t) : t \in texts}, sort : Sorts, size : 1 .. MaxPageSize]

\* What the proofs take from the codecs, for keywords among texts: the search box
\* keeps a keyword, and the page's address without a query, its form and its
\* paging links are read as they were meant; a query typed by hand is one of those.
QueriesReadBack(texts) ==
  /\ <<>> \in texts /\ Keywords \subseteq texts
  /\ \A t \in texts : /\ Cut(t) \in texts /\ Cut(Cut(t)) = Cut(t)
                      /\ AttributeValue(HtmlEscape(Cut(t))) = Cut(t)
  /\ \A params \in ParseQueryParams(<<>>) :
       ListQuery(params) = [page |-> 1, query |-> DefaultQuery]
  /\ \A query \in [keyword : texts, sort : Sorts, size : Range(FormSizes)] :
       \A params \in ParseQueryParams(FileTools(query)) :
         ListQuery(params) = [page |-> 1, query |-> [query EXCEPT !.keyword = Cut(@)]]
  /\ \A query \in Queries(texts), page \in 1 .. Cardinality(Names) + 1 :
       \A params \in ParseQueryParams(BuildPageLink(page, query)) :
         ListQuery(params) = [page |-> page, query |-> query]
  /\ \A url \in Urls : \A params \in ParseQueryParams(url) :
       ListQuery(params) \in [page : Nat \ {0}, query : Queries(texts)]

\* And for the names: a header is read as the name it was made from, and what a
\* link has of a name that is accepted as that name.
NamesReadBack ==
  \A n \in Names : /\ Base64Decode(Base64Encode(n)) \subseteq {n}
                   /\ IsSafeFileName(n) => UrlDecode(UrlEncodePathSegment(n)) = {n}
=============================================================================

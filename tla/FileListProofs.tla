----------------------------- MODULE FileListProofs -----------------------------
(***************************************************************************)
(* Proofs about FileList: the pages of the list, for any number of files,  *)
(* page sizes, keywords and sorts.                                         *)
(***************************************************************************)
EXTENDS FileList, FiniteSetTheorems, FunctionTheorems, SequenceTheorems, TLAPS

LEMMA MinOfTwo ==
  ASSUME NEW a \in Int, NEW b \in Int
  PROVE  Min({a, b}) = IF a <= b THEN a ELSE b
  BY DEF Min

LEMMA ProductGrows ==
  ASSUME NEW a \in Nat, NEW b \in Nat, NEW c \in Nat, a <= b
  PROVE  a * c <= b * c
<1> DEFINE d == b - a
<1>1. d \in Nat /\ b = a + d
  OBVIOUS
<1>2. d * c \in Nat
  BY <1>1
<1>3. b * c = a * c + d * c
  BY <1>1
<1> QED BY <1>2, <1>3

\* The pages hold all rows, and more rows make no fewer pages.
LEMMA PagesHoldAll ==
  ASSUME NEW total \in Nat, NEW size \in Nat \ {0}
  PROVE  /\ PageCount(total, size) \in Nat \ {0}
         /\ total <= PageCount(total, size) * size
         /\ total > 0 => PageCount(total, size) * size < total + size
<1> DEFINE q == (total + size - 1) \div size
<1>1. CASE total = 0
  BY <1>1 DEF PageCount
<1>2. CASE total > 0
  <2>1. PageCount(total, size) = q
    BY <1>2 DEF PageCount
  <2>2. q \in Nat /\ q * size <= total + size - 1 /\ total + size - 1 < q * size + size
    OBVIOUS
  <2>3. q * size >= total
    BY <2>2
  <2>4. q # 0
    BY <2>3, <1>2
  <2> QED BY <2>1, <2>2, <2>3, <2>4, <1>2
<1> QED BY <1>1, <1>2

LEMMA PagesGrow ==
  ASSUME NEW t1 \in Nat, NEW t2 \in Nat, NEW size \in Nat \ {0}, t1 <= t2
  PROVE  PageCount(t1, size) <= PageCount(t2, size)
<1> DEFINE p == PageCount(t1, size)
           q == PageCount(t2, size)
<1>1. p \in Nat \ {0} /\ q \in Nat \ {0}
  BY PagesHoldAll
<1>2. CASE t1 = 0
  BY <1>1, <1>2 DEF PageCount
<1>3. CASE t1 > 0
  <2>1. p * size < t1 + size /\ t2 <= q * size
    BY <1>3, PagesHoldAll
  <2> HIDE DEF p, q
  <2>2. ASSUME q + 1 <= p PROVE FALSE
    <3>1. (q + 1) * size <= p * size
      BY <2>2, <1>1, ProductGrows
    <3>2. (q + 1) * size = q * size + size
      BY <1>1
    <3>3. q * size \in Nat /\ p * size \in Nat
      BY <1>1
    <3> QED BY <3>1, <3>2, <3>3, <2>1
  <2>3. p <= q
    BY <2>2, <1>1
  <2> QED BY <2>3 DEF p, q
<1> QED BY <1>2, <1>3

LEMMA PagesFew ==
  ASSUME NEW total \in Nat, NEW size \in Nat \ {0}
  PROVE  PageCount(total, size) <= total + 1
<1> DEFINE q == PageCount(total, size)
<1>1. CASE total = 0
  BY <1>1 DEF PageCount
<1>2. CASE total > 0
  <2>1. q \in Nat /\ q * size < total + size
    BY <1>2, PagesHoldAll
  <2> HIDE DEF q
  <2>2. ASSUME q >= total + 2 PROVE FALSE
    <3>1. (total + 2) * size <= q * size
      BY <2>1, <2>2, ProductGrows
    <3>2. (total + 2) * size = total * size + 2 * size /\ total * 1 <= total * size
      BY ProductGrows
    <3>3. q * size \in Nat /\ total * size \in Nat
      BY <2>1
    <3> QED BY <3>1, <3>2, <3>3, <2>1
  <2> QED BY <2>1, <2>2 DEF q
<1> QED BY <1>1, <1>2
-----------------------------------------------------------------------------
\* A name that a header may carry.
Storable == {n \in Names : HeaderTarget(n) # {}}

\* What the table is: finitely many rows, of names that can be stored, each with
\* the time of its upload.
TableInv ==
  /\ now \in Nat
  /\ DOMAIN rows \subseteq Storable
  /\ \A n \in DOMAIN rows : rows[n] \in Nat

LEMMA RowsFinite ==
  ASSUME TableInv, NEW S \in SUBSET DOMAIN rows
  PROVE  /\ IsFiniteSet(S) /\ Cardinality(S) \in 0 .. Cardinality(Names)
         /\ Cardinality(Names) \in Nat
<1>1. S \subseteq Names /\ IsFiniteSet(Names)
  BY ListAssumption DEF TableInv, Storable
<1>2. IsFiniteSet(S) /\ Cardinality(S) <= Cardinality(Names)
  BY <1>1, FS_Subset
<1> QED BY <1>1, <1>2, FS_CardinalityType

\* MySQL orders the rows totally, whatever column it sorts by.
LEMMA BeforeTotal ==
  ASSUME TableInv, NEW sort \in Sorts, NEW m \in DOMAIN rows, NEW n \in DOMAIN rows
  PROVE  /\ ~(Before(sort, m, n) /\ Before(sort, n, m))
         /\ m # n => Before(sort, m, n) \/ Before(sort, n, m)
<1>1. /\ Rank[m] \in Nat /\ Rank[n] \in Nat /\ SizeOf[m] \in Nat /\ SizeOf[n] \in Nat
      /\ Rank[m] = Rank[n] => m = n
  BY ListAssumption DEF TableInv, Storable
<1>2. rows[m] \in Nat /\ rows[n] \in Nat
  BY DEF TableInv
<1>a. CASE sort = NameAsc
  BY <1>a, <1>1 DEF Before, UploadDesc, UploadAsc, NameAsc, NameDesc, SizeAsc, SizeDesc
<1>b. CASE sort = NameDesc
  BY <1>b, <1>1 DEF Before, UploadDesc, UploadAsc, NameAsc, NameDesc, SizeAsc, SizeDesc
<1>c. CASE sort = SizeAsc
  BY <1>c, <1>1 DEF Before, UploadDesc, UploadAsc, NameAsc, NameDesc, SizeAsc, SizeDesc
<1>d. CASE sort = SizeDesc
  BY <1>d, <1>1 DEF Before, UploadDesc, UploadAsc, NameAsc, NameDesc, SizeAsc, SizeDesc
<1>e. CASE sort = UploadAsc
  BY <1>e, <1>1, <1>2 DEF Before, UploadDesc, UploadAsc, NameAsc, NameDesc, SizeAsc, SizeDesc
<1>f. CASE sort = UploadDesc
  BY <1>f, <1>1, <1>2 DEF Before, UploadDesc, UploadAsc, NameAsc, NameDesc, SizeAsc, SizeDesc
<1> QED BY <1>a, <1>b, <1>c, <1>d, <1>e, <1>f DEF Sorts

\* The rows MySQL puts before n.
Earlier(sort, names, n) == {m \in names : Before(sort, m, n)}

\* An order MySQL may return holds each row once, after those before it.
LEMMA OrderIndexes ==
  ASSUME TableInv, NEW sort \in Sorts, NEW S \in SUBSET DOMAIN rows,
         NEW s \in Orderings(sort, S)
  PROVE  /\ IsFiniteSet(S)
         /\ s \in Seq(S) /\ Len(s) = Cardinality(S)
         /\ \A n \in S : \E i \in 1 .. Len(s) : s[i] = n
         /\ \A i \in 1 .. Len(s) : Cardinality(Earlier(sort, S, s[i])) = i - 1
<1> DEFINE c == Cardinality(S)
<1>1. IsFiniteSet(S) /\ c \in Nat
  BY RowsFinite
<1>2. /\ s \in [1 .. c -> S]
      /\ \A i, j \in 1 .. c : i # j => s[i] # s[j]
      /\ \A i, j \in DOMAIN s : i < j => ~Before(sort, s[j], s[i])
  BY DEF Orderings, SetToSeqs
<1> HIDE DEF c
<1>3. s \in Seq(S) /\ Len(s) = c /\ DOMAIN s = 1 .. c
  BY <1>1, <1>2
<1>4. s \in Injection(1 .. c, S)
  BY <1>2, Fun_IsInj
<1>5. IsFiniteSet(1 .. c) /\ Cardinality(1 .. c) = c
  BY <1>1, FS_Interval
<1>6. s \in Surjection(1 .. c, S)
  BY <1>1, <1>4, <1>5, FS_Injection DEF c
<1>7. \A n \in S : \E i \in 1 .. c : s[i] = n
  BY <1>6 DEF Surjection
<1>8. ASSUME NEW i \in 1 .. c PROVE Cardinality(Earlier(sort, S, s[i])) = i - 1
  <2> DEFINE I == 1 .. i - 1
             E == Earlier(sort, S, s[i])
             f == [k \in I |-> s[k]]
  <2>1. i \in Int /\ i - 1 \in Int /\ i >= 1 /\ I \subseteq 1 .. c
    BY <1>1
  <2>2. ASSUME NEW j \in 1 .. c PROVE j < i <=> Before(sort, s[j], s[i])
    <3>1. s[i] \in DOMAIN rows /\ s[j] \in DOMAIN rows
      BY <1>2
    <3>2. ~(Before(sort, s[j], s[i]) /\ Before(sort, s[i], s[j]))
      BY <3>1, BeforeTotal
    <3>3. i # j => Before(sort, s[i], s[j]) \/ Before(sort, s[j], s[i])
      BY <3>1, <1>2, BeforeTotal
    <3>4. i < j => ~Before(sort, s[j], s[i])
      BY <1>2, <1>3
    <3>5. j < i => ~Before(sort, s[i], s[j])
      BY <1>2, <1>3
    <3>6. i = j => ~Before(sort, s[j], s[i])
      BY <3>2
    <3>7. i \in Int /\ j \in Int
      BY <1>1
    <3> QED BY <3>3, <3>4, <3>5, <3>6, <3>7
  <2>3. \A k \in I : s[k] \in E
    <3> SUFFICES ASSUME NEW k \in I PROVE s[k] \in E
      OBVIOUS
    <3>1. k \in 1 .. c /\ k < i
      BY <2>1
    <3> QED BY <3>1, <2>2, <1>2 DEF Earlier
  <2>4. \A n \in E : \E k \in I : s[k] = n
    <3> SUFFICES ASSUME NEW n \in E PROVE \E k \in I : s[k] = n
      OBVIOUS
    <3>1. PICK k \in 1 .. c : s[k] = n
      BY <1>7 DEF Earlier
    <3>2. k < i
      BY <3>1, <2>2 DEF Earlier
    <3>3. k \in I
      BY <3>2, <2>1
    <3> QED BY <3>1, <3>3
  <2>5. IsFiniteSet(I) /\ Cardinality(I) = i - 1
    BY <2>1, FS_Interval
  <2> HIDE DEF I, E
  <2>6. f \in [I -> E]
    BY <2>3
  <2>7. f \in Injection(I, E)
    BY <2>6, <2>1, <1>2, Fun_IsInj
  <2>8. f \in Surjection(I, E)
    BY <2>6, <2>4, Fun_IsSurj
  <2>9. Cardinality(E) = Cardinality(I)
    BY <2>5, <2>7, <2>8, FS_Surjection
  <2> QED BY <2>9, <2>5 DEF E
<1> QED BY <1>1, <1>3, <1>7, <1>8 DEF c
-----------------------------------------------------------------------------
\* A row that comes after the pages before this one is on this page or after it,
\* and every row is on one of the pages.
LEMMA PageHolds ==
  ASSUME TableInv, NEW url, NEW asked,
         NEW keyword, NEW sort \in Sorts, NEW size \in Nat \ {0}, NEW p \in Nat \ {0},
         asked = [page |-> p, query |-> [keyword |-> keyword, sort |-> sort, size |-> size]],
         NEW order \in Orderings(sort, Matching(keyword))
  PROVE  LET answer == PageOf(url, asked, order)
             names  == Matching(keyword)
             page   == answer.page
         IN  /\ answer = [url |-> url, query |-> asked.query, page |-> page,
                          pages |-> answer.pages, files |-> answer.files]
             /\ page = IF p <= answer.pages THEN p ELSE answer.pages
             /\ answer.pages = PageCount(Cardinality(names), size)
             /\ Range(answer.files) \subseteq names
             /\ \A n \in names :
                  /\ Cardinality(Earlier(sort, names, n)) < answer.pages * size
                  /\ Cardinality(Earlier(sort, names, n)) >= (page - 1) * size =>
                       n \in Range(answer.files) \/ Cardinality(Earlier(sort, names, n)) >= page * size
<1> DEFINE names  == Matching(keyword)
           answer == PageOf(url, asked, order)
           total  == Cardinality(names)
           pages  == PageCount(total, size)
           page   == IF p <= pages THEN p ELSE pages
           skip   == (page - 1) * size
           upto   == Min({total, skip + size})
<1>1. names \in SUBSET DOMAIN rows
  BY DEF Matching
<1>2. /\ IsFiniteSet(names) /\ order \in Seq(names) /\ Len(order) = total
      /\ \A n \in names : \E i \in 1 .. Len(order) : order[i] = n
      /\ \A i \in 1 .. Len(order) : Cardinality(Earlier(sort, names, order[i])) = i - 1
  BY <1>1, OrderIndexes
<1>3. total \in Nat
  BY <1>2, FS_CardinalityType
<1>4. /\ pages \in Nat \ {0}
      /\ total <= pages * size
  BY <1>3, PagesHoldAll
<1>5. asked.query.size = size /\ asked.page = p
  OBVIOUS
<1> HIDE DEF names
<1>6. /\ answer = [url |-> url, query |-> asked.query, page |-> page, pages |-> pages,
                   files |-> SubSeq(order, skip + 1, upto)]
      /\ answer.query = asked.query /\ answer.page = page /\ answer.pages = pages
      /\ answer.files = SubSeq(order, skip + 1, upto)
  <2> DEFINE count == PageCount(Len(order), asked.query.size)
             shows(k) ==
               [url |-> url, query |-> asked.query, page |-> k, pages |-> count,
                files |-> SubSeq(order, (k - 1) * asked.query.size + 1,
                                 Min({Len(order), (k - 1) * asked.query.size + asked.query.size}))]
  <2>1. answer = shows(Min({asked.page, count}))
    BY DEF PageOf, Offset
  <2>2. count = pages
    BY <1>2, <1>5
  <2>3. Min({asked.page, count}) = page
    <3>1. count \in Int /\ count = pages
      BY <2>2, <1>4
    <3> HIDE DEF count, pages
    <3> QED BY <3>1, <1>5, MinOfTwo
  <2>4. answer = shows(page)
    BY <2>1, <2>3
  <2> HIDE DEF answer, count, page, pages
  <2>5. (page - 1) * asked.query.size = skip /\ Len(order) = total
    BY <1>2, <1>5
  <2> HIDE DEF total, skip
  <2> QED BY <2>2, <2>4, <2>5, <1>5
<1>7. skip \in Nat /\ page * size = skip + size
  <2>1. page \in Nat \ {0}
    BY <1>4
  <2> HIDE DEF page
  <2>2. page - 1 \in Nat /\ page = (page - 1) + 1
    BY <2>1
  <2> QED BY <2>2
<1> HIDE DEF answer, total, skip, page
<1>8. upto = IF total <= skip + size THEN total ELSE skip + size
  BY <1>3, <1>7, MinOfTwo
<1> HIDE DEF upto
<1>9. /\ DOMAIN answer.files = 1 .. upto - skip
      /\ \A k \in 1 .. upto - skip : answer.files[k] = order[skip + k]
  <2> DEFINE files == SubSeq(order, skip + 1, upto)
  <2>1. /\ skip + 1 \in Int /\ upto \in Int
        /\ \A i \in skip + 1 .. upto : order[i] \in names
    <3>1. upto \in Int /\ upto <= Len(order) /\ DOMAIN order = 1 .. Len(order)
      BY <1>2, <1>3, <1>7, <1>8
    <3> QED BY <3>1, <1>2, <1>7
  <2>2. /\ files \in Seq(names)
        /\ Len(files) = IF skip + 1 <= upto THEN upto - skip ELSE 0
        /\ \A k \in 1 .. upto - skip : files[k] = order[skip + 1 + k - 1]
    BY <2>1, <1>7, SubSeqProperties
  <2> HIDE DEF files
  <2>3. DOMAIN files = 1 .. upto - skip
    <3>1. DOMAIN files = 1 .. Len(files)
      BY <2>2
    <3>2. upto \in Int /\ skip \in Int
      BY <2>1, <1>7
    <3>3. CASE skip + 1 <= upto
      BY <3>1, <3>3, <2>2
    <3>4. CASE upto < skip + 1
      <4>1. Len(files) = 0 /\ upto - skip <= 0 /\ upto - skip \in Int
        BY <3>2, <3>4, <2>2
      <4>2. 1 .. Len(files) = {} /\ 1 .. upto - skip = {}
        BY <4>1
      <4> QED BY <3>1, <4>2
    <3> QED BY <3>2, <3>3, <3>4
  <2>4. \A k \in 1 .. upto - skip : files[k] = order[skip + k]
    BY <2>2, <1>7
  <2> QED BY <2>3, <2>4, <1>6 DEF files
<1>10. Range(answer.files) \subseteq names
  <2> SUFFICES ASSUME NEW k \in 1 .. upto - skip PROVE answer.files[k] \in names
    BY <1>9 DEF Range
  <2>1. skip + k \in 1 .. Len(order)
    BY <1>2, <1>3, <1>7, <1>8
  <2> QED BY <2>1, <1>2, <1>9
<1>11. ASSUME NEW n \in names
       PROVE  /\ Cardinality(Earlier(sort, names, n)) < answer.pages * size
              /\ Cardinality(Earlier(sort, names, n)) >= skip =>
                   n \in Range(answer.files) \/ Cardinality(Earlier(sort, names, n)) >= page * size
  <2>1. PICK i \in 1 .. Len(order) : order[i] = n
    BY <1>2
  <2>2. Cardinality(Earlier(sort, names, n)) = i - 1
    BY <2>1, <1>2
  <2>3. i \in Int /\ 1 <= i /\ i <= total
    BY <1>2, <1>3
  <2>4. i - 1 < answer.pages * size
    <3>1. answer.pages * size \in Nat
      BY <1>4, <1>6
    <3> QED BY <2>3, <3>1, <1>4, <1>6, <1>3
  <2>5. ASSUME i - 1 >= skip, i - 1 < page * size PROVE n \in Range(answer.files)
    <3>1. i - skip \in 1 .. upto - skip
      BY <2>3, <2>5, <1>3, <1>7, <1>8
    <3>2. answer.files[i - skip] = n
      BY <3>1, <2>1, <2>3, <1>7, <1>9
    <3> QED BY <3>1, <3>2, <1>9 DEF Range
  <2> QED BY <2>2, <2>3, <2>4, <2>5, <1>7
<1> QED BY <1>2, <1>6, <1>10, <1>11 DEF names, answer, total, skip, page

-----------------------------------------------------------------------------
\* While pages are turned, page of pages is shown in answer to url: it is the page
\* url asks for, of the query shown; there are still as many pages as it says; and
\* a file yet to be seen exists and has the rows of all pages so far before it.
OnThePage(url, query, page, pages, due, seen) ==
  LET names == Matching(query.keyword)
  IN  /\ page \in Nat \ {0} /\ pages \in Nat
      /\ page <= pages
      /\ pages <= PageCount(Cardinality(names), query.size)
      /\ \A params \in ParseQueryParams(url) :
           ListQuery(params) = [page |-> page, query |-> query]
      /\ due \subseteq names
      /\ \A n \in due \ seen : Cardinality(Earlier(query.sort, names, n)) >= page * query.size
      /\ page = pages => due \subseteq seen

WalkInv ==
  /\ walk.on \in BOOLEAN /\ walk = [on |-> walk.on, due |-> walk.due, seen |-> walk.seen]
  /\ walk.on => OnThePage(shown.url, shown.query, shown.page, shown.pages, walk.due, walk.seen)

\* While the table stays so do the rows a query is for, and their order.
LEMMA SameRows ==
  ASSUME rows' = rows, NEW keyword, NEW sort, NEW names, NEW n
  PROVE  /\ Matching(keyword)' = Matching(keyword)
         /\ Earlier(sort, names, n)' = Earlier(sort, names, n)
  BY DEF Matching, Earlier, Before

LEMMA SamePage ==
  ASSUME rows' = rows, NEW url, NEW query, NEW page, NEW pages, NEW due, NEW seen
  PROVE  OnThePage(url, query, page, pages, due, seen)' = OnThePage(url, query, page, pages, due, seen)
<1>1. Matching(query.keyword)' = Matching(query.keyword)
  BY SameRows
<1>2. \A n : Earlier(query.sort, Matching(query.keyword), n)'
               = Earlier(query.sort, Matching(query.keyword), n)
  BY SameRows, <1>1
<1> QED BY <1>1, <1>2 DEF OnThePage

\* The parts of a query.
LEMMA QueryParts ==
  ASSUME NEW texts, NEW query \in Queries(texts)
  PROVE  /\ query = [keyword |-> query.keyword, sort |-> query.sort, size |-> query.size]
         /\ query.sort \in Sorts /\ query.size \in Nat \ {0} /\ query.size \in 1 .. MaxPageSize
         /\ \E t \in texts : query.keyword = Cut(t)
  BY ListAssumption DEF Queries

\* An answer is a page of the query its url stands for.
LEMMA AnswerFits ==
  ASSUME TableInv, NEW texts, NEW query \in Queries(texts), NEW url,
         NEW params \in ParseQueryParams(url),
         ListQuery(params) = [page |-> ListQuery(params).page, query |-> query],
         ListQuery(params).page \in Nat \ {0},
         NEW order \in Orderings(query.sort, Matching(query.keyword)),
         NEW answer, answer = PageOf(url, ListQuery(params), order)
  PROVE  /\ answer.url = url /\ answer.query = query
         /\ answer.page \in Nat \ {0} /\ answer.pages \in 1 .. Cardinality(Names) + 1
         /\ Range(answer.files) \subseteq Storable
<1> DEFINE names == Matching(query.keyword)
           p == ListQuery(params).page
<1>1. /\ query = [keyword |-> query.keyword, sort |-> query.sort, size |-> query.size]
      /\ query.sort \in Sorts /\ query.size \in Nat \ {0}
  BY QueryParts
<1>2. /\ answer = [url |-> url, query |-> query, page |-> answer.page,
                   pages |-> answer.pages, files |-> answer.files]
      /\ answer.page = IF p <= answer.pages THEN p ELSE answer.pages
      /\ answer.pages = PageCount(Cardinality(names), query.size)
      /\ Range(answer.files) \subseteq names
  BY <1>1, PageHolds
<1>3. names \in SUBSET DOMAIN rows
  BY DEF Matching
<1>4. Cardinality(names) \in 0 .. Cardinality(Names) /\ Cardinality(Names) \in Nat
  BY <1>3, RowsFinite
<1> HIDE DEF names, p
<1>5. answer.pages \in Nat \ {0} /\ answer.pages <= Cardinality(names) + 1
  BY <1>1, <1>2, <1>4, PagesHoldAll, PagesFew
<1>6. answer.page \in Nat \ {0}
  BY <1>2, <1>5 DEF p
<1>7. answer.url = url /\ answer.query = query
  BY <1>2
<1> QED BY <1>2, <1>3, <1>4, <1>5, <1>6, <1>7 DEF TableInv

\* The page shown next is the one after this, or one seen already, of the same
\* query; then nothing was passed over.
LEMMA PageTurned ==
  ASSUME TableInv, NEW texts, NEW query \in Queries(texts), NEW url, NEW page \in Nat \ {0},
         NEW params \in ParseQueryParams(url),
         \A other \in ParseQueryParams(url) : ListQuery(other) = [page |-> page, query |-> query],
         page <= PageCount(Cardinality(Matching(query.keyword)), query.size),
         NEW order \in Orderings(query.sort, Matching(query.keyword)),
         NEW due \in SUBSET Matching(query.keyword), NEW seen,
         \A n \in due \ seen :
           Cardinality(Earlier(query.sort, Matching(query.keyword), n)) >= (page - 1) * query.size,
         NEW answer, answer = PageOf(url, ListQuery(params), order)
  PROVE  OnThePage(answer.url, answer.query, answer.page, answer.pages, due,
                   seen \cup Range(answer.files))
<1> DEFINE names == Matching(query.keyword)
           met == seen \cup Range(answer.files)
<1>1. /\ query = [keyword |-> query.keyword, sort |-> query.sort, size |-> query.size]
      /\ query.sort \in Sorts /\ query.size \in Nat \ {0}
  BY QueryParts
<1>2. ListQuery(params) = [page |-> page, query |-> query]
  OBVIOUS
<1>3. /\ answer = [url |-> url, query |-> query, page |-> answer.page,
                   pages |-> answer.pages, files |-> answer.files]
      /\ answer.page = IF page <= answer.pages THEN page ELSE answer.pages
      /\ answer.pages = PageCount(Cardinality(names), query.size)
      /\ \A n \in names :
           /\ Cardinality(Earlier(query.sort, names, n)) < answer.pages * query.size
           /\ Cardinality(Earlier(query.sort, names, n)) >= (answer.page - 1) * query.size =>
                \/ n \in Range(answer.files)
                \/ Cardinality(Earlier(query.sort, names, n)) >= answer.page * query.size
  BY <1>1, <1>2, PageHolds
<1>4. answer.page = page /\ answer.url = url /\ answer.query = query
  BY <1>3
<1>5. names \in SUBSET DOMAIN rows
  BY DEF Matching
<1>6. Cardinality(names) \in Nat
  BY <1>5, RowsFinite
<1>7. answer.pages \in Nat
  BY <1>1, <1>3, <1>6, PagesHoldAll
<1>8. due \subseteq names
  OBVIOUS
<1>9. \A n \in due \ met : Cardinality(Earlier(query.sort, names, n)) >= page * query.size
  BY <1>3, <1>4, <1>8
<1>10. ASSUME page = answer.pages, NEW n \in due, n \notin met PROVE FALSE
  <2>1. Cardinality(Earlier(query.sort, names, n)) >= page * query.size
    BY <1>9, <1>10
  <2>2. Cardinality(Earlier(query.sort, names, n)) < page * query.size
    BY <1>3, <1>8, <1>10
  <2>3. Earlier(query.sort, names, n) \in SUBSET DOMAIN rows
    BY <1>5 DEF Earlier
  <2>4. Cardinality(Earlier(query.sort, names, n)) \in Nat
    BY <2>3, RowsFinite
  <2>5. page * query.size \in Nat
    BY <1>1
  <2> QED BY <2>1, <2>2, <2>4, <2>5
<1>11. page <= answer.pages /\ answer.pages <= PageCount(Cardinality(names), query.size)
  BY <1>3, <1>7
<1> HIDE DEF names, met
<1> QED BY <1>4, <1>7, <1>8, <1>9, <1>10, <1>11 DEF OnThePage, names, met
-----------------------------------------------------------------------------
\* What the visitor looks at: a page of a query that the url of the page, which
\* Reload sends again, stands for; it is what the visitor asked for.
SeenInv(texts) ==
  /\ wanted \in [keyword : texts, sort : Sorts, size : 1 .. MaxPageSize]
  /\ shown.query \in Queries(texts)
  /\ shown.pages \in 0 .. Cardinality(Names) + 1
  /\ \A params \in ParseQueryParams(shown.url) :
       /\ ListQuery(params) = [page |-> ListQuery(params).page, query |-> shown.query]
       /\ ListQuery(params).page \in Nat \ {0}
  /\ Range(shown.files) \subseteq Storable
  /\ QueryKept

\* The one result of parsing the parameters of an url.
LEMMA ParsedOnce ==
  ASSUME NEW url, NEW p \in ParseQueryParams(url), NEW q \in ParseQueryParams(url)
  PROVE  p = q
  BY Zenon DEF ParseQueryParams

\* An answer to url, whose query is known, changes what is seen as the visitor
\* meant it to.
LEMMA AnswerSeen ==
  ASSUME TableInv, NEW texts, NEW query \in Queries(texts), NEW url,
         shown' \in Handle(url),
         \A params \in ParseQueryParams(url) :
           /\ ListQuery(params) = [page |-> ListQuery(params).page, query |-> query]
           /\ ListQuery(params).page \in Nat \ {0},
         wanted' \in [keyword : texts, sort : Sorts, size : 1 .. MaxPageSize],
         query = [wanted' EXCEPT !.keyword = Cut(@)]
  PROVE  SeenInv(texts)'
<1>1. PICK params \in ParseQueryParams(url) :
        \E order \in Orderings(ListQuery(params).query.sort, Matching(ListQuery(params).query.keyword)) :
          shown' = PageOf(url, ListQuery(params), order)
  BY DEF Handle
<1>2. ListQuery(params).query = query
  BY <1>1
<1>3. PICK order \in Orderings(query.sort, Matching(query.keyword)) :
        shown' = PageOf(url, ListQuery(params), order)
  BY <1>1, <1>2
<1>4. /\ shown'.url = url /\ shown'.query = query
      /\ shown'.page \in Nat \ {0} /\ shown'.pages \in 1 .. Cardinality(Names) + 1
      /\ Range(shown'.files) \subseteq Storable
  BY <1>3, AnswerFits
<1>5. QueryKept'
  BY <1>4 DEF QueryKept
<1>6. Cardinality(Names) \in Nat
  BY ListAssumption, FS_CardinalityType
<1> QED BY <1>4, <1>5, <1>6 DEF SeenInv

\* The first page of a walk ...
LEMMA WalkBegins ==
  ASSUME TableInv, NEW texts, NEW query \in Queries(texts), NEW url, Show(url, TRUE),
         \A params \in ParseQueryParams(url) : ListQuery(params) = [page |-> 1, query |-> query]
  PROVE  WalkInv'
<1>1. PICK params \in ParseQueryParams(url) :
        \E order \in Orderings(ListQuery(params).query.sort, Matching(ListQuery(params).query.keyword)) :
          shown' = PageOf(url, ListQuery(params), order)
  BY DEF Show, Handle
<1>2. ListQuery(params).query = query
  BY <1>1
<1>3. PICK order \in Orderings(query.sort, Matching(query.keyword)) :
        shown' = PageOf(url, ListQuery(params), order)
  BY <1>1, <1>2
<1> DEFINE names == Matching(query.keyword)
           answer == PageOf(url, ListQuery(params), order)
<1>4. /\ answer.url = url /\ answer.query = query /\ Range(answer.files) \subseteq Storable
  BY <1>2, AnswerFits
<1>5. /\ walk' = [on |-> TRUE, due |-> names, seen |-> Range(answer.files)]
      /\ rows' = rows
  BY <1>3, <1>4 DEF Show
<1>6. /\ query.sort \in Sorts /\ query.size \in Nat \ {0}
      /\ names \in SUBSET DOMAIN rows
  BY QueryParts DEF Matching
<1>7. \A n \in names : Cardinality(Earlier(query.sort, names, n)) \in Nat
  <2> SUFFICES ASSUME NEW n \in names PROVE Cardinality(Earlier(query.sort, names, n)) \in Nat
    OBVIOUS
  <2>1. Earlier(query.sort, names, n) \in SUBSET DOMAIN rows
    BY <1>6 DEF Earlier
  <2> QED BY <2>1, RowsFinite
<1>8. 1 <= PageCount(Cardinality(names), query.size)
  <2>1. Cardinality(names) \in Nat
    BY <1>6, RowsFinite
  <2> HIDE DEF names
  <2>2. PageCount(Cardinality(names), query.size) \in Nat \ {0}
    BY <2>1, <1>6, PagesHoldAll
  <2> QED BY <2>2
<1>9. (1 - 1) * query.size = 0
  BY <1>6
<1>10. \A n \in names \ {} : Cardinality(Earlier(query.sort, names, n)) >= (1 - 1) * query.size
  BY <1>7, <1>9
<1>11. OnThePage(answer.url, answer.query, answer.page, answer.pages, names,
                 {} \cup Range(answer.files))
  <2>1. 1 \in Nat \ {0} /\ names \in SUBSET Matching(query.keyword)
    OBVIOUS
  <2> HIDE DEF answer
  <2>2. answer = PageOf(url, ListQuery(params), order)
    BY DEF answer
  <2> QED BY <1>8, <1>10, <2>1, <2>2, PageTurned, Zenon
<1>12. {} \cup Range(answer.files) = Range(answer.files)
  OBVIOUS
<1> HIDE DEF names, answer
<1>13. PICK page, due : page = answer /\ due = names
  OBVIOUS
<1>14. OnThePage(page.url, page.query, page.page, page.pages, due, Range(page.files))'
  <2>1. OnThePage(page.url, page.query, page.page, page.pages, due, Range(page.files))
    BY <1>11, <1>12, <1>13
  <2> QED BY <2>1, <1>5, SamePage
<1>15. /\ shown' = page
       /\ walk' = [on |-> TRUE, due |-> due, seen |-> Range(page.files)]
  BY <1>3, <1>5, <1>13 DEF answer
<1> QED BY <1>14, <1>15 DEF WalkInv

\* ... and the next ones.
LEMMA WalkGoesOn ==
  ASSUME TableInv, WalkInv, NEW texts, shown.query \in Queries(texts), NEW url, Show(url, FALSE),
         NEW page \in Nat \ {0}, walk.on => page <= shown.pages /\ page <= shown.page + 1,
         walk.on => \A params \in ParseQueryParams(url) :
                      ListQuery(params) = [page |-> page, query |-> shown.query]
  PROVE  WalkInv'
<1>1. /\ walk' = [on |-> walk.on, due |-> walk.due, seen |-> walk.seen \cup Range(shown'.files)]
      /\ rows' = rows
  BY DEF Show, WalkInv
<1>2. CASE ~walk.on
  BY <1>1, <1>2 DEF WalkInv
<1>3. CASE walk.on
  <2> DEFINE query == shown.query
             names == Matching(query.keyword)
  <2>1. PICK params \in ParseQueryParams(url) :
          \E order \in Orderings(ListQuery(params).query.sort, Matching(ListQuery(params).query.keyword)) :
            shown' = PageOf(url, ListQuery(params), order)
    BY DEF Show, Handle
  <2>2. ListQuery(params).query = query
    BY <2>1, <1>3
  <2>3. PICK order \in Orderings(query.sort, names) :
          shown' = PageOf(url, ListQuery(params), order)
    BY <2>1, <2>2
  <2>4. /\ shown.page \in Nat \ {0} /\ shown.pages \in Nat
        /\ shown.pages <= PageCount(Cardinality(names), query.size)
        /\ walk.due \in SUBSET names
        /\ \A n \in walk.due \ walk.seen :
             Cardinality(Earlier(query.sort, names, n)) >= shown.page * query.size
    BY <1>3 DEF WalkInv, OnThePage
  <2>5. /\ query.sort \in Sorts /\ query.size \in Nat \ {0}
        /\ names \in SUBSET DOMAIN rows
    BY QueryParts DEF Matching
  <2>6. page <= PageCount(Cardinality(names), query.size)
    <3>1. Cardinality(names) \in Nat
      BY <2>5, RowsFinite
    <3>2. PageCount(Cardinality(names), query.size) \in Nat
      BY <3>1, <2>5, PagesHoldAll
    <3>3. page <= shown.pages
      BY <1>3
    <3> QED BY <3>2, <3>3, <2>4
  <2>7. \A n \in walk.due \ walk.seen :
          Cardinality(Earlier(query.sort, names, n)) >= (page - 1) * query.size
    <3> SUFFICES ASSUME NEW n \in walk.due \ walk.seen
                 PROVE  Cardinality(Earlier(query.sort, names, n)) >= (page - 1) * query.size
      OBVIOUS
    <3>1. Earlier(query.sort, names, n) \in SUBSET DOMAIN rows
      BY <2>5 DEF Earlier
    <3>2. Cardinality(Earlier(query.sort, names, n)) \in Nat
      BY <3>1, RowsFinite
    <3>3. (page - 1) * query.size <= shown.page * query.size
      BY <2>4, <2>5, <1>3, ProductGrows
    <3>4. (page - 1) * query.size \in Int /\ shown.page * query.size \in Int
      BY <2>4, <2>5
    <3>5. Cardinality(Earlier(query.sort, names, n)) >= shown.page * query.size
      BY <2>4
    <3> HIDE DEF names, query
    <3> QED BY <3>2, <3>3, <3>4, <3>5
  <2>8. query \in Queries(texts)
    OBVIOUS
  <2>9. \A other \in ParseQueryParams(url) : ListQuery(other) = [page |-> page, query |-> query]
    BY <1>3
  <2> DEFINE answer == PageOf(url, ListQuery(params), order)
  <2> HIDE DEF query
  <2>10. OnThePage(answer.url, answer.query, answer.page, answer.pages, walk.due,
                   walk.seen \cup Range(answer.files))
    BY <2>4, <2>6, <2>7, <2>8, <2>9, PageTurned
  <2> HIDE DEF answer
  <2>11. PICK next, due, seen :
           next = answer /\ due = walk.due /\ seen = walk.seen \cup Range(answer.files)
    OBVIOUS
  <2>12. OnThePage(next.url, next.query, next.page, next.pages, due, seen)'
    <3>1. OnThePage(next.url, next.query, next.page, next.pages, due, seen)
      BY <2>10, <2>11
    <3> QED BY <3>1, <1>1, SamePage
  <2>13. shown' = next /\ walk' = [on |-> TRUE, due |-> due, seen |-> seen]
    <3>1. shown' = next
      BY <2>3, <2>11 DEF answer
    <3>2. walk.on = TRUE
      BY <1>3 DEF WalkInv
    <3> QED BY <3>1, <3>2, <1>1, <2>11, <2>3 DEF answer
  <2> QED BY <2>12, <2>13 DEF WalkInv
<1> QED BY <1>2, <1>3
-----------------------------------------------------------------------------
\* Uploads put rows between those there are, and take none away.
LEMMA RowsArrive ==
  ASSUME TableInv, TableInv', DOMAIN rows \subseteq DOMAIN rows',
         \A n \in DOMAIN rows : rows'[n] = rows[n],
         NEW texts, NEW query \in Queries(texts), NEW url, NEW page, NEW pages, NEW due, NEW seen,
         OnThePage(url, query, page, pages, due, seen)
  PROVE  OnThePage(url, query, page, pages, due, seen)'
<1> DEFINE names == Matching(query.keyword)
           more == {n \in DOMAIN rows' : query.keyword = <<>> \/
                      Like(Dir \o n, <<Percent>> \o query.keyword \o <<Percent>>)}
           later(n) == {m \in more : Before(query.sort, m, n)'}
<1>1. names \in SUBSET DOMAIN rows /\ more \in SUBSET DOMAIN rows' /\ names \subseteq more
  BY DEF Matching
<1>2. Matching(query.keyword)' = more
  BY DEF Matching
<1>3. query.sort \in Sorts /\ query.size \in Nat \ {0}
  BY QueryParts
<1> HIDE DEF names, more
<1>4. IsFiniteSet(more) /\ Cardinality(more) \in Nat
  <2>1. more \in SUBSET Names /\ IsFiniteSet(Names)
    BY <1>1, ListAssumption DEF TableInv, Storable
  <2> QED BY <2>1, FS_Subset, FS_CardinalityType
<1>5. Cardinality(names) \in Nat /\ Cardinality(names) <= Cardinality(more)
  BY <1>1, <1>4, FS_Subset, FS_CardinalityType
<1>6. PageCount(Cardinality(names), query.size) <= PageCount(Cardinality(more), query.size)
  BY <1>3, <1>4, <1>5, PagesGrow
<1>7. /\ PageCount(Cardinality(names), query.size) \in Nat
      /\ PageCount(Cardinality(more), query.size) \in Nat
  BY <1>3, <1>4, <1>5, PagesHoldAll
<1>8. ASSUME NEW n \in names
      PROVE  /\ Cardinality(Earlier(query.sort, names, n)) \in Nat
             /\ Cardinality(later(n)) \in Nat
             /\ Cardinality(Earlier(query.sort, names, n)) <= Cardinality(later(n))
  <2>1. Earlier(query.sort, names, n) \in SUBSET later(n)
    <3> SUFFICES ASSUME NEW m \in names, Before(query.sort, m, n)
                 PROVE  Before(query.sort, m, n)'
      BY <1>1 DEF Earlier
    <3>1. rows'[m] = rows[m] /\ rows'[n] = rows[n]
      BY <1>1
    <3> QED BY <3>1 DEF Before
  <2>2. later(n) \in SUBSET more
    OBVIOUS
  <2>3. IsFiniteSet(later(n))
    BY <2>2, <1>4, FS_Subset
  <2> QED BY <2>1, <2>3, FS_Subset, FS_CardinalityType
<1>9. page \in Nat \ {0} /\ page * query.size \in Nat
  BY <1>3 DEF OnThePage
<1>10. \A n \in due \ seen : Cardinality(later(n)) >= page * query.size
  <2> SUFFICES ASSUME NEW n \in due \ seen
               PROVE  Cardinality(later(n)) >= page * query.size
    OBVIOUS
  <2>1. n \in names /\ Cardinality(Earlier(query.sort, names, n)) >= page * query.size
    BY DEF OnThePage, names
  <2> QED BY <2>1, <1>8, <1>9
<1>11. pages \in Nat /\ pages <= PageCount(Cardinality(more), query.size)
  <2>1. pages \in Nat /\ pages <= PageCount(Cardinality(names), query.size)
    BY DEF OnThePage, names
  <2> QED BY <2>1, <1>6, <1>7
<1>12. due \subseteq more
  BY <1>1 DEF OnThePage, names
<1>13. /\ page <= pages
       /\ \A params \in ParseQueryParams(url) : ListQuery(params) = [page |-> page, query |-> query]
       /\ page = pages => due \subseteq seen
  BY DEF OnThePage
<1>14. \A n : Earlier(query.sort, Matching(query.keyword), n)' = later(n)
  BY <1>2 DEF Earlier
<1> HIDE DEF later
<1> QED BY <1>2, <1>9, <1>10, <1>11, <1>12, <1>13, <1>14 DEF OnThePage
-----------------------------------------------------------------------------
\* The inductive invariant of the page and its visitor.
ListInv(texts) == TableInv /\ SeenInv(texts) /\ WalkInv

\* How each url of the page is read.
LEMMA UrlsRead ==
  ASSUME NEW texts, QueriesReadBack(texts)
  PROVE  /\ \A params \in ParseQueryParams(<<>>) :
              ListQuery(params) = [page |-> 1, query |-> DefaultQuery]
         /\ \A query \in [keyword : texts, sort : Sorts, size : Range(FormSizes)] :
              \A params \in ParseQueryParams(FileTools(query)) :
                ListQuery(params) = [page |-> 1, query |-> [query EXCEPT !.keyword = Cut(@)]]
         /\ \A query \in Queries(texts), page \in 1 .. Cardinality(Names) + 1 :
              \A params \in ParseQueryParams(BuildPageLink(page, query)) :
                ListQuery(params) = [page |-> page, query |-> query]
         /\ \A url \in Urls : \A params \in ParseQueryParams(url) :
              ListQuery(params) \in [page : Nat \ {0}, query : Queries(texts)]
  BY Zenon DEF QueriesReadBack

LEMMA TextsClosed ==
  ASSUME NEW texts, QueriesReadBack(texts)
  PROVE  /\ <<>> \in texts /\ Keywords \subseteq texts
         /\ \A t \in texts : /\ Cut(t) \in texts /\ Cut(Cut(t)) = Cut(t)
                             /\ AttributeValue(HtmlEscape(Cut(t))) = Cut(t)
  BY Zenon DEF QueriesReadBack

LEMMA SizesOffered ==
  /\ FormSizes[1] \in Range(FormSizes)
  /\ Range(FormSizes) \subseteq 1 .. MaxPageSize
  /\ 1 .. MaxPageSize \subseteq Nat \ {0}
  BY ListAssumption DEF Range

\* The form of "/".
LEMMA DefaultFits ==
  ASSUME NEW texts, QueriesReadBack(texts)
  PROVE  /\ DefaultQuery \in [keyword : texts, sort : Sorts, size : 1 .. MaxPageSize]
         /\ DefaultQuery \in Queries(texts)
         /\ DefaultQuery = [DefaultQuery EXCEPT !.keyword = Cut(@)]
<1>1. Cut(<<>>) = <<>>
  <2>1. Len(<<>>) = 0 /\ Min({0, MaxKeyword}) = 0
    BY ListAssumption, MinOfTwo
  <2>2. SubSeq(<<>>, 1, 0) = <<>>
    OBVIOUS
  <2> QED BY <2>1, <2>2 DEF Cut
<1>2. UploadDesc \in Sorts /\ FormSizes[1] \in 1 .. MaxPageSize
  BY SizesOffered DEF Sorts
<1>3. <<>> \in texts
  BY TextsClosed
<1>4. DefaultQuery = [keyword |-> <<>>, sort |-> UploadDesc, size |-> FormSizes[1]]
  BY DEF DefaultQuery
<1>5. Cut(<<>>) \in {Cut(t) : t \in texts}
  BY <1>3
<1> HIDE DEF DefaultQuery
<1> QED BY <1>1, <1>2, <1>3, <1>4, <1>5 DEF Queries

\* What a form was submitted with shows as it was meant to.
LEMMA SubmitShows ==
  ASSUME NEW texts, QueriesReadBack(texts), ListInv(texts),
         NEW query \in [keyword : texts, sort : Sorts, size : Range(FormSizes)],
         Submit(query),
         wanted' \in [keyword : texts, sort : Sorts, size : 1 .. MaxPageSize],
         [query EXCEPT !.keyword = Cut(@)] = [wanted' EXCEPT !.keyword = Cut(@)]
  PROVE  SeenInv(texts)' /\ WalkInv'
<1> DEFINE asked == [query EXCEPT !.keyword = Cut(@)]
<1>1. asked = [keyword |-> Cut(query.keyword), sort |-> query.sort, size |-> query.size]
  OBVIOUS
<1>2. asked \in Queries(texts)
  BY <1>1, SizesOffered DEF Queries
<1>3. \A params \in ParseQueryParams(FileTools(query)) :
        ListQuery(params) = [page |-> 1, query |-> asked]
  BY UrlsRead
<1>4. Show(FileTools(query), TRUE)
  BY DEF Submit
<1>5. TableInv
  BY DEF ListInv
<1> HIDE DEF asked
<1>6. WalkInv'
  BY <1>2, <1>3, <1>4, <1>5, WalkBegins
<1>7. shown' \in Handle(FileTools(query))
  BY <1>4 DEF Show
<1>8. \A params \in ParseQueryParams(FileTools(query)) :
        /\ ListQuery(params) = [page |-> ListQuery(params).page, query |-> asked]
        /\ ListQuery(params).page \in Nat \ {0}
  BY <1>3
<1>9. asked = [wanted' EXCEPT !.keyword = Cut(@)]
  BY DEF asked
<1>10. SeenInv(texts)'
  BY <1>2, <1>5, <1>7, <1>8, <1>9, AnswerSeen
<1> QED BY <1>6, <1>10

\* What the form holds: the query of the page, with a size it offers.
LEMMA PresetFits ==
  ASSUME NEW texts, QueriesReadBack(texts), SeenInv(texts)
  PROVE  /\ Preset(shown) \in [keyword : texts, sort : Sorts, size : Range(FormSizes)]
         /\ Preset(shown) = [keyword |-> shown.query.keyword, sort |-> shown.query.sort,
                             size |-> Preset(shown).size]
         /\ Cut(shown.query.keyword) = shown.query.keyword
<1>1. /\ shown.query.sort \in Sorts
      /\ \E t \in texts : shown.query.keyword = Cut(t)
  BY QueryParts DEF SeenInv
<1>2. PICK t \in texts : shown.query.keyword = Cut(t)
  BY <1>1
<1>3. /\ Cut(t) \in texts /\ Cut(Cut(t)) = Cut(t)
      /\ AttributeValue(HtmlEscape(Cut(t))) = Cut(t)
  BY TextsClosed
<1> DEFINE size == IF shown.query.size \in Range(FormSizes) THEN shown.query.size ELSE FormSizes[1]
<1>4. Preset(shown) = [keyword |-> Cut(t), sort |-> shown.query.sort, size |-> size]
  BY <1>2, <1>3 DEF Preset
<1>5. size \in Range(FormSizes)
  BY SizesOffered
<1> HIDE DEF size
<1> QED BY <1>1, <1>2, <1>3, <1>4, <1>5
-----------------------------------------------------------------------------
LEMMA OpenKeeps ==
  ASSUME NEW texts, QueriesReadBack(texts), ListInv(texts), Open
  PROVE  SeenInv(texts)' /\ WalkInv'
<1>1. \A params \in ParseQueryParams(<<>>) :
        ListQuery(params) = [page |-> 1, query |-> DefaultQuery]
  BY UrlsRead
<1>2. Show(<<>>, TRUE) /\ wanted' = DefaultQuery
  BY DEF Open
<1>3. TableInv
  BY DEF ListInv
<1>4. /\ DefaultQuery \in Queries(texts)
      /\ wanted' \in [keyword : texts, sort : Sorts, size : 1 .. MaxPageSize]
      /\ DefaultQuery = [wanted' EXCEPT !.keyword = Cut(@)]
  BY <1>2, DefaultFits
<1>5. WalkInv'
  BY <1>1, <1>2, <1>3, <1>4, WalkBegins
<1>6. shown' \in Handle(<<>>)
  BY <1>2 DEF Show
<1>7. \A params \in ParseQueryParams(<<>>) :
        /\ ListQuery(params) = [page |-> ListQuery(params).page, query |-> DefaultQuery]
        /\ ListQuery(params).page \in Nat \ {0}
  BY <1>1
<1> QED BY <1>3, <1>4, <1>5, <1>6, <1>7, AnswerSeen

LEMMA FormKeeps ==
  ASSUME NEW texts, QueriesReadBack(texts), ListInv(texts),
         \/ \E keyword \in Keywords : Search(keyword)
         \/ \E sort \in Sorts : Resort(sort)
         \/ \E size \in Range(FormSizes) : Resize(size)
  PROVE  SeenInv(texts)' /\ WalkInv'
<1>1. SeenInv(texts)
  BY DEF ListInv
<1>2. /\ Preset(shown) \in [keyword : texts, sort : Sorts, size : Range(FormSizes)]
      /\ Preset(shown) = [keyword |-> shown.query.keyword, sort |-> shown.query.sort,
                          size |-> Preset(shown).size]
      /\ Cut(shown.query.keyword) = shown.query.keyword
  BY <1>1, PresetFits
<1>3. wanted \in [keyword : texts, sort : Sorts, size : 1 .. MaxPageSize]
  BY <1>1 DEF SeenInv
<1>4. shown # Blank => /\ shown.query.keyword = Cut(wanted.keyword)
                       /\ shown.query.sort = wanted.sort
  <2>1. shown # Blank => shown.query = [wanted EXCEPT !.keyword = Cut(@)]
    BY <1>1 DEF SeenInv, QueryKept
  <2> QED BY <2>1, <1>3
<1>5. Keywords \subseteq texts
  BY TextsClosed
<1>6. Preset(shown).size \in 1 .. MaxPageSize
  BY <1>2, SizesOffered
<1>7. ASSUME NEW keyword \in Keywords, Search(keyword) PROVE SeenInv(texts)' /\ WalkInv'
  <2> DEFINE query == [Preset(shown) EXCEPT !.keyword = keyword]
  <2>1. query \in [keyword : texts, sort : Sorts, size : Range(FormSizes)]
    BY <1>2, <1>5
  <2>2. Submit(query) /\ shown # Blank
    BY <1>7 DEF Search, Submit
  <2>3. wanted' = [keyword |-> keyword, sort |-> wanted.sort, size |-> Preset(shown).size]
    BY <1>7 DEF Search
  <2>4. wanted' \in [keyword : texts, sort : Sorts, size : 1 .. MaxPageSize]
    BY <2>3, <1>3, <1>5, <1>6
  <2>5. query = [keyword |-> keyword, sort |-> wanted.sort, size |-> Preset(shown).size]
    BY <2>2, <1>2, <1>4
  <2> HIDE DEF query
  <2>6. [query EXCEPT !.keyword = Cut(@)] = [wanted' EXCEPT !.keyword = Cut(@)]
    BY <2>3, <2>5
  <2> QED BY <2>1, <2>2, <2>4, <2>6, SubmitShows
<1>8. ASSUME NEW sort \in Sorts, Resort(sort) PROVE SeenInv(texts)' /\ WalkInv'
  <2> DEFINE query == [Preset(shown) EXCEPT !.sort = sort]
  <2>1. query \in [keyword : texts, sort : Sorts, size : Range(FormSizes)]
    BY <1>2
  <2>2. Submit(query) /\ shown # Blank
    BY <1>8 DEF Resort, Submit
  <2>3. wanted' = [wanted EXCEPT !.sort = sort, !.size = Preset(shown).size]
    BY <1>8 DEF Resort
  <2>4. wanted' = [keyword |-> wanted.keyword, sort |-> sort, size |-> Preset(shown).size]
    BY <2>3, <1>3
  <2>5. query = [keyword |-> shown.query.keyword, sort |-> sort, size |-> Preset(shown).size]
    BY <1>2
  <2>6. wanted' \in [keyword : texts, sort : Sorts, size : 1 .. MaxPageSize]
    BY <2>4, <1>3, <1>6
  <2> HIDE DEF query
  <2>7. [query EXCEPT !.keyword = Cut(@)] = [wanted' EXCEPT !.keyword = Cut(@)]
    BY <2>2, <2>4, <2>5, <1>2, <1>4
  <2> QED BY <2>1, <2>2, <2>6, <2>7, SubmitShows
<1>9. ASSUME NEW size \in Range(FormSizes), Resize(size) PROVE SeenInv(texts)' /\ WalkInv'
  <2> DEFINE query == [Preset(shown) EXCEPT !.size = size]
  <2>1. query \in [keyword : texts, sort : Sorts, size : Range(FormSizes)]
    BY <1>2
  <2>2. Submit(query) /\ shown # Blank
    BY <1>9 DEF Resize, Submit
  <2>3. wanted' = [wanted EXCEPT !.size = size]
    BY <1>9 DEF Resize
  <2>4. wanted' = [keyword |-> wanted.keyword, sort |-> wanted.sort, size |-> size]
    BY <2>3, <1>3
  <2>5. query = [keyword |-> shown.query.keyword, sort |-> shown.query.sort, size |-> size]
    BY <1>2
  <2>6. wanted' \in [keyword : texts, sort : Sorts, size : 1 .. MaxPageSize]
    BY <2>4, <1>3, SizesOffered
  <2> HIDE DEF query
  <2>7. [query EXCEPT !.keyword = Cut(@)] = [wanted' EXCEPT !.keyword = Cut(@)]
    BY <2>2, <2>4, <2>5, <1>2, <1>4
  <2> QED BY <2>1, <2>2, <2>6, <2>7, SubmitShows
<1> QED BY <1>7, <1>8, <1>9

\* Of one query the visitor sees another page, or this one again.
LEMMA SameQueryKeeps ==
  ASSUME NEW texts, ListInv(texts), NEW url, Show(url, FALSE), wanted' = wanted, shown # Blank,
         \A params \in ParseQueryParams(url) :
           /\ ListQuery(params) = [page |-> ListQuery(params).page, query |-> shown.query]
           /\ ListQuery(params).page \in Nat \ {0}
  PROVE  SeenInv(texts)'
<1>1. TableInv /\ SeenInv(texts)
  BY DEF ListInv
<1>2. /\ wanted' \in [keyword : texts, sort : Sorts, size : 1 .. MaxPageSize]
      /\ shown.query = [wanted' EXCEPT !.keyword = Cut(@)]
      /\ shown.query \in Queries(texts)
  BY <1>1 DEF SeenInv, QueryKept
<1>3. shown' \in Handle(url)
  BY DEF Show
<1> QED BY <1>1, <1>2, <1>3, AnswerSeen

LEMMA TurnKeeps ==
  ASSUME NEW texts, QueriesReadBack(texts), ListInv(texts), FollowPrevious \/ FollowNext
  PROVE  SeenInv(texts)' /\ WalkInv'
<1>1. PICK page \in 1 .. shown.pages :
        /\ page = shown.page - 1 \/ page = shown.page + 1
        /\ Show(BuildPageLink(page, shown.query), FALSE)
        /\ wanted' = wanted
  BY DEF FollowPrevious, FollowNext, Turn
<1>2. TableInv /\ SeenInv(texts) /\ WalkInv
  BY DEF ListInv
<1>3. shown.pages \in 0 .. Cardinality(Names) + 1 /\ shown.query \in Queries(texts)
  BY <1>2 DEF SeenInv
<1>4. page \in 1 .. Cardinality(Names) + 1 /\ page \in Nat \ {0} /\ page <= shown.pages
  <2>1. Cardinality(Names) \in Nat
    BY ListAssumption, FS_CardinalityType
  <2> QED BY <2>1, <1>1, <1>3
<1>5. \A params \in ParseQueryParams(BuildPageLink(page, shown.query)) :
        ListQuery(params) = [page |-> page, query |-> shown.query]
  BY <1>3, <1>4, UrlsRead
<1>6. shown # Blank
  BY <1>1, <1>4 DEF Blank
<1>7. walk.on => page <= shown.page + 1
  <2>1. walk.on => shown.page \in Nat
    BY <1>2 DEF WalkInv, OnThePage
  <2> QED BY <2>1, <1>1
<1>8. PICK url : url = BuildPageLink(page, shown.query)
  OBVIOUS
<1>9. WalkInv'
  BY <1>1, <1>2, <1>3, <1>4, <1>5, <1>7, <1>8, WalkGoesOn
<1>10. \A params \in ParseQueryParams(url) :
         /\ ListQuery(params) = [page |-> ListQuery(params).page, query |-> shown.query]
         /\ ListQuery(params).page \in Nat \ {0}
  BY <1>4, <1>5, <1>8
<1>11. SeenInv(texts)'
  BY <1>1, <1>6, <1>8, <1>10, SameQueryKeeps
<1> QED BY <1>9, <1>11

LEMMA ReloadKeeps ==
  ASSUME NEW texts, ListInv(texts), Reload
  PROVE  SeenInv(texts)' /\ WalkInv'
<1>1. PICK url, page : url = shown.url /\ page = IF walk.on THEN shown.page ELSE 1
  OBVIOUS
<1>2. Show(url, FALSE) /\ wanted' = wanted /\ shown # Blank
  BY <1>1 DEF Reload
<1>3. TableInv /\ SeenInv(texts) /\ WalkInv
  BY DEF ListInv
<1>4. shown.query \in Queries(texts)
  BY <1>3 DEF SeenInv
<1>5. \A params \in ParseQueryParams(url) :
        /\ ListQuery(params) = [page |-> ListQuery(params).page, query |-> shown.query]
        /\ ListQuery(params).page \in Nat \ {0}
  BY <1>1, <1>3 DEF SeenInv
<1>6. walk.on => /\ shown.page \in Nat \ {0} /\ shown.page <= shown.pages
                 /\ \A params \in ParseQueryParams(url) :
                      ListQuery(params) = [page |-> shown.page, query |-> shown.query]
  BY <1>1, <1>3 DEF WalkInv, OnThePage
<1>7. /\ page \in Nat \ {0}
      /\ walk.on => page <= shown.pages /\ page <= shown.page + 1
      /\ walk.on => \A params \in ParseQueryParams(url) :
                      ListQuery(params) = [page |-> page, query |-> shown.query]
  BY <1>1, <1>6
<1>8. WalkInv'
  BY <1>2, <1>3, <1>4, <1>7, WalkGoesOn
<1> QED BY <1>2, <1>5, <1>8, SameQueryKeeps

LEMMA TypeUrlKeeps ==
  ASSUME NEW texts, QueriesReadBack(texts), ListInv(texts), NEW url \in Urls, TypeUrl(url)
  PROVE  SeenInv(texts)' /\ WalkInv'
<1>1. shown' \in Handle(url) /\ wanted' = shown'.query /\ walk' = NoWalk
  BY DEF TypeUrl
<1>2. WalkInv'
  BY <1>1 DEF WalkInv, NoWalk
<1>3. PICK params \in ParseQueryParams(url) :
        \E order \in Orderings(ListQuery(params).query.sort, Matching(ListQuery(params).query.keyword)) :
          shown' = PageOf(url, ListQuery(params), order)
  BY <1>1 DEF Handle
<1>4. ListQuery(params) \in [page : Nat \ {0}, query : Queries(texts)]
  BY UrlsRead
<1> DEFINE query == ListQuery(params).query
<1>5. query \in Queries(texts)
  BY <1>4
<1>6. \A other \in ParseQueryParams(url) :
        /\ ListQuery(other) = [page |-> ListQuery(other).page, query |-> query]
        /\ ListQuery(other).page \in Nat \ {0}
  <2> SUFFICES ASSUME NEW other \in ParseQueryParams(url)
               PROVE  /\ ListQuery(other) = [page |-> ListQuery(other).page, query |-> query]
                      /\ ListQuery(other).page \in Nat \ {0}
    OBVIOUS
  <2>1. other = params
    BY ParsedOnce
  <2> QED BY <2>1, <1>4
<1>7. TableInv
  BY DEF ListInv
<1>8. PICK order \in Orderings(query.sort, Matching(query.keyword)) :
        shown' = PageOf(url, ListQuery(params), order)
  BY <1>3
<1> HIDE DEF query
<1>9. shown'.query = query
  <2>1. PICK answer : answer = PageOf(url, ListQuery(params), order)
    OBVIOUS
  <2>2. answer.query = query
    BY <1>5, <1>6, <1>7, <2>1, AnswerFits
  <2> QED BY <1>8, <2>1, <2>2
<1>10. /\ query = [keyword |-> query.keyword, sort |-> query.sort, size |-> query.size]
       /\ query.sort \in Sorts /\ query.size \in 1 .. MaxPageSize
       /\ \E t \in texts : query.keyword = Cut(t)
  BY <1>5, QueryParts
<1>11. query.keyword \in texts /\ Cut(query.keyword) = query.keyword
  BY <1>10, TextsClosed
<1>12. /\ wanted' \in [keyword : texts, sort : Sorts, size : 1 .. MaxPageSize]
       /\ query = [wanted' EXCEPT !.keyword = Cut(@)]
  <2>1. wanted' = [keyword |-> query.keyword, sort |-> query.sort, size |-> query.size]
    BY <1>1, <1>9, <1>10
  <2> QED BY <2>1, <1>10, <1>11
<1> QED BY <1>1, <1>2, <1>5, <1>6, <1>7, <1>12, AnswerSeen
-----------------------------------------------------------------------------
\* An accepted name has no slash: it is what follows the last slash of its path.
LEMMA SafeNameKept ==
  ASSUME NEW n \in Names, IsSafeFileName(n)
  PROVE  FileName(Dir \o n) = n
<1> DEFINE path == Dir \o n
           slashes == {i \in 1 .. Len(path) : path[i] = Slash}
<1>1. /\ n \in Seq(Byte) /\ Dir \in Seq(Byte) /\ Len(Dir) \in Nat /\ Len(n) \in Nat
      /\ Len(Dir) > 0 /\ Dir[Len(Dir)] = Slash
  BY ListAssumption DEF Last
<1>2. \A i \in 1 .. Len(n) : n[i] # Slash
  BY <1>1 DEF IsSafeFileName
<1>3. /\ path \in Seq(Byte) /\ Len(path) = Len(Dir) + Len(n)
      /\ path[Len(Dir)] = Slash
      /\ \A i \in 1 .. Len(n) : path[Len(Dir) + i] = n[i]
  BY <1>1
<1>4. \A i \in slashes : i <= Len(Dir)
  <2>1. ASSUME NEW i \in 1 .. Len(path), i > Len(Dir) PROVE path[i] # Slash
    <3>1. i - Len(Dir) \in 1 .. Len(n) /\ i = Len(Dir) + (i - Len(Dir))
      BY <2>1, <1>1, <1>3
    <3> QED BY <3>1, <1>2, <1>3
  <2> QED BY <2>1, <1>1, <1>3
<1>5. Len(Dir) \in slashes
  BY <1>1, <1>3
<1>6. Max(slashes) = Len(Dir)
  <2> HIDE DEF slashes
  <2>1. \A i \in slashes : i \in Nat
    BY DEF slashes
  <2>2. PICK max \in slashes : max = Max(slashes) /\ \A y \in slashes : max >= y
    BY <1>4, <1>5, <2>1 DEF Max
  <2> QED BY <2>2, <2>1, <1>1, <1>4, <1>5
<1>7. Contains(path, Slash)
  BY <1>1, <1>3 DEF Contains
<1>8. SelectLastInSeq(path, LAMBDA b : b = Slash) = Max(slashes)
  BY <1>5 DEF SelectLastInSeq
<1>9. SubSeq(path, Len(Dir) + 1, Len(path)) = n
  BY <1>1, <1>3
<1> QED BY <1>6, <1>7, <1>8, <1>9 DEF FileName

\* The table gets the names clients meant, and links carry these.
LEMMA NamesLead ==
  ASSUME NamesReadBack, NEW n \in Names
  PROVE  /\ HeaderTarget(n) \subseteq {n}
         /\ HeaderTarget(n) # {} => LinkTarget(n) = {n}
<1>1. HeaderTarget(n) \subseteq {n}
  BY DEF HeaderTarget, NamesReadBack
<1>2. ASSUME HeaderTarget(n) # {} PROVE LinkTarget(n) = {n}
  <2>1. IsSafeFileName(n)
    BY <1>1, <1>2 DEF HeaderTarget
  <2>2. FileName(Dir \o n) = n /\ UrlDecode(UrlEncodePathSegment(n)) = {n}
    BY <2>1, SafeNameKept DEF NamesReadBack
  <2> QED BY <2>1, <2>2 DEF LinkTarget
<1> QED BY <1>1, <1>2

LEMMA UploadKeeps ==
  ASSUME NEW texts, NamesReadBack, ListInv(texts), NEW n \in Names, UploadFile(n)
  PROVE  TableInv' /\ SeenInv(texts)' /\ WalkInv'
<1>1. PICK t \in HeaderTarget(n) :
        /\ t \notin DOMAIN rows
        /\ rows' = [u \in DOMAIN rows \cup {t} |-> IF u = t THEN now ELSE rows[u]]
        /\ UNCHANGED <<now, wanted, shown, walk>>
  BY DEF UploadFile
<1>2. t = n /\ t \in Storable
  BY <1>1, NamesLead DEF Storable
<1>3. /\ DOMAIN rows' = DOMAIN rows \cup {t}
      /\ \A u \in DOMAIN rows : rows'[u] = rows[u]
      /\ rows'[t] = now
  BY <1>1
<1>4. TableInv /\ SeenInv(texts) /\ WalkInv
  BY DEF ListInv
<1>5. TableInv'
  BY <1>1, <1>2, <1>3, <1>4 DEF TableInv
<1>6. SeenInv(texts)'
  BY <1>1, <1>4 DEF SeenInv, QueryKept
<1>7. PICK page, due, seen : page = shown /\ due = walk.due /\ seen = walk.seen
  OBVIOUS
<1>8. shown' = page /\ walk' = walk /\ walk'.due = due /\ walk'.seen = seen
  BY <1>1, <1>7
<1>9. ASSUME walk.on PROVE OnThePage(page.url, page.query, page.page, page.pages, due, seen)'
  <2>1. OnThePage(page.url, page.query, page.page, page.pages, due, seen)
    BY <1>4, <1>7, <1>9 DEF WalkInv
  <2>2. page.query \in Queries(texts)
    BY <1>4, <1>7 DEF SeenInv
  <2> QED BY <1>3, <1>4, <1>5, <2>1, <2>2, RowsArrive
<1>10. WalkInv'
  BY <1>4, <1>8, <1>9 DEF WalkInv
<1> QED BY <1>5, <1>6, <1>10

\* A delete ends the walk.
LEMMA DeleteKeeps ==
  ASSUME NEW texts, ListInv(texts), DeleteShown \/ \E n \in Names : DeleteByAnother(n)
  PROVE  TableInv' /\ SeenInv(texts)' /\ WalkInv'
<1>1. PICK t : /\ rows' = Restrict(rows, DOMAIN rows \ {t})
               /\ walk' = NoWalk
               /\ UNCHANGED <<now, wanted, shown>>
  BY DEF DeleteShown, DeleteByAnother
<1>2. TableInv /\ SeenInv(texts)
  BY DEF ListInv
<1>3. DOMAIN rows' \subseteq DOMAIN rows /\ \A n \in DOMAIN rows' : rows'[n] = rows[n]
  BY <1>1 DEF Restrict
<1>4. TableInv'
  BY <1>1, <1>2, <1>3 DEF TableInv
<1>5. SeenInv(texts)'
  BY <1>1, <1>2 DEF SeenInv, QueryKept
<1>6. WalkInv'
  BY <1>1 DEF WalkInv, NoWalk
<1> QED BY <1>4, <1>5, <1>6

LEMMA TickKeeps ==
  ASSUME NEW texts, ListInv(texts), Tick \/ UNCHANGED listVars
  PROVE  TableInv' /\ SeenInv(texts)' /\ WalkInv'
<1>1. rows' = rows /\ wanted' = wanted /\ shown' = shown /\ walk' = walk /\ now' \in Nat
  BY DEF Tick, listVars, ListInv, TableInv
<1>2. TableInv /\ SeenInv(texts) /\ WalkInv
  BY DEF ListInv
<1>3. TableInv'
  BY <1>1, <1>2 DEF TableInv
<1>4. SeenInv(texts)'
  BY <1>1, <1>2 DEF SeenInv, QueryKept
<1>5. PICK page, due, seen : page = shown /\ due = walk.due /\ seen = walk.seen
  OBVIOUS
<1>6. walk.on => OnThePage(page.url, page.query, page.page, page.pages, due, seen)'
  BY <1>1, <1>2, <1>5, SamePage DEF WalkInv
<1>7. WalkInv'
  BY <1>1, <1>2, <1>5, <1>6 DEF WalkInv
<1> QED BY <1>3, <1>4, <1>7

\* The inductive invariant, for any table, clock, keywords, page sizes and urls:
\* what the codecs contribute is that they read back what they wrote.
THEOREM ListKept ==
  ASSUME NEW texts, QueriesReadBack(texts), NamesReadBack
  PROVE  ListSpec => []ListInv(texts)
<1>1. ListInit => ListInv(texts)
  <2> SUFFICES ASSUME ListInit PROVE ListInv(texts)
    OBVIOUS
  <2>1. TableInv
    BY DEF ListInit, TableInv
  <2>2. WalkInv
    BY DEF ListInit, WalkInv, NoWalk
  <2>3. SeenInv(texts)
    <3>1. /\ DefaultQuery \in [keyword : texts, sort : Sorts, size : 1 .. MaxPageSize]
          /\ DefaultQuery \in Queries(texts)
      BY DefaultFits
    <3>2. wanted = DefaultQuery /\ shown = Blank
      BY DEF ListInit
    <3>3. /\ shown.query = DefaultQuery /\ shown.url = <<>> /\ shown.pages = 0
          /\ Range(shown.files) = {}
      BY <3>2 DEF Blank, Range
    <3>4. \A params \in ParseQueryParams(<<>>) :
            ListQuery(params) = [page |-> 1, query |-> DefaultQuery]
      BY UrlsRead
    <3>5. Cardinality(Names) \in Nat
      BY ListAssumption, FS_CardinalityType
    <3>6. QueryKept
      BY <3>2 DEF QueryKept
    <3> HIDE DEF DefaultQuery
    <3> QED BY <3>1, <3>2, <3>3, <3>4, <3>5, <3>6 DEF SeenInv
  <2> QED BY <2>1, <2>2, <2>3 DEF ListInv
<1>2. ListInv(texts) /\ [ListNext]_listVars => ListInv(texts)'
  <2> SUFFICES ASSUME ListInv(texts), [ListNext]_listVars PROVE TableInv' /\ SeenInv(texts)' /\ WalkInv'
    BY DEF ListInv
  <2>1. ASSUME rows' = rows, now' = now PROVE TableInv'
    BY <2>1 DEF ListInv, TableInv
  <2>2. CASE Open
    <3>1. rows' = rows /\ now' = now
      BY <2>2 DEF Open, Show
    <3> QED BY <2>1, <2>2, <3>1, OpenKeeps
  <2>3. CASE FollowPrevious \/ FollowNext
    <3>1. rows' = rows /\ now' = now
      BY <2>3 DEF FollowPrevious, FollowNext, Turn, Show
    <3> QED BY <2>1, <2>3, <3>1, TurnKeeps
  <2>4. CASE Reload
    <3>1. rows' = rows /\ now' = now
      BY <2>4 DEF Reload, Show
    <3> QED BY <2>1, <2>4, <3>1, ReloadKeeps
  <2>5. ASSUME NEW url \in Urls, TypeUrl(url) PROVE TableInv' /\ SeenInv(texts)' /\ WalkInv'
    <3>1. rows' = rows /\ now' = now
      BY <2>5 DEF TypeUrl
    <3> QED BY <2>1, <2>5, <3>1, TypeUrlKeeps
  <2>6. CASE \/ \E keyword \in Keywords : Search(keyword)
             \/ \E sort \in Sorts : Resort(sort)
             \/ \E size \in Range(FormSizes) : Resize(size)
    <3>1. rows' = rows /\ now' = now
      BY <2>6, Zenon DEF Search, Resort, Resize, Submit, Show
    <3> QED BY <2>1, <2>6, <3>1, FormKeeps
  <2>7. CASE DeleteShown \/ \E n \in Names : DeleteByAnother(n)
    BY <2>7, DeleteKeeps
  <2>8. ASSUME NEW n \in Names, UploadFile(n) PROVE TableInv' /\ SeenInv(texts)' /\ WalkInv'
    BY <2>8, UploadKeeps
  <2>9. CASE Tick \/ UNCHANGED listVars
    BY <2>9, TickKeeps
  <2> QED BY <2>2, <2>3, <2>4, <2>5, <2>6, <2>7, <2>8, <2>9, Zenon DEF ListNext
<1> QED BY <1>1, <1>2, PTL DEF ListSpec

\* A visitor who turns the pages from the first to the last misses no file that
\* stays, however many there are and whatever is uploaded meanwhile: the order is
\* total, uploads only move rows to later pages, and the pages cover the order.
THEOREM WalksAreComplete ==
  ASSUME NEW texts, QueriesReadBack(texts), NamesReadBack
  PROVE  ListSpec => []WalkMissesNothing
<1>1. ListInv(texts) => WalkMissesNothing
  BY DEF ListInv, WalkInv, OnThePage, WalkMissesNothing
<1> QED BY <1>1, ListKept, PTL

\* The page always answers what the visitor asked for last, through links, search
\* box and form.
THEOREM QueriesAreKept ==
  ASSUME NEW texts, QueriesReadBack(texts), NamesReadBack
  PROVE  ListSpec => []QueryKept
<1>1. ListInv(texts) => QueryKept
  BY DEF ListInv, SeenInv
<1> QED BY <1>1, ListKept, PTL

\* The links in a row lead to the file of that row.
THEOREM RowLinksLead ==
  ASSUME NEW texts, QueriesReadBack(texts), NamesReadBack
  PROVE  ListSpec => []LinksLeadBack
<1>1. ListInv(texts) => LinksLeadBack
  BY NamesLead DEF ListInv, TableInv, SeenInv, LinksLeadBack, Storable
<1> QED BY <1>1, ListKept, PTL
=============================================================================

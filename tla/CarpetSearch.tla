---------------------------- MODULE CarpetSearch ----------------------------
(***************************************************************************)
(* How carpets are found.  Sizes are read from what people and files write *)
(* (dimension-parser, search, import, BASKO normalizer, each in its own    *)
(* way), words are compared by the edits between them (search.service.ts), *)
(* and what is on the shelves is put in order by how near it comes to a    *)
(* size (carpet-distance-ranking.service.ts).  A question is asked and     *)
(* answered once.                                                          *)
(*                                                                         *)
(* A number is written in hundredths, so that 6.11 is 611 and 4 is 400.    *)
(***************************************************************************)
EXTENDS Integers, Sequences, FiniteSets, Functions, FiniteSetsExt

CONSTANTS Numbers, \* numbers that are written, in hundredths
          Letters, MaxWord, \* words: sequences of letters, up to a length
          Synonym, \* what a word means beside its letters: a colour, a shape ...
          Indexes, \* carpets the search may know, in order
          Shelves, \* what may be on the shelves, in the order it is read
          Wanted   \* the sizes asked for, in centimetres

Words == UNION {[1 .. n -> Letters] : n \in 0 .. MaxWord}
Weight == [colour |-> 50, shape |-> 100, category |-> 80, material |-> 60, premium |-> 100]

ShelfRow == [kind : {"READY", "OVAL", "METRAJ"}, carpet : Nat, w : Nat, l : Int, price : Nat]
IndexRow == [name : Words, code : Words, brand : Words, tags : SUBSET DOMAIN Weight,
             likes : Nat, roll : BOOLEAN, pieces : SUBSET [w : Nat, l : Nat, on : BOOLEAN]]

ASSUME SearchAssumption ==
  /\ Numbers \subseteq Nat /\ MaxWord \in Nat /\ IsFiniteSet(Letters)
  /\ Shelves \subseteq Seq(ShelfRow) /\ Wanted \subseteq [w : Nat, l : Nat]

ASSUME IndexAssumption ==
  /\ \A word \in DOMAIN Synonym : Synonym[word] \in DOMAIN Weight
  /\ Indexes \subseteq Seq(IndexRow)
  /\ \A index \in Indexes : \A i \in DOMAIN index : IsFiniteSet(index[i].pieces)

VARIABLES question, answer

searchVars == <<question, answer>>

None == -1
Nearest(x, y) == (2 * x + y) \div (2 * y)
Least(s) == CHOOSE x \in s : \A y \in s : x <= y

----------------------------------------------------------------------------
(* Sizes *)

\* parseTokenToCm, for a number without a unit.
ParseTokenToCm(n) ==
  IF n % 100 # 0 \/ n <= 1500 THEN n
  ELSE IF n < 4000 THEN None
  ELSE IF n <= 150000 THEN n \div 100
  ELSE Nearest(n, 1000)

\* parse: two lengths between 40 cm and 50 m.
Parse(a, b) ==
  LET cm == {ParseTokenToCm(a), ParseTokenToCm(b)} IN
  IF \A d \in cm : d \in 40 .. 5000 THEN cm ELSE {None}

\* extractSizes, for "a x b": a length below 50 beside a width in centimetres is
\* that of a roll, in metres.
ExtractSizes(a, b) ==
  LET metres(n) == n < 1500
      cm(n) == IF metres(n) THEN n ELSE Nearest(n, 100)
      width == cm(a)
  IN {width, IF ~metres(b) /\ width >= 50 /\ b < 5000 THEN b ELSE cm(b)}

\* parseDimensionToMm, of a file that is imported.
ParseDimensionToMm(n) ==
  IF n < 1500 THEN 10 * n ELSE IF n < 100000 THEN Nearest(n, 10) ELSE Nearest(n, 100)

\* normalizeDimensions, of a file of BASKO: between 10 and 99 are decimetres.
NormalizeDimension(n) ==
  IF n < 1000 THEN 10 * n
  ELSE IF n < 10000 THEN n
  ELSE IF n < 100000 THEN Nearest(n, 10)
  ELSE Nearest(n, 100)

\* parseAreaFromSize, of a piece whose length is not known: square centimetres.
ParseAreaFromSize(a, b) ==
  LET cm(n) == IF n >= 50000 THEN n \div 1000 ELSE IF n >= 2000 THEN n \div 100 ELSE n
  IN cm(a) * cm(b)

\* normalizeCarpetData, the size that is shown.
NormalizeCarpetData(a, b) ==
  {IF n < 1500 THEN n ELSE n \div 100 : n \in {a, b}}

SizeAnswer(a, b) ==
  [parse |-> Parse(a, b), extract |-> ExtractSizes(a, b),
   import |-> {Nearest(ParseDimensionToMm(n), 10) : n \in {a, b}},
   basko |-> {Nearest(NormalizeDimension(n), 10) : n \in {a, b}},
   shown |-> NormalizeCarpetData(a, b), area |-> ParseAreaFromSize(a, b)]

----------------------------------------------------------------------------
(* Words *)

\* getLevenshteinDistance: the table of the distances of all beginnings, and the
\* distance of the words.
Tmp(a, b) ==
  LET tmp[p \in (0 .. Len(a)) \X (0 .. Len(b))] ==
        LET i == p[1]
            j == p[2]
        IN IF i = 0 THEN j
           ELSE IF j = 0 THEN i
           ELSE Least({tmp[<<i - 1, j>>] + 1, tmp[<<i, j - 1>>] + 1,
                       tmp[<<i - 1, j - 1>>] + IF a[i] = b[j] THEN 0 ELSE 1})
  IN tmp
GetLevenshteinDistance(a, b) == Tmp(a, b)[<<Len(a), Len(b)>>]

\* Fault: a word becomes the first near one, not the nearest.
CorrectToFirst(word, terms) ==
  LET near == {i \in DOMAIN terms : GetLevenshteinDistance(word, terms[i]) < 3}
  IN IF Len(word) < 3 \/ word \in Range(terms) \/ near = {} THEN word
     ELSE terms[Least(near)]

\* correctTypos: a known word and a short one stay; another becomes the first of
\* the nearest words, if it has at most two errors.
CorrectTypos(word, terms) ==
  LET near == {i \in DOMAIN terms : GetLevenshteinDistance(word, terms[i]) < 3}
      dist(i) == GetLevenshteinDistance(word, terms[i])
      best == {i \in near : \A j \in near : dist(i) <= dist(j)}
  IN IF Len(word) < 3 \/ word \in Range(terms) \/ near = {} THEN word
     ELSE terms[Least(best)]

WordAnswer(a, b) ==
  [distance |-> GetLevenshteinDistance(a, b), corrected |-> CorrectTypos(a, <<b>>)]

----------------------------------------------------------------------------
(* The search in words.  A carpet is a record of its name, code and brand,  *)
(* of the meanings it has, of its pieces, its likes and whether it is a     *)
(* roll.                                                                    *)

\* buildSearchIndex: the sizes of a carpet, whatever became of the pieces, and
\* how many of each are on sale.
BuildSearchIndex(carpet) ==
  [carpet EXCEPT !.pieces =
     {[w |-> p.w, l |-> p.l,
       stock |-> Cardinality({x \in carpet.pieces : x.on /\ x.w = p.w /\ x.l = p.l})] :
        p \in carpet.pieces}]

\* parseQuery: a word with a meaning is searched as a word, too.
ParseQuery(word) ==
  [token |-> word, tags |-> IF word \in DOMAIN Synonym THEN {Synonym[word]} ELSE {}]

Part(word, i, n) == [j \in 1 .. n |-> word[i + j - 1]]
Contains(word, t) == \E i \in 1 .. Len(word) - Len(t) + 1 : Part(word, i, Len(t)) = t
StartsWith(word, t) == Len(t) <= Len(word) /\ Part(word, 1, Len(t)) = t
EndsWith(word, t) ==
  Len(t) <= Len(word) /\ Part(word, Len(word) - Len(t) + 1, Len(t)) = t

\* getTrigrams, getTrigramSimilarity: sixtieths of twice the common ones.
GetTrigrams(word) ==
  LET padded == <<" ", " ">> \o word \o <<" ", " ">>
  IN [i \in 1 .. Len(word) + 2 |-> Part(padded, i, 3)]
TrigramPoints(a, b) ==
  LET common == Cardinality({i \in 1 .. Len(b) + 2 :
                               GetTrigrams(b)[i] \in Range(GetTrigrams(a))})
      all == Len(a) + Len(b) + 4
  IN IF 8 * common > all THEN Nearest(120 * common, all) ELSE 0

Close(x, y) == x - y \in -15 .. 15
SizePoints(item, size) ==
  IF item.roll /\ (size.l = 0 \/ size.l >= 1000)
     /\ \E p \in item.pieces : Close(p.w, size.w) THEN 300
  ELSE IF \E p \in item.pieces : \/ Close(p.w, size.w) /\ Close(p.l, size.l)
                                 \/ Close(p.w, size.l) /\ Close(p.l, size.w) THEN 250
  ELSE 0

\* The points of a word: for the name, for the code, and for being near them.
WordPoints(item, token) ==
  LET name == item.name
      far == GetLevenshteinDistance(token, name)
      points(is, n) == IF is THEN n ELSE 0
  IN points(name = token, 150) + points(item.code = token, 200)
     + points(StartsWith(name, token), 70) + points(EndsWith(name, token), 40)
     + points(Contains(name, token), 50) + points(Contains(item.code, token), 90)
     + points(far <= 1, 80) + points(far = 2 /\ Len(token) - Len(name) \in -2 .. 2, 40)
     + points(GetLevenshteinDistance(token, item.code) <= 1, 100)
     + TrigramPoints(token, name)

Score(item, query) ==
  MapThenSumSet(LAMBDA tag : Weight[tag], query.tags \cap item.tags)
    + WordPoints(item, query.token)
    + MapThenSumSet(LAMBDA size : SizePoints(item, size), query.sizes)

----------------------------------------------------------------------------
(* Shelves: rows [kind, carpet, w, l, price]; of a roll, l is what is free. *)

\* calculateDistance, squared, in the better of both orientations.
CalculateDistance(q, row) ==
  LET square(w, l) == (w - q.w) * (w - q.w) + (l - q.l) * (l - q.l)
  IN Least({square(row.w, row.l), square(row.l, row.w)})

Squares == {CalculateDistance(q, row) : q \in Wanted,
                                        row \in UNION {Range(s) : s \in Shelves}}

\* toFixed(2): the root, in hundredths of a centimetre; beyond the limit of
\* 120 cm, which are RootBeyond and SquareBeyond, it does not matter how far.
RootBeyond == 12001
SquareBeyond == 14402
NearestRoot(r, s) ==
  (2 * r - 1) * (2 * r - 1) <= 40000 * s /\ 40000 * s < (2 * r + 1) * (2 * r + 1)
RoundedRoot == [s \in Squares |->
  IF s = 0 THEN 0
  ELSE IF s > SquareBeyond THEN 20000
  ELSE CHOOSE r \in 0 .. RootBeyond : NearestRoot(r, s)]
DistanceCm(q, row) == RoundedRoot[CalculateDistance(q, row)]

\* A stable sort of the places `in': what comes before a place, by what the query
\* compares or for being read earlier.
Ahead(in, before, i) ==
  {j \in in : <<j, i>> \in before \/ (j < i /\ <<i, j>> \notin before)}
Sorted(in, before) ==
  [n \in 1 .. Cardinality(in) |->
     CHOOSE i \in in : Cardinality(Ahead(in, before, i)) = n - 1]

\* search: the word is corrected, the carpets with points are sorted, and of the
\* filters of the page only the one of what is on sale is written here.
TermsOf(index) ==
  [n \in 1 .. 3 * Len(index) |->
     LET item == index[(n + 2) \div 3]
     IN CASE n % 3 = 1 -> item.name [] n % 3 = 2 -> item.code [] OTHER -> item.brand]

SearchFor(index, word, sizes, onlyAvailable) ==
  LET read == ParseQuery(CorrectTypos(word, TermsOf(index)))
      query == [token |-> read.token, tags |-> read.tags, sizes |-> sizes]
      known == [i \in DOMAIN index |-> BuildSearchIndex(index[i])]
      points == [i \in DOMAIN index |-> Score(known[i], query)]
      found == {i \in DOMAIN index :
                  /\ points[i] > 0
                  /\ onlyAvailable => \E p \in known[i].pieces : p.stock > 0}
      better(i, j) == \/ points[i] > points[j]
                      \/ points[i] = points[j] /\ index[i].likes > index[j].likes
      order == Sorted(found, {p \in found \X found : better(p[1], p[2])})
  IN [n \in DOMAIN order |-> index[order[n]]]

\* searchMetrajRolls: rolls of the very width, of which enough is free.
FitsRoll(q, row) == row.kind = "METRAJ" /\ row.w = q.w /\ row.l >= q.l
CheaperRoll(r, s) == r.price < s.price \/ (r.price = s.price /\ r.l > s.l)
SearchMetrajRolls(q, shelf) ==
  LET fits == {i \in DOMAIN shelf : FitsRoll(q, shelf[i])}
  IN Sorted(fits, {p \in fits \X fits : CheaperRoll(shelf[p[1]], shelf[p[2]])})

IsNear(q, row, kind) == row.kind = kind /\ DistanceCm(q, row) <= 12000
NearerOrCheaper(q, r, s) ==
  \/ DistanceCm(q, r) < DistanceCm(q, s)
  \/ DistanceCm(q, r) = DistanceCm(q, s) /\ r.price < s.price

\* Fault: nothing but the distance and the price are compared.
RankNearAndCheap(q, shelf, kind) ==
  LET fits == {i \in DOMAIN shelf : IsNear(q, shelf[i], kind)}
  IN Sorted(fits, {p \in fits \X fits : NearerOrCheaper(q, shelf[p[1]], shelf[p[2]])})

\* rankCandidates, with findClosestReadyCarpets and findClosestOvalCarpets: every
\* piece has a stock of one.
RanksBefore(q, r, s) ==
  \/ NearerOrCheaper(q, r, s)
  \/ DistanceCm(q, r) = DistanceCm(q, s) /\ r.price = s.price /\ r.carpet < s.carpet
RankCandidates(q, shelf, kind) ==
  LET fits == {i \in DOMAIN shelf : IsNear(q, shelf[i], kind)}
  IN Sorted(fits, {p \in fits \X fits : RanksBefore(q, shelf[p[1]], shelf[p[2]])})

\* What a row of an answer shows of itself.
Shown(q, row) ==
  IF row.kind = "METRAJ" THEN <<row.price, row.l>>
  ELSE <<row.carpet, row.price, DistanceCm(q, row)>>

\* executeFallbackSearch: rolls, then pieces, then ovals, then nothing.
ExecuteFallbackSearch(q, shelf) ==
  LET rolls == SearchMetrajRolls(q, shelf)
      ready == RankCandidates(q, shelf, "READY")
      oval == RankCandidates(q, shelf, "OVAL")
      found == IF rolls # <<>> THEN rolls ELSE IF ready # <<>> THEN ready ELSE oval
  IN [n \in DOMAIN found |-> Shown(q, shelf[found[n]])]

----------------------------------------------------------------------------
Questions ==
  [kind : {"size"}, a : Numbers, b : Numbers]
    \cup [kind : {"words"}, a : Words, b : Words]
    \cup [kind : {"search"}, index : Indexes, word : Words \ {<<>>},
           sizes : {{}} \cup {{q} : q \in Wanted}, onlyAvailable : BOOLEAN]
    \cup [kind : {"shelf"}, q : Wanted, shelf : Shelves]

SearchInit == question \in Questions /\ answer = {}

Answer ==
  /\ answer = {}
  /\ answer' = {
       CASE question.kind = "size" -> SizeAnswer(question.a, question.b)
         [] question.kind = "words" -> WordAnswer(question.a, question.b)
         [] question.kind = "search" ->
              SearchFor(question.index, question.word, question.sizes, question.onlyAvailable)
         [] OTHER -> ExecuteFallbackSearch(question.q, question.shelf)}
  /\ UNCHANGED question

SearchNext == Answer
SearchSpec == SearchInit /\ [][SearchNext]_searchVars
----------------------------------------------------------------------------
Answers(kind) == {x \in answer : question.kind = kind}

\* Whole hundreds: centimetres up to nine metres, or hundredths of a centimetre
\* below what the prices take for millimetres.
InCentimetres(n) == n % 100 = 0 /\ 100 <= n /\ n <= 900
InHundredths(n) == n % 100 = 0 /\ 10000 <= n /\ n <= 49900
Plain(n) == InCentimetres(n) \/ InHundredths(n)
Centimetres(n) == IF n <= 900 THEN n ELSE n \div 100

SameSize(read, cm) ==
  /\ {read.parse, read.extract, read.import, read.basko, read.shown} = {cm}
  /\ \E x, y \in cm : {x, y} = cm /\ read.area = x * y

\* Plain numbers are the same size for everybody who reads them.
SizesAgree ==
  \A read \in Answers("size") :
    Plain(question.a) /\ Plain(question.b) =>
      SameSize(read, {Centimetres(question.a), Centimetres(question.b)})

\* One removal, insertion or replacement of a letter.
Without(s, i) == [j \in 1 .. Len(s) - 1 |-> s[IF j < i THEN j ELSE j + 1]]
OneEdit(s, t) ==
  \/ \E i \in DOMAIN s : t = Without(s, i)
  \/ \E i \in DOMAIN t : s = Without(t, i)
  \/ DOMAIN s = DOMAIN t /\ \E i \in DOMAIN s : \A j \in DOMAIN s \ {i} : s[j] = t[j]

\* The words at most k edits away.
Around(word) ==
  LET ball[k \in 0 .. MaxWord] ==
        IF k = 0 THEN {word}
        ELSE ball[k - 1] \cup {t \in Words : \E s \in ball[k - 1] : OneEdit(s, t)}
  IN ball

\* The distance of two words is the least number of edits between them, and a
\* word is corrected to a known one at most two edits away, if it is long enough.
EditsAreFewest ==
  \A read \in Answers("words") :
    LET ball == Around(question.a)
        fewest == Least({k \in DOMAIN ball : question.b \in ball[k]})
    IN /\ read.distance = fewest
       /\ read.corrected =
            IF Len(question.a) >= 3 /\ fewest <= 2 THEN question.b ELSE question.a

\* A word of three letters or more with at most two errors finds the carpet whose
\* name it is, unless another word of the index is as near, or none of its pieces
\* is on sale and only those are wanted.
TypoStillFinds ==
  \A found \in Answers("search") :
    LET ball == Around(question.word)
        at(t) == Least({k \in DOMAIN ball : t \in ball[k]})
    IN \A i \in DOMAIN question.index :
         LET item == question.index[i] IN
         /\ Len(question.word) >= 3 /\ at(item.name) <= 2
         /\ \A t \in Range(TermsOf(question.index)) \ {item.name} : at(t) > at(item.name)
         /\ question.onlyAvailable => \E p \in item.pieces : p.on
         => item \in Range(found)

ReadsRight == SizesAgree /\ EditsAreFewest /\ TypoStillFinds

Orders(shelf) == {[i \in DOMAIN shelf |-> shelf[p[i]]] :
                    p \in {f \in [DOMAIN shelf -> DOMAIN shelf] : IsInjective(f)}}

\* "Deterministic sorting": in whatever order the database returns the shelves,
\* the same carpets are offered in the same order; only pieces of one carpet, and
\* rolls of one price and length, may change places.
RankingDeterministic ==
  \A offer \in Answers("shelf") :
    \A shelf \in Orders(question.shelf) :
      ExecuteFallbackSearch(question.q, shelf) = offer
=============================================================================

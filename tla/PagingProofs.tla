---------------------------- MODULE PagingProofs ----------------------------
(***************************************************************************)
(* Theorems about Paging for any pagers, collections and limits, when one  *)
(* pager is initialized at a time.                                         *)
(***************************************************************************)
EXTENDS Paging, SequenceTheorems, TLAPS

\* The URLs of p's collection that a server can answer.
UrlsOf(p) ==
  { u \in [of : {p}, limit : (Nat \ {0}) \union {Absent}, offset : Nat \union {Absent}] :
      u.limit = Absent => u.offset = Absent }

\* The items after the a-th up to the b-th.
Span(a, b) == [i \in 1 .. b - a |-> a + i]

\* Concatenation, for facts that need not know what it is.
Joined(s, t) == s \o t

----------------------------------------------------------------------------
(* The server's answers.                                                   *)

LEMMA NoneIsNoUrl == \A p \in Pagers : None \notin UrlsOf(p) /\ Bare \notin UrlsOf(p)
BY PagersAssumption DEF UrlsOf, None, Bare

LEMMA FromType ==
  ASSUME NEW p \in Pagers, NEW u \in UrlsOf(p)
  PROVE  From(u) \in Nat
BY DEF From, UrlsOf, Absent

\* A page is the span of items that begins after the offset.
LEMMA PageIsSpan ==
  ASSUME NEW p \in Pagers, NEW u \in UrlsOf(p), NEW n \in Nat
  PROVE  \E b \in Nat :
           /\ From(u) <= b /\ PageAt(n, u) = Span(From(u), b)
           /\ u.limit # Absent /\ From(u) + u.limit <= n => b = From(u) + u.limit
<1> DEFINE upto == IF u.limit = Absent THEN n ELSE Least(n, From(u) + u.limit)
           k == Most(0, upto - From(u))
<1>1. u.limit \in Int /\ (u.limit # Absent => u.limit > 0) /\ From(u) \in Nat
  BY FromType DEF UrlsOf, Absent
<1>2. upto \in Int /\ (u.limit # Absent /\ From(u) + u.limit <= n => upto = From(u) + u.limit)
  BY <1>1 DEF Least
<1>3. k \in Nat /\ (u.limit # Absent /\ From(u) + u.limit <= n => k = u.limit)
  BY <1>1, <1>2 DEF Most
<1>4. PageAt(n, u) = [i \in 1 .. k |-> From(u) + i]
  BY DEF PageAt
<1> HIDE DEF k
<1>5. PICK b : b = From(u) + k
  OBVIOUS
<1>6. b \in Nat /\ From(u) <= b /\ b - From(u) = k
  BY <1>1, <1>3, <1>5
<1>7. PageAt(n, u) = Span(From(u), b)
  BY <1>4, <1>6 DEF Span
<1>8. QED
  BY <1>3, <1>5, <1>6, <1>7

LEMMA SpanIsSeq ==
  ASSUME NEW a \in Nat, NEW b \in Nat, a <= b
  PROVE  /\ Span(a, b) \in Seq(Nat) /\ Len(Span(a, b)) = b - a
         /\ \A i \in 1 .. b - a : Span(a, b)[i] = a + i
BY DEF Span

LEMMA PageType ==
  ASSUME NEW p \in Pagers, NEW u \in UrlsOf(p), NEW n \in Nat
  PROVE  PageAt(n, u) \in Seq(Nat)
<1>1. PICK b \in Nat : From(u) <= b /\ PageAt(n, u) = Span(From(u), b)
  BY PageIsSpan
<1>2. QED
  BY <1>1, SpanIsSeq, FromType

LEMMA LinkTo ==
  ASSUME NEW p \in Pagers, NEW u \in UrlsOf(p), u.limit # Absent, NEW o \in Nat
  PROVE  /\ [u EXCEPT !.offset = o] \in UrlsOf(p)
         /\ [u EXCEPT !.offset = o].limit = u.limit
         /\ From([u EXCEPT !.offset = o]) = o
BY DEF UrlsOf, From, Absent

LEMMA LinksType ==
  ASSUME NEW p \in Pagers, NEW u \in UrlsOf(p), NEW n \in Nat, NEW known \in BOOLEAN
  PROVE  LinksAt(n, known, u) \in [Rels -> UrlsOf(p) \union {None}]
<1>1. CASE u.limit = Absent
  BY <1>1 DEF LinksAt, NoLinks
<1>2. CASE u.limit # Absent
  <2> DEFINE to(o) == [u EXCEPT !.offset = o]
             further == From(u) + u.limit
             back == Most(0, From(u) - u.limit)
             end == ((n - 1) \div u.limit) * u.limit
  <2>1. u.limit \in Nat \ {0} /\ From(u) \in Nat
    BY <1>2, FromType DEF UrlsOf
  <2>2. further \in Nat /\ back \in Nat
    BY <2>1 DEF Most
  <2>3. known /\ n > 0 => end \in Nat
    <3>1. ASSUME n > 0
          PROVE  (n - 1) \div u.limit \in Nat
      BY <2>1, <3>1, Z3
    <3>2. QED
      BY <2>1, <3>1
  <2>4. \A o \in Nat : to(o) \in UrlsOf(p)
    BY <1>2, LinkTo
  <2> HIDE DEF to, further, back, end
  <2> DEFINE list == [ first |-> to(0),
            next |-> IF (known /\ further < n) \/ (~known /\ further <= n)
                       THEN to(further) ELSE None,
            prev |-> IF From(u) > 0 THEN to(back) ELSE None,
            last |-> IF known /\ n > 0 THEN to(end) ELSE None ]
  <2>5. LinksAt(n, known, u) = list
    BY <1>2 DEF LinksAt, to, further, back, end
  <2>6. list \in [Rels -> UrlsOf(p) \union {None}]
    <3>1. to(0) \in UrlsOf(p) /\ to(further) \in UrlsOf(p) /\ to(back) \in UrlsOf(p)
      BY <2>2, <2>4
    <3>2. known /\ n > 0 => to(end) \in UrlsOf(p)
      BY <2>3, <2>4
    <3>3. QED
      BY <3>1, <3>2 DEF Rels
  <2>7. QED
    BY <2>5, <2>6
<1>3. QED
  BY <1>1, <1>2

\* The next page begins where a full page ends.
LEMMA NextFollows ==
  ASSUME NEW p \in Pagers, NEW u \in UrlsOf(p), NEW n \in Nat, NEW known \in BOOLEAN,
         LinksAt(n, known, u)["next"] # None
  PROVE  /\ From(LinksAt(n, known, u)["next"]) \in Nat
         /\ From(u) <= From(LinksAt(n, known, u)["next"])
         /\ PageAt(n, u) = Span(From(u), From(LinksAt(n, known, u)["next"]))
<1> DEFINE further == From(u) + u.limit
<1>1. u.limit # Absent
  BY DEF LinksAt, NoLinks, Rels
<1>2. u.limit \in Nat \ {0} /\ From(u) \in Nat
  BY <1>1, FromType DEF UrlsOf
<1>3. LinksAt(n, known, u)["next"] =
        IF (known /\ further < n) \/ (~known /\ further <= n)
          THEN [u EXCEPT !.offset = further] ELSE None
  BY <1>1 DEF LinksAt
<1>4. further <= n /\ LinksAt(n, known, u)["next"] = [u EXCEPT !.offset = further]
  BY <1>2, <1>3
<1>5. From([u EXCEPT !.offset = further]) = further
  BY <1>1, <1>2, LinkTo
<1>6. PICK b \in Nat :
        /\ From(u) <= b /\ PageAt(n, u) = Span(From(u), b)
        /\ u.limit # Absent /\ From(u) + u.limit <= n => b = From(u) + u.limit
  BY PageIsSpan
<1>7. QED
  BY <1>1, <1>4, <1>5, <1>6

\* A response with a total is one to a request with a limit, and an item of its
\* page lies after its offset.
LEMMA CountedPage ==
  ASSUME NEW p \in Pagers, NEW u \in UrlsOf(p), NEW n \in Nat, NEW known \in BOOLEAN,
         TotalAt(n, known, u) > 0, PageAt(n, u) # <<>>
  PROVE  /\ known /\ TotalAt(n, known, u) = n
         /\ u.limit \in Nat \ {0} /\ From(u) < n
         /\ LinksAt(n, known, u)["next"] # None <=> From(u) + u.limit < n
<1>1. known /\ u.limit # Absent /\ TotalAt(n, known, u) = n
  BY DEF TotalAt, Absent
<1>2. u.limit \in Nat \ {0} /\ From(u) \in Nat
  BY <1>1, FromType DEF UrlsOf
<1>3. From(u) < n
  <2> DEFINE k == Most(0, Least(n, From(u) + u.limit) - From(u))
  <2>1. From(u) >= n => k = 0
    BY <1>2 DEF Least, Most
  <2>2. PageAt(n, u) = [i \in 1 .. k |-> From(u) + i]
    BY <1>1 DEF PageAt
  <2> HIDE DEF k
  <2>3. k = 0 => PageAt(n, u) = <<>>
    BY <2>2
  <2>4. QED
    BY <1>2, <2>1, <2>3
<1>4. LinksAt(n, known, u)["next"] =
        IF From(u) + u.limit < n THEN [u EXCEPT !.offset = From(u) + u.limit] ELSE None
  BY <1>1 DEF LinksAt
<1>5. [u EXCEPT !.offset = From(u) + u.limit] # None
  <2>1. PICK o : o = From(u) + u.limit
    OBVIOUS
  <2>2. o \in Nat
    BY <1>2, <2>1
  <2>3. [u EXCEPT !.offset = o] \in UrlsOf(p)
    BY <1>1, <2>2, LinkTo
  <2>4. QED
    BY <2>1, <2>3, NoneIsNoUrl
<1>6. LinksAt(n, known, u)["next"] # None <=> From(u) + u.limit < n
  BY <1>4, <1>5, Zenon
<1>7. QED
  BY <1>1, <1>2, <1>3, <1>6

\* Rounding up: the number of pages of b items that a items take.
LEMMA CeilingBounds ==
  ASSUME NEW a \in Nat, NEW b \in Nat \ {0}
  PROVE  /\ Ceiling(a, b) \in Nat
         /\ b * Ceiling(a, b) < a + b /\ a <= b * Ceiling(a, b)
<1>1. PICK c : c = a + b - 1
  OBVIOUS
<1>2. c \in Nat /\ Ceiling(a, b) = c \div b
  BY <1>1 DEF Ceiling
<1>3. c \div b \in Nat /\ b * (c \div b) <= c /\ c < b * (c \div b) + b
  BY <1>2, Z3
<1>4. PICK q : q = c \div b
  OBVIOUS
<1>5. q \in Nat /\ b * q \in Nat /\ b * q <= c /\ c < b * q + b
  BY <1>3, <1>4
<1>6. QED
  BY <1>1, <1>2, <1>4, <1>5

\* Multiples of a positive number are ordered as what they are multiples of.
LEMMA TimesOrder ==
  ASSUME NEW b \in Nat \ {0}, NEW i \in Int, NEW j \in Int
  PROVE  /\ b * i < b * j => i < j
         /\ i <= j => b * i <= b * j
<1>1. i <= j => b * i <= b * j
  BY Z3
<1>2. j <= i => b * j <= b * i
  BY Z3
<1>3. b * i \in Int /\ b * j \in Int
  BY Z3
<1>4. QED
  BY <1>1, <1>2, <1>3

\* Of an aligned page the offset is a whole number of pages.
LEMMA CeilingAligned ==
  ASSUME NEW a \in Nat, NEW b \in Nat \ {0}, a % b = 0
  PROVE  b * Ceiling(a, b) = a
<1>1. PICK k : k = a \div b
  OBVIOUS
<1>2. k \in Nat /\ a = b * k
  BY <1>1, Z3
<1>3. PICK q : q = Ceiling(a, b)
  OBVIOUS
<1>4. q \in Nat /\ b * q < a + b /\ a <= b * q
  BY <1>3, CeilingBounds
<1>5. b * q < b * (k + 1)
  BY <1>2, <1>4, Z3
<1>6. q <= k
  BY <1>2, <1>4, <1>5, Z3
<1>7. k <= q
  BY <1>2, <1>4, Z3
<1>8. QED
  BY <1>2, <1>3, <1>4, <1>6, <1>7

----------------------------------------------------------------------------
(* The invariant.                                                          *)

OneResponse(p) ==
  LET u == [of |-> p, limit |-> limit[p], offset |-> offset[p]] IN
  items[p] # <<>> =>
    /\ u \in UrlsOf(p) /\ (u.limit # Absent => u.offset # Absent)
    /\ items[p] = PageAt(size[p], u)
    /\ links[p] = LinksAt(size[p], counted[p], u)
    /\ total[p] = TotalAt(size[p], counted[p], u)

\* What pageAll has shown is a run that the page to come goes on with.
Follows(p) ==
  \E a, b \in Nat :
    /\ a <= b /\ seen[p] = Span(a, b)
    /\ pc[p] = "ready" /\ More(p) => From(links[p]["next"]) = b
    /\ pc[p] = "fetching" => From(asked[p]) = b

\* The invariant about one pager: a pager being initialized is the observer and
\* has found the application's, and every URL it holds is of its own collection.
PagerInv(p) ==
  /\ pc[p] = "initializing" => observer = p /\ saved[p] = App
  /\ pc[p] \in {"initializing", "fetching"} => asked[p] \in UrlsOf(p)
  /\ pc[p] \in {"new", "initializing"} => seen[p] = <<>>
  /\ links[p] \in [Rels -> UrlsOf(p) \union {None}]
  /\ OneResponse(p)
  /\ IF walk[p] THEN Follows(p) ELSE seen[p] = <<>>

IInv == TypeOK /\ ObserverRestored /\ \A p \in Pagers : PagerInv(p)

LEMMA UrlsOfAreUrls == \A p \in Pagers : UrlsOf(p) \subseteq Urls
BY DEF UrlsOf, Urls, Absent

\* What stands and falls with the pager's own part of the state.
LEMMA PagerFrame ==
  ASSUME NEW p \in Pagers, PagerInv(p), UNCHANGED world,
         pc'[p] = pc[p], pc[p] = "initializing" => observer' = observer,
         saved'[p] = saved[p], asked'[p] = asked[p], links'[p] = links[p],
         total'[p] = total[p], offset'[p] = offset[p], limit'[p] = limit[p],
         items'[p] = items[p], walk'[p] = walk[p], seen'[p] = seen[p]
  PROVE  PagerInv(p)'
<1>1. size' = size /\ counted' = counted
  BY DEF world
<1>2. OneResponse(p)'
  BY <1>1 DEF PagerInv, OneResponse
<1>3. walk'[p] => Follows(p)'
  BY DEF PagerInv, Follows, More
<1>4. QED
  BY <1>2, <1>3 DEF PagerInv

LEMMA FieldsSet ==
  ASSUME TypeOK, NEW p \in Pagers, NEW u \in Urls \union {None},
         NEW these \in [Rels -> Urls \union {None}], NEW count \in Int,
         NEW list \in Seq(Nat), SetFields(p, u, these, count, list)
  PROVE  /\ links' \in [Pagers -> [Rels -> Urls \union {None}]]
         /\ total' \in [Pagers -> Int] /\ offset' \in [Pagers -> Int]
         /\ limit' \in [Pagers -> Int] /\ items' \in [Pagers -> Seq(Nat)]
         /\ links'[p] = these /\ total'[p] = count /\ items'[p] = list
         /\ limit'[p] = u.limit
         /\ offset'[p] = IF u.offset = Absent /\ u.limit > 0 THEN 0 ELSE u.offset
         /\ \A q \in Pagers \ {p} :
              /\ links'[q] = links[q] /\ total'[q] = total[q] /\ offset'[q] = offset[q]
              /\ limit'[q] = limit[q] /\ items'[q] = items[q]
<1>1. u.limit \in Int /\ u.offset \in Int
  BY DEF Urls, None, Absent
<1>2. links' \in [Pagers -> [Rels -> Urls \union {None}]] /\ items' \in [Pagers -> Seq(Nat)]
  BY DEF TypeOK, SetFields
<1>3. total' \in [Pagers -> Int] /\ offset' \in [Pagers -> Int] /\ limit' \in [Pagers -> Int]
  BY <1>1 DEF TypeOK, SetFields
<1>4. QED
  BY <1>2, <1>3 DEF TypeOK, SetFields

\* A reset and an error response empty the pager.
LEMMA EmptySets ==
  ASSUME TypeOK, NEW p \in Pagers, NEW u \in Urls \union {None},
         SetFields(p, u, NoLinks, Absent, <<>>)
  PROVE  /\ links' \in [Pagers -> [Rels -> Urls \union {None}]]
         /\ total' \in [Pagers -> Int] /\ offset' \in [Pagers -> Int]
         /\ limit' \in [Pagers -> Int] /\ items' \in [Pagers -> Seq(Nat)]
         /\ links'[p] = NoLinks /\ items'[p] = <<>>
         /\ \A q \in Pagers \ {p} :
              /\ links'[q] = links[q] /\ total'[q] = total[q] /\ offset'[q] = offset[q]
              /\ limit'[q] = limit[q] /\ items'[q] = items[q]
<1>1. NoLinks \in [Rels -> Urls \union {None}] /\ Absent \in Int
  BY DEF NoLinks, Absent
<1>2. PICK these, count, list : these = NoLinks /\ count = Absent /\ list = <<>>
  OBVIOUS
<1>3. /\ these \in [Rels -> Urls \union {None}] /\ count \in Int /\ list \in Seq(Nat)
      /\ SetFields(p, u, these, count, list)
  BY <1>1, <1>2
<1>4. /\ links' \in [Pagers -> [Rels -> Urls \union {None}]]
      /\ total' \in [Pagers -> Int] /\ offset' \in [Pagers -> Int]
      /\ limit' \in [Pagers -> Int] /\ items' \in [Pagers -> Seq(Nat)]
      /\ links'[p] = these /\ items'[p] = list
      /\ \A q \in Pagers \ {p} :
           /\ links'[q] = links[q] /\ total'[q] = total[q] /\ offset'[q] = offset[q]
           /\ limit'[q] = limit[q] /\ items'[q] = items[q]
  BY <1>3, FieldsSet
<1>5. QED
  BY <1>2, <1>4

LEMMA ResetSets ==
  ASSUME TypeOK, NEW p \in Pagers, reset(p)
  PROVE  /\ links' \in [Pagers -> [Rels -> Urls \union {None}]]
         /\ total' \in [Pagers -> Int] /\ offset' \in [Pagers -> Int]
         /\ limit' \in [Pagers -> Int] /\ items' \in [Pagers -> Seq(Nat)]
         /\ links'[p] = NoLinks /\ items'[p] = <<>>
         /\ \A q \in Pagers \ {p} :
              /\ links'[q] = links[q] /\ total'[q] = total[q] /\ offset'[q] = offset[q]
              /\ limit'[q] = limit[q] /\ items'[q] = items[q]
<1>1. PICK u : u = None
  OBVIOUS
<1>2. u \in Urls \union {None} /\ SetFields(p, u, NoLinks, Absent, <<>>)
  BY <1>1 DEF reset
<1>3. QED
  BY <1>2, EmptySets

\* Parsing a response of the pager's own collection gives a page of it.
LEMMA PageSets ==
  ASSUME TypeOK, NEW p \in Pagers, NEW u \in UrlsOf(p), UNCHANGED world,
         SetPage(p, u, PageAt(size[p], u))
  PROVE  /\ links' \in [Pagers -> [Rels -> Urls \union {None}]]
         /\ total' \in [Pagers -> Int] /\ offset' \in [Pagers -> Int]
         /\ limit' \in [Pagers -> Int] /\ items' \in [Pagers -> Seq(Nat)]
         /\ links'[p] = LinksAt(size[p], counted[p], u)
         /\ OneResponse(p)'
         /\ \A q \in Pagers \ {p} :
              /\ links'[q] = links[q] /\ total'[q] = total[q] /\ offset'[q] = offset[q]
              /\ limit'[q] = limit[q] /\ items'[q] = items[q]
<1> DEFINE these == LinksAt(size[p], counted[p], u)
           count == TotalAt(size[p], counted[p], u)
           list  == PageAt(size[p], u)
           v == [of |-> p, limit |-> limit'[p], offset |-> offset'[p]]
<1>1. size[p] \in Nat /\ counted[p] \in BOOLEAN /\ size' = size /\ counted' = counted
  BY DEF TypeOK, world
<1>2. these \in [Rels -> UrlsOf(p) \union {None}]
  BY <1>1, LinksType
<1>3. list \in Seq(Nat)
  BY <1>1, PageType
<1>4. count \in Int
  BY <1>1 DEF TotalAt, Absent
<1>5. u.of = p /\ u \in Urls
  BY UrlsOfAreUrls DEF UrlsOf
<1>6. SetFields(p, u, these, count, list)
  BY <1>5 DEF SetPage
<1>7. these \in [Rels -> Urls \union {None}]
  BY <1>2, UrlsOfAreUrls
<1> HIDE DEF these, count, list
<1>8. /\ links' \in [Pagers -> [Rels -> Urls \union {None}]]
      /\ total' \in [Pagers -> Int] /\ offset' \in [Pagers -> Int]
      /\ limit' \in [Pagers -> Int] /\ items' \in [Pagers -> Seq(Nat)]
      /\ links'[p] = these /\ total'[p] = count /\ items'[p] = list
      /\ limit'[p] = u.limit
      /\ offset'[p] = IF u.offset = Absent /\ u.limit > 0 THEN 0 ELSE u.offset
      /\ \A q \in Pagers \ {p} :
           /\ links'[q] = links[q] /\ total'[q] = total[q] /\ offset'[q] = offset[q]
           /\ limit'[q] = limit[q] /\ items'[q] = items[q]
  BY <1>3, <1>4, <1>5, <1>6, <1>7, FieldsSet
<1>9. v.limit = u.limit /\ From(v) = From(u)
  BY <1>8 DEF From, UrlsOf, Absent
<1>10. u.limit # Absent => \A o : [v EXCEPT !.offset = o] = [u EXCEPT !.offset = o]
  <2>1. u = [of |-> p, limit |-> u.limit, offset |-> u.offset]
    BY <1>5 DEF Urls
  <2>2. v = [of |-> p, limit |-> u.limit, offset |-> v.offset]
    BY <1>8
  <2>3. QED
    BY <2>1, <2>2
<1>11. PageAt(size[p], v) = list
  BY <1>9 DEF PageAt, list
<1>12. LinksAt(size[p], counted[p], v) = these
  <2>1. CASE u.limit = Absent
    BY <2>1, <1>9 DEF LinksAt, these
  <2>2. CASE u.limit # Absent
    BY <2>2, <1>9, <1>10 DEF LinksAt, these
  <2>3. QED
    BY <2>1, <2>2
<1>13. TotalAt(size[p], counted[p], v) = count
  BY <1>9 DEF TotalAt, count
<1>14. OneResponse(p)'
  <2>1. v \in UrlsOf(p) /\ (v.limit # Absent => v.offset # Absent)
    BY <1>8 DEF UrlsOf, Absent
  <2>2. QED
    BY <1>1, <1>8, <1>11, <1>12, <1>13, <2>1 DEF OneResponse
<1>15. QED
  BY <1>8, <1>14 DEF these

\* Every response is caught by somebody or nobody, and the pager that is being
\* initialized catches its own.
LEMMA CaughtType ==
  ASSUME TypeOK, NEW r \in Urls \union {None, Bare}
  PROVE  Caught(r) \in [Pagers -> Urls \union {None, Bare}]
BY DEF Caught, TypeOK

LEMMA CaughtOwn ==
  ASSUME TypeOK, NEW p \in Pagers, observer = p, pc[p] = "initializing", NEW r
  PROVE  Caught(r)[p] = r
BY DEF Caught, TypeOK

LEMMA EmptySpan == \A a \in Nat : Span(a, a) = <<>>
BY DEF Span

\* A page that goes on where the last one ended makes one longer span.
LEMMA SpansJoin ==
  ASSUME NEW a \in Nat, NEW b \in Nat, NEW c \in Nat, a <= b, b <= c
  PROVE  Joined(Span(a, b), Span(b, c)) = Span(a, c)
<1>1. PICK k, n : k = b - a /\ n = c - b
  OBVIOUS
<1>2. k \in Nat /\ n \in Nat /\ c - a = k + n
  BY <1>1
<1>3. PICK s, t : s = Span(a, b) /\ t = Span(b, c)
  OBVIOUS
<1>4. s \in Seq(Nat) /\ Len(s) = k /\ \A i \in 1 .. k : s[i] = a + i
  BY <1>1, <1>3, SpanIsSeq
<1>5. t \in Seq(Nat) /\ Len(t) = n /\ \A i \in 1 .. n : t[i] = b + i
  BY <1>1, <1>3, SpanIsSeq
<1>6. /\ s \o t \in Seq(Nat) /\ Len(s \o t) = k + n
      /\ \A i \in 1 .. k + n : (s \o t)[i] = IF i <= k THEN s[i] ELSE t[i - k]
  BY <1>4, <1>5, ConcatProperties
<1>7. ASSUME NEW i \in 1 .. k + n PROVE (s \o t)[i] = a + i
  <2>1. i <= k \/ i > k
    BY <1>2
  <2>2. CASE i <= k
    BY <1>2, <1>4, <1>6, <2>2
  <2>3. CASE i > k
    <3>1. i - k \in 1 .. n /\ b + (i - k) = a + i
      BY <1>1, <1>2, <2>3
    <3>2. (s \o t)[i] = t[i - k]
      BY <1>2, <1>6, <2>3
    <3>3. QED
      BY <1>5, <3>1, <3>2
  <2>4. QED
    BY <2>1, <2>2, <2>3
<1>8. PICK v : v = s \o t
  OBVIOUS
<1>9. v = [i \in 1 .. k + n |-> v[i]]
  <2>1. v \in Seq(Nat) /\ Len(v) = k + n
    BY <1>6, <1>8
  <2>2. QED
    BY <2>1
<1>10. v = [i \in 1 .. k + n |-> a + i]
  BY <1>7, <1>8, <1>9
<1>11. QED
  BY <1>2, <1>3, <1>8, <1>10 DEF Span, Joined

\* pageAll shows the page of the URL it follows, or the first page.
LEMMA ShowFollows ==
  ASSUME NEW p \in Pagers, NEW u \in UrlsOf(p), NEW n \in Nat, NEW known \in BOOLEAN,
         NEW a \in Nat, NEW b \in Nat, a <= b, From(u) = b
  PROVE  \E c \in Nat :
           /\ a <= c /\ Joined(Span(a, b), PageAt(n, u)) = Span(a, c)
           /\ LinksAt(n, known, u)["next"] # None =>
                From(LinksAt(n, known, u)["next"]) = c
<1>1. PICK c \in Nat :
        /\ b <= c /\ PageAt(n, u) = Span(b, c)
        /\ LinksAt(n, known, u)["next"] # None =>
             From(LinksAt(n, known, u)["next"]) = c
  BY NextFollows, PageIsSpan
<1>2. a <= c
  BY <1>1
<1>3. QED
  BY <1>1, <1>2, SpansJoin

LEMMA FirstFollows ==
  ASSUME NEW p \in Pagers, NEW u \in UrlsOf(p), NEW n \in Nat, NEW known \in BOOLEAN
  PROVE  \E a, c \in Nat :
           /\ a <= c /\ Joined(<<>>, PageAt(n, u)) = Span(a, c)
           /\ LinksAt(n, known, u)["next"] # None =>
                From(LinksAt(n, known, u)["next"]) = c
<1>1. PICK a \in Nat : a = From(u)
  BY FromType
<1>2. a <= a /\ Span(a, a) = <<>>
  BY EmptySpan
<1>3. QED
  BY <1>1, <1>2, ShowFollows

\* A link with another limit and offset is a URL of the same collection.
LEMMA LinkWith ==
  ASSUME NEW p \in Pagers, NEW u \in UrlsOf(p), NEW l \in Nat \ {0}, NEW o \in Nat
  PROVE  [u EXCEPT !.limit = l, !.offset = o] \in UrlsOf(p)
<1>1. PICK v : v = [u EXCEPT !.limit = l, !.offset = o]
  OBVIOUS
<1>2. u \in [of : {p}, limit : (Nat \ {0}) \union {Absent}, offset : Nat \union {Absent}]
  BY DEF UrlsOf
<1>3. v \in [of : {p}, limit : (Nat \ {0}) \union {Absent}, offset : Nat \union {Absent}]
  BY <1>1, <1>2
<1>4. v.limit # Absent
  BY <1>1, <1>2 DEF Absent
<1>5. QED
  BY <1>1, <1>3, <1>4 DEF UrlsOf

----------------------------------------------------------------------------
(* The initial states and the steps.                                       *)

LEMMA InitInv == Init => IInv
<1> SUFFICES ASSUME Init PROVE IInv
  OBVIOUS
<1>1. TypeOK
  <2>1. size \in [Pagers -> Nat] /\ counted \in [Pagers -> BOOLEAN]
    BY SizesAssumption DEF Init
  <2>2. NoLinks \in [Rels -> Urls \union {None}]
    BY DEF NoLinks
  <2>3. <<>> \in Seq(Nat) /\ Absent \in Int
    BY DEF Absent
  <2>4. links \in [Pagers -> [Rels -> Urls \union {None}]]
    BY <2>2 DEF Init
  <2>5. items \in [Pagers -> Seq(Nat)] /\ seen \in [Pagers -> Seq(Nat)]
    BY <2>3 DEF Init
  <2>6. total \in [Pagers -> Int] /\ offset \in [Pagers -> Int] /\ limit \in [Pagers -> Int]
    BY <2>3 DEF Init
  <2>7. observer \in Pagers \union {App} /\ saved \in [Pagers -> Pagers \union {App}]
    BY DEF Init
  <2>8. raw \in [Pagers -> Urls \union {None, Bare}] /\ asked \in [Pagers -> Urls \union {None}]
    BY DEF Init
  <2>9. /\ pc \in [Pagers -> {"new", "initializing", "ready", "fetching", "rejected"}]
        /\ walk \in [Pagers -> BOOLEAN]
    BY DEF Init
  <2>10. QED
    BY <2>1, <2>4, <2>5, <2>6, <2>7, <2>8, <2>9 DEF TypeOK
<1>2. ASSUME NEW p \in Pagers PROVE PagerInv(p)
  BY DEF Init, PagerInv, OneResponse, NoLinks
<1>3. QED
  BY <1>1, <1>2 DEF IInv, ObserverRestored, Init

LEMMA OpenInv ==
  ASSUME Exclusive, IInv, NEW p \in Pagers, Open(p)
  PROVE  IInv'
<1>1. PICK l \in Limits \union {Absent}, o \in Offsets \union {Absent}, w \in BOOLEAN :
        /\ l # Absent => l > 0 /\ o >= Absent
        /\ l = Absent => o = Absent
        /\ asked' = [asked EXCEPT ![p] = [of |-> p, limit |-> l, offset |-> o]]
        /\ walk' = [walk EXCEPT ![p] = w]
  BY DEF Open
<1>2. l \in Int /\ o \in Int
  BY LimitsAssumption, OffsetsAssumption DEF Absent
<1>3. [of |-> p, limit |-> l, offset |-> o] \in UrlsOf(p)
  BY <1>1, <1>2 DEF UrlsOf, Absent
<1>4. \A q \in Pagers : pc[q] # "initializing"
  BY DEF Open
<1>5. observer = App
  BY <1>4 DEF IInv, ObserverRestored
<1>6. TypeOK'
  BY <1>1, <1>3, UrlsOfAreUrls DEF IInv, TypeOK, Open, world, fields
<1>7. PagerInv(p)'
  <2>1. pc'[p] = "initializing" /\ observer' = p /\ saved'[p] = App /\ asked'[p] \in UrlsOf(p)
    BY <1>1, <1>3, <1>5 DEF IInv, TypeOK, Open
  <2>2. seen'[p] = <<>> /\ links'[p] \in [Rels -> UrlsOf(p) \union {None}]
    BY DEF IInv, PagerInv, Open, fields
  <2>3. OneResponse(p)'
    BY DEF IInv, PagerInv, OneResponse, Open, fields, world
  <2>4. Follows(p)'
    <3>1. 0 \in Nat /\ 0 <= 0 /\ Span(0, 0) = <<>>
      BY EmptySpan
    <3>2. QED
      BY <2>1, <2>2, <3>1 DEF Follows
  <2>5. QED
    BY <2>1, <2>2, <2>3, <2>4 DEF PagerInv
<1>8. ASSUME NEW q \in Pagers, q # p PROVE PagerInv(q)'
  BY <1>1, <1>4, <1>8, PagerFrame DEF IInv, TypeOK, Open, fields
<1>9. ObserverRestored'
  BY DEF IInv, TypeOK, Open, ObserverRestored
<1>10. QED
  BY <1>6, <1>7, <1>8, <1>9 DEF IInv

LEMMA InitAnsweredInv ==
  ASSUME IInv, NEW p \in Pagers, InitAnswered(p)
  PROVE  IInv'
<1> DEFINE u == asked[p]
<1>1. observer = p /\ saved[p] = App /\ u \in UrlsOf(p) /\ seen[p] = <<>>
  BY DEF IInv, PagerInv, InitAnswered
<1>2. TypeOK /\ pc[p] = "initializing" /\ UNCHANGED <<world, saved, asked, walk>>
  BY DEF IInv, InitAnswered
<1>3. Caught(u)[p] = u /\ u \notin {None, Bare}
  BY <1>1, <1>2, CaughtOwn, NoneIsNoUrl
<1>4. /\ raw' = [Caught(u) EXCEPT ![p] = None] /\ observer' = App
      /\ pc' = [pc EXCEPT ![p] = "ready"]
      /\ SetPage(p, u, PageAt(size[p], u)) /\ Show(p, PageAt(size[p], u))
  BY <1>1, <1>3 DEF InitAnswered
<1>5. raw' \in [Pagers -> Urls \union {None, Bare}]
  BY <1>1, <1>2, <1>4, CaughtType, UrlsOfAreUrls
<1>6. size[p] \in Nat /\ counted[p] \in BOOLEAN /\ PageAt(size[p], u) \in Seq(Nat)
  BY <1>1, <1>2, PageType DEF TypeOK
<1> HIDE DEF u
<1>7. /\ links' \in [Pagers -> [Rels -> Urls \union {None}]]
      /\ total' \in [Pagers -> Int] /\ offset' \in [Pagers -> Int]
      /\ limit' \in [Pagers -> Int] /\ items' \in [Pagers -> Seq(Nat)]
      /\ links'[p] = LinksAt(size[p], counted[p], u)
      /\ OneResponse(p)'
      /\ \A q \in Pagers \ {p} :
           /\ links'[q] = links[q] /\ total'[q] = total[q] /\ offset'[q] = offset[q]
           /\ limit'[q] = limit[q] /\ items'[q] = items[q]
  BY <1>1, <1>2, <1>4, PageSets
<1>8. /\ seen' \in [Pagers -> Seq(Nat)]
      /\ seen'[p] = IF walk[p] THEN Joined(<<>>, PageAt(size[p], u)) ELSE <<>>
      /\ \A q \in Pagers \ {p} : seen'[q] = seen[q]
  BY <1>1, <1>2, <1>4, <1>6, ConcatProperties DEF Show, TypeOK, Joined
<1>9. TypeOK'
  BY <1>2, <1>4, <1>5, <1>7, <1>8 DEF TypeOK, world
<1>10. PagerInv(p)'
  <2>1. pc'[p] = "ready" /\ links'[p] \in [Rels -> UrlsOf(p) \union {None}]
    BY <1>1, <1>2, <1>4, <1>6, <1>7, LinksType DEF TypeOK
  <2>2. ASSUME walk'[p] PROVE Follows(p)'
    <3>1. PICK a, c \in Nat :
            /\ a <= c /\ Joined(<<>>, PageAt(size[p], u)) = Span(a, c)
            /\ LinksAt(size[p], counted[p], u)["next"] # None =>
                 From(LinksAt(size[p], counted[p], u)["next"]) = c
      BY <1>1, <1>6, FirstFollows
    <3>2. seen'[p] = Span(a, c)
      BY <1>2, <1>8, <2>2, <3>1
    <3>3. QED
      BY <1>7, <2>1, <3>1, <3>2 DEF Follows, More
  <2>3. ~walk'[p] => seen'[p] = <<>>
    BY <1>2, <1>8
  <2>4. QED
    BY <1>7, <2>1, <2>2, <2>3 DEF PagerInv
<1>11. ASSUME NEW q \in Pagers, q # p PROVE PagerInv(q)'
  <2>1. pc[q] # "initializing" /\ PagerInv(q)
    BY <1>1, <1>11 DEF IInv, PagerInv
  <2>2. QED
    BY <1>2, <1>4, <1>7, <1>8, <1>11, <2>1, PagerFrame DEF TypeOK
<1>12. QED
  BY <1>4, <1>9, <1>10, <1>11 DEF IInv, ObserverRestored

LEMMA InitFailedInv ==
  ASSUME IInv, NEW p \in Pagers, InitFailed(p)
  PROVE  IInv'
<1>1. PICK caught \in {Caught(Bare), raw} : raw' = [caught EXCEPT ![p] = None]
  BY DEF InitFailed
<1>2. /\ observer = p /\ saved[p] = App /\ TypeOK
      /\ pc' = [pc EXCEPT ![p] = "rejected"] /\ observer' = saved[p]
      /\ UNCHANGED <<world, saved, asked, fields, walk, seen>>
  BY DEF IInv, PagerInv, InitFailed
<1>3. raw' \in [Pagers -> Urls \union {None, Bare}]
  BY <1>1, <1>2, CaughtType DEF TypeOK
<1>4. TypeOK'
  BY <1>2, <1>3 DEF TypeOK, world, fields
<1>5. PagerInv(p)'
  BY <1>2 DEF IInv, TypeOK, PagerInv, OneResponse, Follows, world, fields
<1>6. ASSUME NEW q \in Pagers, q # p PROVE PagerInv(q)'
  BY <1>2, <1>6, PagerFrame DEF IInv, PagerInv, TypeOK, fields
<1>7. QED
  BY <1>2, <1>4, <1>5, <1>6 DEF IInv, ObserverRestored

LEMMA GetRelInv ==
  ASSUME IInv, NEW p \in Pagers, NEW rel \in Rels, NEW l \in Int, NEW o \in Int,
         l # Absent => l \in Limits,
         walk[p] => rel = "next" /\ l = Absent /\ More(p),
         GetRel(p, rel, l, o)
  PROVE  IInv'
<1> DEFINE url == links[p][rel]
           to  == IF l = Absent THEN url ELSE [url EXCEPT !.limit = l, !.offset = o]
<1>1. /\ TypeOK /\ PagerInv(p) /\ pc[p] = "ready" /\ reset(p)
      /\ UNCHANGED <<world, observer, saved, raw, walk, seen>>
  BY DEF IInv, GetRel
<1>2. \/ UNCHANGED <<pc, asked>> /\ (url = None \/ l # Absent)
      \/ /\ url # None /\ (l # Absent => l >= 1 /\ o >= 0)
         /\ pc' = [pc EXCEPT ![p] = "fetching"] /\ asked' = [asked EXCEPT ![p] = to]
  BY DEF GetRel
<1>3. url # None => url \in UrlsOf(p)
  BY <1>1 DEF PagerInv
<1>4. url # None /\ (l # Absent => l >= 1 /\ o >= 0) => to \in UrlsOf(p)
  <2>1. CASE l = Absent
    BY <1>3, <2>1
  <2>2. CASE l # Absent
    <3> HAVE url # None /\ (l # Absent => l >= 1 /\ o >= 0)
    <3>1. l \in Nat \ {0} /\ o \in Nat /\ url \in UrlsOf(p)
      BY <1>3, <2>2
    <3> HIDE DEF url
    <3>2. QED
      BY <2>2, <3>1, LinkWith
  <2>3. QED
    BY <2>1, <2>2
<1> HIDE DEF to
<1>5. /\ links' \in [Pagers -> [Rels -> Urls \union {None}]]
      /\ total' \in [Pagers -> Int] /\ offset' \in [Pagers -> Int]
      /\ limit' \in [Pagers -> Int] /\ items' \in [Pagers -> Seq(Nat)]
      /\ links'[p] = NoLinks /\ items'[p] = <<>>
      /\ \A q \in Pagers \ {p} :
           /\ links'[q] = links[q] /\ total'[q] = total[q] /\ offset'[q] = offset[q]
           /\ limit'[q] = limit[q] /\ items'[q] = items[q]
  BY <1>1, ResetSets
<1>6. pc' \in [Pagers -> {"new", "initializing", "ready", "fetching", "rejected"}]
      /\ asked' \in [Pagers -> Urls \union {None}]
  <2>1. CASE UNCHANGED <<pc, asked>>
    BY <1>1, <2>1 DEF TypeOK
  <2>2. CASE /\ url # None /\ (l # Absent => l >= 1 /\ o >= 0)
             /\ pc' = [pc EXCEPT ![p] = "fetching"] /\ asked' = [asked EXCEPT ![p] = to]
    <3>1. to \in Urls
      BY <1>4, <2>2, UrlsOfAreUrls
    <3>2. QED
      BY <1>1, <2>2, <3>1 DEF TypeOK
  <2>3. QED
    BY <1>2, <2>1, <2>2
<1>7. TypeOK'
  BY <1>1, <1>5, <1>6 DEF TypeOK, world
<1>8. PagerInv(p)'
  <2>1. pc'[p] \in {"ready", "fetching"} /\ (pc'[p] = "fetching" => asked'[p] = to /\ to \in UrlsOf(p) /\ url # None)
    BY <1>1, <1>2, <1>4 DEF TypeOK
  <2>2. links'[p] \in [Rels -> UrlsOf(p) \union {None}]
    BY <1>5 DEF NoLinks
  <2>3. OneResponse(p)'
    BY <1>5 DEF OneResponse
  <2>4. ASSUME walk'[p] PROVE Follows(p)'
    <3>1. rel = "next" /\ l = Absent /\ More(p) /\ walk[p] /\ to = links[p]["next"]
      BY <1>1, <2>4 DEF to
    <3>2. PICK a, b \in Nat :
            a <= b /\ seen[p] = Span(a, b) /\ From(links[p]["next"]) = b
      BY <1>1, <3>1 DEF PagerInv, Follows
    <3>3. ~More(p)' /\ seen'[p] = seen[p]
      BY <1>1, <1>5 DEF More, NoLinks, Rels
    <3>4. QED
      BY <2>1, <3>1, <3>2, <3>3 DEF Follows
  <2>5. ~walk'[p] => seen'[p] = <<>>
    BY <1>1 DEF PagerInv
  <2>6. QED
    BY <2>1, <2>2, <2>3, <2>4, <2>5 DEF PagerInv
<1>9. ASSUME NEW q \in Pagers, q # p PROVE PagerInv(q)'
  <2>1. pc'[q] = pc[q] /\ asked'[q] = asked[q] /\ PagerInv(q)
    BY <1>1, <1>2, <1>9 DEF TypeOK, IInv
  <2>2. QED
    BY <1>1, <1>5, <1>9, <2>1, PagerFrame
<1>10. ObserverRestored'
  <2>1. \A q \in Pagers : pc'[q] # "initializing" => pc[q] # "initializing"
    BY <1>1, <1>2 DEF TypeOK
  <2>2. QED
    BY <1>1, <2>1 DEF IInv, ObserverRestored
<1>11. QED
  BY <1>7, <1>8, <1>9, <1>10 DEF IInv

LEMMA PageAnsweredInv ==
  ASSUME IInv, NEW p \in Pagers, PageAnswered(p)
  PROVE  IInv'
<1> DEFINE u == asked[p]
<1>1. /\ TypeOK /\ PagerInv(p) /\ pc[p] = "fetching" /\ u \in UrlsOf(p) /\ u.of = p
      /\ UNCHANGED <<world, observer, saved, asked, walk>>
  BY DEF IInv, PagerInv, PageAnswered, UrlsOf
<1>2. /\ raw' = Caught(u) /\ pc' = [pc EXCEPT ![p] = "ready"]
      /\ SetPage(p, u, PageAt(size[p], u)) /\ Show(p, PageAt(size[p], u))
  BY <1>1 DEF PageAnswered
<1>3. raw' \in [Pagers -> Urls \union {None, Bare}]
  BY <1>1, <1>2, CaughtType, UrlsOfAreUrls
<1>4. size[p] \in Nat /\ counted[p] \in BOOLEAN /\ PageAt(size[p], u) \in Seq(Nat)
  BY <1>1, PageType DEF TypeOK
<1> HIDE DEF u
<1>5. /\ links' \in [Pagers -> [Rels -> Urls \union {None}]]
      /\ total' \in [Pagers -> Int] /\ offset' \in [Pagers -> Int]
      /\ limit' \in [Pagers -> Int] /\ items' \in [Pagers -> Seq(Nat)]
      /\ links'[p] = LinksAt(size[p], counted[p], u)
      /\ OneResponse(p)'
      /\ \A q \in Pagers \ {p} :
           /\ links'[q] = links[q] /\ total'[q] = total[q] /\ offset'[q] = offset[q]
           /\ limit'[q] = limit[q] /\ items'[q] = items[q]
  BY <1>1, <1>2, PageSets
<1>6. /\ seen' \in [Pagers -> Seq(Nat)]
      /\ seen'[p] = IF walk[p] THEN Joined(seen[p], PageAt(size[p], u)) ELSE seen[p]
      /\ \A q \in Pagers \ {p} : seen'[q] = seen[q]
  BY <1>1, <1>2, <1>4, ConcatProperties DEF Show, TypeOK, Joined
<1>7. TypeOK'
  BY <1>1, <1>2, <1>3, <1>5, <1>6 DEF TypeOK, world
<1>8. PagerInv(p)'
  <2>1. pc'[p] = "ready" /\ links'[p] \in [Rels -> UrlsOf(p) \union {None}]
    BY <1>1, <1>2, <1>4, <1>5, LinksType DEF TypeOK
  <2>2. ASSUME walk'[p] PROVE Follows(p)'
    <3>1. PICK a, b \in Nat : a <= b /\ seen[p] = Span(a, b) /\ From(u) = b
      BY <1>1, <2>2 DEF PagerInv, Follows, u
    <3>2. PICK n, known : n = size[p] /\ known = counted[p]
      OBVIOUS
    <3>3. u \in UrlsOf(p) /\ n \in Nat /\ known \in BOOLEAN
      BY <1>1, <1>4, <3>2
    <3>4. PICK c \in Nat :
            /\ a <= c /\ Joined(Span(a, b), PageAt(n, u)) = Span(a, c)
            /\ LinksAt(n, known, u)["next"] # None =>
                 From(LinksAt(n, known, u)["next"]) = c
      BY <3>1, <3>3, ShowFollows
    <3>5. seen'[p] = Span(a, c)
      BY <1>1, <1>6, <2>2, <3>1, <3>2, <3>4
    <3>6. QED
      BY <1>5, <2>1, <3>2, <3>4, <3>5 DEF Follows, More
  <2>3. ~walk'[p] => seen'[p] = <<>>
    BY <1>1, <1>6 DEF PagerInv
  <2>4. QED
    BY <1>5, <2>1, <2>2, <2>3 DEF PagerInv
<1>9. ASSUME NEW q \in Pagers, q # p PROVE PagerInv(q)'
  <2>1. PagerInv(q) /\ pc'[q] = pc[q]
    BY <1>1, <1>2, <1>9 DEF IInv, TypeOK
  <2>2. QED
    BY <1>1, <1>5, <1>6, <1>9, <2>1, PagerFrame
<1>10. ObserverRestored'
  BY <1>1, <1>2 DEF IInv, TypeOK, ObserverRestored
<1>11. QED
  BY <1>7, <1>8, <1>9, <1>10 DEF IInv

LEMMA PageFailedInv ==
  ASSUME IInv, NEW p \in Pagers, PageRefused(p) \/ PageLost(p)
  PROVE  IInv'
<1>1. /\ TypeOK /\ PagerInv(p) /\ pc[p] = "fetching" /\ asked[p] \in UrlsOf(p)
      /\ UNCHANGED <<world, observer, saved, asked, walk, seen>>
  BY DEF IInv, PagerInv, PageRefused, PageLost
<1>2. pc' = [pc EXCEPT ![p] = IF walk[p] THEN "rejected" ELSE "ready"]
  BY DEF PageRefused, PageLost
<1>3. raw' \in [Pagers -> Urls \union {None, Bare}]
  BY <1>1, CaughtType DEF PageRefused, PageLost, TypeOK
<1>4. /\ links' \in [Pagers -> [Rels -> Urls \union {None}]]
      /\ total' \in [Pagers -> Int] /\ offset' \in [Pagers -> Int]
      /\ limit' \in [Pagers -> Int] /\ items' \in [Pagers -> Seq(Nat)]
      /\ links'[p] \in [Rels -> UrlsOf(p) \union {None}] /\ OneResponse(p)'
      /\ \A q \in Pagers \ {p} :
           /\ links'[q] = links[q] /\ total'[q] = total[q] /\ offset'[q] = offset[q]
           /\ limit'[q] = limit[q] /\ items'[q] = items[q]
  <2>1. CASE PageLost(p)
    BY <1>1, <2>1 DEF PageLost, TypeOK, PagerInv, OneResponse, world, fields
  <2>2. CASE PageRefused(p)
    <3>1. PICK u : u = asked[p]
      OBVIOUS
    <3>2. u \in Urls \union {None}
      BY <1>1, <3>1, UrlsOfAreUrls
    <3>3. TypeOK /\ SetFields(p, u, NoLinks, Absent, <<>>)
      BY <1>1, <2>2, <3>1 DEF PageRefused
    <3>4. /\ links' \in [Pagers -> [Rels -> Urls \union {None}]]
          /\ total' \in [Pagers -> Int] /\ offset' \in [Pagers -> Int]
          /\ limit' \in [Pagers -> Int] /\ items' \in [Pagers -> Seq(Nat)]
          /\ links'[p] = NoLinks /\ items'[p] = <<>>
          /\ \A q \in Pagers \ {p} :
               /\ links'[q] = links[q] /\ total'[q] = total[q] /\ offset'[q] = offset[q]
               /\ limit'[q] = limit[q] /\ items'[q] = items[q]
      BY <3>2, <3>3, EmptySets
    <3>5. links'[p] \in [Rels -> UrlsOf(p) \union {None}] /\ OneResponse(p)'
      BY <3>4 DEF NoLinks, OneResponse
    <3>6. QED
      BY <3>4, <3>5
  <2>3. QED
    BY <2>1, <2>2
<1>5. TypeOK'
  BY <1>1, <1>2, <1>3, <1>4 DEF TypeOK, world
<1>6. PagerInv(p)'
  <2>1. pc'[p] = IF walk[p] THEN "rejected" ELSE "ready"
    BY <1>1, <1>2 DEF TypeOK
  <2>2. ASSUME walk'[p] PROVE Follows(p)'
    BY <1>1, <2>1, <2>2 DEF PagerInv, Follows
  <2>3. ~walk'[p] => seen'[p] = <<>>
    BY <1>1 DEF PagerInv
  <2>4. QED
    BY <1>4, <2>1, <2>2, <2>3 DEF PagerInv
<1>7. ASSUME NEW q \in Pagers, q # p PROVE PagerInv(q)'
  <2>1. PagerInv(q) /\ pc'[q] = pc[q]
    BY <1>1, <1>2, <1>7 DEF IInv, TypeOK
  <2>2. QED
    BY <1>1, <1>4, <1>7, <2>1, PagerFrame
<1>8. ObserverRestored'
  BY <1>1, <1>2 DEF IInv, TypeOK, ObserverRestored
<1>9. QED
  BY <1>5, <1>6, <1>7, <1>8 DEF IInv

LEMMA OtherInv ==
  ASSUME IInv, OtherAnswered \/ UNCHANGED vars
  PROVE  IInv'
<1>1. UNCHANGED <<world, observer, saved, pc, asked, fields, walk, seen>>
  BY DEF OtherAnswered, vars
<1>2. raw' \in [Pagers -> Urls \union {None, Bare}]
  <2>1. Plain \in Urls
    BY DEF Plain, None, Urls, Absent
  <2>2. QED
    BY <2>1, CaughtType DEF IInv, TypeOK, OtherAnswered, vars
<1>3. TypeOK'
  BY <1>1, <1>2 DEF IInv, TypeOK, world, fields
<1>4. \A q \in Pagers : PagerInv(q)'
  BY <1>1, PagerFrame DEF IInv, fields
<1>5. QED
  BY <1>1, <1>3, <1>4 DEF IInv, ObserverRestored

LEMMA NextInv == ASSUME Exclusive PROVE IInv /\ [Next]_vars => IInv'
<1> SUFFICES ASSUME IInv, [Next]_vars PROVE IInv'
  OBVIOUS
<1>1. ASSUME NEW p \in Pagers, Turn(p) PROVE IInv'
  <2>1. PICK rel \in Rels :
          \/ GetRel(p, rel, Absent, Absent)
          \/ \E l \in Limits, o \in Offsets \union {0} : GetRel(p, rel, l, o)
    BY <1>1 DEF Turn
  <2>2. ~walk[p] /\ Absent \in Int
    BY <1>1 DEF Turn, Absent
  <2>3. ASSUME NEW l \in Limits, NEW o \in Offsets \union {0}, GetRel(p, rel, l, o)
        PROVE  IInv'
    BY <2>2, <2>3, GetRelInv, LimitsAssumption, OffsetsAssumption
  <2>4. CASE GetRel(p, rel, Absent, Absent)
    BY <2>2, <2>4, GetRelInv
  <2>5. QED
    BY <2>1, <2>3, <2>4
<1>2. ASSUME NEW p \in Pagers, Walk(p) PROVE IInv'
  <2>1. GetRel(p, "next", Absent, Absent) /\ More(p) /\ "next" \in Rels /\ Absent \in Int
    BY <1>2 DEF Walk, Rels, Absent
  <2>2. QED
    BY <2>1, GetRelInv
<1>3. ASSUME NEW p \in Pagers,
             Open(p) \/ InitAnswered(p) \/ InitFailed(p) \/ PageAnswered(p)
               \/ PageRefused(p) \/ PageLost(p)
      PROVE  IInv'
  BY <1>3, OpenInv, InitAnsweredInv, InitFailedInv, PageAnsweredInv, PageFailedInv
<1>4. QED
  BY <1>1, <1>2, <1>3, OtherInv DEF Next, Step

LEMMA Invariant == ASSUME Exclusive PROVE Spec => []IInv
BY InitInv, NextInv, PTL DEF Spec

----------------------------------------------------------------------------
(* The theorems.                                                           *)

\* The types of a pager's fields, whatever is opened, turned, answered and lost.
THEOREM TypeCorrect == ASSUME Exclusive PROVE Spec => []TypeOK
BY Invariant, PTL DEF IInv

\* With one initialization at a time the application's observer is always put back,
\* for any number of pagers.
THEOREM ObserverRestoredAlone == ASSUME Exclusive PROVE Spec => []ObserverRestored
BY Invariant, PTL DEF IInv

\* The items, position, total and links of a pager are of one response, for
\* collections, limits and offsets of any size.
THEOREM PageIsOneResponseAlone == ASSUME Exclusive PROVE Spec => []PageIsOneResponse
<1>1. IInv => PageIsOneResponse
  BY DEF IInv, PagerInv, OneResponse, PageIsOneResponse
<1>2. QED
  BY Invariant, <1>1, PTL

\* pageAll shows no item twice and skips none, for collections and pages of any
\* size, known total or not.
THEOREM WalkInOrderAlone == ASSUME Exclusive PROVE Spec => []WalkInOrder
<1>1. IInv => WalkInOrder
  <2> SUFFICES ASSUME IInv, NEW p \in Pagers, NEW i \in 1 .. Len(seen[p]) - 1
               PROVE  seen[p][i + 1] = seen[p][i] + 1
    BY DEF WalkInOrder
  <2>1. seen[p] # <<>> /\ Len(seen[p]) \in Nat
    BY DEF IInv, TypeOK
  <2>2. PICK a, b \in Nat : a <= b /\ seen[p] = Span(a, b)
    BY <2>1 DEF IInv, PagerInv, Follows
  <2>3. Len(seen[p]) = b - a /\ \A j \in 1 .. b - a : seen[p][j] = a + j
    BY <2>2, SpanIsSeq
  <2>4. QED
    BY <2>2, <2>3
<1>2. QED
  BY Invariant, <1>1, PTL

\* Where pages are aligned the page is within the pages and is the last of them
\* exactly if there is no next link, for collections and limits of any size.
THEOREM LastPageHasNoNextAlone == ASSUME Exclusive PROVE Spec => []LastPageHasNoNext
<1>1. IInv => LastPageHasNoNext
  <2> SUFFICES ASSUME IInv, NEW p \in Pagers, pc[p] = "ready", total[p] > 0,
                      items[p] # <<>>, offset[p] % limit[p] = 0
               PROVE  page(p) \in 1 .. pages(p) /\ (page(p) = pages(p) <=> ~More(p))
    BY DEF LastPageHasNoNext
  <2>1. PICK u : u = [of |-> p, limit |-> limit[p], offset |-> offset[p]]
    OBVIOUS
  <2>2. PICK n, known : n = size[p] /\ known = counted[p]
    OBVIOUS
  <2>3. n \in Nat /\ known \in BOOLEAN
    BY <2>2 DEF IInv, TypeOK
  <2>4. /\ u \in UrlsOf(p) /\ PageAt(n, u) # <<>>
        /\ u.limit # Absent => u.offset # Absent
        /\ links[p] = LinksAt(n, known, u) /\ total[p] = TotalAt(n, known, u)
    BY <2>1, <2>2 DEF IInv, PagerInv, OneResponse
  <2>5. /\ total[p] = n /\ u.limit \in Nat \ {0} /\ From(u) < n
        /\ More(p) <=> From(u) + u.limit < n
    BY <2>3, <2>4, CountedPage DEF More
  <2>6. limit[p] = u.limit /\ offset[p] = u.offset
    BY <2>1
  <2>7. offset[p] \in Nat /\ offset[p] = From(u)
    BY <2>4, <2>5, <2>6 DEF UrlsOf, From, Absent
  <2>8. PICK a, b : a = offset[p] /\ b = limit[p]
    OBVIOUS
  <2>9. /\ a \in Nat /\ b \in Nat \ {0} /\ a % b = 0 /\ a < n
        /\ More(p) <=> a + b < n
    BY <2>5, <2>6, <2>7, <2>8
  <2>10. PICK k, m : k = Ceiling(a, b) /\ m = Ceiling(n, b)
    OBVIOUS
  <2>11. /\ k \in Nat /\ b * k = a
         /\ m \in Nat /\ b * m < n + b /\ n <= b * m
    BY <2>3, <2>9, <2>10, CeilingBounds, CeilingAligned
  <2>12. page(p) = k + 1 /\ pages(p) = m
    BY <2>3, <2>5, <2>8, <2>9, <2>10 DEF page, pages
  <2>13. b * (k + 1) = a + b
    BY <2>9, <2>11, Z3
  <2>14. k + 1 <= m
    <3>1. b * k < b * m
      BY <2>9, <2>11, <2>3
    <3>2. QED
      BY <2>9, <2>11, <3>1, TimesOrder
  <2>15. a + b < n => k + 1 < m
    <3>1. a + b < n => b * (k + 1) < b * m
      BY <2>3, <2>9, <2>11, <2>13
    <3>2. QED
      BY <2>9, <2>11, <3>1, TimesOrder
  <2>16. k + 1 < m => a + b < n
    <3>1. k + 1 < m => b * (k + 1) <= b * (m - 1)
      BY <2>9, <2>11, TimesOrder
    <3>2. b * (m - 1) = b * m - b
      BY <2>9, <2>11, Z3
    <3>3. QED
      BY <2>3, <2>9, <2>11, <2>13, <3>1, <3>2
  <2>17. QED
    BY <2>9, <2>11, <2>12, <2>14, <2>15, <2>16
<1>2. QED
  BY Invariant, <1>1, PTL
=============================================================================

------------------------------- MODULE Paging -------------------------------
(***************************************************************************)
(* packages/sdk-rtl/src/paging.ts: pagers over collections whose responses *)
(* carry Link and X-Total-Count headers.  The first page comes from an SDK *)
(* function that knows nothing of headers, so a pager that is initialized  *)
(* puts an observer of its own into the transport, which all requests of   *)
(* the SDK share, and puts the observer it found back when it is done.     *)
(*                                                                         *)
(* One action is the code from one answer to the next await.  The server   *)
(* is that of docs/paging.md: each pager has a collection of its own.      *)
(***************************************************************************)
EXTENDS Integers, Sequences, SequencesExt

CONSTANTS
  Pagers,
  Sizes,      \* bound: how many items a collection may have
  Limits,     \* bound: limits the callers ask for, with those that are refused
  Offsets,    \* bound: offsets the callers ask for
  Exclusive   \* no pager is opened while another one is initialized

Absent == -1

ASSUME SizesAssumption == Sizes \subseteq Nat
ASSUME LimitsAssumption == Limits \subseteq Int /\ Absent \notin Limits
ASSUME OffsetsAssumption == Offsets \subseteq Int
ASSUME ExclusiveAssumption == Exclusive \in BOOLEAN
ASSUME PagersAssumption == \A p \in Pagers : p \notin {"application", "other", "none"}

App   == "application"  \* the observer of the application, or undefined
Other == "other"        \* a collection no pager is for
Rels  == {"first", "next", "prev", "last"}

\* A URL by what tells it apart: the collection and the two parameters.
Urls == [ of : Pagers \union {Other}, limit : Int, offset : Int ]

None  == [ of |-> "none", limit |-> Absent, offset |-> Absent ]  \* no link, no response
Bare  == [ None EXCEPT !.offset = 0 ]  \* a response with no headers: a node error
Plain == [ None EXCEPT !.of = Other ]  \* the response to an ordinary request

VARIABLES
  size,      \* size[p]: items in the collection of p
  counted,   \* counted[p]: does the server know the total
  observer,  \* transport.observer: App, or the pager whose closure it is
  saved,     \* saved[p]: the observer p found
  raw,       \* raw[p]: the response p's closure caught, by its URL
  pc,        \* what the caller of p is doing
  asked,     \* asked[p]: the URL p's request is on its way to
  links, total, offset, limit, items,  \* the fields of Paging
  walk,      \* walk[p]: p is driven by pageAll
  seen       \* seen[p]: what onPage got so far, one page after the other

world    == <<size, counted>>
fields   == <<links, total, offset, limit, items>>
vars == <<world, observer, saved, raw, pc, asked, fields, walk, seen>>

----------------------------------------------------------------------------
(* The server.                                                             *)

Least(a, b) == IF a <= b THEN a ELSE b
Most(a, b)  == IF a <= b THEN b ELSE a

\* A request without a limit gets the collection, and no paging headers.
From(u) == IF u.limit = Absent \/ u.offset = Absent THEN 0 ELSE u.offset

PageAt(n, u) ==
  LET upto == IF u.limit = Absent THEN n ELSE Least(n, From(u) + u.limit)
  IN  [i \in 1 .. Most(0, upto - From(u)) |-> From(u) + i]

NoLinks == [r \in Rels |-> None]

LinksAt(n, known, u) ==
  LET to(o) == [u EXCEPT !.offset = o]
      further == From(u) + u.limit
  IN  IF u.limit = Absent THEN NoLinks ELSE
      [ first |-> to(0),
        next  |-> IF (known /\ further < n) \/ (~known /\ further <= n)
                    THEN to(further) ELSE None,
        prev  |-> IF From(u) > 0 THEN to(Most(0, From(u) - u.limit)) ELSE None,
        last  |-> IF known /\ n > 0 THEN to(((n - 1) \div u.limit) * u.limit)
                    ELSE None ]

TotalAt(n, known, u) == IF known /\ u.limit # Absent THEN n ELSE Absent

----------------------------------------------------------------------------
(* The fields of a pager.                                                  *)

\* page: the number of the page, rounded up.
Ceiling(a, b) == (a + b - 1) \div b
page(p)  == IF limit[p] < 1 \/ offset[p] < 0 THEN Absent
              ELSE Ceiling(offset[p], limit[p]) + 1
pages(p) == IF total[p] < 1 \/ limit[p] < 1 THEN Absent
              ELSE Ceiling(total[p], limit[p])

\* more()
More(p) == links[p]["next"] # None

\* Mutant: the offset is left at its default.
SetFieldsAtZero(p, u, these, count, list) ==
  /\ links' = [links EXCEPT ![p] = these]
  /\ total' = [total EXCEPT ![p] = count]
  /\ limit' = [limit EXCEPT ![p] = u.limit]
  /\ offset' = [offset EXCEPT ![p] = IF u.limit > 0 THEN 0 ELSE Absent]
  /\ items' = [items EXCEPT ![p] = list]

\* parse(): limit and offset are those of the URL, the offset 0 by default.
SetFields(p, u, these, count, list) ==
  /\ links' = [links EXCEPT ![p] = these]
  /\ total' = [total EXCEPT ![p] = count]
  /\ limit' = [limit EXCEPT ![p] = u.limit]
  /\ offset' = [offset EXCEPT ![p] =
       IF u.offset = Absent /\ u.limit > 0 THEN 0 ELSE u.offset]
  /\ items' = [items EXCEPT ![p] = list]

\* Mutant: reset() leaves the items there.
ResetKeepingItems(p) == SetFields(p, None, NoLinks, Absent, items[p])

reset(p) == SetFields(p, None, NoLinks, Absent, <<>>)

\* A page: items of one response, headers of the response in u.
SetPage(p, u, list) ==
  IF u.of \in Pagers
    THEN SetFields(p, u, LinksAt(size[u.of], counted[u.of], u),
                   TotalAt(size[u.of], counted[u.of], u), list)
    ELSE SetFields(p, u, NoLinks, Absent, list)

\* The observer in force sees a response before anyone else does.  What the
\* closure of a pager catches is read by its rawCatch(), which may be over.
Caught(response) ==
  IF observer \in Pagers /\ pc[observer] = "initializing"
    THEN [raw EXCEPT ![observer] = response] ELSE raw

Show(p, list) == seen' = IF walk[p] THEN [seen EXCEPT ![p] = @ \o list] ELSE seen

----------------------------------------------------------------------------
(* Initialization: pager(), and pageAll() when the caller walks.           *)

Open(p) ==
  /\ pc[p] = "new"
  /\ Exclusive => \A q \in Pagers : pc[q] # "initializing"
  /\ \E l \in Limits \union {Absent}, o \in Offsets \union {Absent}, w \in BOOLEAN :
       /\ l # Absent => l > 0 /\ o >= Absent
       /\ l = Absent => o = Absent
       /\ asked' = [asked EXCEPT ![p] = [of |-> p, limit |-> l, offset |-> o]]
       /\ walk' = [walk EXCEPT ![p] = w]
  /\ saved' = [saved EXCEPT ![p] = observer]
  /\ observer' = p
  /\ pc' = [pc EXCEPT ![p] = "initializing"]
  /\ UNCHANGED <<world, raw, fields, seen>>

\* The function's own page, and the headers of what the closure caught last.
InitAnswered(p) ==
  /\ pc[p] = "initializing"
  /\ observer' = saved[p]
  /\ LET list   == PageAt(size[p], asked[p])
         caught == Caught(asked[p])
     IN
     /\ raw' = [caught EXCEPT ![p] = None]
     /\ IF caught[p] \in {None, Bare}
          THEN /\ pc' = [pc EXCEPT ![p] = "rejected"]
               /\ items' = [items EXCEPT ![p] = list]
               /\ UNCHANGED <<links, total, offset, limit, seen>>
          ELSE /\ pc' = [pc EXCEPT ![p] = "ready"]
               /\ SetPage(p, caught[p], list)
               /\ Show(p, list)
  /\ UNCHANGED <<world, saved, asked, walk>>

\* Mutant: the observer is put back after a success only.
InitFailedUnrestored(p) ==
  /\ pc[p] = "initializing"
  /\ \E caught \in {Caught(Bare), raw} : raw' = [caught EXCEPT ![p] = None]
  /\ pc' = [pc EXCEPT ![p] = "rejected"]
  /\ UNCHANGED <<world, observer, saved, asked, fields, walk, seen>>

\* An error response, which the observer sees, or no response at all.
InitFailed(p) ==
  /\ pc[p] = "initializing"
  /\ \E caught \in {Caught(Bare), raw} : raw' = [caught EXCEPT ![p] = None]
  /\ observer' = saved[p]
  /\ pc' = [pc EXCEPT ![p] = "rejected"]
  /\ UNCHANGED <<world, saved, asked, fields, walk, seen>>

----------------------------------------------------------------------------
(* getRel() and the calls made of it.                                      *)

\* The pager forgets its page before it asks for another.  A call made before
\* the answer is there finds no link: it changes nothing.
GetRel(p, rel, l, o) ==
  LET url == links[p][rel] IN
  /\ pc[p] = "ready"
  /\ reset(p)
  /\ IF url = None \/ (l # Absent /\ (l < 1 \/ o < 0))
       THEN UNCHANGED <<pc, asked>>
       ELSE /\ pc' = [pc EXCEPT ![p] = "fetching"]
            /\ asked' = [asked EXCEPT ![p] =
                 IF l = Absent THEN url
                   ELSE [url EXCEPT !.limit = l, !.offset = o]]
  /\ UNCHANGED <<world, observer, saved, raw, walk, seen>>

\* The application's own use of a pager, with the limit of the link or another.
Turn(p) ==
  /\ ~walk[p]
  /\ \E rel \in Rels :
       \/ GetRel(p, rel, Absent, Absent)
       \/ \E l \in Limits, o \in Offsets \union {0} : GetRel(p, rel, l, o)

\* Mutant: pageAll goes on from the last page.
WalkLast(p) == walk[p] /\ More(p) /\ GetRel(p, IF links[p]["last"] # None
                                                 THEN "last" ELSE "next", Absent, Absent)

\* pageAll's loop.
Walk(p) == walk[p] /\ More(p) /\ GetRel(p, "next", Absent, Absent)

PageAnswered(p) ==
  /\ pc[p] = "fetching"
  /\ raw' = Caught(asked[p])
  /\ SetPage(p, asked[p], PageAt(size[asked[p].of], asked[p]))
  /\ Show(p, PageAt(size[asked[p].of], asked[p]))
  /\ pc' = [pc EXCEPT ![p] = "ready"]
  /\ UNCHANGED <<world, observer, saved, asked, walk>>

\* Mutant: pageAll does not look whether the answer was ok.
PageRefusedSwallowed(p) ==
  /\ pc[p] = "fetching"
  /\ raw' = Caught(Bare)
  /\ SetFields(p, asked[p], NoLinks, Absent, <<>>)
  /\ pc' = [pc EXCEPT ![p] = "ready"]
  /\ UNCHANGED <<world, observer, saved, asked, walk, seen>>

\* Of an error response the URL is kept.  pageAll rejects.
PageRefused(p) ==
  /\ pc[p] = "fetching"
  /\ raw' = Caught(Bare)
  /\ SetFields(p, asked[p], NoLinks, Absent, <<>>)
  /\ pc' = [pc EXCEPT ![p] = IF walk[p] THEN "rejected" ELSE "ready"]
  /\ UNCHANGED <<world, observer, saved, asked, walk, seen>>

\* No response: the call rejects, the pager stays as reset() left it.
PageLost(p) ==
  /\ pc[p] = "fetching"
  /\ pc' = [pc EXCEPT ![p] = IF walk[p] THEN "rejected" ELSE "ready"]
  /\ UNCHANGED <<world, observer, saved, raw, asked, fields, walk, seen>>

\* The answer to any other request over the transport.
OtherAnswered ==
  /\ raw' \in {Caught(Plain), Caught(Bare)}
  /\ UNCHANGED <<world, observer, saved, pc, asked, fields, walk, seen>>

----------------------------------------------------------------------------
Init ==
  /\ size \in [Pagers -> Sizes] /\ counted \in [Pagers -> BOOLEAN]
  /\ observer = App
  /\ saved = [p \in Pagers |-> App]
  /\ raw = [p \in Pagers |-> None]
  /\ pc = [p \in Pagers |-> "new"]
  /\ asked = [p \in Pagers |-> None]
  /\ links = [p \in Pagers |-> NoLinks]
  /\ total = [p \in Pagers |-> Absent]
  /\ offset = [p \in Pagers |-> Absent]
  /\ limit = [p \in Pagers |-> Absent]
  /\ items = [p \in Pagers |-> <<>>]
  /\ walk = [p \in Pagers |-> FALSE]
  /\ seen = [p \in Pagers |-> <<>>]

Step(p) ==
  \/ InitAnswered(p) \/ InitFailed(p)
  \/ Walk(p)
  \/ PageAnswered(p) \/ PageRefused(p) \/ PageLost(p)

Next ==
  \/ \E p \in Pagers : Open(p) \/ Turn(p) \/ Step(p)
  \/ OtherAnswered

\* Requests are answered or given up, and pageAll's loop goes on.
Spec == Init /\ [][Next]_vars /\ \A p \in Pagers : WF_vars(Step(p))

----------------------------------------------------------------------------
(* Properties.                                                             *)

TypeOK ==
  /\ size \in [Pagers -> Nat] /\ counted \in [Pagers -> BOOLEAN]
  /\ observer \in Pagers \union {App}
  /\ saved \in [Pagers -> Pagers \union {App}]
  /\ raw \in [Pagers -> Urls \union {None, Bare}]
  /\ pc \in [Pagers -> {"new", "initializing", "ready", "fetching", "rejected"}]
  /\ asked \in [Pagers -> Urls \union {None}]
  /\ links \in [Pagers -> [Rels -> Urls \union {None}]]
  /\ total \in [Pagers -> Int] /\ offset \in [Pagers -> Int] /\ limit \in [Pagers -> Int]
  /\ items \in [Pagers -> Seq(Nat)]
  /\ walk \in [Pagers -> BOOLEAN]
  /\ seen \in [Pagers -> Seq(Nat)]

\* "Restore the previous observer (if any)" (paging.ts:258): with no pager being
\* initialized the transport has the application's observer, whatever answers,
\* error responses and lost requests the pagers met, and in whatever order.
ObserverRestored ==
  (\A p \in Pagers : pc[p] # "initializing") => observer = App

\* The items a pager shows, its position, its total and its links are those of one
\* response about its own collection, or it shows no items at all.
PageIsOneResponse ==
  \A p \in Pagers : pc[p] = "ready" /\ items[p] # <<>> =>
    LET u == [of |-> p, limit |-> limit[p], offset |-> offset[p]] IN
      /\ items[p] = PageAt(size[p], u)
      /\ links[p] = LinksAt(size[p], counted[p], u)
      /\ total[p] = TotalAt(size[p], counted[p], u)

\* pageAll's onPage gets items that follow one another: none twice, none skipped.
WalkInOrder ==
  \A p \in Pagers : \A i \in 1 .. Len(seen[p]) - 1 : seen[p][i + 1] = seen[p][i] + 1

\* Where pages are aligned, page and pages agree with the links: the page is
\* within the pages, and is the last of them exactly if there is no next link.
LastPageHasNoNext ==
  \A p \in Pagers :
    pc[p] = "ready" /\ total[p] > 0 /\ items[p] # <<>> /\ offset[p] % limit[p] = 0 =>
      /\ page(p) \in 1 .. pages(p)
      /\ page(p) = pages(p) <=> ~More(p)

\* pageAll rejects or has shown the collection to its end: a failed page, an
\* empty last page and an unknown total never leave it waiting or going round.
Shown(p) ==
  \/ From(asked[p]) >= size[p]
  \/ seen[p] # <<>> /\ Last(seen[p]) = size[p]

WalkEnds ==
  \A p \in Pagers : walk[p] ~>
    (pc[p] = "rejected" \/ (pc[p] = "ready" /\ ~More(p) /\ Shown(p)))
=============================================================================

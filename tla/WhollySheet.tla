---------------------------- MODULE WhollySheet ----------------------------
(***************************************************************************)
(* packages/wholly-sheet: one tab of a Google sheet used as a data table.  *)
(* Each client (a browser running the hackathon extension) keeps a         *)
(* WhollySheet, a cache of typed rows that know the sheet row they came    *)
(* from, and works on the tab with the requests of SheetSDK.               *)
(*                                                                         *)
(* A client runs one call at a time and awaits each request.  One action   *)
(* is one request taking effect on the tab with the client code that       *)
(* consumes its answer up to the next request: that code touches only the  *)
(* client's own cache.  Columns other than the key are abstracted into the *)
(* _updated stamp, which prepare() renews at every write.                  *)
(***************************************************************************)
EXTENDS Integers, SequencesExt, FiniteSetsExt, TLC

CONSTANTS
  Clients,   \* WhollySheet objects working on the same tab
  Keys,      \* values of the _id column
  Seed,      \* the keys on the tab at the start, in row order
  MaxClock,  \* bound: how many times a row is stamped
  Uses       \* the ways a tab is used

AllOps == {"create", "register", "update", "delete", "batch", "refresh"}

ASSUME KeysAssumption == {"", "_id"} \cap Keys = {}
ASSUME SeedAssumption ==
  /\ Seed \in Seq(Keys)
  /\ \A i, j \in DOMAIN Seed : Seed[i] = Seed[j] => i = j
ASSUME MaxClockAssumption == MaxClock \in Nat
ASSUME UsesAssumption ==
  Uses \subseteq [ clients : SUBSET Clients,  \* who works on the tab
                   ops     : SUBSET AllOps,   \* the calls they make
                   apart   : BOOLEAN,  \* no row is created while a new one waits for its batch
                   faults  : BOOLEAN ] \* a request may fail, or its answer be lost

Header == [id |-> "_id", ver |-> 0]   \* the values of the header row
Blank  == [id |-> "", ver |-> 0]      \* a row without values

Stamps   == 0 .. MaxClock
TabRow   == [id : Keys \union {"", "_id"}, ver : Stamps]
RowModel == [row : Nat, id : Keys \union {"", "_id"}, ver : Stamps,
             act : {"none", "create", "update", "delete"}]

VARIABLES
  tab,     \* the tab's values: tab[n] is sheet row n, the header is row 1
  rows,    \* rows[c]: the cached rows of client c
  call,    \* call[c]: what client c is doing
  clock,   \* the last _updated stamp given out
  used,    \* keys that have been given to a row
  use      \* the way this tab is used, which never changes

vars == <<tab, rows, call, clock, used, use>>

Ops    == use.ops
Apart  == use.apart
Faults == use.faults

\* pc: the request the client has sent. "reading" to "rewriting" are those of
\* rowDelete and of batchUpdate; "writing" is a batchUpdate without deletions.
Call == [ pc     : {"idle", "checking", "putting", "appending", "reloading",
                    "reading", "clearing", "rewriting", "writing"},
          op     : AllOps \union {"none"},
          at     : Nat,            \* position in rows of the model of the call
          row    : Nat,            \* model._row
          id     : Keys \union {"", "_id"},
          ver    : Stamps,         \* the stamp the call writes
          base   : Stamps,         \* the stamp the model had before
          force  : BOOLEAN,
          held   : Seq(TabRow),    \* the values to write back
          result : {"none", "ok", "outdated", "error"} ]

Idle == [ pc |-> "idle", op |-> "none", at |-> 0, row |-> 0, id |-> "",
          ver |-> 0, base |-> 0, force |-> FALSE, held |-> <<>>,
          result |-> "none" ]

DataOK ==
  /\ tab \in Seq(TabRow)
  /\ rows \in [Clients -> Seq(RowModel)]
  /\ call \in [Clients -> Call]
  /\ clock \in Stamps
  /\ used \in SUBSET Keys

TypeOK == DataOK /\ use \in Uses

----------------------------------------------------------------------------
(* Rows and values.                                                        *)

ValuesOf(r) == [id |-> r.id, ver |-> r.ver]

\* Mutant: the last row is taken for the end of the data.
TypeRowsAllButLast(values) ==
  [i \in 1 .. Len(values) - 2 |->
     [row |-> i + 1, id |-> values[i + 1].id, ver |-> values[i + 1].ver,
      act |-> "none"]]

\* typeRows of all values but the header: row positions start at 2.
TypeRows(values) ==
  [i \in 1 .. Len(values) - 1 |->
     [row |-> i + 1, id |-> values[i + 1].id, ver |-> values[i + 1].ver,
      act |-> "none"]]

NextRow(c) == Len(rows[c]) + 2

Init ==
  /\ tab = <<Header>> \o [i \in 1 .. Len(Seed) |-> [id |-> Seed[i], ver |-> 0]]
  /\ rows = [c \in Clients |-> TypeRows(tab)]
  /\ call = [c \in Clients |-> Idle]
  /\ clock = 0
  /\ used = {Seed[i] : i \in DOMAIN Seed}
  /\ use \in Uses

----------------------------------------------------------------------------
(* The values service.  It keeps no blank rows at the end of a tab, writes *)
(* where it is told, and appends after the data or, when the given range   *)
(* lies beyond the data, possibly where the range starts.                  *)

Trimmed(values) ==
  SubSeq(values, 1, Max({i \in DOMAIN values : values[i] # Blank} \union {0}))

\* values with row n replaced; writing past the end leaves blank rows between.
Put(values, n, value) ==
  IF n \in DOMAIN values
    THEN [values EXCEPT ![n] = value]
    ELSE [i \in 1 .. n |-> IF i = n THEN value
                          ELSE IF i \in DOMAIN values THEN values[i] ELSE Blank]

\* values with new written over it from row 1; what lies below new stays.
Overwrite(values, new) ==
  Trimmed([i \in 1 .. Max({Len(values), Len(new)}) |->
             IF i <= Len(new) THEN new[i] ELSE values[i]])

AppendPlaces(c) == {Len(tab) + 1} \union
                   (IF NextRow(c) > Len(tab) THEN {NextRow(c)} ELSE {})

\* The request answered or, its effect on the tab done, its answer lost.
Answered == IF Faults THEN BOOLEAN ELSE {TRUE}

----------------------------------------------------------------------------
(* How a call goes on.                                                     *)

Return(result) == [Idle EXCEPT !.result = result]

Finish(c, result) == call' = [call EXCEPT ![c] = Return(result)]

\* Mutant: the sheet row is worked out from the position in the cache.
BeginByPosition(c, op, i, force) ==
  [Idle EXCEPT !.op = op, !.at = i, !.row = i + 1,
               !.id = rows[c][i].id, !.base = rows[c][i].ver, !.force = force]

\* Starting a call for the model at position i of the cache.
Begin(c, op, i, force) ==
  [Idle EXCEPT !.op = op, !.at = i, !.row = rows[c][i].row,
               !.id = rows[c][i].id, !.base = rows[c][i].ver, !.force = force]

\* update after its check: prepare() stamps the cached model, and the PUT leaves.
PrepareUpdate(c, f) ==
  /\ clock < MaxClock
  /\ clock' = clock + 1
  /\ rows' = [rows EXCEPT ![c][f.at].ver = clock + 1]
  /\ call' = [call EXCEPT ![c] = [f EXCEPT !.pc = "putting", !.ver = clock + 1]]

----------------------------------------------------------------------------
(* Single rows.                                                            *)

\* update(model) asks for the row before it writes it.
CheckUpdate(c, i) ==
  /\ call' = [call EXCEPT ![c] = [Begin(c, "update", i, FALSE) EXCEPT !.pc = "checking"]]
  /\ UNCHANGED <<rows, clock>>

\* update(model, force) of a cached row
Update(c, i, force) ==
  /\ "update" \in Ops
  /\ call[c].pc = "idle" /\ i \in DOMAIN rows[c] /\ rows[c][i].row > 0
  /\ IF force THEN PrepareUpdate(c, Begin(c, "update", i, TRUE)) ELSE CheckUpdate(c, i)
  /\ UNCHANGED <<tab, used>>

\* delete(model, force) of a cached row
Delete(c, i, force) ==
  /\ "delete" \in Ops
  /\ call[c].pc = "idle" /\ i \in DOMAIN rows[c] /\ rows[c][i].row > 0
  /\ call' = [call EXCEPT ![c] =
       [Begin(c, "delete", i, force) EXCEPT
          !.pc = IF force THEN "reading" ELSE "checking"]]
  /\ UNCHANGED <<tab, rows, clock, used>>

\* checkOutdated's comparison of the model with the row it reads
IsCurrent(f) == /\ f.row \in DOMAIN tab
                /\ tab[f.row] = [id |-> f.id, ver |-> f.base]

\* The answer of checkOutdated's rowGet.
Check(c) ==
  /\ call[c].pc = "checking"
  /\ LET f == call[c] IN
       IF ~IsCurrent(f)
         THEN Finish(c, "outdated") /\ UNCHANGED <<rows, clock>>
         ELSE \/ f.op = "update" /\ PrepareUpdate(c, f)
              \/ /\ f.op = "delete"
                 /\ call' = [call EXCEPT ![c].pc = "reading"]
                 /\ UNCHANGED <<rows, clock>>
  /\ UNCHANGED <<tab, used>>

\* Mutant: the answer is assigned to the first row, whose position is kept.
AbsorbUpdateInPlace(c, f) ==
  [rows EXCEPT ![c][1] = [@ EXCEPT !.id = f.id, !.ver = f.ver]]

\* update's findIndex callback assigns model._row to the first row it looks at
\* instead of comparing, and so the first cached row receives the answer.
AbsorbUpdate(c, f) ==
  [rows EXCEPT ![c][1] = [@ EXCEPT !.row = f.row, !.id = f.id, !.ver = f.ver]]

\* rowUpdate's PUT, and the rest of update
RowUpdate(c) ==
  /\ call[c].pc = "putting"
  /\ LET f == call[c] IN
       /\ tab' = Put(tab, f.row, [id |-> f.id, ver |-> f.ver])
       /\ \E answered \in Answered :
            /\ rows' = IF answered THEN AbsorbUpdate(c, f) ELSE rows
            /\ Finish(c, IF answered THEN "ok" ELSE "error")
  /\ UNCHANGED <<clock, used>>

\* create(model): prepare() has given the model its stamp, and its key unless
\* the caller did.
Append1(c, op, k) ==
  /\ Apart => \A i \in DOMAIN rows[c] : rows[c][i].act # "create"
  /\ clock < MaxClock
  /\ clock' = clock + 1
  /\ used' = used \union {k}
  /\ call' = [call EXCEPT ![c] = [Idle EXCEPT
       !.pc = "appending", !.op = op, !.id = k, !.ver = clock + 1]]
  /\ UNCHANGED <<tab, rows>>

Create(c, k) ==
  /\ "create" \in Ops
  /\ call[c].pc = "idle" /\ k \in Keys \ used
  /\ Append1(c, "create", k)

\* SheetData.registerUser on the tab of the users.  A user the cache does not
\* know is created under the key the caller brings, a known one whose name has
\* changed is updated (unless it waits for a batch: then save creates it), and
\* nothing is sent for any other.  The registration that may follow is a create on
\* a tab of its own.
RegisterUser(c, k) ==
  /\ "register" \in Ops
  /\ call[c].pc = "idle" /\ k \in Keys
  /\ \/ /\ \A i \in DOMAIN rows[c] : rows[c][i].id # k
        /\ Append1(c, "register", k)
     \/ \E i \in DOMAIN rows[c] :
          /\ rows[c][i].id = k /\ \A j \in 1 .. i - 1 : rows[c][j].id # k
          /\ IF rows[c][i].row > 0 THEN CheckUpdate(c, i) /\ UNCHANGED <<tab, used>>
                                   ELSE Append1(c, "register", k)

NewRow(f, place) == [row |-> place, id |-> f.id, ver |-> f.ver, act |-> "none"]

\* rowCreate's append, and the rest of create
RowCreate(c) ==
  /\ call[c].pc = "appending"
  /\ \E place \in AppendPlaces(c), answered \in Answered :
       /\ tab' = Put(tab, place, ValuesOf(call[c]))
       /\ \/ /\ ~answered
             /\ Finish(c, "error")
             /\ UNCHANGED rows
          \/ /\ answered /\ place = NextRow(c)
             /\ rows' = [rows EXCEPT ![c] = Append(@, NewRow(call[c], place))]
             /\ Finish(c, "ok")
          \/ /\ answered /\ place # NextRow(c)
             /\ call' = [call EXCEPT ![c].pc = "reloading"]
             /\ UNCHANGED rows
  /\ UNCHANGED <<clock, used>>

Refresh(c) ==
  /\ "refresh" \in Ops
  /\ call[c].pc = "idle"
  /\ call' = [call EXCEPT ![c] = [Idle EXCEPT !.pc = "reloading", !.op = "refresh"]]
  /\ UNCHANGED <<tab, rows, clock, used>>

\* refresh's tabValues; an empty tab has no values to slice, which throws.
Reload(c) ==
  /\ call[c].pc = "reloading"
  /\ rows' = IF tab = <<>> THEN rows ELSE [rows EXCEPT ![c] = TypeRows(tab)]
  /\ Finish(c, IF tab = <<>> THEN "error" ELSE "ok")
  /\ UNCHANGED <<tab, clock, used>>

----------------------------------------------------------------------------
(* Rewriting the whole tab.                                                *)

\* Mutant: values.splice(n - 2, 1), as if positions did not count the header.
SpliceOutAbove(values, n) ==
  IF n - 1 \in DOMAIN values THEN RemoveAt(values, n - 1) ELSE values

\* values.splice(n - 1, 1)
SpliceOut(values, n) == IF n \in DOMAIN values THEN RemoveAt(values, n) ELSE values

\* rowDelete's tabValues. An empty tab has no length to compare with; a row just
\* past the end is let through and removes nothing.
RowDelete(c) ==
  /\ call[c].pc = "reading" /\ call[c].op = "delete"
  /\ IF tab = <<>> \/ call[c].row > Len(tab) + 1
       THEN Finish(c, "error")
       ELSE call' = [call EXCEPT ![c].pc = "clearing",
                                 ![c].held = SpliceOut(tab, call[c].row)]
  /\ UNCHANGED <<tab, rows, clock, used>>

\* setUpdate() and setDelete()
Mark(c, i, action) ==
  /\ "batch" \in Ops
  /\ call[c].pc = "idle" /\ i \in DOMAIN rows[c] /\ rows[c][i].row > 0
  /\ rows' = [rows EXCEPT ![c][i].act = action]
  /\ UNCHANGED <<tab, call, clock, used>>

\* A new model pushed to the rows: its position 0 makes it a create.
MarkCreate(c, k) ==
  /\ "batch" \in Ops
  /\ call[c].pc = "idle" /\ k \in Keys \ used
  /\ used' = used \union {k}
  /\ rows' = [rows EXCEPT ![c] =
       Append(@, [row |-> 0, id |-> k, ver |-> 0, act |-> "create"])]
  /\ UNCHANGED <<tab, call, clock>>

\* batchUpdate(force): getDelta reads the marks, which no one can change before
\* the answer of tabValues is there.
BatchUpdate(c, force) ==
  /\ "batch" \in Ops
  /\ call[c].pc = "idle"
  /\ call' = [call EXCEPT ![c] =
       [Idle EXCEPT !.pc = "reading", !.op = "batch", !.force = force]]
  /\ UNCHANGED <<tab, rows, clock, used>>

\* prepareBatch renews the stamps of the updates and the creates. The rejection of
\* an outdated row is that of a promise no one awaits, so force makes no difference.
Prepared(cached) ==
  [i \in DOMAIN cached |->
     IF cached[i].act \in {"update", "create"}
       THEN [cached[i] EXCEPT !.ver = clock + 1] ELSE cached[i]]

\* Mutant: deletions are applied from the top down.
MergePurgeAscending(values, cached) ==
  LET Marked(action) == SelectSeq(cached, LAMBDA r : r.act = action)
      deletes == SortSeq(Marked("delete"), LAMBDA a, b : a.row < b.row)
      updated == FoldLeft(LAMBDA v, r : Put(v, r.row, ValuesOf(r)),
                          values, Marked("update"))
      purged  == FoldLeft(LAMBDA v, r : SpliceOut(v, r.row), updated, deletes)
  IN FoldLeft(LAMBDA v, r : Append(v, ValuesOf(r)), purged, Marked("create"))

MergePurge(values, cached) ==
  LET Marked(action) == SelectSeq(cached, LAMBDA r : r.act = action)
      deletes == SortSeq(Marked("delete"), LAMBDA a, b : a.row > b.row)
      updated == FoldLeft(LAMBDA v, r : Put(v, r.row, ValuesOf(r)),
                          values, Marked("update"))
      purged  == FoldLeft(LAMBDA v, r : SpliceOut(v, r.row), updated, deletes)
  IN FoldLeft(LAMBDA v, r : Append(v, ValuesOf(r)), purged, Marked("create"))

Deletes(c) == \E i \in DOMAIN rows[c] : rows[c][i].act = "delete"

\* The answer of batchUpdate's tabValues. An empty tab has nothing to merge into.
BatchRead(c) ==
  /\ call[c].pc = "reading" /\ call[c].op = "batch"
  /\ IF tab = <<>>
       THEN Finish(c, "error") /\ UNCHANGED <<rows, clock>>
       ELSE /\ clock < MaxClock
            /\ clock' = clock + 1
            /\ rows' = [rows EXCEPT ![c] = Prepared(@)]
            /\ call' = [call EXCEPT
                 ![c].pc = IF Deletes(c) THEN "clearing" ELSE "writing",
                 ![c].held = MergePurge(tab, Prepared(rows[c]))]
  /\ UNCHANGED <<tab, used>>

\* tabClear
TabClear(c) ==
  /\ call[c].pc = "clearing"
  /\ tab' = <<>>
  /\ \E answered \in Answered :
       IF answered THEN call' = [call EXCEPT ![c].pc = "rewriting"]
                   ELSE Finish(c, "error")
  /\ UNCHANGED <<rows, clock, used>>

\* Mutant: the rows are not reloaded from the answer.
RewriteKeepingRows(c) ==
  /\ call[c].pc \in {"rewriting", "writing"}
  /\ tab' = Overwrite(tab, call[c].held)
  /\ Finish(c, "ok")
  /\ UNCHANGED <<rows, clock, used>>

\* SheetSDK.batchUpdate: its answer holds all rows of the tab, which are reloaded.
Rewrite(c) ==
  /\ call[c].pc \in {"rewriting", "writing"}
  /\ tab' = Overwrite(tab, call[c].held)
  /\ \E answered \in Answered :
       /\ rows' = IF answered THEN [rows EXCEPT ![c] = TypeRows(tab')] ELSE rows
       /\ Finish(c, IF answered THEN "ok" ELSE "error")
  /\ UNCHANGED <<clock, used>>

----------------------------------------------------------------------------
\* A request fails without an effect: the call throws.
RequestFails(c) ==
  /\ Faults
  /\ call[c].pc # "idle"
  /\ Finish(c, "error")
  /\ UNCHANGED <<tab, rows, clock, used>>

Next ==
  /\ UNCHANGED use
  /\ \E c \in use.clients :
       \/ \E i \in DOMAIN rows[c], force \in BOOLEAN :
            Update(c, i, force) \/ Delete(c, i, force)
       \/ \E i \in DOMAIN rows[c], action \in {"update", "delete"} : Mark(c, i, action)
       \/ \E k \in Keys : Create(c, k) \/ RegisterUser(c, k) \/ MarkCreate(c, k)
       \/ Refresh(c) \/ \E force \in BOOLEAN : BatchUpdate(c, force)
       \/ Check(c) \/ RowUpdate(c) \/ RowCreate(c) \/ Reload(c)
       \/ RowDelete(c) \/ BatchRead(c) \/ TabClear(c) \/ Rewrite(c)
       \/ RequestFails(c)

Spec == Init /\ [][Next]_vars

----------------------------------------------------------------------------
(* Properties of the cache and the tab, and the uses they are about.       *)

\* No call takes rows out of the tab or rewrites it.
NoRewrites == Ops \cap {"delete", "batch"} = {}

\* Every new row draws a key that no row has had; a registered user brings one.
DrawnKeys == "register" \notin Ops

\* One client has the tab to itself, its requests are answered, and it updates no
\* cached row: update overwrites the first row of the cache, whichever it is about.
Undisturbed ==
  /\ \E c \in Clients : use.clients = {c}
  /\ ~Faults
  /\ Ops \cap {"update", "register"} = {}

\* A cached row that has a position stands at that position of the sheet: the
\* writes addressed by _row reach the row of their own key. Nothing in the code
\* re-checks this when a row is written with force, or between check and write.
\* (A tab cleared for its rewriting has no rows to stand at.)
CachedKeysAreRight ==
  \A c \in use.clients : call[c].pc # "rewriting" =>
    \A i \in DOMAIN rows[c] :
      LET r == rows[c][i] IN
        r.row > 0 => r.row \in DOMAIN tab /\ tab[r.row].id = r.id

\* Without deletions and batches no row of the sheet ever changes its key or
\* moves, whatever requests fail, however stale the caches are and however many
\* rows a key has come to have by registrations.
RowsNeverMove ==
  [][NoRewrites =>
       \A n \in DOMAIN tab : n \in DOMAIN tab' /\ tab'[n].id = tab[n].id]_vars

\* A create that succeeds hands back the cached row of the key it created, also
\* when another client's row got in between and the tab had to be reloaded.
CreateReturnsItsRow ==
  [][\A c \in Clients :
       /\ call[c].op = "create" /\ call[c].pc \in {"appending", "reloading"}
       /\ call'[c].pc = "idle" /\ call'[c].result = "ok"
       => \E i \in DOMAIN rows'[c] : rows'[c][i].id = call[c].id]_vars

\* No two rows of the sheet have the same key.
KeysUnique ==
  \A m, n \in DOMAIN tab : tab[m].id = tab[n].id /\ tab[m] # Blank => m = n

\* Between calls the first row of the tab is the header.
HeaderStays ==
  (\A c \in Clients : call[c].pc = "idle") => tab # <<>> /\ tab[1] = Header

\* The tab stays what WhollySheet takes it for: a header, and rows with keys of
\* their own, though every batch and deletion rewrites it from a copy. (A
\* registration asks nothing but its own cache whether the user is new: two sessions
\* of one user may each give him a row.)
TabIsKeyed == DrawnKeys => KeysUnique /\ HeaderStays

\* Between calls that succeeded, the rows a lone client has read or written are
\* the rows of the sheet.
CacheMirrorsSheet ==
  Undisturbed => \A c \in use.clients :
    call[c].pc = "idle" /\ call[c].result # "error" =>
      {[row |-> rows[c][i].row, value |-> ValuesOf(rows[c][i])] :
         i \in {j \in DOMAIN rows[c] : rows[c][j].row > 0}}
      = {[row |-> n, value |-> tab[n]] : n \in 2 .. Len(tab)}

----------------------------------------------------------------------------
(* What the tab promises: a table by key.  While the tab is cleared for a   *)
(* rewrite, the table is what the client holds.                             *)

Contents ==
  IF \E c \in Clients : call[c].pc = "rewriting"
    THEN call[CHOOSE c \in Clients : call[c].pc = "rewriting"].held
    ELSE tab

Entry(r) == <<r.id, r.ver>>
Entries  == {Entry(Contents[n]) : n \in 2 .. Len(Contents)}

Marked(c, actions) == {rows[c][i] : i \in {j \in DOMAIN rows[c] : rows[c][j].act \in actions}}

\* The change a client has sent to the sheet and that is not there yet.
Asked == [c \in Clients |->
  LET f == call[c] IN
    CASE f.pc = "putting"   -> [drop |-> {f.id}, put |-> {Entry(f)}]
      [] f.pc = "appending" -> [drop |-> {}, put |-> {Entry(f)}]
      [] f.pc = "clearing" /\ f.op = "delete" -> [drop |-> {f.id}, put |-> {}]
      [] f.pc \in {"clearing", "writing"} /\ f.op = "batch" ->
           [drop |-> {r.id : r \in Marked(c, {"update", "delete"})},
            put  |-> {Entry(r) : r \in Marked(c, {"update", "create"})}]
      [] OTHER -> [drop |-> {}, put |-> {}]]

Table == INSTANCE KeyedTable WITH
  Stamps <- Stamps, table <- Entries, asked <- Asked,
  initial <- {<<Seed[i], 0>> : i \in DOMAIN Seed}

\* The calls of WhollySheet are atomic changes of exactly the keys they are about,
\* although each takes several requests and addresses rows by position: the tab
\* implements the table in every use in which keys are drawn.
ImplementsTable ==
  Table!Init /\ [][DrawnKeys => [Table!Next]_<<Entries, Asked>>]_vars
=============================================================================

------------------------- MODULE WhollySheetProofs -------------------------
(***************************************************************************)
(* Theorems about WhollySheet for any keys and any set of uses: for the    *)
(* uses in which any number of clients delete no rows and run no batches,  *)
(* and for those in which one client has the tab to itself and deletes     *)
(* rows too.  A use is chosen at the start and never changes.              *)
(***************************************************************************)
EXTENDS WhollySheet, TLAPS, SequenceTheorems

----------------------------------------------------------------------------
(* Sequences of rows.                                                      *)

\* Functions on 1 .. n are sequences of length n.
LEMMA FunctionIsSeq ==
  ASSUME NEW S, NEW n \in Nat, NEW f \in [1 .. n -> S]
  PROVE  f \in Seq(S) /\ Len(f) = n
<1>1. f \in Seq(S)
  BY SeqDef
<1>2. DOMAIN f = 1 .. n /\ DOMAIN f = 1 .. Len(f) /\ Len(f) \in Nat
  BY <1>1, LenProperties
<1>3. QED
  BY <1>1, <1>2

\* What a write to an existing row does.
LEMMA PutInside ==
  ASSUME NEW values \in Seq(TabRow), NEW n \in 1 .. Len(values), NEW v \in TabRow
  PROVE  /\ Put(values, n, v) \in Seq(TabRow)
         /\ Len(Put(values, n, v)) = Len(values)
         /\ \A i \in 1 .. Len(values) :
              Put(values, n, v)[i] = IF i = n THEN v ELSE values[i]
<1>1. n \in DOMAIN values
  BY LenProperties
<1>2. Put(values, n, v) = [values EXCEPT ![n] = v]
  BY <1>1 DEF Put
<1>3. QED
  BY <1>2, ExceptSeq

\* What a write just below the last row does.
LEMMA PutBelow ==
  ASSUME NEW values \in Seq(TabRow), NEW v \in TabRow
  PROVE  LET p == Put(values, Len(values) + 1, v) IN
         /\ p \in Seq(TabRow)
         /\ Len(p) = Len(values) + 1
         /\ p[Len(values) + 1] = v
         /\ \A i \in 1 .. Len(values) : p[i] = values[i]
<1> DEFINE m == Len(values) + 1
           P == [i \in 1 .. m |-> IF i = m THEN v ELSE values[i]]
<1>0. Len(values) \in Nat /\ DOMAIN values = 1 .. Len(values)
  BY LenProperties
<1>1. Put(values, m, v) = P
  BY <1>0 DEF Put
<1>2. P \in [1 .. m -> TabRow]
  BY <1>0, ElementOfSeq
<1>3. m \in Nat
  BY <1>0
<1>4. P[m] = v /\ \A i \in 1 .. Len(values) : P[i] = values[i]
  BY <1>0
<1> HIDE DEF P, m
<1>5. P \in Seq(TabRow) /\ Len(P) = m
  BY <1>2, <1>3, FunctionIsSeq
<1>6. QED
  BY <1>1, <1>4, <1>5 DEF m

\* The fields of rows of values and of models.
LEMMA RowFields ==
  /\ \A v \in TabRow : v.id \in Keys \union {"", "_id"} /\ v.ver \in Stamps
  /\ \A r \in RowModel : /\ r.row \in Nat /\ r.id \in Keys \union {"", "_id"}
                         /\ r.ver \in Stamps
BY DEF TabRow, RowModel

LEMMA ModelType ==
  ASSUME NEW n \in Nat, NEW id \in Keys \union {"", "_id"}, NEW ver \in Stamps
  PROVE  [row |-> n, id |-> id, ver |-> ver, act |-> "none"] \in RowModel
BY DEF RowModel

\* typeRows of a tab that has its header.
LEMMA TypeRowsRows ==
  ASSUME NEW values \in Seq(TabRow), Len(values) >= 1
  PROVE  /\ TypeRows(values) \in Seq(RowModel)
         /\ Len(TypeRows(values)) = Len(values) - 1
         /\ \A i \in 1 .. Len(values) - 1 :
              TypeRows(values)[i] = [row |-> i + 1, id |-> values[i + 1].id,
                                     ver |-> values[i + 1].ver, act |-> "none"]
<1> DEFINE m == Len(values) - 1
           e(i) == [row |-> i + 1, id |-> values[i + 1].id,
                    ver |-> values[i + 1].ver, act |-> "none"]
           T == [i \in 1 .. m |-> e(i)]
<1>0. Len(values) \in Nat /\ m \in Nat
  BY LenProperties
<1>1. TypeRows(values) = T
  BY DEF TypeRows
<1>2. ASSUME NEW i \in 1 .. m PROVE e(i) \in RowModel
  <2>1. values[i + 1] \in TabRow
    BY <1>0, ElementOfSeq
  <2>2. i + 1 \in Nat
    BY <1>0
  <2>3. QED
    BY <2>1, <2>2, RowFields, ModelType
<1>3. T \in [1 .. m -> RowModel]
  BY <1>2
<1>4. \A i \in 1 .. m : T[i] = e(i)
  OBVIOUS
<1> HIDE DEF T
<1>5. T \in Seq(RowModel) /\ Len(T) = m
  BY <1>0, <1>3, FunctionIsSeq
<1>6. QED
  BY <1>1, <1>4, <1>5

----------------------------------------------------------------------------
(* The invariant: every cached row and every request in flight knows the   *)
(* place of its key, and no cache is longer than the tab.                  *)

\* r stands at its row.
Places(r) == r.row \in 2 .. Len(tab) /\ tab[r.row].id = r.id

QuietLabels == {"idle", "checking", "putting", "appending", "reloading"}

ClientShape(c) ==
  /\ Len(rows[c]) + 1 <= Len(tab)
  /\ \A i \in 1 .. Len(rows[c]) : Places(rows[c][i])
  /\ call[c].pc \in QuietLabels
  /\ call[c].pc = "checking" => call[c].op = "update"
  /\ call[c].pc \in {"checking", "putting"} =>
       call[c].at \in 1 .. Len(rows[c]) /\ Places(call[c])
  /\ call[c].pc = "reloading" /\ call[c].op = "create" =>
       \E n \in 2 .. Len(tab) : tab[n].id = call[c].id

Shape ==
  /\ Len(tab) >= 1 /\ tab[1] = Header
  /\ \A c \in Clients : ClientShape(c)

Inv == DataOK /\ Shape

\* A step of the tab that moves nothing.
Stable == Len(tab') >= Len(tab) /\ \A n \in 1 .. Len(tab) : tab'[n].id = tab[n].id

\* A client that does not move keeps its shape while the tab is stable.
LEMMA StableClient ==
  ASSUME DataOK, DataOK', NEW c \in Clients, ClientShape(c), Stable,
         rows'[c] = rows[c], call'[c] = call[c]
  PROVE  ClientShape(c)'
<1>0. Len(tab) \in Nat /\ Len(tab') \in Nat
  BY LenProperties DEF DataOK
<1>1. ASSUME NEW r, Places(r)
      PROVE  r.row \in 2 .. Len(tab') /\ tab'[r.row].id = r.id
  <2>1. r.row \in 2 .. Len(tab) /\ tab[r.row].id = r.id
    BY <1>1 DEF Places
  <2>2. r.row \in 1 .. Len(tab) /\ r.row \in 2 .. Len(tab')
    BY <1>0, <2>1 DEF Stable
  <2>3. tab'[r.row].id = tab[r.row].id
    BY <2>2 DEF Stable
  <2>4. QED
    BY <2>1, <2>2, <2>3
<1>2. \A i \in 1 .. Len(rows[c]) :
        rows[c][i].row \in 2 .. Len(tab') /\ tab'[rows[c][i].row].id = rows[c][i].id
  BY <1>1 DEF ClientShape
<1>3. Places(call[c]) => call[c].row \in 2 .. Len(tab') /\ tab'[call[c].row].id = call[c].id
  BY <1>1
<1>4. call[c].pc = "reloading" /\ call[c].op = "create" =>
        \E n \in 2 .. Len(tab') : tab'[n].id = call[c].id
  BY <1>0 DEF ClientShape, Stable
<1>5. Len(rows[c]) \in Nat /\ Len(rows[c]) + 1 <= Len(tab')
  BY <1>0, LenProperties DEF DataOK, ClientShape, Stable
<1>6. QED
  BY <1>2, <1>3, <1>4, <1>5 DEF ClientShape, Places

\* Freshly typed rows stand at their rows.
LEMMA TypeRowsPlaces ==
  ASSUME tab \in Seq(TabRow), Len(tab) >= 1
  PROVE  \A i \in 1 .. Len(TypeRows(tab)) : Places(TypeRows(tab)[i])
<1> SUFFICES ASSUME NEW i \in 1 .. Len(TypeRows(tab)) PROVE Places(TypeRows(tab)[i])
  OBVIOUS
<1>1. Len(tab) \in Nat /\ i \in 1 .. Len(tab) - 1
  BY LenProperties, TypeRowsRows
<1>2. TypeRows(tab)[i] = [row |-> i + 1, id |-> tab[i + 1].id,
                          ver |-> tab[i + 1].ver, act |-> "none"]
  BY <1>1, TypeRowsRows
<1>3. TypeRows(tab)[i].row = i + 1 /\ TypeRows(tab)[i].id = tab[i + 1].id
  BY <1>2
<1>4. QED
  BY <1>1, <1>3 DEF Places

LEMMA IdlePc == Idle.pc = "idle"
BY DEF Idle

LEMMA InitInv == Init => Inv
<1> SUFFICES ASSUME Init PROVE Inv
  OBVIOUS
<1> DEFINE S == [i \in 1 .. Len(Seed) |-> [id |-> Seed[i], ver |-> 0]]
<1>0. /\ Len(Seed) \in Nat /\ DOMAIN Seed = 1 .. Len(Seed)
      /\ \A i \in 1 .. Len(Seed) : Seed[i] \in Keys
  BY SeedAssumption, LenProperties, ElementOfSeq
<1>1. 0 \in Stamps
  BY MaxClockAssumption DEF Stamps
<1>2. S \in [1 .. Len(Seed) -> TabRow]
  BY <1>0, <1>1 DEF TabRow
<1>3. S \in Seq(TabRow)
  BY <1>0, <1>2, FunctionIsSeq
<1>4. Header \in TabRow
  BY <1>1 DEF Header, TabRow
<1>5. <<Header>> \in Seq(TabRow) /\ Len(<<Header>>) = 1 /\ <<Header>>[1] = Header
  BY <1>4
<1>6. tab = <<Header>> \o S
  BY DEF Init
<1>7. tab \in Seq(TabRow) /\ Len(tab) >= 1 /\ tab[1] = Header
  <2> HIDE DEF S
  <2>1. Len(S) \in Nat
    BY <1>3, LenProperties
  <2>2. QED
    BY <1>3, <1>5, <1>6, <2>1, ConcatProperties
<1>8. \A c \in Clients : rows[c] = TypeRows(tab) /\ call[c] = Idle
  BY DEF Init
<1>9. Idle \in Call
  BY <1>1, EmptySeq DEF Idle, Call
<1>10. DataOK
  BY <1>0, <1>1, <1>7, <1>9, TypeRowsRows DEF Init, DataOK
<1>11. ASSUME NEW c \in Clients PROVE ClientShape(c)
  <2>0. rows[c] = TypeRows(tab) /\ call[c] = Idle
    BY <1>8
  <2>1. Len(tab) \in Nat
    BY <1>7, LenProperties
  <2>2. \A i \in 1 .. Len(rows[c]) : Places(rows[c][i])
    BY <1>7, <2>0, TypeRowsPlaces
  <2>3. Len(rows[c]) + 1 <= Len(tab)
    BY <1>7, <2>0, <2>1, TypeRowsRows
  <2>4. call[c].pc = "idle"
    BY <2>0, IdlePc
  <2>5. QED
    BY <2>2, <2>3, <2>4 DEF ClientShape, QuietLabels
<1>12. QED
  BY <1>7, <1>10, <1>11 DEF Inv, Shape

----------------------------------------------------------------------------
(* The calls.                                                              *)

LEMMA ReturnCall ==
  ASSUME NEW result \in {"none", "ok", "outdated", "error"}
  PROVE  Return(result) \in Call /\ Return(result).pc = "idle"
<1>1. 0 \in Stamps /\ <<>> \in Seq(TabRow)
  BY MaxClockAssumption, EmptySeq DEF Stamps
<1>2. QED
  BY <1>1 DEF Return, Idle, Call

LEMMA BeginCall ==
  ASSUME NEW c \in Clients, NEW op \in AllOps, NEW i \in Nat, NEW force \in BOOLEAN,
         rows[c][i] \in RowModel
  PROVE  LET f == Begin(c, op, i, force) IN
         /\ f \in Call
         /\ f.op = op /\ f.at = i /\ f.row = rows[c][i].row /\ f.id = rows[c][i].id
<1>1. 0 \in Stamps /\ <<>> \in Seq(TabRow)
  BY MaxClockAssumption, EmptySeq DEF Stamps
<1>2. /\ rows[c][i].row \in Nat /\ rows[c][i].id \in Keys \union {"", "_id"}
      /\ rows[c][i].ver \in Stamps
  BY RowFields
<1>3. QED
  BY <1>1, <1>2 DEF Begin, Idle, Call

LEMMA SentCall ==
  ASSUME NEW f \in Call, NEW pc \in QuietLabels
  PROVE  LET g == [f EXCEPT !.pc = pc] IN
         /\ g \in Call
         /\ g.pc = pc /\ g.op = f.op /\ g.at = f.at /\ g.row = f.row /\ g.id = f.id
BY DEF Call, QuietLabels

LEMMA StampedCall ==
  ASSUME NEW f \in Call, NEW ver \in Stamps
  PROVE  LET g == [f EXCEPT !.pc = "putting", !.ver = ver] IN
         /\ g \in Call
         /\ g.pc = "putting" /\ g.op = f.op /\ g.at = f.at
         /\ g.row = f.row /\ g.id = f.id /\ g.ver = ver
BY DEF Call

LEMMA ReloadingCall ==
  LET g == [Idle EXCEPT !.pc = "reloading", !.op = "refresh"] IN
  g \in Call /\ g.pc = "reloading" /\ g.op = "refresh"
<1>1. 0 \in Stamps /\ <<>> \in Seq(TabRow)
  BY MaxClockAssumption, EmptySeq DEF Stamps
<1>2. QED
  BY <1>1 DEF Idle, Call, AllOps

\* The stamping of the cached model changes neither places nor keys.
LEMMA StampRows ==
  ASSUME DataOK, NEW c \in Clients, NEW i \in 1 .. Len(rows[c]), NEW ver \in Stamps,
         rows' = [rows EXCEPT ![c][i].ver = ver]
  PROVE  /\ rows' \in [Clients -> Seq(RowModel)]
         /\ Len(rows'[c]) = Len(rows[c])
         /\ \A j \in 1 .. Len(rows[c]) : /\ rows'[c][j].row = rows[c][j].row
                                         /\ rows'[c][j].id = rows[c][j].id
         /\ \A d \in Clients : d # c => rows'[d] = rows[d]
<1> DEFINE r == [rows[c][i] EXCEPT !.ver = ver]
           s == [rows[c] EXCEPT ![i] = r]
<1>1. rows[c] \in Seq(RowModel)
  BY DEF DataOK
<1>2. rows[c][i] \in RowModel
  BY <1>1, ElementOfSeq
<1>3. r \in RowModel /\ r.row = rows[c][i].row /\ r.id = rows[c][i].id
  BY <1>2 DEF RowModel
<1>4. rows' = [rows EXCEPT ![c] = s]
  OBVIOUS
<1> HIDE DEF r
<1>5. /\ s \in Seq(RowModel) /\ Len(s) = Len(rows[c])
      /\ \A j \in 1 .. Len(rows[c]) : s[j] = IF j = i THEN r ELSE rows[c][j]
  BY <1>1, <1>3, ExceptSeq
<1> HIDE DEF s
<1>6. QED
  BY <1>3, <1>4, <1>5 DEF DataOK

\* The answer of an update put into the first row.
LEMMA AbsorbRows ==
  ASSUME DataOK, NEW c \in Clients, 1 \in 1 .. Len(rows[c]), NEW f \in Call,
         rows' = AbsorbUpdate(c, f)
  PROVE  /\ rows' \in [Clients -> Seq(RowModel)]
         /\ Len(rows'[c]) = Len(rows[c])
         /\ rows'[c][1].row = f.row /\ rows'[c][1].id = f.id
         /\ \A j \in 2 .. Len(rows[c]) : rows'[c][j] = rows[c][j]
         /\ \A d \in Clients : d # c => rows'[d] = rows[d]
<1> DEFINE r == [rows[c][1] EXCEPT !.row = f.row, !.id = f.id, !.ver = f.ver]
           s == [rows[c] EXCEPT ![1] = r]
<1>1. rows[c] \in Seq(RowModel)
  BY DEF DataOK
<1>2. rows[c][1] \in RowModel
  BY <1>1, ElementOfSeq
<1>3. f.row \in Nat /\ f.id \in Keys \union {"", "_id"} /\ f.ver \in Stamps
  BY DEF Call
<1>4. r \in RowModel /\ r.row = f.row /\ r.id = f.id
  BY <1>2, <1>3 DEF RowModel
<1>5. rows' = [rows EXCEPT ![c] = s]
  BY DEF AbsorbUpdate
<1> HIDE DEF r
<1>6. /\ s \in Seq(RowModel) /\ Len(s) = Len(rows[c])
      /\ \A j \in 1 .. Len(rows[c]) : s[j] = IF j = 1 THEN r ELSE rows[c][j]
  BY <1>1, <1>4, ExceptSeq
<1> HIDE DEF s
<1>7. Len(rows[c]) \in Nat
  BY <1>1, LenProperties
<1>8. QED
  BY <1>4, <1>5, <1>6, <1>7 DEF DataOK

----------------------------------------------------------------------------
(* The steps of a client.                                                  *)

\* r stands at its row after the step.
PlacedNext(r) == r.row \in 2 .. Len(tab') /\ tab'[r.row].id = r.id

\* A step of client c that leaves the tab alone keeps the invariant if it keeps
\* the types and c's own shape.
LEMMA OwnStep ==
  ASSUME Inv, DataOK', NEW c \in Clients, Stable, tab'[1] = Header, ClientShape(c)',
         \A d \in Clients : d # c => rows'[d] = rows[d] /\ call'[d] = call[d]
  PROVE  Inv'
<1>1. Len(tab') >= 1
  BY LenProperties DEF Stable, Inv, Shape, DataOK
<1>2. ASSUME NEW d \in Clients, d # c PROVE ClientShape(d)'
  BY <1>2, StableClient DEF Inv, Shape
<1>3. QED
  BY <1>1, <1>2 DEF Inv, Shape

\* A step that only changes c's call, to one with nothing at stake.
LEMMA QuietStep ==
  ASSUME Inv, NEW c \in Clients, NEW f \in Call,
         call' = [call EXCEPT ![c] = f], UNCHANGED <<tab, rows>>,
         clock' \in Stamps, used' \in SUBSET Keys,
         f.pc \in {"idle", "appending"} \/ (f.pc = "reloading" /\ f.op # "create")
  PROVE  Inv'
<1>1. DataOK'
  BY DEF Inv, DataOK
<1>2. call'[c] = f /\ \A d \in Clients : d # c => call'[d] = call[d]
  BY DEF Inv, DataOK
<1>3. Stable /\ tab'[1] = Header
  BY LenProperties DEF Stable, Inv, Shape, DataOK
<1>4. ClientShape(c)'
  <2>1. ClientShape(c)
    BY DEF Inv, Shape
  <2>2. QED
    BY <1>2, <2>1 DEF ClientShape, Places, QuietLabels
<1>5. QED
  BY <1>1, <1>2, <1>3, <1>4, OwnStep

LEMMA PrepareStep ==
  ASSUME Inv, NEW c \in Clients, NEW f \in Call, PrepareUpdate(c, f),
         UNCHANGED <<tab, used>>, f.at \in 1 .. Len(rows[c]), Places(f)
  PROVE  Inv'
<1> DEFINE g == [f EXCEPT !.pc = "putting", !.ver = clock + 1]
<1>1. clock + 1 \in Stamps
  BY MaxClockAssumption DEF PrepareUpdate, Inv, DataOK, Stamps
<1>2. /\ g \in Call /\ g.pc = "putting" /\ g.at = f.at /\ g.row = f.row /\ g.id = f.id
  BY <1>1, StampedCall
<1>3. rows' = [rows EXCEPT ![c][f.at].ver = clock + 1] /\ call' = [call EXCEPT ![c] = g]
  BY DEF PrepareUpdate
<1> HIDE DEF g
<1>4. /\ rows' \in [Clients -> Seq(RowModel)]
      /\ Len(rows'[c]) = Len(rows[c])
      /\ \A j \in 1 .. Len(rows[c]) : /\ rows'[c][j].row = rows[c][j].row
                                      /\ rows'[c][j].id = rows[c][j].id
      /\ \A d \in Clients : d # c => rows'[d] = rows[d]
  BY <1>1, <1>3, StampRows DEF Inv
<1>5. call'[c] = g /\ \A d \in Clients : d # c => call'[d] = call[d]
  BY <1>3 DEF Inv, DataOK
<1>6. DataOK'
  BY <1>1, <1>2, <1>3, <1>4 DEF PrepareUpdate, Inv, DataOK
<1>7. Stable /\ tab'[1] = Header
  BY LenProperties DEF Stable, Inv, Shape, DataOK
<1>8. ClientShape(c)'
  <2>1. ClientShape(c)
    BY DEF Inv, Shape
  <2>2. \A i \in 1 .. Len(rows'[c]) : PlacedNext(rows'[c][i])
    BY <1>4, <2>1 DEF ClientShape, Places, PlacedNext
  <2>3. PlacedNext(g)
    BY <1>2 DEF Places, PlacedNext
  <2>4. Len(rows'[c]) + 1 <= Len(tab')
    BY <1>4, <2>1 DEF ClientShape
  <2>5. call'[c].at \in 1 .. Len(rows'[c]) /\ call'[c].pc = "putting"
    BY <1>2, <1>4, <1>5
  <2>6. QED
    BY <1>5, <2>2, <2>3, <2>4, <2>5 DEF ClientShape, QuietLabels, Places, PlacedNext
<1>9. QED
  BY <1>4, <1>5, <1>6, <1>7, <1>8, OwnStep

\* What the request in flight of client c knows.
LEMMA InFlight ==
  ASSUME Inv, NEW c \in Clients
  PROVE  /\ call[c] \in Call /\ ClientShape(c)
         /\ tab \in Seq(TabRow) /\ Len(tab) \in Nat /\ Len(tab) >= 1
         /\ rows[c] \in Seq(RowModel) /\ Len(rows[c]) \in Nat
         /\ DOMAIN rows[c] = 1 .. Len(rows[c]) /\ DOMAIN tab = 1 .. Len(tab)
BY LenProperties DEF Inv, Shape, DataOK

\* What stands at its row still does after a step that moves nothing.
LEMMA Unmoved ==
  ASSUME Inv, tab' \in Seq(TabRow), Stable, NEW r, Places(r)
  PROVE  PlacedNext(r)
<1>1. Len(tab) \in Nat /\ Len(tab') \in Nat
  BY LenProperties DEF Inv, DataOK
<1>2. QED
  BY <1>1 DEF Places, PlacedNext, Stable

\* The call of an update begun for a cached row.
LEMMA BeginUpdate ==
  ASSUME Inv, NEW c \in Clients, NEW i \in DOMAIN rows[c], NEW force \in BOOLEAN
  PROVE  LET f == Begin(c, "update", i, force) IN
         /\ i \in 1 .. Len(rows[c])
         /\ f \in Call /\ f.op = "update" /\ f.at = i /\ Places(f)
<1>1. /\ i \in Nat /\ i \in 1 .. Len(rows[c]) /\ rows[c][i] \in RowModel
      /\ Places(rows[c][i]) /\ "update" \in AllOps
  BY InFlight, ElementOfSeq DEF ClientShape, AllOps
<1>2. LET f == Begin(c, "update", i, force) IN
      /\ f \in Call /\ f.op = "update" /\ f.at = i
      /\ f.row = rows[c][i].row /\ f.id = rows[c][i].id
  BY <1>1, BeginCall
<1>3. QED
  BY <1>1, <1>2 DEF Places

LEMMA CheckUpdateStep ==
  ASSUME Inv, NEW c \in Clients, NEW i \in DOMAIN rows[c], CheckUpdate(c, i),
         UNCHANGED <<tab, used>>
  PROVE  Inv'
<1> DEFINE f == Begin(c, "update", i, FALSE)
           g == [f EXCEPT !.pc = "checking"]
<1>1. i \in 1 .. Len(rows[c]) /\ f \in Call /\ f.op = "update" /\ f.at = i /\ Places(f)
  BY BeginUpdate
<1>2. call' = [call EXCEPT ![c] = g] /\ UNCHANGED <<tab, rows, clock, used>>
  BY DEF CheckUpdate
<1> HIDE DEF f
<1>3. /\ g \in Call /\ g.pc = "checking" /\ g.op = f.op /\ g.at = f.at
      /\ g.row = f.row /\ g.id = f.id
  BY <1>1, SentCall DEF QuietLabels
<1> HIDE DEF g
<1>4. DataOK'
  BY <1>2, <1>3 DEF Inv, DataOK
<1>5. call'[c] = g /\ \A d \in Clients : d # c => call'[d] = call[d]
  BY <1>2 DEF Inv, DataOK
<1>6. Stable /\ tab'[1] = Header
  BY <1>2, LenProperties DEF Stable, Inv, Shape, DataOK
<1>7. PlacedNext(g)
  BY <1>1, <1>2, <1>3 DEF Places, PlacedNext
<1>8. ClientShape(c)'
  BY <1>1, <1>2, <1>3, <1>5, <1>7, InFlight
     DEF ClientShape, Places, PlacedNext, QuietLabels
<1>9. QED
  BY <1>2, <1>4, <1>5, <1>6, <1>8, OwnStep

LEMMA UpdateStep ==
  ASSUME Inv, NEW c \in Clients, NEW i \in DOMAIN rows[c], NEW force \in BOOLEAN,
         Update(c, i, force)
  PROVE  Inv'
<1>1. CASE force
  <2> DEFINE f == Begin(c, "update", i, TRUE)
  <2>1. i \in 1 .. Len(rows[c]) /\ f \in Call /\ f.at = i /\ Places(f)
    BY BeginUpdate
  <2>2. PrepareUpdate(c, f) /\ UNCHANGED <<tab, used>>
    BY <1>1 DEF Update
  <2> HIDE DEF f
  <2>3. QED
    BY <2>1, <2>2, PrepareStep
<1>2. CASE ~force
  BY <1>2, CheckUpdateStep DEF Update
<1>3. QED
  BY <1>1, <1>2

LEMMA CheckStep ==
  ASSUME Inv, NEW c \in Clients, Check(c)
  PROVE  Inv'
<1>1. call[c] \in Call /\ ClientShape(c) /\ call[c].pc = "checking"
  BY InFlight DEF Check
<1>2. call[c].op = "update" /\ call[c].at \in 1 .. Len(rows[c]) /\ Places(call[c])
  BY <1>1 DEF ClientShape
<1>3. CASE IsCurrent(call[c])
  <2>1. PrepareUpdate(c, call[c]) /\ UNCHANGED <<tab, used>>
    BY <1>2, <1>3 DEF Check
  <2>2. QED
    BY <1>1, <1>2, <2>1, PrepareStep
<1>4. CASE ~IsCurrent(call[c])
  <2>1. /\ call' = [call EXCEPT ![c] = Return("outdated")]
        /\ UNCHANGED <<tab, rows, clock, used>>
    BY <1>4 DEF Check, Finish
  <2>2. Return("outdated") \in Call /\ Return("outdated").pc = "idle"
    BY ReturnCall
  <2>3. clock' \in Stamps /\ used' \in SUBSET Keys
    BY <2>1 DEF Inv, DataOK
  <2>4. QED
    BY <2>1, <2>2, <2>3, QuietStep
<1>5. QED
  BY <1>3, <1>4

\* The row written belongs to the key the call is about.
LEMMA RowUpdateTab ==
  ASSUME Inv, NEW c \in Clients, RowUpdate(c)
  PROVE  LET f == call[c] IN
         /\ f.row \in 2 .. Len(tab) /\ tab[f.row].id = f.id
         /\ tab' \in Seq(TabRow) /\ Len(tab') = Len(tab)
         /\ \A n \in 1 .. Len(tab) :
              tab'[n] = IF n = f.row THEN [id |-> f.id, ver |-> f.ver] ELSE tab[n]
<1> DEFINE f == call[c]
           v == [id |-> f.id, ver |-> f.ver]
<1>1. f.row \in 2 .. Len(tab) /\ tab[f.row].id = f.id
  BY InFlight DEF RowUpdate, ClientShape, Places
<1>2. v \in TabRow
  BY InFlight DEF Call, TabRow
<1>3. f.row \in 1 .. Len(tab) /\ tab \in Seq(TabRow)
  BY <1>1, InFlight
<1>4. tab' = Put(tab, f.row, v)
  BY DEF RowUpdate
<1> HIDE DEF f, v
<1>5. /\ Put(tab, f.row, v) \in Seq(TabRow)
      /\ Len(Put(tab, f.row, v)) = Len(tab)
      /\ \A n \in 1 .. Len(tab) :
           Put(tab, f.row, v)[n] = IF n = f.row THEN v ELSE tab[n]
  BY <1>2, <1>3, PutInside
<1>6. /\ tab' \in Seq(TabRow) /\ Len(tab') = Len(tab)
      /\ \A n \in 1 .. Len(tab) : tab'[n] = IF n = f.row THEN v ELSE tab[n]
  BY <1>4, <1>5
<1>7. QED
  BY <1>1, <1>6 DEF f, v

LEMMA RowUpdateStep ==
  ASSUME Inv, NEW c \in Clients, RowUpdate(c)
  PROVE  Inv'
<1> DEFINE f == call[c]
<1>1. /\ f \in Call /\ ClientShape(c) /\ f.pc = "putting"
      /\ Len(tab) \in Nat /\ Len(rows[c]) \in Nat
  BY InFlight DEF RowUpdate
<1>2. /\ f.row \in 2 .. Len(tab) /\ tab[f.row].id = f.id
      /\ tab' \in Seq(TabRow) /\ Len(tab') = Len(tab)
      /\ \A n \in 1 .. Len(tab) :
           tab'[n] = IF n = f.row THEN [id |-> f.id, ver |-> f.ver] ELSE tab[n]
  BY RowUpdateTab
<1>3. Stable /\ tab'[1] = Header
  <2>1. \A n \in 1 .. Len(tab) : tab'[n].id = tab[n].id
    BY <1>2
  <2>2. tab'[1] = tab[1]
    BY <1>1, <1>2, InFlight
  <2>3. QED
    BY <1>1, <1>2, <2>1, <2>2 DEF Stable, Inv, Shape
<1>4. PICK answered \in BOOLEAN :
        /\ rows' = IF answered THEN AbsorbUpdate(c, f) ELSE rows
        /\ call' = [call EXCEPT ![c] = Return(IF answered THEN "ok" ELSE "error")]
  BY DEF RowUpdate, Finish, Answered
<1> DEFINE r == Return(IF answered THEN "ok" ELSE "error")
<1>5. r \in Call /\ r.pc = "idle"
  BY ReturnCall
<1> HIDE DEF r
<1>6. call'[c] = r /\ \A d \in Clients : d # c => call'[d] = call[d]
  BY <1>4 DEF Inv, DataOK, r
<1>7. 1 \in 1 .. Len(rows[c])
  BY <1>1 DEF ClientShape
<1>8. /\ rows' \in [Clients -> Seq(RowModel)] /\ Len(rows'[c]) = Len(rows[c])
      /\ \A d \in Clients : d # c => rows'[d] = rows[d]
      /\ \A i \in 1 .. Len(rows[c]) : PlacedNext(rows'[c][i])
  <2>1. CASE answered
    <3>1. rows' = AbsorbUpdate(c, f)
      BY <1>4, <2>1
    <3>2. /\ rows' \in [Clients -> Seq(RowModel)]
          /\ Len(rows'[c]) = Len(rows[c])
          /\ rows'[c][1].row = f.row /\ rows'[c][1].id = f.id
          /\ \A j \in 2 .. Len(rows[c]) : rows'[c][j] = rows[c][j]
          /\ \A d \in Clients : d # c => rows'[d] = rows[d]
      BY <1>1, <1>7, <3>1, AbsorbRows DEF Inv
    <3>3. PlacedNext(rows'[c][1])
      <4>1. Places(f)
        BY <1>2 DEF Places
      <4>2. QED
        BY <1>2, <1>3, <3>2, <4>1, Unmoved DEF PlacedNext
    <3>4. ASSUME NEW j \in 2 .. Len(rows[c]) PROVE PlacedNext(rows'[c][j])
      <4>1. Places(rows[c][j])
        BY <1>1 DEF ClientShape
      <4>2. PlacedNext(rows[c][j])
        BY <1>2, <1>3, <4>1, Unmoved
      <4>3. QED
        BY <3>2, <4>2
    <3>5. QED
      BY <1>1, <3>2, <3>3, <3>4
  <2>2. CASE ~answered
    <3>1. rows' = rows
      BY <1>4, <2>2
    <3>2. \A i \in 1 .. Len(rows[c]) : PlacedNext(rows[c][i])
      BY <1>1, <1>2, <1>3, Unmoved DEF ClientShape
    <3>3. QED
      BY <3>1, <3>2 DEF Inv, DataOK
  <2>3. QED
    BY <2>1, <2>2
<1>9. DataOK'
  BY <1>2, <1>4, <1>5, <1>8 DEF RowUpdate, Inv, DataOK, r
<1>10. ClientShape(c)'
  BY <1>1, <1>2, <1>5, <1>6, <1>8 DEF ClientShape, QuietLabels, Places, PlacedNext
<1>11. QED
  BY <1>3, <1>6, <1>8, <1>9, <1>10, OwnStep

\* The appended row lands just below the last one.
LEMMA RowCreateTab ==
  ASSUME Inv, NEW c \in Clients, RowCreate(c)
  PROVE  /\ AppendPlaces(c) = {Len(tab) + 1}
         /\ tab' \in Seq(TabRow) /\ Len(tab') = Len(tab) + 1
         /\ tab'[Len(tab) + 1] = ValuesOf(call[c])
         /\ \A n \in 1 .. Len(tab) : tab'[n] = tab[n]
<1> DEFINE v == ValuesOf(call[c])
           m == Len(tab) + 1
<1>1. /\ call[c] \in Call /\ Len(rows[c]) + 1 <= Len(tab)
      /\ tab \in Seq(TabRow) /\ Len(tab) \in Nat /\ Len(rows[c]) \in Nat
  BY InFlight DEF ClientShape
<1>2. AppendPlaces(c) = {m}
  BY <1>1 DEF AppendPlaces, NextRow
<1>3. v \in TabRow
  BY <1>1 DEF ValuesOf, Call, TabRow
<1>4. tab' = Put(tab, m, v)
  BY <1>2 DEF RowCreate
<1> HIDE DEF v
<1>5. /\ Put(tab, m, v) \in Seq(TabRow)
      /\ Len(Put(tab, m, v)) = m
      /\ Put(tab, m, v)[m] = v
      /\ \A n \in 1 .. Len(tab) : Put(tab, m, v)[n] = tab[n]
  BY <1>1, <1>3, PutBelow
<1>6. QED
  BY <1>2, <1>4, <1>5 DEF v

LEMMA RowCreateStep ==
  ASSUME Inv, NEW c \in Clients, RowCreate(c)
  PROVE  Inv'
<1> DEFINE f == call[c]
           m == Len(tab) + 1
           new == NewRow(f, m)
<1>1. /\ f \in Call /\ ClientShape(c) /\ f.pc = "appending"
      /\ tab \in Seq(TabRow) /\ Len(tab) \in Nat /\ Len(tab) >= 1
      /\ rows[c] \in Seq(RowModel) /\ Len(rows[c]) \in Nat
  BY InFlight DEF RowCreate
<1>2. /\ AppendPlaces(c) = {m}
      /\ tab' \in Seq(TabRow) /\ Len(tab') = m
      /\ tab'[m] = ValuesOf(f)
      /\ \A n \in 1 .. Len(tab) : tab'[n] = tab[n]
  BY RowCreateTab
<1>3. Stable /\ tab'[1] = Header
  BY <1>1, <1>2 DEF Stable, Inv, Shape
<1>4. tab'[m].id = f.id /\ m \in 2 .. Len(tab')
  BY <1>1, <1>2 DEF ValuesOf
<1>5. new \in RowModel /\ PlacedNext(new)
  <2>0. m \in Nat
    BY <1>1
  <2>1. f.id \in Keys \union {"", "_id"} /\ f.ver \in Stamps
    BY <1>1 DEF Call
  <2>2. new \in RowModel
    BY <2>0, <2>1, ModelType DEF NewRow
  <2>3. new.row = m /\ new.id = f.id
    BY DEF NewRow
  <2>4. QED
    BY <1>4, <2>2, <2>3 DEF PlacedNext
<1>6. \A i \in 1 .. Len(rows[c]) : PlacedNext(rows[c][i])
  BY <1>1, <1>2, <1>3, Unmoved DEF ClientShape
<1>7. UNCHANGED <<clock, used>>
  BY DEF RowCreate
<1>8. ASSUME NEW result \in {"ok", "error"}, NEW s \in Seq(RowModel),
             call' = [call EXCEPT ![c] = Return(result)],
             rows' = [rows EXCEPT ![c] = s],
             Len(s) + 1 <= Len(tab'), \A i \in 1 .. Len(s) : PlacedNext(s[i])
      PROVE  Inv'
  <2>1. Return(result) \in Call /\ Return(result).pc = "idle"
    BY ReturnCall
  <2>2. /\ call'[c] = Return(result) /\ rows'[c] = s
        /\ \A d \in Clients : d # c => call'[d] = call[d] /\ rows'[d] = rows[d]
    BY <1>8 DEF Inv, DataOK
  <2>3. DataOK'
    BY <1>2, <1>7, <1>8, <2>1 DEF Inv, DataOK
  <2>4. ClientShape(c)'
    BY <1>8, <2>1, <2>2 DEF ClientShape, QuietLabels, Places, PlacedNext
  <2>5. QED
    BY <1>3, <2>2, <2>3, <2>4, OwnStep
<1>9. CASE Finish(c, "error") /\ UNCHANGED rows
  <2>1. rows' = [rows EXCEPT ![c] = rows[c]]
    BY <1>9 DEF Inv, DataOK
  <2>2. Len(rows[c]) + 1 <= Len(tab')
    BY <1>1, <1>2 DEF ClientShape
  <2>3. QED
    BY <1>1, <1>6, <1>8, <1>9, <2>1, <2>2 DEF Finish
<1>10. CASE rows' = [rows EXCEPT ![c] = Append(@, new)] /\ Finish(c, "ok")
  <2> DEFINE s == Append(rows[c], new)
  <2> HIDE DEF new
  <2>1. /\ s \in Seq(RowModel) /\ Len(s) = Len(rows[c]) + 1
        /\ s[Len(rows[c]) + 1] = new
        /\ \A i \in 1 .. Len(rows[c]) : s[i] = rows[c][i]
    BY <1>1, <1>5, AppendProperties
  <2>2. rows' = [rows EXCEPT ![c] = s]
    BY <1>10
  <2> HIDE DEF s
  <2>3. Len(s) + 1 <= Len(tab')
    BY <1>1, <1>2, <2>1 DEF ClientShape
  <2>4. \A i \in 1 .. Len(s) : PlacedNext(s[i])
    BY <1>1, <1>5, <1>6, <2>1
  <2>5. QED
    BY <1>8, <1>10, <2>1, <2>2, <2>3, <2>4 DEF Finish
<1>11. CASE call' = [call EXCEPT ![c].pc = "reloading"] /\ UNCHANGED rows
  <2> DEFINE g == [f EXCEPT !.pc = "reloading"]
  <2>1. g \in Call /\ g.pc = "reloading" /\ g.op = f.op /\ g.id = f.id
    BY <1>1, SentCall DEF QuietLabels
  <2>2. call' = [call EXCEPT ![c] = g]
    BY <1>11
  <2> HIDE DEF g
  <2>3. call'[c] = g /\ \A d \in Clients : d # c => call'[d] = call[d]
    BY <2>2 DEF Inv, DataOK
  <2>4. DataOK'
    BY <1>2, <1>7, <1>11, <2>1, <2>2 DEF Inv, DataOK
  <2>5. Len(rows'[c]) + 1 <= Len(tab')
    BY <1>1, <1>2, <1>11 DEF ClientShape
  <2>6. \A i \in 1 .. Len(rows'[c]) : PlacedNext(rows'[c][i])
    BY <1>6, <1>11
  <2>7. ClientShape(c)'
    BY <1>4, <2>1, <2>3, <2>5, <2>6 DEF ClientShape, QuietLabels, Places, PlacedNext
  <2>8. QED
    BY <1>3, <1>11, <2>3, <2>4, <2>7, OwnStep
<1>12. QED
  BY <1>2, <1>9, <1>10, <1>11 DEF RowCreate

LEMMA ReloadStep ==
  ASSUME Inv, NEW c \in Clients, Reload(c)
  PROVE  Inv'
<1> DEFINE s == TypeRows(tab)
<1>1. /\ tab \in Seq(TabRow) /\ Len(tab) \in Nat /\ Len(tab) >= 1
      /\ tab # <<>>
  BY InFlight, EmptySeq
<1>2. /\ s \in Seq(RowModel) /\ Len(s) = Len(tab) - 1
      /\ \A i \in 1 .. Len(s) : Places(s[i])
  BY <1>1, TypeRowsRows, TypeRowsPlaces
<1>3. /\ rows' = [rows EXCEPT ![c] = s]
      /\ call' = [call EXCEPT ![c] = Return("ok")]
      /\ UNCHANGED <<tab, clock, used>>
  BY <1>1 DEF Reload, Finish
<1> HIDE DEF s
<1>4. Return("ok") \in Call /\ Return("ok").pc = "idle"
  BY ReturnCall
<1>5. /\ call'[c] = Return("ok") /\ rows'[c] = s
      /\ \A d \in Clients : d # c => call'[d] = call[d] /\ rows'[d] = rows[d]
  BY <1>3 DEF Inv, DataOK
<1>6. DataOK'
  BY <1>2, <1>3, <1>4 DEF Inv, DataOK
<1>7. Stable /\ tab'[1] = Header
  BY <1>1, <1>3 DEF Stable, Inv, Shape
<1>8. ClientShape(c)'
  <2>1. \A i \in 1 .. Len(s) : PlacedNext(s[i])
    BY <1>2, <1>3 DEF Places, PlacedNext
  <2>2. Len(s) + 1 <= Len(tab')
    BY <1>1, <1>2, <1>3
  <2>3. QED
    BY <1>4, <1>5, <2>1, <2>2 DEF ClientShape, QuietLabels, Places, PlacedNext
<1>9. QED
  BY <1>5, <1>6, <1>7, <1>8, OwnStep

\* prepare() of a new row.
LEMMA AppendStep ==
  ASSUME Inv, NEW c \in Clients, NEW op \in AllOps, NEW k \in Keys, Append1(c, op, k)
  PROVE  Inv'
<1>1. PICK ver \in Stamps : ver = clock + 1
  BY MaxClockAssumption DEF Append1, Inv, DataOK, Stamps
<1>2. PICK g : g = [Idle EXCEPT !.pc = "appending", !.op = op, !.id = k, !.ver = ver]
  OBVIOUS
<1>3. g \in Call /\ g.pc = "appending"
  <2>1. 0 \in Stamps /\ <<>> \in Seq(TabRow)
    BY MaxClockAssumption, EmptySeq DEF Stamps
  <2>2. QED
    BY <1>2, <2>1 DEF Idle, Call
<1>4. call' = [call EXCEPT ![c] = g] /\ UNCHANGED <<tab, rows>>
  BY <1>1, <1>2 DEF Append1
<1>5. clock' \in Stamps /\ used' \in SUBSET Keys
  BY <1>1 DEF Append1, Inv, DataOK
<1>6. QED
  BY <1>3, <1>4, <1>5, QuietStep

\* What a registration comes to: a new row under a key the cache does not know or
\* knows only of rows without a place, or the update of a cached row.
LEMMA RegisterIs ==
  ASSUME NEW c, NEW k, RegisterUser(c, k)
  PROVE  /\ call[c].pc = "idle"
         /\ \/ Append1(c, "register", k)
            \/ \E i \in DOMAIN rows[c] : CheckUpdate(c, i) /\ UNCHANGED <<tab, used>>
BY DEF RegisterUser

LEMMA RegisterStep ==
  ASSUME Inv, NEW c \in Clients, NEW k \in Keys, RegisterUser(c, k)
  PROVE  Inv'
<1>1. \/ Append1(c, "register", k)
      \/ \E i \in DOMAIN rows[c] : CheckUpdate(c, i) /\ UNCHANGED <<tab, used>>
  BY RegisterIs
<1>2. "register" \in AllOps
  BY DEF AllOps
<1>3. QED
  BY <1>1, <1>2, AppendStep, CheckUpdateStep

\* The steps that are left without deletions and batches.
QuietMove(c) ==
  \/ \E i \in DOMAIN rows[c], force \in BOOLEAN : Update(c, i, force)
  \/ \E k \in Keys : Create(c, k) \/ RegisterUser(c, k)
  \/ Refresh(c) \/ Check(c) \/ RowUpdate(c) \/ RowCreate(c) \/ Reload(c)
  \/ RequestFails(c)

\* A use of this kind, which it stays.
Quiet == NoRewrites /\ use \in Uses

LEMMA Frozen == [Next]_vars => use' = use
BY DEF Next, vars

LEMMA QuietStays == ASSUME Quiet, [Next]_vars PROVE Quiet'
BY Frozen DEF Quiet, NoRewrites, Ops

LEMMA QuietNext == ASSUME Quiet, Inv, Next PROVE \E c \in Clients : QuietMove(c)
<1>1. ASSUME NEW c \in Clients PROVE call[c].pc \in QuietLabels
  BY <1>1 DEF Inv, Shape, ClientShape
<1>2. ASSUME NEW c \in Clients
      PROVE  ~(RowDelete(c) \/ BatchRead(c) \/ TabClear(c) \/ Rewrite(c))
  BY <1>1 DEF QuietLabels, RowDelete, BatchRead, TabClear, Rewrite
<1>3. ASSUME NEW c \in Clients
      PROVE  /\ \A i \in DOMAIN rows[c], force \in BOOLEAN : ~Delete(c, i, force)
             /\ \A i \in DOMAIN rows[c], action \in {"update", "delete"} : ~Mark(c, i, action)
             /\ \A k \in Keys : ~MarkCreate(c, k)
             /\ \A force \in BOOLEAN : ~BatchUpdate(c, force)
  BY DEF Quiet, NoRewrites, Delete, Mark, MarkCreate, BatchUpdate
<1>4. PICK c \in Clients :
        \/ QuietMove(c)
        \/ \E i \in DOMAIN rows[c], force \in BOOLEAN : Delete(c, i, force)
        \/ \E i \in DOMAIN rows[c], action \in {"update", "delete"} : Mark(c, i, action)
        \/ \E k \in Keys : MarkCreate(c, k)
        \/ \E force \in BOOLEAN : BatchUpdate(c, force)
        \/ RowDelete(c) \/ BatchRead(c) \/ TabClear(c) \/ Rewrite(c)
  BY UsesAssumption DEF Next, QuietMove, Quiet
<1>5. QED
  BY <1>2, <1>3, <1>4

LEMMA NextInv == ASSUME Quiet PROVE Inv /\ [Next]_vars => Inv'
<1> SUFFICES ASSUME Inv, [Next]_vars PROVE Inv'
  OBVIOUS
<1>1. CASE UNCHANGED vars
  <2>1. tab' = tab /\ rows' = rows /\ call' = call /\ clock' = clock /\ used' = used
    BY <1>1 DEF vars
  <2>2. QED
    BY <2>1 DEF Inv, DataOK, Shape, ClientShape, Places
<1>2. ASSUME NEW c \in Clients, Refresh(c) PROVE Inv'
  <2>1. clock' \in Stamps /\ used' \in SUBSET Keys /\ UNCHANGED <<tab, rows>>
    BY <1>2 DEF Refresh, Inv, DataOK
  <2>2. QED
    BY <1>2, <2>1, ReloadingCall, QuietStep DEF Refresh
<1>3. ASSUME NEW c \in Clients, RequestFails(c) PROVE Inv'
  <2>1. clock' \in Stamps /\ used' \in SUBSET Keys /\ UNCHANGED <<tab, rows>>
    BY <1>3 DEF RequestFails, Inv, DataOK
  <2>2. Return("error") \in Call /\ Return("error").pc = "idle"
    BY ReturnCall
  <2>3. QED
    BY <1>3, <2>1, <2>2, QuietStep DEF RequestFails, Finish
<1>4. ASSUME NEW c \in Clients, NEW k \in Keys, Create(c, k) \/ RegisterUser(c, k)
      PROVE  Inv'
  BY <1>4, AppendStep, RegisterStep DEF Create, AllOps
<1>5. ASSUME Next PROVE Inv'
  <2>1. PICK c \in Clients : QuietMove(c)
    BY <1>5, QuietNext
  <2>2. QED
    BY <1>2, <1>3, <1>4, <2>1, UpdateStep, CheckStep, RowUpdateStep, RowCreateStep,
       ReloadStep DEF QuietMove
<1>6. QED
  BY <1>1, <1>5

----------------------------------------------------------------------------
(* Theorems.                                                               *)

LEMMA InvHolds == Spec /\ NoRewrites => [](Inv /\ Quiet)
<1>1. Init /\ NoRewrites => Inv /\ Quiet
  BY InitInv DEF Init, Quiet
<1>2. (Inv /\ Quiet) /\ [Next]_vars => (Inv /\ Quiet)'
  BY NextInv, QuietStays
<1>3. QED
  BY <1>1, <1>2, PTL DEF Spec

\* The variables keep their types in every run without deletions and batches.
THEOREM TypeCorrect == Spec /\ NoRewrites => []TypeOK
<1>1. Inv /\ Quiet => TypeOK
  BY DEF Inv, Quiet, TypeOK
<1>2. QED
  BY <1>1, InvHolds, PTL

\* However many clients create and update rows, however stale their caches and
\* whatever requests fail, a cached row stands at the sheet row of its own key.
THEOREM CachedKeysAreRightHolds == Spec /\ NoRewrites => []CachedKeysAreRight
<1>1. Inv /\ Quiet => CachedKeysAreRight
  <2> SUFFICES ASSUME Inv, NEW c \in Clients, NEW i \in DOMAIN rows[c]
               PROVE  /\ rows[c][i].row \in DOMAIN tab
                      /\ tab[rows[c][i].row].id = rows[c][i].id
    BY UsesAssumption DEF CachedKeysAreRight, Quiet
  <2>1. Places(rows[c][i]) /\ DOMAIN tab = 1 .. Len(tab) /\ Len(tab) \in Nat
    BY InFlight DEF ClientShape
  <2>2. QED
    BY <2>1 DEF Places
<1>2. QED
  BY <1>1, InvHolds, PTL

\* A step of one client leaves the calls of the others alone, and the tab unless
\* it answers a PUT or an append.
LEMMA OneMoves ==
  ASSUME Inv, NEW c \in Clients, QuietMove(c)
  PROVE  /\ \A d \in Clients : d # c => call'[d] = call[d]
         /\ RowUpdate(c) \/ RowCreate(c) \/ tab' = tab
<1>0. call \in [Clients -> Call]
  BY DEF Inv, DataOK
<1>1. ASSUME NEW i \in DOMAIN rows[c], NEW force \in BOOLEAN, Update(c, i, force)
      PROVE  (\A d \in Clients : d # c => call'[d] = call[d]) /\ tab' = tab
  BY <1>0, <1>1 DEF Update, CheckUpdate, PrepareUpdate
<1>2. ASSUME NEW k \in Keys, Create(c, k) \/ RegisterUser(c, k)
      PROVE  (\A d \in Clients : d # c => call'[d] = call[d]) /\ tab' = tab
  BY <1>0, <1>2, RegisterIs DEF Create, CheckUpdate, Append1
<1>3. ASSUME Refresh(c) \/ RequestFails(c) \/ Reload(c)
      PROVE  (\A d \in Clients : d # c => call'[d] = call[d]) /\ tab' = tab
  BY <1>0, <1>3 DEF Refresh, RequestFails, Reload, Finish
<1>4. ASSUME Check(c)
      PROVE  (\A d \in Clients : d # c => call'[d] = call[d]) /\ tab' = tab
  BY <1>0, <1>4 DEF Check, Finish, PrepareUpdate
<1>5. ASSUME RowUpdate(c) PROVE \A d \in Clients : d # c => call'[d] = call[d]
  BY <1>0, <1>5 DEF RowUpdate, Finish
<1>6. ASSUME RowCreate(c) PROVE \A d \in Clients : d # c => call'[d] = call[d]
  BY <1>0, <1>6 DEF RowCreate, Finish
<1>7. QED
  BY <1>1, <1>2, <1>3, <1>4, <1>5, <1>6 DEF QuietMove

LEMMA NextStable == ASSUME Quiet PROVE Inv /\ [Next]_vars => Stable
<1> SUFFICES ASSUME Inv, [Next]_vars PROVE Stable
  OBVIOUS
<1>0. Len(tab) \in Nat
  BY LenProperties DEF Inv, DataOK
<1>1. CASE tab' = tab
  BY <1>0, <1>1 DEF Stable
<1>2. ASSUME NEW c \in Clients, RowUpdate(c) PROVE Stable
  <2>1. /\ tab[call[c].row].id = call[c].id /\ Len(tab') = Len(tab)
        /\ \A n \in 1 .. Len(tab) :
             tab'[n] = IF n = call[c].row THEN [id |-> call[c].id, ver |-> call[c].ver]
                                          ELSE tab[n]
    BY <1>2, RowUpdateTab
  <2>2. \A n \in 1 .. Len(tab) : tab'[n].id = tab[n].id
    BY <2>1
  <2>3. QED
    BY <1>0, <2>1, <2>2 DEF Stable
<1>3. ASSUME NEW c \in Clients, RowCreate(c) PROVE Stable
  BY <1>0, <1>3, RowCreateTab DEF Stable
<1>4. ASSUME Next PROVE Stable
  <2>1. PICK c \in Clients : QuietMove(c)
    BY <1>4, QuietNext
  <2>2. QED
    BY <1>1, <1>2, <1>3, <2>1, OneMoves
<1>5. QED
  BY <1>1, <1>4 DEF vars

\* Without deletions and batches no row of the sheet moves or changes its key.
THEOREM RowsNeverMoveHolds == Spec /\ NoRewrites => RowsNeverMove
<1>1. (Inv /\ Quiet) /\ (Inv /\ Quiet)' /\ [Next]_vars =>
        [NoRewrites =>
           \A n \in DOMAIN tab : n \in DOMAIN tab' /\ tab'[n].id = tab[n].id]_vars
  <2> SUFFICES ASSUME Inv, Quiet, Inv', [Next]_vars, NEW n \in DOMAIN tab
               PROVE  n \in DOMAIN tab' /\ tab'[n].id = tab[n].id
    OBVIOUS
  <2>1. /\ DOMAIN tab = 1 .. Len(tab) /\ Len(tab) \in Nat
        /\ DOMAIN tab' = 1 .. Len(tab') /\ Len(tab') \in Nat
    BY LenProperties DEF Inv, DataOK
  <2>2. Stable
    BY NextStable
  <2>3. QED
    BY <2>1, <2>2 DEF Stable
<1>2. QED
  BY <1>1, InvHolds, PTL DEF Spec, RowsNeverMove

\* A create that succeeds hands back a cached row of the key it created, also
\* when the tab had to be reloaded for it.
THEOREM CreateReturnsItsRowHolds == Spec /\ NoRewrites => CreateReturnsItsRow
<1>1. ASSUME Inv, Quiet, [Next]_vars, NEW c \in Clients,
             call[c].op = "create", call[c].pc \in {"appending", "reloading"},
             call'[c].pc = "idle", call'[c].result = "ok"
      PROVE  \E i \in DOMAIN rows'[c] : rows'[c][i].id = call[c].id
  <2>0. /\ call \in [Clients -> Call] /\ rows \in [Clients -> Seq(RowModel)]
        /\ rows[c] \in Seq(RowModel) /\ Len(rows[c]) \in Nat
        /\ tab \in Seq(TabRow) /\ Len(tab) \in Nat /\ Len(tab) >= 1
        /\ ClientShape(c)
    BY <1>1, InFlight DEF Inv, DataOK
  <2>1. call' # call
    BY <1>1
  <2>2. PICK d \in Clients : QuietMove(d)
    BY <1>1, <2>1, QuietNext DEF vars
  <2>3. QuietMove(c)
    BY <1>1, <2>2, OneMoves
  <2>4. ~RequestFails(c)
    <3>1. Return("error").result = "error"
      BY DEF Return, Idle
    <3>2. QED
      BY <1>1, <2>0, <3>1 DEF RequestFails, Finish
  <2>5. RowCreate(c) \/ Reload(c)
    BY <1>1, <2>3, <2>4, RegisterIs DEF QuietMove, Update, Create, Refresh, Check, RowUpdate
  <2>6. CASE RowCreate(c)
    <3>1. call[c].pc = "appending"
      BY <2>6 DEF RowCreate
    <3>2. Return("error").result = "error"
      BY DEF Return, Idle
    <3>3. PICK place \in AppendPlaces(c) :
            rows' = [rows EXCEPT ![c] = Append(@, NewRow(call[c], place))]
      <4>1. call' # [call EXCEPT ![c] = Return("error")]
        BY <1>1, <2>0, <3>2
      <4>2. call' # [call EXCEPT ![c].pc = "reloading"]
        BY <1>1, <2>0 DEF Call
      <4>3. QED
        BY <2>6, <4>1, <4>2 DEF RowCreate, Finish
    <3>4. rows'[c] = Append(rows[c], NewRow(call[c], place))
      BY <2>0, <3>3
    <3>5. /\ Len(rows'[c]) = Len(rows[c]) + 1
          /\ rows'[c][Len(rows[c]) + 1] = NewRow(call[c], place)
      BY <2>0, <3>4, AppendProperties
    <3>6. Len(rows[c]) + 1 \in DOMAIN rows'[c]
      BY <2>0, <3>4, AppendProperties
    <3>7. NewRow(call[c], place).id = call[c].id
      BY DEF NewRow
    <3>8. QED
      BY <3>5, <3>6, <3>7
  <2>7. CASE Reload(c)
    <3>1. call[c].pc = "reloading" /\ rows'[c] = TypeRows(tab)
      BY <2>0, <2>7, EmptySeq DEF Reload
    <3>2. PICK n \in 2 .. Len(tab) : tab[n].id = call[c].id
      BY <1>1, <2>0, <3>1 DEF ClientShape
    <3>3. n - 1 \in 1 .. Len(tab) - 1 /\ n - 1 + 1 = n
      BY <2>0
    <3>4. TypeRows(tab)[n - 1].id = tab[n].id
      <4>1. PICK m \in 1 .. Len(tab) - 1 : m = n - 1
        BY <3>3
      <4>2. TypeRows(tab)[m] = [row |-> m + 1, id |-> tab[m + 1].id,
                                ver |-> tab[m + 1].ver, act |-> "none"]
        BY <2>0, TypeRowsRows
      <4>3. QED
        BY <3>3, <4>1, <4>2
    <3>5. n - 1 \in DOMAIN TypeRows(tab)
      BY <2>0, <3>3 DEF TypeRows
    <3>6. QED
      BY <3>1, <3>2, <3>4, <3>5
  <2>8. QED
    BY <2>5, <2>6, <2>7
<1>2. (Inv /\ Quiet) /\ [Next]_vars =>
        [\A c \in Clients :
           /\ call[c].op = "create" /\ call[c].pc \in {"appending", "reloading"}
           /\ call'[c].pc = "idle" /\ call'[c].result = "ok"
           => \E i \in DOMAIN rows'[c] : rows'[c][i].id = call[c].id]_vars
  BY <1>1
<1>3. QED
  BY <1>2, InvHolds, PTL DEF Spec, CreateReturnsItsRow

----------------------------------------------------------------------------
(* Keys.  Every create draws a key nobody used; a registered key is the     *)
(* caller's, and nothing but each client's own cache is asked whether it is *)
(* new.  So this part is about the uses without registrations.              *)

\* Each key is on the tab once, and a key on its way to it is not there yet and
\* is on its way once.
OnTab(k) == \E n \in 2 .. Len(tab) : tab[n].id = k
KeysUsed == \A k : OnTab(k) => k \in used
KeysApart == \A m, n \in 2 .. Len(tab) : tab[m].id = tab[n].id => m = n
Arriving(c) == call[c].pc = "appending"
ArrivalsNew ==
  \A c \in Clients : Arriving(c) => call[c].id \in used /\ ~OnTab(call[c].id)
ArrivalsApart ==
  \A c, d \in Clients : Arriving(c) /\ Arriving(d) /\ call[c].id = call[d].id => c = d

Keyed == KeysUsed /\ KeysApart /\ ArrivalsNew /\ ArrivalsApart

\* The tab at the start: a header, and the keys of the seed.
LEMMA InitTab ==
  ASSUME Init
  PROVE  /\ Len(Seed) \in Nat /\ DOMAIN Seed = 1 .. Len(Seed) /\ Len(tab) = Len(Seed) + 1
         /\ \A n \in 2 .. Len(tab) : tab[n].id = Seed[n - 1] /\ tab[n].ver = 0
<1> DEFINE e(i) == [id |-> Seed[i], ver |-> 0]
           V == {Header} \union {e(i) : i \in 1 .. Len(Seed)}
           S == [i \in 1 .. Len(Seed) |-> e(i)]
<1>1. Len(Seed) \in Nat /\ DOMAIN Seed = 1 .. Len(Seed)
  BY SeedAssumption, LenProperties
<1>2. S \in [1 .. Len(Seed) -> V]
  OBVIOUS
<1>3. tab = <<Header>> \o S
  BY DEF Init
<1>4. \A i \in 1 .. Len(Seed) : S[i].id = Seed[i] /\ S[i].ver = 0
  OBVIOUS
<1>5. <<Header>> \in Seq(V) /\ Len(<<Header>>) = 1
  OBVIOUS
<1> HIDE DEF S, V
<1>6. S \in Seq(V) /\ Len(S) = Len(Seed)
  BY <1>1, <1>2, FunctionIsSeq
<1>7. /\ Len(<<Header>> \o S) = 1 + Len(S)
      /\ \A i \in 1 .. 1 + Len(S) :
           (<<Header>> \o S)[i] = IF i <= 1 THEN <<Header>>[i] ELSE S[i - 1]
  BY <1>5, <1>6, ConcatProperties
<1>8. \A n \in 2 .. Len(Seed) + 1 : n \in 1 .. 1 + Len(S) /\ ~(n <= 1) /\ n - 1 \in 1 .. Len(Seed)
  BY <1>1, <1>6
<1>9. Len(tab) = Len(Seed) + 1
  BY <1>1, <1>3, <1>6, <1>7
<1>10. \A n \in 2 .. Len(Seed) + 1 : tab[n] = S[n - 1]
  BY <1>3, <1>7, <1>8
<1>11. QED
  BY <1>1, <1>4, <1>8, <1>9, <1>10

LEMMA InitKeyed == Init => Keyed
<1> SUFFICES ASSUME Init PROVE Keyed
  OBVIOUS
<1>1. /\ Len(Seed) \in Nat /\ DOMAIN Seed = 1 .. Len(Seed) /\ Len(tab) = Len(Seed) + 1
      /\ \A n \in 2 .. Len(tab) : tab[n].id = Seed[n - 1]
  BY InitTab
<1>2. \A n \in 2 .. Len(tab) : n - 1 \in 1 .. Len(Seed)
  BY <1>1
<1>3. KeysUsed
  BY <1>1, <1>2 DEF Init, KeysUsed, OnTab
<1>4. KeysApart
  <2> SUFFICES ASSUME NEW m \in 2 .. Len(tab), NEW n \in 2 .. Len(tab), tab[m].id = tab[n].id
               PROVE  m = n
    BY DEF KeysApart
  <2>1. m - 1 = n - 1
    BY <1>1, <1>2, SeedAssumption
  <2>2. QED
    BY <2>1
<1>5. ArrivalsNew /\ ArrivalsApart
  BY IdlePc DEF Init, ArrivalsNew, ArrivalsApart, Arriving
<1>6. QED
  BY <1>3, <1>4, <1>5 DEF Keyed

\* A step that adds no row and starts no append.
LEMMA SameKeysKeyed ==
  ASSUME Keyed, Len(tab') = Len(tab), \A n \in 2 .. Len(tab) : tab'[n].id = tab[n].id,
         used' = used,
         \A d \in Clients : Arriving(d)' => Arriving(d) /\ call'[d].id = call[d].id
  PROVE  Keyed'
<1>1. \A k : OnTab(k)' => OnTab(k)
  BY DEF OnTab
<1>2. KeysUsed'
  BY <1>1 DEF Keyed, KeysUsed
<1>3. KeysApart'
  BY DEF Keyed, KeysApart
<1>4. ArrivalsNew'
  BY <1>1 DEF Keyed, ArrivalsNew
<1>5. ArrivalsApart'
  BY DEF Keyed, ArrivalsApart
<1>6. QED
  BY <1>2, <1>3, <1>4, <1>5 DEF Keyed

LEMMA CreateKeyed ==
  ASSUME Inv, Keyed, NEW c \in Clients, NEW k \in Keys, Create(c, k)
  PROVE  Keyed'
<1>1. /\ k \notin used /\ used' = used \union {k} /\ tab' = tab
      /\ call' = [call EXCEPT ![c] = [Idle EXCEPT
           !.pc = "appending", !.op = "create", !.id = k, !.ver = clock + 1]]
  BY DEF Create, Append1
<1>2. call'[c].id = k /\ \A d \in Clients : d # c => call'[d] = call[d]
  BY <1>1 DEF Inv, DataOK, Idle
<1>3. (\A j : OnTab(j)' <=> OnTab(j)) /\ ~OnTab(k)
  BY <1>1 DEF OnTab, Keyed, KeysUsed
<1>4. KeysUsed' /\ KeysApart'
  BY <1>1, <1>3 DEF Keyed, KeysUsed, KeysApart
<1>5. ArrivalsNew' /\ ArrivalsApart'
  BY <1>1, <1>2, <1>3 DEF Keyed, ArrivalsNew, ArrivalsApart, Arriving
<1>6. QED
  BY <1>4, <1>5 DEF Keyed

LEMMA RowCreateKeyed ==
  ASSUME Inv, Keyed, NEW c \in Clients, RowCreate(c)
  PROVE  Keyed'
<1>0. Arriving(c) /\ used' = used /\ call \in [Clients -> Call]
  BY DEF RowCreate, Arriving, Inv, DataOK
<1>1. ~Arriving(c)' /\ \A d \in Clients : d # c => call'[d] = call[d]
  <2>1. \/ \E r \in {"ok", "error"} : call' = [call EXCEPT ![c] = Return(r)]
        \/ call' = [call EXCEPT ![c].pc = "reloading"]
    BY DEF RowCreate, Finish
  <2>2. \A r \in {"ok", "error"} : Return(r).pc = "idle"
    BY ReturnCall
  <2>3. CASE call' = [call EXCEPT ![c].pc = "reloading"]
    BY <1>0, <2>3 DEF Arriving, Call
  <2>4. CASE \E r \in {"ok", "error"} : call' = [call EXCEPT ![c] = Return(r)]
    BY <1>0, <2>2, <2>4 DEF Arriving
  <2>5. QED
    BY <2>1, <2>3, <2>4
<1>2. /\ Len(tab) \in Nat /\ Len(tab') = Len(tab) + 1
      /\ tab'[Len(tab) + 1] = ValuesOf(call[c])
      /\ \A n \in 1 .. Len(tab) : tab'[n] = tab[n]
  BY InFlight, RowCreateTab
<1>3. \A n \in 2 .. Len(tab') : \/ n = Len(tab) + 1 /\ tab'[n].id = call[c].id
                                \/ n \in 2 .. Len(tab) /\ tab'[n].id = tab[n].id
  BY <1>2 DEF ValuesOf
<1>4. \A k : OnTab(k)' => OnTab(k) \/ k = call[c].id
  BY <1>3 DEF OnTab
<1>5. KeysUsed'
  BY <1>0, <1>4 DEF Keyed, KeysUsed, ArrivalsNew
<1>6. KeysApart'
  BY <1>0, <1>3 DEF Keyed, KeysApart, ArrivalsNew, OnTab
<1>7. ArrivalsNew' /\ ArrivalsApart'
  BY <1>0, <1>1, <1>4 DEF Keyed, ArrivalsNew, ArrivalsApart, Arriving
<1>8. QED
  BY <1>5, <1>6, <1>7 DEF Keyed

LEMMA NextKeyed == ASSUME Quiet, DrawnKeys PROVE Inv /\ Keyed /\ [Next]_vars => Keyed'
<1> SUFFICES ASSUME Inv, Keyed, [Next]_vars PROVE Keyed'
  OBVIOUS
<1>1. CASE UNCHANGED vars
  BY <1>1, SameKeysKeyed DEF vars, Arriving
<1>2. ASSUME NEW c \in Clients, QuietMove(c), ~RowCreate(c), \A k \in Keys : ~Create(c, k)
      PROVE  Keyed'
  <2>1. used' = used
    BY <1>2 DEF QuietMove, Update, CheckUpdate, PrepareUpdate, RegisterUser, Refresh, Check, RowUpdate, Reload,
                RequestFails, DrawnKeys
  <2>2. Len(tab') = Len(tab) /\ \A n \in 2 .. Len(tab) : tab'[n].id = tab[n].id
    <3>1. CASE RowUpdate(c)
      <4>1. /\ tab[call[c].row].id = call[c].id /\ Len(tab') = Len(tab) /\ Len(tab) \in Nat
            /\ \A n \in 1 .. Len(tab) :
                 tab'[n] = IF n = call[c].row THEN [id |-> call[c].id, ver |-> call[c].ver]
                                              ELSE tab[n]
        BY <3>1, InFlight, RowUpdateTab
      <4>2. \A n \in 1 .. Len(tab) : tab'[n].id = tab[n].id
        BY <4>1
      <4>3. QED
        BY <4>1, <4>2
    <3>2. QED
      BY <1>2, <3>1, OneMoves
  <2>3. ~Arriving(c)'
    <3>0. call \in [Clients -> Call]
      BY DEF Inv, DataOK
    <3>1. \A r \in {"ok", "error", "outdated"} : Return(r).pc = "idle"
      BY ReturnCall
    <3>2. CASE \E r \in {"ok", "error", "outdated"} : call' = [call EXCEPT ![c] = Return(r)]
      BY <3>0, <3>1, <3>2 DEF Arriving
    <3>3. CASE \E f \in Call : PrepareUpdate(c, f)
      <4>1. PICK f \in Call : call' = [call EXCEPT ![c] = [f EXCEPT !.pc = "putting", !.ver = clock + 1]]
        BY <3>3 DEF PrepareUpdate
      <4>2. clock + 1 \in Stamps
        BY <3>3, MaxClockAssumption DEF PrepareUpdate, Inv, DataOK, Stamps
      <4>3. [f EXCEPT !.pc = "putting", !.ver = clock + 1].pc = "putting"
        BY <4>2, StampedCall
      <4>4. QED
        BY <3>0, <4>1, <4>3 DEF Arriving
    <3>4. CASE \E f \in Call : call' = [call EXCEPT ![c] = [f EXCEPT !.pc = "checking"]]
      BY <3>0, <3>4 DEF Arriving, Call
    <3>5. CASE Refresh(c)
      BY <3>0, <3>5, ReloadingCall DEF Arriving, Refresh
    <3>6. ASSUME NEW i \in DOMAIN rows[c], NEW force \in BOOLEAN, Update(c, i, force)
          PROVE  \E f \in Call : \/ PrepareUpdate(c, f)
                                \/ call' = [call EXCEPT ![c] = [f EXCEPT !.pc = "checking"]]
      <4>1. Begin(c, "update", i, TRUE) \in Call /\ Begin(c, "update", i, FALSE) \in Call
        BY BeginUpdate
      <4>2. QED
        BY <3>6, <4>1 DEF Update, CheckUpdate
    <3>7. CASE Check(c)
      BY <3>0, <3>2, <3>3, <3>7, InFlight DEF Check, Finish, ClientShape
    <3>8. CASE RowUpdate(c) \/ Reload(c) \/ RequestFails(c)
      BY <3>2, <3>8 DEF RowUpdate, Reload, RequestFails, Finish
    <3>9. QED
      BY <1>2, <3>3, <3>4, <3>5, <3>6, <3>7, <3>8 DEF QuietMove, RegisterUser, DrawnKeys
  <2>4. \A d \in Clients : Arriving(d)' => Arriving(d) /\ call'[d].id = call[d].id
    BY <1>2, <2>3, OneMoves DEF Arriving
  <2>5. QED
    BY <2>1, <2>2, <2>4, SameKeysKeyed
<1>3. ASSUME Next PROVE Keyed'
  <2>1. PICK c \in Clients : QuietMove(c)
    BY <1>3, QuietNext
  <2>2. QED
    BY <1>2, <2>1, CreateKeyed, RowCreateKeyed
<1>4. QED
  BY <1>1, <1>3

LEMMA KeyedHolds == Spec /\ NoRewrites => [](Inv /\ Quiet /\ (DrawnKeys => Keyed))
<1>1. Init => (DrawnKeys => Keyed)
  BY InitKeyed
<1>2. (Inv /\ Quiet) /\ (DrawnKeys => Keyed) /\ [Next]_vars => (DrawnKeys => Keyed)'
  BY NextKeyed, Frozen DEF DrawnKeys, Ops
<1>3. QED
  BY <1>1, <1>2, InvHolds, PTL DEF Spec

\* However many clients create and update rows through caches however stale, the
\* tab keeps its header and never holds two rows of one key.
THEOREM TabIsKeyedHolds == Spec /\ NoRewrites => []TabIsKeyed
<1>1. Inv /\ Quiet /\ (DrawnKeys => Keyed) => TabIsKeyed
  <2> SUFFICES ASSUME Inv, Keyed PROVE KeysUnique /\ HeaderStays
    BY DEF TabIsKeyed
  <2>1. /\ tab \in Seq(TabRow) /\ Len(tab) \in Nat /\ Len(tab) >= 1 /\ DOMAIN tab = 1 .. Len(tab)
        /\ tab[1] = Header /\ used \subseteq Keys
    BY LenProperties DEF Inv, Shape, DataOK
  <2>2. \A n \in 2 .. Len(tab) : tab[n].id # tab[1].id
    <3>1. tab[1].id = "_id"
      BY <2>1 DEF Header
    <3>2. \A n \in 2 .. Len(tab) : tab[n].id \in Keys
      BY <2>1 DEF Keyed, KeysUsed, OnTab
    <3>3. QED
      BY <3>1, <3>2, KeysAssumption
  <2>3. \A n \in DOMAIN tab : n = 1 \/ n \in 2 .. Len(tab)
    BY <2>1
  <2>4. KeysUnique
    BY <2>2, <2>3 DEF Keyed, KeysApart, KeysUnique
  <2>5. HeaderStays
    BY <2>1, EmptySeq DEF HeaderStays
  <2>6. QED
    BY <2>4, <2>5
<1>2. QED
  BY <1>1, KeyedHolds, PTL

----------------------------------------------------------------------------
(* The tab is a table by key.                                              *)

\* The change a request in flight asks for.
Sent(f) ==
  IF f.pc = "putting" THEN [drop |-> {f.id}, put |-> {Entry(f)}]
  ELSE IF f.pc = "appending" THEN [drop |-> {}, put |-> {Entry(f)}]
  ELSE [drop |-> {}, put |-> {}]

\* Without rewrites the entries are those of the tab, and nothing else is asked.
LEMMA TableOfTab ==
  ASSUME Inv
  PROVE  /\ Entries = {Entry(tab[n]) : n \in 2 .. Len(tab)}
         /\ Asked = [c \in Clients |-> Sent(call[c])]
<1>1. \A c \in Clients : call[c].pc \in QuietLabels
  BY DEF Inv, Shape, ClientShape
<1>2. Contents = tab
  BY <1>1 DEF Contents, QuietLabels
<1>3. Entries = {Entry(tab[n]) : n \in 2 .. Len(tab)}
  BY <1>2 DEF Entries
<1>4. \A c \in Clients : Asked[c] = Sent(call[c])
  BY <1>1 DEF Asked, Sent, QuietLabels
<1>5. QED
  BY <1>3, <1>4 DEF Asked

LEMMA InitTable == Init => Table!Init
<1> SUFFICES ASSUME Init PROVE Table!Init
  OBVIOUS
<1>1. Inv
  BY InitInv
<1>2. /\ Len(Seed) \in Nat /\ DOMAIN Seed = 1 .. Len(Seed) /\ Len(tab) = Len(Seed) + 1
      /\ \A n \in 2 .. Len(tab) : tab[n].id = Seed[n - 1] /\ tab[n].ver = 0
  BY InitTab
<1>3. {Entry(tab[n]) : n \in 2 .. Len(tab)} = {<<Seed[i], 0>> : i \in DOMAIN Seed}
  <2>1. \A n \in 2 .. Len(tab) : n - 1 \in DOMAIN Seed /\ Entry(tab[n]) = <<Seed[n - 1], 0>>
    BY <1>2 DEF Entry
  <2>2. \A i \in DOMAIN Seed : i + 1 \in 2 .. Len(tab) /\ Entry(tab[i + 1]) = <<Seed[i], 0>>
    BY <1>2 DEF Entry
  <2>3. QED
    BY <2>1, <2>2
<1>4. \A c \in Clients : Sent(call[c]) = [drop |-> {}, put |-> {}]
  BY IdlePc DEF Init, Sent
<1>5. QED
  BY <1>1, <1>3, <1>4, TableOfTab DEF Table!Init, Table!Nothing

\* What the request of client c becomes decides which step of the table it is.
LEMMA TableStep ==
  ASSUME Inv, Inv', NEW c \in Clients, \A d \in Clients : d # c => call'[d] = call[d],
         \/ Entries' = Entries /\ Sent(call'[c]) = Sent(call[c])
         \/ Entries' = Entries /\ Sent(call[c]) = Table!Nothing /\ Sent(call'[c]) \in Table!Changes
         \/ Entries' = Entries /\ Sent(call'[c]) = Table!Nothing
         \/ Entries' = Table!Applied(Sent(call[c])) /\ Sent(call'[c]) = Table!Nothing
  PROVE  [Table!Next]_<<Entries, Asked>>
<1>1. Asked = [d \in Clients |-> Sent(call[d])]
  BY TableOfTab
<1>2. Asked' = [d \in Clients |-> Sent(call'[d])]
  <2>1. \A d \in Clients : call'[d].pc \in QuietLabels
    BY DEF Inv, Shape, ClientShape
  <2>2. \A d \in Clients : Asked'[d] = Sent(call'[d])
    BY <2>1 DEF Asked, Sent, QuietLabels
  <2>3. QED
    BY <2>2 DEF Asked
<1>3. Asked' = [Asked EXCEPT ![c] = Sent(call'[c])] /\ Asked[c] = Sent(call[c])
      /\ Asked'[c] = Sent(call'[c])
  BY <1>1, <1>2
<1>4. CASE Entries' = Entries /\ Sent(call'[c]) = Sent(call[c])
  BY <1>1, <1>3, <1>4
<1>5. CASE Entries' = Entries /\ Sent(call[c]) = Table!Nothing /\ Sent(call'[c]) \in Table!Changes
  BY <1>3, <1>5 DEF Table!Next, Table!Ask
<1>6. CASE Entries' = Entries /\ Sent(call'[c]) = Table!Nothing
  BY <1>3, <1>6 DEF Table!Next, Table!GiveUp
<1>7. CASE Entries' = Table!Applied(Sent(call[c])) /\ Sent(call'[c]) = Table!Nothing
  BY <1>3, <1>7 DEF Table!Next, Table!Carry
<1>8. QED
  BY <1>4, <1>5, <1>6, <1>7

LEMMA IdleSent == ASSUME NEW f, f.pc \notin {"putting", "appending"} PROVE Sent(f) = Table!Nothing
BY DEF Sent, Table!Nothing

LEMMA SentChange ==
  ASSUME NEW k \in Keys, NEW ver \in Stamps, NEW f, f.id = k, f.ver = ver,
         f.pc \in {"putting", "appending"}
  PROVE  Sent(f) \in Table!Changes
<1>1. Entry(f) \in Keys \X Stamps
  BY DEF Entry
<1>2. Sent(f) \in [drop : SUBSET Keys, put : SUBSET (Keys \X Stamps)]
  BY <1>1 DEF Sent
<1>3. Sent(f).put = {Entry(f)}
  BY DEF Sent
<1>4. QED
  BY <1>2, <1>3 DEF Table!Changes

LEMMA SameTab == ASSUME Inv, Inv', tab' = tab PROVE Entries' = Entries
<1>1. Entries' = {Entry(tab'[n]) : n \in 2 .. Len(tab')}
  <2>1. \A c \in Clients : call'[c].pc \in QuietLabels
    BY DEF Inv, Shape, ClientShape
  <2>2. Contents' = tab'
    BY <2>1 DEF Contents, QuietLabels
  <2>3. QED
    BY <2>2 DEF Entries
<1>2. QED
  BY <1>1, TableOfTab

LEMMA PrepareTable ==
  ASSUME Inv, Inv', Keyed, NEW c \in Clients, NEW f \in Call, PrepareUpdate(c, f), tab' = tab,
         Places(f), call[c].pc \in {"idle", "checking"}
  PROVE  [Table!Next]_<<Entries, Asked>>
<1> DEFINE g == [f EXCEPT !.pc = "putting", !.ver = clock + 1]
<1>1. clock + 1 \in Stamps
  BY MaxClockAssumption DEF PrepareUpdate, Inv, DataOK, Stamps
<1>2. g.pc = "putting" /\ g.id = f.id /\ g.ver = clock + 1
  BY <1>1, StampedCall
<1>3. call' = [call EXCEPT ![c] = g]
  BY DEF PrepareUpdate
<1> HIDE DEF g
<1>4. call'[c] = g /\ \A d \in Clients : d # c => call'[d] = call[d]
  BY <1>3 DEF Inv, DataOK
<1>5. f.id \in Keys
  BY DEF Places, Keyed, KeysUsed, OnTab, Inv, DataOK
<1>6. Sent(call'[c]) \in Table!Changes
  BY <1>1, <1>2, <1>4, <1>5, SentChange
<1>7. Sent(call[c]) = Table!Nothing
  BY IdleSent
<1>8. QED
  BY <1>4, <1>6, <1>7, SameTab, TableStep

LEMMA AppendTable ==
  ASSUME Inv, Inv', NEW c \in Clients, NEW op \in AllOps, NEW k \in Keys, Append1(c, op, k),
         call[c].pc = "idle"
  PROVE  [Table!Next]_<<Entries, Asked>>
<1> DEFINE g == [Idle EXCEPT !.pc = "appending", !.op = op, !.id = k, !.ver = clock + 1]
<1>1. clock + 1 \in Stamps
  BY MaxClockAssumption DEF Append1, Inv, DataOK, Stamps
<1>2. g.pc = "appending" /\ g.id = k /\ g.ver = clock + 1
  BY DEF Idle
<1>3. call' = [call EXCEPT ![c] = g] /\ tab' = tab
  BY DEF Append1
<1> HIDE DEF g
<1>4. call'[c] = g /\ \A d \in Clients : d # c => call'[d] = call[d]
  BY <1>3 DEF Inv, DataOK
<1>5. Sent(call'[c]) \in Table!Changes
  BY <1>1, <1>2, <1>4, SentChange
<1>6. Sent(call[c]) = Table!Nothing
  BY IdleSent
<1>7. QED
  BY <1>3, <1>4, <1>5, <1>6, SameTab, TableStep

LEMMA RowUpdateTable ==
  ASSUME Inv, Inv', Keyed, NEW c \in Clients, RowUpdate(c)
  PROVE  Entries' = Table!Applied(Sent(call[c]))
<1> DEFINE f == call[c]
           v == [id |-> f.id, ver |-> f.ver]
<1>1. f.pc = "putting"
  BY DEF RowUpdate
<1>2. /\ f.row \in 2 .. Len(tab) /\ tab[f.row].id = f.id /\ Len(tab) \in Nat
      /\ Len(tab') = Len(tab)
      /\ \A n \in 1 .. Len(tab) : tab'[n] = IF n = f.row THEN v ELSE tab[n]
  BY RowUpdateTab, InFlight
<1>3. Entry(v) = Entry(f) /\ Entry(f)[1] = f.id
  BY DEF Entry
<1> HIDE DEF f, v
<1>4. \A n \in 2 .. Len(tab) : n \in 1 .. Len(tab) /\ (n # f.row => tab[n].id # f.id)
                               /\ Entry(tab[n])[1] = tab[n].id
  BY <1>2 DEF Keyed, KeysApart, Entry
<1>5. Entries' = {Entry(tab'[n]) : n \in 2 .. Len(tab)}
  <2>1. \A d \in Clients : call'[d].pc \in QuietLabels
    BY DEF Inv, Shape, ClientShape
  <2>2. Contents' = tab'
    BY <2>1 DEF Contents, QuietLabels
  <2>3. QED
    BY <1>2, <2>2 DEF Entries
<1>6. Table!Applied(Sent(f)) = {e \in Entries : e[1] # f.id} \union {Entry(f)}
  BY <1>1 DEF Table!Applied, Sent, f
<1>7. \A n \in 2 .. Len(tab) : Entry(tab'[n]) = IF n = f.row THEN Entry(f) ELSE Entry(tab[n])
  BY <1>2, <1>3, <1>4
<1>8. \A e : e \in Entries <=> \E n \in 2 .. Len(tab) : e = Entry(tab[n])
  BY TableOfTab
<1>9. \A e : e \in Entries' <=> e = Entry(f) \/ (e \in Entries /\ e[1] # f.id)
  <2>1. ASSUME NEW e \in Entries' PROVE e = Entry(f) \/ (e \in Entries /\ e[1] # f.id)
    BY <1>4, <1>5, <1>7, <1>8, <2>1
  <2>2. Entry(f) \in Entries'
    BY <1>2, <1>5, <1>7
  <2>3. ASSUME NEW e \in Entries, e[1] # f.id PROVE e \in Entries'
    <3>1. PICK n \in 2 .. Len(tab) : e = Entry(tab[n])
      BY <1>8, <2>3
    <3>2. n # f.row
      BY <1>2, <1>4, <2>3, <3>1
    <3>3. QED
      BY <1>5, <1>7, <3>1, <3>2
  <2>4. QED
    BY <2>1, <2>2, <2>3
<1>10. QED
  BY <1>6, <1>9 DEF f

LEMMA RowCreateTable ==
  ASSUME Inv, Inv', NEW c \in Clients, RowCreate(c)
  PROVE  Entries' = Table!Applied(Sent(call[c]))
<1> DEFINE f == call[c]
<1>1. f.pc = "appending"
  BY DEF RowCreate
<1>2. /\ Len(tab) \in Nat /\ Len(tab) >= 1 /\ Len(tab') = Len(tab) + 1
      /\ tab'[Len(tab) + 1] = ValuesOf(f)
      /\ \A n \in 1 .. Len(tab) : tab'[n] = tab[n]
  BY RowCreateTab, InFlight
<1>3. Entry(ValuesOf(f)) = Entry(f)
  BY DEF Entry, ValuesOf
<1> HIDE DEF f
<1>4. Entries' = {Entry(tab'[n]) : n \in 2 .. Len(tab) + 1}
  <2>1. \A d \in Clients : call'[d].pc \in QuietLabels
    BY DEF Inv, Shape, ClientShape
  <2>2. Contents' = tab'
    BY <2>1 DEF Contents, QuietLabels
  <2>3. QED
    BY <1>2, <2>2 DEF Entries
<1>5. Table!Applied(Sent(f)) = Entries \union {Entry(f)}
  BY <1>1 DEF Table!Applied, Sent, f
<1>6. \A n \in 2 .. Len(tab) + 1 :
        \/ n = Len(tab) + 1 /\ Entry(tab'[n]) = Entry(f)
        \/ n \in 2 .. Len(tab) /\ Entry(tab'[n]) = Entry(tab[n])
  BY <1>2, <1>3
<1>7. Len(tab) + 1 \in 2 .. Len(tab) + 1 /\ 2 .. Len(tab) \subseteq 2 .. Len(tab) + 1
  BY <1>2
<1>8. \A e : e \in Entries <=> \E n \in 2 .. Len(tab) : e = Entry(tab[n])
  BY TableOfTab
<1>9. \A e : e \in Entries' <=> e = Entry(f) \/ e \in Entries
  <2>1. ASSUME NEW e \in Entries' PROVE e = Entry(f) \/ e \in Entries
    BY <1>4, <1>6, <1>8, <2>1
  <2>2. Entry(f) \in Entries'
    BY <1>2, <1>3, <1>4, <1>7
  <2>3. ASSUME NEW e \in Entries PROVE e \in Entries'
    <3>1. PICK n \in 2 .. Len(tab) : e = Entry(tab[n])
      BY <1>8, <2>3
    <3>2. n \in 1 .. Len(tab) /\ n \in 2 .. Len(tab) + 1
      BY <1>2
    <3>3. QED
      BY <1>2, <1>4, <3>1, <3>2
  <2>4. QED
    BY <2>1, <2>2, <2>3
<1>10. QED
  BY <1>5, <1>9 DEF f

LEMMA NextTable ==
  ASSUME Quiet, DrawnKeys, Inv, Inv', Keyed, [Next]_vars
  PROVE  [Table!Next]_<<Entries, Asked>>
<1>1. CASE UNCHANGED vars
  BY <1>1 DEF vars, Entries, Contents, Asked, Marked
<1>2. CASE Next
  <2>1. PICK c \in Clients : QuietMove(c)
    BY <1>2, QuietNext
  <2>2. call \in [Clients -> Call] /\ \A d \in Clients : d # c => call'[d] = call[d]
    BY <2>1, OneMoves DEF Inv, DataOK
  <2>3. \A r \in {"ok", "error", "outdated"} : Sent(Return(r)) = Table!Nothing
    BY ReturnCall, IdleSent
  <2>4. ASSUME NEW i \in DOMAIN rows[c], NEW force \in BOOLEAN, Update(c, i, force)
        PROVE  [Table!Next]_<<Entries, Asked>>
    <3>1. tab' = tab /\ call[c].pc = "idle"
      BY <2>4 DEF Update
    <3>2. CASE force
      <4> DEFINE f == Begin(c, "update", i, TRUE)
      <4>1. f \in Call /\ Places(f)
        BY BeginUpdate
      <4>2. PrepareUpdate(c, f)
        BY <2>4, <3>2 DEF Update
      <4> HIDE DEF f
      <4>3. QED
        BY <3>1, <4>1, <4>2, PrepareTable
    <3>3. CASE ~force
      <4> DEFINE f == Begin(c, "update", i, FALSE)
                 g == [f EXCEPT !.pc = "checking"]
      <4>1. f \in Call
        BY BeginUpdate
      <4>2. call' = [call EXCEPT ![c] = g]
        BY <2>4, <3>3 DEF Update, CheckUpdate
      <4> HIDE DEF f
      <4>3. g.pc = "checking"
        BY <4>1, SentCall DEF QuietLabels
      <4> HIDE DEF g
      <4>4. Sent(call'[c]) = Table!Nothing /\ Sent(call[c]) = Table!Nothing
        BY <2>2, <3>1, <4>2, <4>3, IdleSent
      <4>5. QED
        BY <2>2, <3>1, <4>4, SameTab, TableStep
    <3>4. QED
      BY <3>2, <3>3
  <2>5. CASE Check(c)
    <3>1. /\ call[c] \in Call /\ call[c].pc = "checking" /\ Places(call[c])
          /\ call[c].op = "update" /\ tab' = tab
      BY <2>5, InFlight DEF Check, ClientShape
    <3>2. CASE PrepareUpdate(c, call[c])
      BY <3>1, <3>2, PrepareTable
    <3>3. CASE Finish(c, "outdated")
      <4>1. Sent(call'[c]) = Table!Nothing
        BY <2>2, <2>3, <3>3 DEF Finish
      <4>2. QED
        BY <2>2, <3>1, <4>1, SameTab, TableStep
    <3>4. QED
      BY <2>5, <3>1, <3>2, <3>3 DEF Check
  <2>6. ASSUME NEW k \in Keys, Create(c, k) \/ RegisterUser(c, k)
        PROVE  [Table!Next]_<<Entries, Asked>>
    BY <2>6, AppendTable DEF Create, RegisterUser, DrawnKeys, AllOps
  <2>7. CASE Refresh(c)
    <3>1. call[c].pc = "idle" /\ call'[c].pc = "reloading" /\ tab' = tab
      BY <2>2, <2>7, ReloadingCall DEF Refresh
    <3>2. Sent(call[c]) = Table!Nothing /\ Sent(call'[c]) = Table!Nothing
      BY <3>1, IdleSent
    <3>3. QED
      BY <2>2, <3>1, <3>2, SameTab, TableStep
  <2>8. CASE RequestFails(c) \/ Reload(c)
    <3>1. Sent(call'[c]) = Table!Nothing /\ tab' = tab
      BY <2>2, <2>3, <2>8 DEF RequestFails, Reload, Finish
    <3>2. QED
      BY <2>2, <3>1, SameTab, TableStep
  <2>9. CASE RowUpdate(c)
    <3>1. Sent(call'[c]) = Table!Nothing
      BY <2>2, <2>3, <2>9 DEF RowUpdate, Finish
    <3>2. QED
      BY <2>2, <2>9, <3>1, RowUpdateTable, TableStep
  <2>10. CASE RowCreate(c)
    <3>1. Sent(call'[c]) = Table!Nothing
      <4>1. CASE \E r \in {"ok", "error"} : call' = [call EXCEPT ![c] = Return(r)]
        BY <2>2, <2>3, <4>1
      <4>2. CASE call' = [call EXCEPT ![c].pc = "reloading"]
        <5>1. call'[c].pc = "reloading"
          BY <2>2, <4>2 DEF Call
        <5>2. QED
          BY <5>1, IdleSent
      <4>3. QED
        BY <2>10, <4>1, <4>2 DEF RowCreate, Finish
    <3>2. QED
      BY <2>2, <2>10, <3>1, RowCreateTable, TableStep
  <2>11. QED
    BY <2>1, <2>4, <2>5, <2>6, <2>7, <2>8, <2>9, <2>10 DEF QuietMove
<1>3. QED
  BY <1>1, <1>2

\* The tab is the table by key the package promises: each call of any number of
\* clients, whatever requests fail, changes the entries of its own key at once or
\* not at all.
THEOREM ImplementsTableHolds == Spec /\ NoRewrites => ImplementsTable
<1>1. Init => Table!Init
  BY InitTable
<1>2. (Inv /\ Quiet /\ (DrawnKeys => Keyed)) /\ (Inv /\ Quiet /\ (DrawnKeys => Keyed))'
      /\ [Next]_vars => [DrawnKeys => [Table!Next]_<<Entries, Asked>>]_vars
  BY NextTable
<1>3. QED
  BY <1>1, <1>2, KeyedHolds, PTL DEF Spec, ImplementsTable

----------------------------------------------------------------------------
(* A client that has the tab to itself creates and deletes.  The deletion   *)
(* takes the tab apart: between its clear and its rewrite only the client   *)
(* knows the rows.  Lost answers, and the updates of cached rows, really do *)
(* leave the cache behind the sheet, so both are left out.                  *)

LoneUse == Undisturbed /\ "batch" \notin Ops

\* Values that make a tab: a header, and below it rows of distinct used keys.
Whole(values) ==
  /\ values \in Seq(TabRow)
  /\ Len(values) >= 1 /\ values[1] = Header
  /\ \A n \in 2 .. Len(values) : values[n].id \in used
  /\ \A m, n \in 2 .. Len(values) : values[m].id = values[n].id => m = n

\* The row a deletion is about is the row of its key.
Found(f) == f.row \in 2 .. Len(tab) /\ tab[f.row].id = f.id

LonePlace(c) ==
  /\ call[c].pc \in {"idle", "checking", "appending", "reloading", "reading",
                     "clearing", "rewriting"}
  /\ IF call[c].pc = "rewriting"
       THEN tab = <<>> /\ Whole(call[c].held)
       ELSE Whole(tab) /\ rows[c] = TypeRows(tab)
  /\ call[c].pc \in {"checking", "reading", "clearing"} =>
       call[c].op = "delete" /\ Found(call[c])
  /\ call[c].pc = "clearing" => call[c].held = SpliceOut(tab, call[c].row)
  /\ call[c].pc = "appending" => call[c].id \in used /\ ~OnTab(call[c].id)

\* c is that client; the others never call.
Lone(c) ==
  /\ DataOK /\ LonePlace(c)
  /\ \A d \in Clients : d # c => call[d].pc = "idle"

\* What values.splice leaves: the rows before n, and those after it one row up.
LEMMA SpliceOutRows ==
  ASSUME NEW values \in Seq(TabRow), NEW n \in 2 .. Len(values)
  PROVE  LET s == SpliceOut(values, n) IN
         /\ s \in Seq(TabRow)
         /\ Len(s) = Len(values) - 1
         /\ \A i \in 1 .. Len(values) - 1 : s[i] = IF i < n THEN values[i] ELSE values[i + 1]
<1> DEFINE a == SubSeq(values, 1, n - 1)
           b == SubSeq(values, n + 1, Len(values))
<1>1. Len(values) \in Nat /\ DOMAIN values = 1 .. Len(values)
  BY LenProperties
<1>2. SpliceOut(values, n) = a \o b
  BY <1>1 DEF SpliceOut, RemoveAt
<1>3. \A i \in 1 .. Len(values) : values[i] \in TabRow
  BY ElementOfSeq
<1>4. a \in Seq(TabRow) /\ Len(a) = n - 1 /\ \A i \in 1 .. n - 1 : a[i] = values[i]
  <2>1. 1 \in Int /\ n - 1 \in Int /\ 1 <= n - 1 /\ \A i \in 1 .. n - 1 : values[i] \in TabRow
    BY <1>1, <1>3
  <2>2. /\ a \in Seq(TabRow) /\ Len(a) = IF 1 <= n - 1 THEN (n - 1) - 1 + 1 ELSE 0
        /\ \A i \in 1 .. (n - 1) - 1 + 1 : a[i] = values[1 + i - 1]
    BY <2>1, SubSeqProperties
  <2>3. (n - 1) - 1 + 1 = n - 1 /\ \A i \in 1 .. n - 1 : 1 + i - 1 = i
    OBVIOUS
  <2>4. QED
    BY <2>1, <2>2, <2>3
<1>5. /\ b \in Seq(TabRow) /\ Len(b) = Len(values) - n
      /\ \A i \in 1 .. Len(values) - n : b[i] = values[n + i]
  <2>1. /\ n + 1 \in Int /\ Len(values) \in Int
        /\ \A i \in n + 1 .. Len(values) : values[i] \in TabRow
    BY <1>1, <1>3
  <2>2. /\ b \in Seq(TabRow)
        /\ Len(b) = IF n + 1 <= Len(values) THEN Len(values) - (n + 1) + 1 ELSE 0
        /\ \A i \in 1 .. Len(values) - (n + 1) + 1 : b[i] = values[(n + 1) + i - 1]
    BY <2>1, SubSeqProperties
  <2>3. Len(values) - (n + 1) + 1 = Len(values) - n /\ \A i \in Int : (n + 1) + i - 1 = n + i
    BY <1>1
  <2> HIDE DEF b
  <2>4. Len(b) = Len(values) - n
    <3>1. CASE n + 1 <= Len(values)
      BY <2>2, <2>3, <3>1
    <3>2. CASE ~(n + 1 <= Len(values))
      BY <1>1, <2>2, <3>2
    <3>3. QED
      BY <3>1, <3>2
  <2>5. ASSUME NEW i \in 1 .. Len(values) - n PROVE b[i] = values[n + i]
    <3>1. i \in Int /\ i \in 1 .. Len(values) - (n + 1) + 1
      BY <2>3
    <3>2. b[i] = values[(n + 1) + i - 1]
      BY <2>2, <3>1
    <3>3. QED
      BY <2>3, <3>1, <3>2
  <2>6. QED
    BY <2>2, <2>4, <2>5
<1> HIDE DEF a, b
<1>6. /\ a \o b \in Seq(TabRow) /\ Len(a \o b) = Len(a) + Len(b)
      /\ \A i \in 1 .. Len(a) + Len(b) :
           (a \o b)[i] = IF i <= Len(a) THEN a[i] ELSE b[i - Len(a)]
  BY <1>4, <1>5, ConcatProperties
<1>7. Len(a) + Len(b) = Len(values) - 1
  BY <1>1, <1>4, <1>5
<1>8. ASSUME NEW i \in 1 .. Len(values) - 1
      PROVE  (a \o b)[i] = IF i < n THEN values[i] ELSE values[i + 1]
  <2>1. CASE i < n
    BY <1>1, <1>4, <1>6, <1>7, <2>1
  <2>2. CASE ~(i < n)
    <3>1. i - (n - 1) \in 1 .. Len(values) - n /\ n + (i - (n - 1)) = i + 1 /\ ~(i <= n - 1)
      BY <1>1, <2>2
    <3>2. b[i - (n - 1)] = values[i + 1]
      BY <1>5, <3>1
    <3>3. QED
      BY <1>4, <1>6, <1>7, <2>2, <3>1, <3>2
  <2>3. QED
    BY <2>1, <2>2
<1>9. QED
  BY <1>2, <1>6, <1>7, <1>8

\* A row taken out leaves values that make a tab.
LEMMA SpliceOutWhole ==
  ASSUME NEW values, Whole(values), NEW n \in 2 .. Len(values)
  PROVE  Whole(SpliceOut(values, n))
<1> DEFINE s == SpliceOut(values, n)
           old(i) == IF i < n THEN i ELSE i + 1
<1>1. values \in Seq(TabRow) /\ Len(values) \in Nat
  BY LenProperties DEF Whole
<1>2. /\ s \in Seq(TabRow) /\ Len(s) = Len(values) - 1
      /\ \A i \in 1 .. Len(s) : s[i] = IF i < n THEN values[i] ELSE values[i + 1]
  BY <1>1, SpliceOutRows
<1> HIDE DEF s
<1>3. Len(s) >= 1 /\ s[1] = Header
  <2>1. 1 \in 1 .. Len(s) /\ 1 < n
    BY <1>1, <1>2
  <2>2. s[1] = values[1]
    BY <1>2, <2>1
  <2>3. QED
    BY <2>1, <2>2, <1>2, <1>1 DEF Whole
<1>4. \A i \in 2 .. Len(s) : old(i) \in 2 .. Len(values) /\ s[i] = values[old(i)]
  <2> SUFFICES ASSUME NEW i \in 2 .. Len(s) PROVE old(i) \in 2 .. Len(values) /\ s[i] = values[old(i)]
    OBVIOUS
  <2>1. i \in 1 .. Len(s)
    OBVIOUS
  <2>2. old(i) \in 2 .. Len(values)
    BY <1>1, <1>2
  <2>3. QED
    BY <1>2, <2>1, <2>2
<1>5. \A i, j \in 2 .. Len(s) : old(i) = old(j) => i = j
  BY <1>1, <1>2
<1> HIDE DEF old
<1>6. \A i, j \in 2 .. Len(s) : s[i].id = s[j].id => i = j
  BY <1>4, <1>5 DEF Whole
<1>7. \A i \in 2 .. Len(s) : s[i].id \in used
  BY <1>4 DEF Whole
<1>8. QED
  BY <1>2, <1>3, <1>6, <1>7 DEF Whole, s

\* No row of such values is blank.
LEMMA WholeNotBlank ==
  ASSUME used \subseteq Keys, NEW values, Whole(values), NEW n \in 1 .. Len(values)
  PROVE  values[n] # Blank
<1>1. CASE n = 1
  <2>1. values[n].id = "_id" /\ Blank.id = ""
    BY <1>1 DEF Whole, Header, Blank
  <2>2. QED
    BY <2>1
<1>2. CASE n # 1
  <2>1. n \in 2 .. Len(values)
    BY <1>2
  <2>2. values[n].id \in Keys
    BY <2>1 DEF Whole
  <2>3. Blank.id = "" /\ "" \notin Keys
    BY KeysAssumption DEF Blank
  <2>4. QED
    BY <2>2, <2>3
<1>3. QED
  BY <1>1, <1>2

\* The largest element of a set of integers.
LEMMA MaxIs ==
  ASSUME NEW S \in SUBSET Int, NEW n \in S, \A y \in S : n >= y
  PROVE  Max(S) = n
<1>1. ASSUME NEW x \in S, \A y \in S : x >= y PROVE x = n
  <2>1. x >= n /\ n >= x /\ x \in Int /\ n \in Int
    BY <1>1
  <2>2. QED
    BY <2>1
<1>2. QED
  BY <1>1 DEF Max

\* Writing values back to the cleared tab restores them.
LEMMA OverwriteCleared ==
  ASSUME used \subseteq Keys, NEW values, Whole(values)
  PROVE  Overwrite(<<>>, values) = values
<1> DEFINE n == Len(values)
           W == [i \in 1 .. n |-> values[i]]
<1>1. values \in Seq(TabRow) /\ n \in Nat /\ n >= 1 /\ DOMAIN values = 1 .. n
  BY LenProperties DEF Whole
<1>2. Len(<<>>) = 0
  BY EmptySeq
<1>3. Max({0, n}) = n
  <2>1. {0, n} \in SUBSET Int /\ n \in {0, n} /\ \A y \in {0, n} : n >= y
    BY <1>1
  <2> HIDE DEF n
  <2>2. QED
    BY <2>1, MaxIs
<1>4. W = values
  BY <1>1, SeqDef
<1>5. [i \in 1 .. Max({Len(<<>>), Len(values)}) |->
         IF i <= Len(values) THEN values[i] ELSE <<>>[i]] = values
  <2>1. [i \in 1 .. Max({Len(<<>>), Len(values)}) |->
         IF i <= Len(values) THEN values[i] ELSE <<>>[i]]
        = [i \in 1 .. n |-> IF i <= n THEN values[i] ELSE <<>>[i]]
    BY <1>2, <1>3
  <2>2. [i \in 1 .. n |-> IF i <= n THEN values[i] ELSE <<>>[i]] = W
    BY <1>1
  <2>3. QED
    BY <1>4, <2>1, <2>2
<1>6. Trimmed(values) = values
  <2> DEFINE D == {i \in DOMAIN values : values[i] # Blank} \union {0}
  <2>1. D = 0 .. n
    BY <1>1, WholeNotBlank
  <2>2. Max(0 .. n) = n
    <3>1. 0 .. n \in SUBSET Int /\ n \in 0 .. n /\ \A y \in 0 .. n : n >= y
      BY <1>1
    <3> HIDE DEF n
    <3>2. QED
      BY <3>1, MaxIs
  <2>3. Trimmed(values) = SubSeq(values, 1, n)
    BY <2>1, <2>2 DEF Trimmed
  <2>4. QED
    BY <1>1, <2>3, SubSeqFull
<1>7. QED
  BY <1>5, <1>6 DEF Overwrite

\* What the cache of a lone client says, and what it is without a rewrite.
LEMMA LoneRows ==
  ASSUME NEW c \in Clients, DataOK, Whole(tab), rows[c] = TypeRows(tab)
  PROVE  /\ Len(tab) \in Nat /\ Len(tab) >= 1 /\ DOMAIN tab = 1 .. Len(tab) /\ tab # <<>>
         /\ Len(rows[c]) = Len(tab) - 1
         /\ DOMAIN rows[c] = 1 .. Len(tab) - 1
         /\ \A i \in 1 .. Len(tab) - 1 :
              /\ rows[c][i] \in RowModel
              /\ rows[c][i].row = i + 1 /\ rows[c][i].id = tab[i + 1].id
              /\ rows[c][i].ver = tab[i + 1].ver
<1>1. tab \in Seq(TabRow) /\ Len(tab) >= 1 /\ Len(tab) \in Nat /\ DOMAIN tab = 1 .. Len(tab)
  BY LenProperties DEF Whole
<1>2. tab # <<>>
  BY <1>1, EmptySeq
<1>3. /\ rows[c] \in Seq(RowModel) /\ Len(rows[c]) = Len(tab) - 1
      /\ \A i \in 1 .. Len(tab) - 1 :
           rows[c][i] = [row |-> i + 1, id |-> tab[i + 1].id,
                         ver |-> tab[i + 1].ver, act |-> "none"]
  BY <1>1, TypeRowsRows
<1>4. DOMAIN rows[c] = 1 .. Len(tab) - 1
  BY <1>3, LenProperties
<1>5. \A i \in 1 .. Len(tab) - 1 : rows[c][i] \in RowModel
  BY <1>3, ElementOfSeq
<1>6. ASSUME NEW i \in 1 .. Len(tab) - 1
      PROVE  /\ rows[c][i].row = i + 1 /\ rows[c][i].id = tab[i + 1].id
             /\ rows[c][i].ver = tab[i + 1].ver
  <2>1. rows[c][i] = [row |-> i + 1, id |-> tab[i + 1].id,
                      ver |-> tab[i + 1].ver, act |-> "none"]
    BY <1>3
  <2>2. QED
    BY <2>1
<1>7. QED
  BY <1>1, <1>2, <1>3, <1>4, <1>5, <1>6

\* A call of one client leaves those of the others alone.
LEMMA LoneOthers ==
  ASSUME NEW c \in Clients, Lone(c), NEW g, call' = [call EXCEPT ![c] = g]
  PROVE  \A d \in Clients : d # c => call'[d].pc = "idle"
BY DEF Lone, DataOK

\* A step that leaves the tab and the cache, and a call that is not rewriting.
LEMMA LoneStays ==
  ASSUME NEW c \in Clients, Lone(c), call[c].pc # "rewriting",
         tab' = tab, rows' = rows, clock' \in Stamps, used' \in SUBSET Keys,
         used \subseteq used',
         NEW g \in Call, call' = [call EXCEPT ![c] = g],
         g.pc \in {"idle", "checking", "appending", "reloading", "reading", "clearing"},
         g.pc \in {"checking", "reading", "clearing"} => g.op = "delete" /\ Found(g),
         g.pc = "clearing" => g.held = SpliceOut(tab, g.row),
         g.pc = "appending" => g.id \in used' /\ ~OnTab(g.id)
  PROVE  Lone(c)'
<1>1. call' \in [Clients -> Call] /\ call'[c] = g
  BY DEF Lone, DataOK
<1>2. DataOK'
  BY <1>1 DEF Lone, DataOK
<1>3. Whole(tab)' /\ rows'[c] = TypeRows(tab)'
  BY DEF Lone, LonePlace, Whole, TypeRows
<1>4. Found(g)' = Found(g) /\ OnTab(g.id)' = OnTab(g.id)
  BY DEF Found, OnTab
<1>5. LonePlace(c)'
  BY <1>1, <1>3, <1>4 DEF LonePlace, Found
<1>6. QED
  BY <1>2, <1>5, LoneOthers DEF Lone

\* The calls a request leads to.
LEMMA RelabelledCall ==
  ASSUME NEW f \in Call,
         NEW pc \in {"checking", "reloading", "reading", "clearing", "rewriting"}
  PROVE  LET g == [f EXCEPT !.pc = pc] IN
         /\ g \in Call
         /\ g.pc = pc /\ g.op = f.op /\ g.row = f.row /\ g.id = f.id /\ g.held = f.held
BY DEF Call

LEMMA LoneDelete ==
  ASSUME NEW c \in Clients, Lone(c), NEW i \in DOMAIN rows[c], NEW force \in BOOLEAN,
         Delete(c, i, force)
  PROVE  Lone(c)'
<1> DEFINE f == Begin(c, "delete", i, force)
           label == IF force THEN "reading" ELSE "checking"
           g == [f EXCEPT !.pc = label]
<1>1. call[c].pc = "idle" /\ call' = [call EXCEPT ![c] = g] /\ UNCHANGED <<tab, rows, clock, used>>
  BY DEF Delete
<1>2. DataOK /\ c \in Clients /\ Whole(tab) /\ rows[c] = TypeRows(tab)
  BY <1>1 DEF Lone, LonePlace
<1>3. /\ i \in 1 .. Len(tab) - 1 /\ Len(tab) \in Nat /\ rows[c][i] \in RowModel
      /\ rows[c][i].row = i + 1 /\ rows[c][i].id = tab[i + 1].id
  BY <1>2, LoneRows
<1>4. f \in Call /\ f.op = "delete" /\ f.row = i + 1 /\ f.id = tab[i + 1].id
  <2>1. "delete" \in AllOps /\ i \in Nat
    BY <1>3 DEF AllOps
  <2>2. QED
    BY <1>2, <1>3, <2>1, BeginCall
<1> HIDE DEF f
<1>5. /\ label \in {"checking", "reading"}
      /\ label \in {"checking", "reloading", "reading", "clearing", "rewriting"}
  OBVIOUS
<1> HIDE DEF label
<1>6. /\ g \in Call /\ g.pc = label /\ g.op = "delete" /\ g.row = i + 1
      /\ g.id = tab[i + 1].id
  BY <1>4, <1>5, RelabelledCall
<1> HIDE DEF g
<1>7. Found(g)
  BY <1>3, <1>6 DEF Found
<1>8. clock' \in Stamps /\ used' \in SUBSET Keys /\ used \subseteq used'
  BY <1>1, <1>2 DEF DataOK
<1>9. QED
  BY <1>1, <1>5, <1>6, <1>7, <1>8, LoneStays

LEMMA LoneAppend ==
  ASSUME NEW c \in Clients, Lone(c), NEW k \in Keys, NEW op \in AllOps,
         Append1(c, op, k), call[c].pc = "idle", ~OnTab(k)
  PROVE  Lone(c)'
<1> DEFINE g == [Idle EXCEPT !.pc = "appending", !.op = op, !.id = k, !.ver = clock + 1]
<1>1. /\ clock < MaxClock /\ clock' = clock + 1 /\ used' = used \union {k}
      /\ call' = [call EXCEPT ![c] = g] /\ tab' = tab /\ rows' = rows
  BY DEF Append1
<1>2. clock + 1 \in Stamps /\ used' \in SUBSET Keys /\ used \subseteq used'
  BY <1>1, MaxClockAssumption DEF Lone, DataOK, Stamps
<1>3. g \in Call
  <2>1. 0 \in Stamps /\ <<>> \in Seq(TabRow)
    BY MaxClockAssumption, EmptySeq DEF Stamps
  <2>2. QED
    BY <1>2, <2>1 DEF Idle, Call
<1>4. g.pc = "appending" /\ g.id = k
  BY DEF Idle
<1> HIDE DEF g
<1>5. QED
  BY <1>1, <1>2, <1>3, <1>4, LoneStays

LEMMA LoneCreate ==
  ASSUME NEW c \in Clients, Lone(c), NEW k \in Keys, Create(c, k)
  PROVE  ~OnTab(k)
BY DEF Create, Lone, LonePlace, Whole, OnTab

LEMMA LoneCheck ==
  ASSUME NEW c \in Clients, Lone(c), Check(c)
  PROVE  Lone(c)'
<1>1. call[c].pc = "checking" /\ c \in Clients /\ DataOK
  BY DEF Check, Lone
<1>2. call[c].op = "delete" /\ Found(call[c]) /\ call[c] \in Call
  BY <1>1 DEF Lone, LonePlace, DataOK
<1>3. /\ tab' = tab /\ rows' = rows /\ clock' = clock /\ used' = used
      /\ \/ call' = [call EXCEPT ![c] = Return("outdated")]
         \/ call' = [call EXCEPT ![c].pc = "reading"]
  BY <1>2 DEF Check, Finish
<1>4. clock' \in Stamps /\ used' \in SUBSET Keys /\ used \subseteq used'
  BY <1>1, <1>3 DEF DataOK
<1>5. CASE call' = [call EXCEPT ![c] = Return("outdated")]
  <2>1. Return("outdated") \in Call /\ Return("outdated").pc = "idle"
    BY ReturnCall
  <2>2. QED
    BY <1>1, <1>3, <1>4, <1>5, <2>1, LoneStays
<1>6. CASE call' = [call EXCEPT ![c].pc = "reading"]
  <2> DEFINE g == [call[c] EXCEPT !.pc = "reading"]
  <2>1. call' = [call EXCEPT ![c] = g]
    BY <1>6
  <2>2. g \in Call /\ g.pc = "reading" /\ g.op = "delete" /\ g.row = call[c].row /\ g.id = call[c].id
    BY <1>2, RelabelledCall
  <2> HIDE DEF g
  <2>3. Found(g)
    BY <1>2, <2>2 DEF Found
  <2>4. QED
    BY <1>1, <1>3, <1>4, <2>1, <2>2, <2>3, LoneStays
<1>7. QED
  BY <1>3, <1>5, <1>6

LEMMA LoneRefresh ==
  ASSUME NEW c \in Clients, Lone(c), Refresh(c)
  PROVE  Lone(c)'
<1> DEFINE g == [Idle EXCEPT !.pc = "reloading", !.op = "refresh"]
<1>1. call[c].pc = "idle" /\ call' = [call EXCEPT ![c] = g] /\ UNCHANGED <<tab, rows, clock, used>>
  BY DEF Refresh
<1>2. g \in Call /\ g.pc = "reloading"
  BY ReloadingCall
<1> HIDE DEF g
<1>3. clock' \in Stamps /\ used' \in SUBSET Keys /\ used \subseteq used'
  BY <1>1 DEF Lone, DataOK
<1>4. QED
  BY <1>1, <1>2, <1>3, LoneStays

LEMMA LoneReload ==
  ASSUME NEW c \in Clients, Lone(c), Reload(c)
  PROVE  Lone(c)'
<1>1. call[c].pc = "reloading" /\ c \in Clients /\ DataOK
  BY DEF Reload, Lone
<1>2. Whole(tab) /\ rows[c] = TypeRows(tab)
  BY <1>1 DEF Lone, LonePlace
<1>3. tab # <<>>
  BY <1>1, <1>2, LoneRows
<1>4. /\ call' = [call EXCEPT ![c] = Return("ok")] /\ UNCHANGED <<tab, clock, used>>
      /\ rows' = [rows EXCEPT ![c] = TypeRows(tab)]
  BY <1>3 DEF Reload, Finish
<1>5. rows' = rows
  BY <1>1, <1>2, <1>4 DEF DataOK
<1>6. Return("ok") \in Call /\ Return("ok").pc = "idle"
  BY ReturnCall
<1>7. clock' \in Stamps /\ used' \in SUBSET Keys /\ used \subseteq used'
  BY <1>1, <1>4 DEF DataOK
<1>8. QED
  BY <1>1, <1>4, <1>5, <1>6, <1>7, LoneStays

LEMMA LoneRowDelete ==
  ASSUME NEW c \in Clients, Lone(c), RowDelete(c)
  PROVE  Lone(c)'
<1> DEFINE f == [call[c] EXCEPT !.pc = "clearing"]
           h == SpliceOut(tab, call[c].row)
           g == [f EXCEPT !.held = h]
<1>1. call[c].pc = "reading" /\ c \in Clients /\ DataOK
  BY DEF RowDelete, Lone
<1>2. /\ Whole(tab) /\ rows[c] = TypeRows(tab)
      /\ call[c].op = "delete" /\ Found(call[c]) /\ call[c] \in Call
  BY <1>1 DEF Lone, LonePlace, DataOK
<1>3. tab # <<>> /\ Len(tab) \in Nat
  BY <1>1, <1>2, LoneRows
<1>4. ~(tab = <<>> \/ call[c].row > Len(tab) + 1)
  BY <1>2, <1>3 DEF Found
<1>5. /\ call' = [call EXCEPT ![c].pc = "clearing", ![c].held = SpliceOut(tab, call[c].row)]
      /\ UNCHANGED <<tab, rows, clock, used>>
  BY <1>4 DEF RowDelete
<1>6. call' = [call EXCEPT ![c] = g]
  BY <1>1, <1>5 DEF DataOK
<1>7. h \in Seq(TabRow)
  BY <1>2, SpliceOutRows DEF Found, Whole
<1>8. /\ g \in Call /\ g.pc = "clearing" /\ g.op = "delete" /\ g.row = call[c].row
      /\ g.id = call[c].id /\ g.held = h
  <2>1. f \in Call /\ f.pc = "clearing" /\ f.op = "delete" /\ f.row = call[c].row /\ f.id = call[c].id
    BY <1>2, RelabelledCall
  <2> HIDE DEF f, h
  <2>2. QED
    BY <1>7, <2>1 DEF Call
<1> HIDE DEF g
<1>9. Found(g) /\ g.held = SpliceOut(tab, g.row)
  BY <1>2, <1>8 DEF Found
<1>10. clock' \in Stamps /\ used' \in SUBSET Keys /\ used \subseteq used'
  BY <1>1, <1>5 DEF DataOK
<1>11. QED
  BY <1>1, <1>5, <1>6, <1>8, <1>9, <1>10, LoneStays

\* Reading the tab with one more row is reading the tab, and one more row.
LEMMA TypeRowsAppend ==
  ASSUME NEW v \in TabRow, NEW old \in Seq(TabRow), NEW new \in Seq(TabRow),
         Len(old) >= 1, Len(new) = Len(old) + 1, new[Len(old) + 1] = v,
         \A i \in 1 .. Len(old) : new[i] = old[i]
  PROVE  TypeRows(new)
         = Append(TypeRows(old), [row |-> Len(old) + 1, id |-> v.id, ver |-> v.ver, act |-> "none"])
<1> DEFINE r == [row |-> Len(old) + 1, id |-> v.id, ver |-> v.ver, act |-> "none"]
           s == TypeRows(old)
           t == TypeRows(new)
           e(w, i) == [row |-> i + 1, id |-> w[i + 1].id, ver |-> w[i + 1].ver, act |-> "none"]
<1>1. Len(old) \in Nat /\ Len(new) \in Nat
  BY LenProperties
<1>2. s \in Seq(RowModel) /\ Len(s) = Len(old) - 1 /\ \A i \in 1 .. Len(old) - 1 : s[i] = e(old, i)
  BY TypeRowsRows
<1>3. t \in Seq(RowModel) /\ Len(t) = Len(new) - 1 /\ \A i \in 1 .. Len(new) - 1 : t[i] = e(new, i)
  BY <1>1, TypeRowsRows
<1>4. r \in RowModel
  BY <1>1, RowFields, ModelType
<1>5. t[Len(old)] = r
  <2>1. Len(old) \in 1 .. Len(new) - 1
    BY <1>1
  <2>2. QED
    BY <1>3, <2>1
<1>6. ASSUME NEW i \in 1 .. Len(old) - 1 PROVE t[i] = s[i]
  <2>1. i \in 1 .. Len(new) - 1 /\ i + 1 \in 1 .. Len(old)
    BY <1>1
  <2>2. e(new, i) = e(old, i)
    BY <2>1
  <2> HIDE DEF e
  <2>3. QED
    BY <1>2, <1>3, <2>1, <2>2
<1> HIDE DEF r, s, t
<1>7. /\ Append(s, r) \in Seq(RowModel) /\ Len(Append(s, r)) = Len(s) + 1
      /\ \A i \in 1 .. Len(s) : Append(s, r)[i] = s[i]
      /\ Append(s, r)[Len(s) + 1] = r
  BY <1>2, <1>4, AppendProperties
<1>8. Len(t) = Len(Append(s, r))
  BY <1>1, <1>2, <1>3, <1>7
<1>9. ASSUME NEW i \in 1 .. Len(t) PROVE t[i] = Append(s, r)[i]
  <2>1. CASE i = Len(old)
    BY <1>1, <1>2, <1>5, <1>7, <2>1
  <2>2. CASE i # Len(old)
    <3>1. i \in 1 .. Len(old) - 1
      BY <1>1, <1>3, <2>2
    <3>2. QED
      BY <1>2, <1>6, <1>7, <3>1
  <2>3. QED
    BY <2>1, <2>2
<1>10. t = Append(s, r)
  BY <1>3, <1>7, <1>8, <1>9, SeqEqual
<1>11. QED
  BY <1>10 DEF r, s, t

\* rowCreate by a lone client: one more row, on the tab and in the cache.
LEMMA LoneRowCreateTab ==
  ASSUME ~Faults, NEW c \in Clients, Lone(c), RowCreate(c)
  PROVE  /\ Whole(tab) /\ Len(tab) \in Nat /\ Len(tab) >= 1 /\ call[c] \in Call
         /\ tab' \in Seq(TabRow) /\ Len(tab') = Len(tab) + 1
         /\ tab'[Len(tab) + 1] = ValuesOf(call[c])
         /\ \A n \in 1 .. Len(tab) : tab'[n] = tab[n]
         /\ rows' = [rows EXCEPT ![c] = TypeRows(tab')]
         /\ TypeRows(tab') \in Seq(RowModel)
         /\ call' = [call EXCEPT ![c] = Return("ok")]
<1> DEFINE v == ValuesOf(call[c])
           m == Len(tab) + 1
<1>1. call[c].pc = "appending" /\ c \in Clients /\ DataOK /\ call[c] \in Call
  BY DEF RowCreate, Lone, DataOK
<1>2. Whole(tab) /\ rows[c] = TypeRows(tab)
  BY <1>1 DEF Lone, LonePlace
<1>3. Len(tab) \in Nat /\ Len(tab) >= 1 /\ Len(rows[c]) = Len(tab) - 1 /\ tab \in Seq(TabRow)
  BY <1>1, <1>2, LoneRows DEF Whole
<1>4. NextRow(c) = m /\ AppendPlaces(c) = {m}
  BY <1>3 DEF NextRow, AppendPlaces
<1>5. Answered = {TRUE}
  BY DEF Answered
<1>6. v \in TabRow
  BY <1>1 DEF ValuesOf, Call, TabRow
<1>7. /\ tab' = Put(tab, m, v)
      /\ rows' = [rows EXCEPT ![c] = Append(@, NewRow(call[c], m))]
      /\ call' = [call EXCEPT ![c] = Return("ok")]
  BY <1>4, <1>5 DEF RowCreate, Finish
<1>8. /\ Put(tab, m, v) \in Seq(TabRow) /\ Len(Put(tab, m, v)) = m
      /\ Put(tab, m, v)[m] = v
      /\ \A i \in 1 .. Len(tab) : Put(tab, m, v)[i] = tab[i]
  BY <1>3, <1>6, PutBelow
<1>9. NewRow(call[c], m) = [row |-> m, id |-> v.id, ver |-> v.ver, act |-> "none"]
  BY DEF NewRow, ValuesOf
<1>10. Append(TypeRows(tab), NewRow(call[c], m)) = TypeRows(tab')
  <2> HIDE DEF v
  <2>1. /\ tab' \in Seq(TabRow) /\ Len(tab') = Len(tab) + 1 /\ tab'[Len(tab) + 1] = v
        /\ \A i \in 1 .. Len(tab) : tab'[i] = tab[i]
    BY <1>7, <1>8
  <2> HIDE DEF m
  <2>2. QED
    BY <1>3, <1>6, <1>9, <2>1, TypeRowsAppend DEF m
<1>11. rows' = [rows EXCEPT ![c] = TypeRows(tab')]
  BY <1>2, <1>7, <1>10
<1>12. TypeRows(tab') \in Seq(RowModel)
  <2>1. tab' \in Seq(TabRow) /\ Len(tab') >= 1
    BY <1>3, <1>7, <1>8
  <2>2. QED
    BY <2>1, TypeRowsRows
<1>13. QED
  BY <1>1, <1>2, <1>3, <1>7, <1>8, <1>11, <1>12

LEMMA LoneRowCreate ==
  ASSUME ~Faults, NEW c \in Clients, Lone(c), RowCreate(c)
  PROVE  Lone(c)'
<1>1. /\ Whole(tab) /\ Len(tab) \in Nat /\ Len(tab) >= 1
      /\ tab' \in Seq(TabRow) /\ Len(tab') = Len(tab) + 1
      /\ tab'[Len(tab) + 1] = ValuesOf(call[c])
      /\ \A n \in 1 .. Len(tab) : tab'[n] = tab[n]
      /\ rows' = [rows EXCEPT ![c] = TypeRows(tab')]
      /\ TypeRows(tab') \in Seq(RowModel)
      /\ call' = [call EXCEPT ![c] = Return("ok")]
  BY LoneRowCreateTab
<1>2. call[c].pc = "appending" /\ clock' = clock /\ used' = used /\ c \in Clients /\ DataOK
  BY DEF RowCreate, Lone
<1>3. call[c].id \in used /\ ~OnTab(call[c].id)
  BY <1>2 DEF Lone, LonePlace
<1>4. \A n \in 2 .. Len(tab') : \/ n = Len(tab) + 1 /\ tab'[n].id = call[c].id
                                \/ n \in 2 .. Len(tab) /\ tab'[n].id = tab[n].id
  BY <1>1 DEF ValuesOf
<1>5. \A n \in 2 .. Len(tab') : tab'[n].id \in used
  BY <1>1, <1>3, <1>4 DEF Whole
<1>6. \A m, n \in 2 .. Len(tab') : tab'[m].id = tab'[n].id => m = n
  BY <1>1, <1>3, <1>4 DEF Whole, OnTab
<1>7. tab'[1] = Header /\ Len(tab') >= 1
  BY <1>1 DEF Whole
<1>8. Whole(tab)'
  BY <1>1, <1>2, <1>5, <1>6, <1>7 DEF Whole
<1>9. Return("ok") \in Call /\ Return("ok").pc = "idle"
  BY ReturnCall
<1>10. rows'[c] = TypeRows(tab') /\ call'[c].pc = "idle"
  BY <1>1, <1>2, <1>9 DEF DataOK
<1>11. DataOK'
  BY <1>1, <1>2, <1>9 DEF DataOK
<1>12. LonePlace(c)'
  BY <1>8, <1>10 DEF LonePlace
<1>13. QED
  BY <1>1, <1>11, <1>12, LoneOthers DEF Lone

LEMMA LoneTabClear ==
  ASSUME ~Faults, NEW c \in Clients, Lone(c), TabClear(c)
  PROVE  Lone(c)'
<1> DEFINE g == [call[c] EXCEPT !.pc = "rewriting"]
<1>1. call[c].pc = "clearing" /\ c \in Clients /\ DataOK /\ call[c] \in Call
  BY DEF TabClear, Lone, DataOK
<1>2. Whole(tab) /\ Found(call[c]) /\ call[c].held = SpliceOut(tab, call[c].row)
  BY <1>1 DEF Lone, LonePlace
<1>3. Whole(call[c].held)
  BY <1>2, SpliceOutWhole DEF Found
<1>4. tab' = <<>> /\ call' = [call EXCEPT ![c] = g] /\ UNCHANGED <<rows, clock, used>>
  BY DEF TabClear, Answered
<1>5. g \in Call /\ g.pc = "rewriting" /\ g.held = call[c].held
  BY <1>1, RelabelledCall
<1> HIDE DEF g
<1>6. call'[c] = g
  BY <1>1, <1>4 DEF DataOK
<1>7. DataOK'
  BY <1>1, <1>4, <1>5, EmptySeq DEF DataOK
<1>8. Whole(call[c].held)'
  BY <1>3, <1>4, <1>5, <1>6 DEF Whole
<1>9. LonePlace(c)'
  BY <1>4, <1>5, <1>6, <1>8 DEF LonePlace
<1>10. QED
  BY <1>4, <1>7, <1>9, LoneOthers DEF Lone

\* The rewrite puts the rows back.
LEMMA LoneRewriteTab ==
  ASSUME ~Faults, NEW c \in Clients, Lone(c), Rewrite(c)
  PROVE  /\ call[c].pc = "rewriting" /\ Whole(call[c].held) /\ tab' = call[c].held
         /\ rows' = [rows EXCEPT ![c] = TypeRows(tab')]
         /\ call' = [call EXCEPT ![c] = Return("ok")]
         /\ UNCHANGED <<clock, used>>
<1>1. c \in Clients /\ DataOK
  BY DEF Lone
<1>2. call[c].pc = "rewriting" /\ tab = <<>> /\ Whole(call[c].held)
  BY <1>1 DEF Rewrite, Lone, LonePlace
<1>3. tab' = call[c].held
  BY <1>1, <1>2, OverwriteCleared DEF Rewrite, DataOK
<1>4. QED
  BY <1>2, <1>3 DEF Rewrite, Answered, Finish

LEMMA LoneRewrite ==
  ASSUME ~Faults, NEW c \in Clients, Lone(c), Rewrite(c)
  PROVE  Lone(c)'
<1>1. /\ call[c].pc = "rewriting" /\ Whole(call[c].held) /\ tab' = call[c].held
      /\ rows' = [rows EXCEPT ![c] = TypeRows(tab')]
      /\ call' = [call EXCEPT ![c] = Return("ok")]
      /\ UNCHANGED <<clock, used>>
  BY LoneRewriteTab
<1>2. c \in Clients /\ DataOK
  BY DEF Lone
<1>3. Return("ok") \in Call /\ Return("ok").pc = "idle"
  BY ReturnCall
<1>4. tab' \in Seq(TabRow) /\ TypeRows(tab') \in Seq(RowModel)
  BY <1>1, TypeRowsRows DEF Whole
<1>5. rows'[c] = TypeRows(tab') /\ call'[c].pc = "idle"
  BY <1>1, <1>2, <1>3 DEF DataOK
<1>6. DataOK'
  BY <1>1, <1>2, <1>3, <1>4 DEF DataOK
<1>7. Whole(tab)'
  BY <1>1 DEF Whole
<1>8. LonePlace(c)'
  BY <1>5, <1>7 DEF LonePlace, TypeRows
<1>9. QED
  BY <1>1, <1>6, <1>8, LoneOthers DEF Lone

\* What a lone client can do.
LoneMove(c) ==
  \/ \E i \in DOMAIN rows[c], force \in BOOLEAN : Delete(c, i, force)
  \/ \E k \in Keys : Create(c, k)
  \/ Refresh(c) \/ Check(c) \/ RowCreate(c) \/ Reload(c)
  \/ RowDelete(c) \/ TabClear(c) \/ Rewrite(c)

LEMMA LoneNextMove ==
  ASSUME LoneUse, NEW c \in Clients, use.clients = {c}, Lone(c), Next
  PROVE  LoneMove(c) /\ ~Faults
<1>1. /\ "update" \notin Ops /\ "register" \notin Ops /\ "batch" \notin Ops
      /\ ~Faults
  BY DEF LoneUse, Undisturbed
<1>2. LonePlace(c)
  BY DEF Lone
<1>3. ~RowUpdate(c) /\ ~BatchRead(c) /\ ~RequestFails(c)
  BY <1>1, <1>2 DEF LonePlace, RowUpdate, BatchRead, RequestFails
<1>4. /\ \A i \in DOMAIN rows[c], force \in BOOLEAN : ~Update(c, i, force)
      /\ \A k \in Keys : ~RegisterUser(c, k) /\ ~MarkCreate(c, k)
      /\ \A i \in DOMAIN rows[c], action \in {"update", "delete"} : ~Mark(c, i, action)
      /\ \A force \in BOOLEAN : ~BatchUpdate(c, force)
  BY <1>1 DEF Update, RegisterUser, Mark, MarkCreate, BatchUpdate
<1>5. QED
  BY <1>1, <1>3, <1>4 DEF Next, LoneMove

LEMMA LoneNext ==
  ASSUME LoneUse, NEW c \in Clients, use.clients = {c}, Lone(c), [Next]_vars
  PROVE  Lone(c)'
<1>1. CASE UNCHANGED vars
  BY <1>1 DEF vars, Lone, DataOK, LonePlace, Whole, Found, OnTab
<1>2. CASE Next
  <2>1. LoneMove(c) /\ ~Faults
    BY <1>2, LoneNextMove
  <2>2. ASSUME NEW k \in Keys, Create(c, k) PROVE Lone(c)'
    BY <2>2, LoneCreate, LoneAppend DEF Create, AllOps
  <2>3. QED
    BY <2>1, <2>2, LoneDelete, LoneRefresh, LoneCheck, LoneRowCreate, LoneReload,
       LoneRowDelete, LoneTabClear, LoneRewrite DEF LoneMove
<1>3. QED
  BY <1>1, <1>2

LEMMA InitLone == ASSUME NEW c \in Clients PROVE Init => Lone(c)
<1> SUFFICES ASSUME Init PROVE Lone(c)
  OBVIOUS
<1>1. DataOK /\ Len(tab) >= 1 /\ tab[1] = Header
  BY InitInv DEF Inv, Shape
<1>2. Keyed
  BY InitKeyed
<1>3. Whole(tab)
  BY <1>1, <1>2 DEF Whole, DataOK, Keyed, KeysUsed, KeysApart, OnTab
<1>4. \A d \in Clients : call[d].pc = "idle" /\ rows[d] = TypeRows(tab)
  BY IdlePc DEF Init
<1>5. QED
  BY <1>1, <1>3, <1>4 DEF Lone, LonePlace

\* The client of such a use, and what holds of it.
LoneInv == LoneUse /\ \E c \in Clients : use.clients = {c} /\ Lone(c)

LEMMA LoneHolds == Spec /\ LoneUse => []LoneInv
<1>1. Init /\ LoneUse => LoneInv
  BY InitLone DEF LoneInv, LoneUse, Undisturbed
<1>2. LoneInv /\ [Next]_vars => LoneInv'
  <2> SUFFICES ASSUME LoneInv, [Next]_vars PROVE LoneInv'
    OBVIOUS
  <2>1. use' = use
    BY Frozen
  <2>2. PICK c \in Clients : use.clients = {c} /\ Lone(c)
    BY DEF LoneInv
  <2>3. Lone(c)'
    BY <2>2, LoneNext DEF LoneInv
  <2>4. LoneUse'
    BY <2>1 DEF LoneInv, LoneUse, Undisturbed, Ops, Faults
  <2>5. QED
    BY <2>1, <2>2, <2>3, <2>4 DEF LoneInv
<1>3. QED
  BY <1>1, <1>2, PTL DEF Spec

\* Between calls the cache of a client that has the tab to itself is the tab, row
\* by row, however many rows it has created and deleted.
THEOREM CacheMirrorsSheetHolds == Spec /\ LoneUse => []CacheMirrorsSheet
<1>1. ASSUME LoneInv PROVE CacheMirrorsSheet
  <2>0. PICK c \in Clients : use.clients = {c} /\ Lone(c)
    BY <1>1 DEF LoneInv
  <2> SUFFICES ASSUME call[c].pc = "idle"
               PROVE  {[row |-> rows[c][i].row, value |-> ValuesOf(rows[c][i])] :
                         i \in {j \in DOMAIN rows[c] : rows[c][j].row > 0}}
                      = {[row |-> n, value |-> tab[n]] : n \in 2 .. Len(tab)}
    BY <2>0 DEF CacheMirrorsSheet
  <2>1. DataOK /\ Whole(tab) /\ rows[c] = TypeRows(tab)
    BY <2>0 DEF Lone, LonePlace
  <2>2. /\ Len(tab) \in Nat /\ DOMAIN rows[c] = 1 .. Len(tab) - 1
        /\ \A i \in 1 .. Len(tab) - 1 :
             /\ rows[c][i].row = i + 1 /\ rows[c][i].id = tab[i + 1].id
             /\ rows[c][i].ver = tab[i + 1].ver
    BY <2>1, LoneRows
  <2>3. ASSUME NEW n \in 1 .. Len(tab) PROVE tab[n] = [id |-> tab[n].id, ver |-> tab[n].ver]
    <3>1. tab[n] \in TabRow
      BY <2>1, ElementOfSeq DEF Whole
    <3>2. QED
      BY <3>1 DEF TabRow
  <2>4. \A i \in 1 .. Len(tab) - 1 : i + 1 \in 2 .. Len(tab) /\ i + 1 > 0 /\ i + 1 \in 1 .. Len(tab)
    BY <2>2
  <2>5. \A i \in DOMAIN rows[c] :
          /\ rows[c][i].row > 0
          /\ [row |-> rows[c][i].row, value |-> ValuesOf(rows[c][i])]
             = [row |-> i + 1, value |-> tab[i + 1]]
    BY <2>2, <2>3, <2>4 DEF ValuesOf
  <2>6. \A n \in 2 .. Len(tab) : n - 1 \in DOMAIN rows[c] /\ (n - 1) + 1 = n
    BY <2>2
  <2>7. {j \in DOMAIN rows[c] : rows[c][j].row > 0} = DOMAIN rows[c]
    BY <2>5
  <2> DEFINE p(i) == [row |-> rows[c][i].row, value |-> ValuesOf(rows[c][i])]
             q(n) == [row |-> n, value |-> tab[n]]
  <2>8. \A i \in DOMAIN rows[c] : p(i) = q(i + 1) /\ i + 1 \in 2 .. Len(tab)
    BY <2>2, <2>4, <2>5
  <2> HIDE DEF p, q
  <2>9. {p(i) : i \in DOMAIN rows[c]} = {q(n) : n \in 2 .. Len(tab)}
    <3>1. \A n \in 2 .. Len(tab) : n - 1 \in DOMAIN rows[c] /\ p(n - 1) = q(n)
      BY <2>6, <2>8
    <3>2. QED
      BY <2>8, <3>1
  <2>10. QED
    BY <2>7, <2>9 DEF p, q
<1>2. QED
  BY <1>1, LoneHolds, PTL

\* The tab of a client that has it to itself keeps its header and its keys apart
\* although every deletion clears it and writes it back.
THEOREM LoneTabIsKeyed == Spec /\ LoneUse => []TabIsKeyed
<1>1. ASSUME LoneInv PROVE TabIsKeyed
  <2>1. PICK c \in Clients : use.clients = {c} /\ Lone(c)
    BY <1>1 DEF LoneInv
  <2>2. used \subseteq Keys
    BY <2>1 DEF Lone, DataOK
  <2>3. CASE tab = <<>>
    <3>1. call[c].pc = "rewriting"
      BY <2>1, <2>3, LoneRows DEF Lone, LonePlace
    <3>2. DOMAIN tab = {}
      BY <2>3
    <3>3. QED
      BY <3>1, <3>2 DEF TabIsKeyed, KeysUnique, HeaderStays
  <2>4. CASE Whole(tab)
    <3>1. /\ tab \in Seq(TabRow) /\ Len(tab) \in Nat /\ DOMAIN tab = 1 .. Len(tab)
          /\ tab[1] = Header /\ tab # <<>>
      BY <2>4, LenProperties, EmptySeq DEF Whole
    <3>2. \A n \in 2 .. Len(tab) : tab[n].id # tab[1].id
      <4>1. tab[1].id = "_id"
        BY <3>1 DEF Header
      <4>2. \A n \in 2 .. Len(tab) : tab[n].id \in Keys
        BY <2>2, <2>4 DEF Whole
      <4>3. QED
        BY <4>1, <4>2, KeysAssumption
    <3>3. \A n \in DOMAIN tab : n = 1 \/ n \in 2 .. Len(tab)
      BY <3>1
    <3>4. KeysUnique
      BY <2>4, <3>2, <3>3 DEF Whole, KeysUnique
    <3>5. QED
      BY <3>1, <3>4 DEF TabIsKeyed, HeaderStays
  <2>5. QED
    BY <2>1, <2>3, <2>4 DEF Lone, LonePlace
<1>2. QED
  BY <1>1, LoneHolds, PTL

\* The change a lone client has sent.
LoneSent(f) ==
  IF f.pc = "appending" THEN [drop |-> {}, put |-> {Entry(f)}]
  ELSE IF f.pc = "clearing" THEN [drop |-> {f.id}, put |-> {}]
  ELSE [drop |-> {}, put |-> {}]

LoneContents(c) == IF call[c].pc = "rewriting" THEN call[c].held ELSE tab
EntriesOf(values) == {Entry(values[n]) : n \in 2 .. Len(values)}

\* The table is what the lone client holds, or the tab.
LEMMA LoneTable ==
  ASSUME NEW c \in Clients, Lone(c)
  PROVE  /\ Entries = EntriesOf(LoneContents(c))
         /\ Asked = [d \in Clients |-> LoneSent(call[d])]
<1>1. Contents = LoneContents(c)
  BY DEF Contents, LoneContents, Lone
<1>2. \A d \in Clients : Asked[d] = LoneSent(call[d])
  BY DEF Asked, LoneSent, Lone, LonePlace
<1>3. QED
  BY <1>1, <1>2 DEF Entries, EntriesOf, Asked

LEMMA LoneTableNext ==
  ASSUME NEW c \in Clients, Lone(c)'
  PROVE  /\ Entries' = EntriesOf(LoneContents(c)')
         /\ Asked' = [d \in Clients |-> LoneSent(call'[d])]
<1>1. Contents' = LoneContents(c)'
  BY DEF Contents, LoneContents, Lone
<1>2. \A d \in Clients : Asked'[d] = LoneSent(call'[d])
  BY DEF Asked, LoneSent, Lone, LonePlace
<1>3. QED
  BY <1>1, <1>2 DEF Entries, EntriesOf, Asked

\* What the contents and the request become decides the step of the table.
LEMMA LoneTableStep ==
  ASSUME NEW c \in Clients, Lone(c), Lone(c)',
         LET old == EntriesOf(LoneContents(c))
             new == EntriesOf(LoneContents(c)')
             s   == LoneSent(call[c])
             t   == LoneSent(call'[c]) IN
         \/ new = old /\ s = Table!Nothing /\ t \in Table!Changes
         \/ new = {e \in old : e[1] \notin s.drop} \union s.put /\ t = Table!Nothing
         \/ new = old /\ s = Table!Nothing /\ t = Table!Nothing
  PROVE  [Table!Next]_<<Entries, Asked>>
<1>1. /\ Entries = EntriesOf(LoneContents(c))
      /\ Asked = [d \in Clients |-> LoneSent(call[d])]
  BY LoneTable
<1>2. /\ Entries' = EntriesOf(LoneContents(c)')
      /\ Asked' = [d \in Clients |-> LoneSent(call'[d])]
  BY LoneTableNext
<1>3. /\ Asked' = [Asked EXCEPT ![c] = LoneSent(call'[c])]
      /\ Asked[c] = LoneSent(call[c]) /\ Asked'[c] = LoneSent(call'[c])
  <2>1. \A d \in Clients : d # c => LoneSent(call[d]) = LoneSent(call'[d])
    BY DEF Lone, LoneSent
  <2>2. QED
    BY <1>1, <1>2, <2>1
<1>4. CASE Entries' = Entries /\ Asked[c] = Table!Nothing /\ Asked'[c] \in Table!Changes
  BY <1>3, <1>4 DEF Table!Next, Table!Ask
<1>5. CASE /\ Entries' = {e \in Entries : e[1] \notin Asked[c].drop} \union Asked[c].put
           /\ Asked'[c] = Table!Nothing
  BY <1>3, <1>5 DEF Table!Next, Table!Carry, Table!Applied
<1>6. CASE Entries' = Entries /\ Asked[c] = Table!Nothing /\ Asked'[c] = Table!Nothing
  <2>1. Asked' = Asked
    BY <1>1, <1>2, <1>3, <1>6
  <2>2. QED
    BY <1>6, <2>1
<1>7. QED
  BY <1>1, <1>2, <1>3, <1>4, <1>5, <1>6

LEMMA LoneIdleSent ==
  ASSUME NEW f, f.pc \notin {"appending", "clearing"} PROVE LoneSent(f) = Table!Nothing
BY DEF LoneSent, Table!Nothing

\* Steps that neither send a change nor carry one out.
LEMMA LoneQuiet ==
  ASSUME NEW c \in Clients, Lone(c), Lone(c)', tab' = tab,
         call[c].pc \notin {"appending", "clearing", "rewriting"},
         call'[c].pc \notin {"appending", "clearing", "rewriting"}
  PROVE  [Table!Next]_<<Entries, Asked>>
<1>1. LoneSent(call[c]) = Table!Nothing /\ LoneSent(call'[c]) = Table!Nothing
  BY LoneIdleSent
<1>2. LoneContents(c)' = LoneContents(c)
  BY DEF LoneContents
<1>3. QED
  BY <1>1, <1>2, LoneTableStep

LEMMA LoneAppendTable ==
  ASSUME NEW c \in Clients, Lone(c), Lone(c)', NEW k \in Keys, NEW op \in AllOps,
         Append1(c, op, k), call[c].pc = "idle"
  PROVE  [Table!Next]_<<Entries, Asked>>
<1> DEFINE g == [Idle EXCEPT !.pc = "appending", !.op = op, !.id = k, !.ver = clock + 1]
<1>1. g.pc = "appending" /\ g.id = k /\ g.ver = clock + 1
  BY DEF Idle
<1>2. call' = [call EXCEPT ![c] = g] /\ tab' = tab
  BY DEF Append1
<1> HIDE DEF g
<1>3. call'[c] = g
  BY <1>2 DEF Lone, DataOK
<1>4. clock + 1 \in Stamps
  BY MaxClockAssumption DEF Append1, Lone, DataOK, Stamps
<1>5. LoneSent(g) = Sent(g)
  BY <1>1 DEF LoneSent, Sent
<1>6. LoneSent(g) \in Table!Changes
  BY <1>1, <1>4, <1>5, SentChange
<1>7. LoneSent(call[c]) = Table!Nothing
  BY LoneIdleSent
<1>8. LoneContents(c)' = LoneContents(c)
  BY <1>1, <1>2, <1>3 DEF LoneContents
<1>9. QED
  BY <1>3, <1>6, <1>7, <1>8, LoneTableStep

LEMMA LoneRowCreateTable ==
  ASSUME ~Faults, NEW c \in Clients, Lone(c), Lone(c)', RowCreate(c)
  PROVE  [Table!Next]_<<Entries, Asked>>
<1> DEFINE f == call[c]
<1>1. f.pc = "appending" /\ c \in Clients /\ DataOK
  BY DEF RowCreate, Lone
<1>2. /\ Len(tab) \in Nat /\ Len(tab) >= 1
      /\ Len(tab') = Len(tab) + 1
      /\ tab'[Len(tab) + 1] = ValuesOf(f)
      /\ \A n \in 1 .. Len(tab) : tab'[n] = tab[n]
      /\ call' = [call EXCEPT ![c] = Return("ok")]
  BY LoneRowCreateTab
<1>3. call'[c].pc = "idle"
  BY <1>1, <1>2, ReturnCall DEF DataOK
<1>4. LoneContents(c) = tab /\ LoneContents(c)' = tab' /\ LoneSent(call'[c]) = Table!Nothing
  BY <1>1, <1>3, LoneIdleSent DEF LoneContents
<1>5. Entry(ValuesOf(f)) = Entry(f)
  BY DEF Entry, ValuesOf
<1>6. LoneSent(f).drop = {} /\ LoneSent(f).put = {Entry(f)}
  BY <1>1 DEF LoneSent
<1> HIDE DEF f
<1>7. EntriesOf(tab') = EntriesOf(tab) \union {Entry(f)}
  <2>1. \A n \in 2 .. Len(tab') :
          \/ n = Len(tab) + 1 /\ Entry(tab'[n]) = Entry(f)
          \/ n \in 2 .. Len(tab) /\ Entry(tab'[n]) = Entry(tab[n])
    BY <1>2, <1>5
  <2>2. \A n \in 2 .. Len(tab) : n \in 2 .. Len(tab') /\ Entry(tab'[n]) = Entry(tab[n])
    BY <1>2
  <2>3. Len(tab) + 1 \in 2 .. Len(tab') /\ Entry(tab'[Len(tab) + 1]) = Entry(f)
    BY <1>2, <1>5
  <2>4. QED
    BY <2>1, <2>2, <2>3 DEF EntriesOf
<1>8. EntriesOf(tab') = {e \in EntriesOf(tab) : e[1] \notin LoneSent(f).drop} \union LoneSent(f).put
  BY <1>6, <1>7
<1>9. QED
  BY <1>4, <1>8, LoneTableStep DEF f

LEMMA LoneRowDeleteTable ==
  ASSUME NEW c \in Clients, Lone(c), Lone(c)', RowDelete(c)
  PROVE  [Table!Next]_<<Entries, Asked>>
<1>1. call[c].pc = "reading" /\ c \in Clients /\ DataOK /\ tab' = tab /\ call[c] \in Call
  BY DEF RowDelete, Lone, DataOK
<1>2. Whole(tab) /\ Found(call[c]) /\ rows[c] = TypeRows(tab)
  BY <1>1 DEF Lone, LonePlace
<1>3. tab # <<>> /\ Len(tab) \in Nat
  BY <1>1, <1>2, LoneRows
<1>4. ~(tab = <<>> \/ call[c].row > Len(tab) + 1)
  BY <1>2, <1>3 DEF Found
<1>5. call' = [call EXCEPT ![c].pc = "clearing", ![c].held = SpliceOut(tab, call[c].row)]
  BY <1>4 DEF RowDelete
<1>6. call'[c].pc = "clearing" /\ call'[c].id = call[c].id
  BY <1>1, <1>5 DEF DataOK, Call
<1>7. call[c].id \in Keys
  BY <1>1, <1>2 DEF Found, Whole, DataOK
<1>8. LoneSent(call'[c]) \in Table!Changes
  <2>1. LoneSent(call'[c]) = [drop |-> {call[c].id}, put |-> {}]
    BY <1>6 DEF LoneSent
  <2>2. [drop |-> {call[c].id}, put |-> {}] \in [drop : SUBSET Keys, put : SUBSET (Keys \X Stamps)]
    BY <1>7
  <2>3. QED
    BY <2>1, <2>2 DEF Table!Changes
<1>9. LoneSent(call[c]) = Table!Nothing
  BY <1>1, LoneIdleSent
<1>10. LoneContents(c)' = LoneContents(c)
  BY <1>1, <1>6 DEF LoneContents
<1>11. QED
  BY <1>8, <1>9, <1>10, LoneTableStep

\* Taking the row of a key out takes its entry out, and no other.
LEMMA SpliceOutEntries ==
  ASSUME NEW values, Whole(values), NEW n \in 2 .. Len(values)
  PROVE  EntriesOf(SpliceOut(values, n)) = {e \in EntriesOf(values) : e[1] # values[n].id}
<1> DEFINE s == SpliceOut(values, n)
<1>1. values \in Seq(TabRow) /\ Len(values) \in Nat
  BY LenProperties DEF Whole
<1>2. /\ Len(s) = Len(values) - 1
      /\ \A i \in 1 .. Len(values) - 1 : s[i] = IF i < n THEN values[i] ELSE values[i + 1]
  BY <1>1, SpliceOutRows
<1> HIDE DEF s
<1>3. \A m \in 2 .. Len(values) : Entry(values[m])[1] = values[m].id
  BY DEF Entry
<1>4. \A m \in 2 .. Len(values) : values[m].id = values[n].id => m = n
  BY DEF Whole
<1>5. ASSUME NEW i \in 2 .. Len(s)
      PROVE  \E m \in 2 .. Len(values) : m # n /\ s[i] = values[m]
  <2>1. i \in 1 .. Len(values) - 1
    BY <1>1, <1>2
  <2>2. CASE i < n
    BY <1>1, <1>2, <2>1, <2>2
  <2>3. CASE ~(i < n)
    <3>1. i + 1 \in 2 .. Len(values) /\ i + 1 # n /\ s[i] = values[i + 1]
      BY <1>1, <1>2, <2>1, <2>3
    <3>2. QED
      BY <3>1
  <2>4. QED
    BY <2>2, <2>3
<1>6. ASSUME NEW m \in 2 .. Len(values), m # n
      PROVE  \E i \in 2 .. Len(s) : s[i] = values[m]
  <2>1. CASE m < n
    <3>1. m \in 2 .. Len(s) /\ m \in 1 .. Len(values) - 1
      BY <1>1, <1>2, <2>1
    <3>2. QED
      BY <1>2, <2>1, <3>1
  <2>2. CASE ~(m < n)
    <3>1. m - 1 \in 2 .. Len(s) /\ m - 1 \in 1 .. Len(values) - 1 /\ ~(m - 1 < n) /\ (m - 1) + 1 = m
      BY <1>1, <1>2, <1>6, <2>2
    <3>2. s[m - 1] = values[m]
      BY <1>2, <3>1
    <3>3. QED
      BY <3>1, <3>2
  <2>3. QED
    BY <2>1, <2>2
<1>7. ASSUME NEW e \in EntriesOf(s) PROVE e \in EntriesOf(values) /\ e[1] # values[n].id
  <2>1. PICK i \in 2 .. Len(s) : e = Entry(s[i])
    BY <1>7 DEF EntriesOf
  <2>2. PICK m \in 2 .. Len(values) : m # n /\ s[i] = values[m]
    BY <1>5
  <2>3. QED
    BY <1>3, <1>4, <2>1, <2>2 DEF EntriesOf
<1>8. ASSUME NEW e \in EntriesOf(values), e[1] # values[n].id PROVE e \in EntriesOf(s)
  <2>1. PICK m \in 2 .. Len(values) : e = Entry(values[m])
    BY <1>8 DEF EntriesOf
  <2>2. m # n
    BY <1>3, <1>8, <2>1
  <2>3. PICK i \in 2 .. Len(s) : s[i] = values[m]
    BY <1>6, <2>2
  <2>4. QED
    BY <2>1, <2>3 DEF EntriesOf
<1>9. QED
  BY <1>7, <1>8 DEF s

LEMMA LoneTabClearTable ==
  ASSUME ~Faults, NEW c \in Clients, Lone(c), Lone(c)', TabClear(c)
  PROVE  [Table!Next]_<<Entries, Asked>>
<1> DEFINE f == call[c]
<1>1. f.pc = "clearing" /\ c \in Clients /\ DataOK /\ call[c] \in Call
  BY DEF TabClear, Lone, DataOK
<1>2. Whole(tab) /\ Found(f) /\ f.held = SpliceOut(tab, f.row)
  BY <1>1 DEF Lone, LonePlace
<1>3. call' = [call EXCEPT ![c].pc = "rewriting"]
  BY DEF TabClear, Answered
<1>4. call'[c].pc = "rewriting" /\ call'[c].held = f.held
  BY <1>1, <1>3 DEF DataOK, Call
<1>5. LoneContents(c) = tab /\ LoneContents(c)' = SpliceOut(tab, f.row)
  BY <1>1, <1>2, <1>4 DEF LoneContents
<1>6. LoneSent(call'[c]) = Table!Nothing
  BY <1>4, LoneIdleSent
<1>7. LoneSent(f).drop = {f.id} /\ LoneSent(f).put = {}
  BY <1>1 DEF LoneSent
<1> HIDE DEF f
<1>8. EntriesOf(SpliceOut(tab, f.row)) = {e \in EntriesOf(tab) : e[1] # f.id}
  BY <1>2, SpliceOutEntries DEF Found
<1>9. EntriesOf(SpliceOut(tab, f.row))
      = {e \in EntriesOf(tab) : e[1] \notin LoneSent(f).drop} \union LoneSent(f).put
  BY <1>7, <1>8
<1>10. QED
  BY <1>5, <1>6, <1>9, LoneTableStep DEF f

LEMMA LoneRewriteTable ==
  ASSUME ~Faults, NEW c \in Clients, Lone(c), Lone(c)', Rewrite(c)
  PROVE  [Table!Next]_<<Entries, Asked>>
<1>1. /\ call[c].pc = "rewriting" /\ tab' = call[c].held
      /\ call' = [call EXCEPT ![c] = Return("ok")]
  BY LoneRewriteTab
<1>2. call'[c].pc = "idle"
  BY <1>1, ReturnCall DEF Lone, DataOK
<1>3. LoneContents(c)' = LoneContents(c)
  BY <1>1, <1>2 DEF LoneContents
<1>4. LoneSent(call[c]) = Table!Nothing /\ LoneSent(call'[c]) = Table!Nothing
  BY <1>1, <1>2, LoneIdleSent
<1>5. QED
  BY <1>3, <1>4, LoneTableStep

LEMMA LoneNextTable ==
  ASSUME LoneUse, NEW c \in Clients, use.clients = {c}, Lone(c), Lone(c)', [Next]_vars
  PROVE  [Table!Next]_<<Entries, Asked>>
<1>1. CASE UNCHANGED vars
  BY <1>1 DEF vars, Entries, Contents, Asked, Marked
<1>2. CASE Next
  <2>1. LoneMove(c) /\ ~Faults /\ call \in [Clients -> Call]
    BY <1>2, LoneNextMove DEF Lone, DataOK
  <2>2. ASSUME NEW i \in DOMAIN rows[c], NEW force \in BOOLEAN, Delete(c, i, force)
        PROVE  [Table!Next]_<<Entries, Asked>>
    <3>1. /\ tab' = tab /\ call[c].pc = "idle"
          /\ call'[c].pc \in {"reading", "checking"}
      BY <2>1, <2>2 DEF Delete, Begin, Idle
    <3>2. QED
      BY <3>1, LoneQuiet
  <2>3. ASSUME NEW k \in Keys, Create(c, k) PROVE [Table!Next]_<<Entries, Asked>>
    BY <2>3, LoneAppendTable DEF Create, AllOps
  <2>4. CASE Refresh(c)
    <3>1. tab' = tab /\ call[c].pc = "idle" /\ call'[c].pc = "reloading"
      BY <2>1, <2>4, ReloadingCall DEF Refresh
    <3>2. QED
      BY <3>1, LoneQuiet
  <2>5. CASE Check(c)
    <3>1. call[c].pc = "checking" /\ call[c].op = "delete" /\ tab' = tab
      BY <2>1, <2>5 DEF Check, Lone, LonePlace
    <3>2. \/ call' = [call EXCEPT ![c] = Return("outdated")]
          \/ call' = [call EXCEPT ![c].pc = "reading"]
      BY <2>5, <3>1 DEF Check, Finish
    <3>3. Return("outdated").pc = "idle"
      BY ReturnCall
    <3>4. call'[c].pc \in {"idle", "reading"}
      <4>1. CASE call' = [call EXCEPT ![c] = Return("outdated")]
        BY <2>1, <3>3, <4>1
      <4>2. CASE call' = [call EXCEPT ![c].pc = "reading"]
        BY <2>1, <4>2 DEF Call
      <4>3. QED
        BY <3>2, <4>1, <4>2
    <3>5. QED
      BY <3>1, <3>4, LoneQuiet
  <2>6. CASE Reload(c)
    <3>1. /\ call[c].pc = "reloading" /\ tab' = tab
          /\ \E r \in {"ok", "error"} : call' = [call EXCEPT ![c] = Return(r)]
      BY <2>6 DEF Reload, Finish
    <3>2. \A r \in {"ok", "error"} : Return(r).pc = "idle"
      BY ReturnCall
    <3>3. call'[c].pc = "idle"
      BY <2>1, <3>1, <3>2
    <3>4. QED
      BY <3>1, <3>3, LoneQuiet
  <2>7. QED
    BY <2>1, <2>2, <2>3, <2>4, <2>5, <2>6, LoneRowCreateTable, LoneRowDeleteTable,
       LoneTabClearTable, LoneRewriteTable DEF LoneMove
<1>3. QED
  BY <1>1, <1>2

\* Also with deletions: though a deletion is a read, a clear and a rewrite of the
\* whole tab, the table loses the entry of its key at once, and no other.
THEOREM LoneImplementsTable == Spec /\ LoneUse => ImplementsTable
<1>1. Init => Table!Init
  BY InitTable
<1>2. LoneInv /\ LoneInv' /\ [Next]_vars => [Table!Next]_<<Entries, Asked>>
  <2> SUFFICES ASSUME LoneInv, [Next]_vars PROVE [Table!Next]_<<Entries, Asked>>
    OBVIOUS
  <2>1. PICK c \in Clients : use.clients = {c} /\ Lone(c)
    BY DEF LoneInv
  <2>2. Lone(c)'
    BY <2>1, LoneNext DEF LoneInv
  <2>3. QED
    BY <2>1, <2>2, LoneNextTable DEF LoneInv
<1>3. LoneInv /\ LoneInv' /\ [Next]_vars
      => [DrawnKeys => [Table!Next]_<<Entries, Asked>>]_vars
  BY <1>2
<1>4. QED
  BY <1>1, <1>3, LoneHolds, PTL DEF Spec, ImplementsTable
=============================================================================

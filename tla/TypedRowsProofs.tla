---------------------------- MODULE TypedRowsProofs ----------------------------
(***************************************************************************)
(* Proofs about TypedRows: what the row decoder finds in a row is what the *)
(* server sent of the column, a row is mapped as its type declares, and a  *)
(* field compiles exactly when its attributes agree.                       *)
(***************************************************************************)
EXTENDS TypedRows, SharedLemmas

-----------------------------------------------------------------------------
(* The row a decoder searches.                                             *)

SentCell == [family : Families, qualifier : Qualifiers, meta : Nat, value : Values]
KeptCell == [meta : Nat, value : Values]
KeptColumn == [qualifier : Qualifiers, cells : Seq(KeptCell)]
KeptFamily == [name : Families, columns : Seq(KeptColumn)]

\* A cell that was sent has names and a content.
LEMMA SentCellFields ==
  ASSUME NEW cell \in SentCell
  PROVE  /\ cell.family \in Families /\ cell.qualifier \in Qualifiers /\ Content(cell) \in KeptCell
  BY DEF SentCell, KeptCell, Content

\* A cell that is sent comes last of those of its family and qualifier.
LEMMA SentToAppended ==
  ASSUME NEW cells \in Seq(SentCell), NEW cell \in SentCell, NEW family, NEW qualifier
  PROVE  /\ SentTo(cells, family, qualifier) \in Seq(KeptCell)
         /\ SentTo(Append(cells, cell), family, qualifier)
              = IF IsOf(cell, family, qualifier) THEN Append(SentTo(cells, family, qualifier), Content(cell))
                ELSE SentTo(cells, family, qualifier)
<1>1. \A c \in SentCell : Content(c) \in KeptCell
  BY SentCellFields
<1> HIDE DEF SentCell, KeptCell
<1> QED BY <1>1, SentToAppend

\* Of a family and qualifier that no cell has, nothing was sent.
LEMMA SentToNone ==
  ASSUME NEW cells \in Seq(SentCell), NEW family, NEW qualifier,
         \A j \in DOMAIN cells : ~IsOf(cells[j], family, qualifier)
  PROVE  SentTo(cells, family, qualifier) = <<>>
<1> DEFINE P == [i \in DOMAIN cells |->
                   IF cells[i].family = family /\ cells[i].qualifier = qualifier
                     THEN <<[meta |-> cells[i].meta, value |-> cells[i].value]>> ELSE <<>>]
<1>1. SentTo(cells, family, qualifier) = FlattenSeq(P)
  BY DEF SentTo
<1>2. DOMAIN cells = 1..Len(cells) /\ Len(cells) \in Nat
  OBVIOUS
<1>3. \A i \in 1..Len(cells) : P[i] = <<>>
  BY <1>2 DEF IsOf
<1>4. P = [i \in 1..Len(cells) |-> P[i]]
  BY <1>2
<1>5. <<>> \in Seq(KeptCell)
  OBVIOUS
<1> HIDE DEF P, KeptCell, SentCell
<1>6. P \in [1..Len(cells) -> Seq(KeptCell)]
  BY <1>3, <1>4, <1>5
<1>7. P \in Seq(Seq(KeptCell)) /\ Len(P) = Len(cells)
  BY <1>2, <1>6, SeqDef
<1>8. FlattenSeq(P) = <<>>
  BY <1>3, <1>7, FlattenNone
<1> QED BY <1>1, <1>8

\* What the owner of a row has left of the cells sent, with the columns `gone`
\* emptied.
Left(cells, gone, family, qualifier) ==
  IF <<family, qualifier>> \in gone THEN <<>> ELSE SentTo(cells, family, qualifier)

\* The columns of a family hold what is left of it, each qualifier once.
ColumnsHave(columns, cells, gone, family) ==
  /\ \A c, d \in DOMAIN columns : columns[c].qualifier = columns[d].qualifier => c = d
  /\ \A c \in DOMAIN columns :
       /\ columns[c].cells = Left(cells, gone, family, columns[c].qualifier)
       /\ <<family, columns[c].qualifier>> \notin gone => columns[c].cells # <<>>
  /\ \A j \in DOMAIN cells :
       cells[j].family = family => \E c \in DOMAIN columns : columns[c].qualifier = cells[j].qualifier

\* A cell of another family is no matter of theirs.
LEMMA ColumnsHaveOther ==
  ASSUME NEW cells \in Seq(SentCell), NEW cell \in SentCell, NEW columns, NEW family,
         ColumnsHave(columns, cells, {}, family), cell.family # family
  PROVE  ColumnsHave(columns, Append(cells, cell), {}, family)
<1> DEFINE all == Append(cells, cell)
<1>1. \A q : SentTo(all, family, q) = SentTo(cells, family, q)
  BY SentToAppended DEF IsOf
<1>2. \A q : Left(all, {}, family, q) = Left(cells, {}, family, q)
  BY <1>1 DEF Left
<1>3. \A j \in DOMAIN all : all[j] = cell \/ (j \in DOMAIN cells /\ all[j] = cells[j])
  OBVIOUS
<1> HIDE DEF all
<1> QED BY <1>2, <1>3 DEF all, ColumnsHave

\* A cell of the family goes to the one column it belongs to.
LEMMA ColumnsHaveAdded ==
  ASSUME NEW cells \in Seq(SentCell), NEW cell \in SentCell, NEW columns \in Seq(KeptColumn),
         ColumnsHave(columns, cells, {}, cell.family)
  PROVE  /\ AddToColumns(columns, cell.qualifier, Content(cell)) \in Seq(KeptColumn)
         /\ ColumnsHave(AddToColumns(columns, cell.qualifier, Content(cell)), Append(cells, cell), {}, cell.family)
<1> DEFINE all == Append(cells, cell)
           family == cell.family
           q == cell.qualifier
           x == Content(cell)
           added == AddToColumns(columns, q, x)
<1>1. q \in Qualifiers /\ x \in KeptCell
  BY SentCellFields
<1>2. /\ \A p : p # q => SentTo(all, family, p) = SentTo(cells, family, p)
      /\ SentTo(all, family, q) = Append(SentTo(cells, family, q), x)
      /\ SentTo(cells, family, q) \in Seq(KeptCell)
  BY SentToAppended DEF IsOf
<1>3. \A j \in DOMAIN all : all[j].qualifier = q \/ (j \in DOMAIN cells /\ all[j] = cells[j])
  OBVIOUS
<1>4. \A c \in DOMAIN columns : columns[c] \in KeptColumn
  OBVIOUS
<1>5. \A c \in DOMAIN columns : /\ columns[c].cells = SentTo(cells, family, columns[c].qualifier)
                                /\ columns[c].cells # <<>>
  BY DEF ColumnsHave, Left
<1>6. ASSUME added \in Seq(KeptColumn),
             \A c, d \in DOMAIN added : added[c].qualifier = added[d].qualifier => c = d,
             \A c \in DOMAIN added : /\ added[c].cells = SentTo(all, family, added[c].qualifier)
                                     /\ added[c].cells # <<>>,
             \A c \in DOMAIN columns : \E d \in DOMAIN added : added[d].qualifier = columns[c].qualifier,
             \E c \in DOMAIN added : added[c].qualifier = q
      PROVE  added \in Seq(KeptColumn) /\ ColumnsHave(added, all, {}, family)
  <2>1. ASSUME NEW j \in DOMAIN all, all[j].family = family
        PROVE  \E c \in DOMAIN added : added[c].qualifier = all[j].qualifier
    <3>1. CASE all[j].qualifier = q
      BY <1>6, <3>1
    <3>2. CASE all[j].qualifier # q
      <4>1. j \in DOMAIN cells /\ all[j] = cells[j]
        BY <1>3, <3>2
      <4>2. \E c \in DOMAIN columns : columns[c].qualifier = cells[j].qualifier
        BY <2>1, <4>1 DEF ColumnsHave
      <4> HIDE DEF added
      <4> QED BY <1>6, <4>1, <4>2
    <3> QED BY <3>1, <3>2
  <2> HIDE DEF added, all
  <2> QED BY <1>6, <2>1 DEF ColumnsHave, Left
<1>7. ASSUME NEW i \in DOMAIN columns, columns[i].qualifier = q,
             added = [columns EXCEPT ![i] = [columns[i] EXCEPT !.cells = Append(columns[i].cells, x)]]
      PROVE  added \in Seq(KeptColumn) /\ ColumnsHave(added, all, {}, family)
  <2> DEFINE new == [columns[i] EXCEPT !.cells = Append(columns[i].cells, x)]
  <2>1. /\ new \in KeptColumn /\ new.qualifier = q /\ new.cells = Append(columns[i].cells, x)
        /\ new.cells # <<>>
    <3> DEFINE old == columns[i]
               more == Append(old.cells, x)
    <3>1. old \in KeptColumn /\ old.qualifier = q
      BY <1>4, <1>7
    <3> HIDE DEF old, q, x, KeptCell
    <3>2. old = [qualifier |-> old.qualifier, cells |-> old.cells] /\ old.cells \in Seq(KeptCell)
      BY <3>1 DEF KeptColumn
    <3>3. more \in Seq(KeptCell) /\ more # <<>>
      <4>1. x \in KeptCell
        BY <1>1
      <4>2. \A s \in Seq(KeptCell) : Append(s, x) \in Seq(KeptCell) /\ Append(s, x) # <<>>
        <5> TAKE s \in Seq(KeptCell)
        <5> DEFINE t == Append(s, x)
        <5>1. t \in Seq(KeptCell) /\ Len(t) = Len(s) + 1 /\ Len(s) \in Nat
          BY <4>1
        <5>2. Len(<<>>) = 0
          OBVIOUS
        <5>3. Len(s) + 1 # 0
          BY <5>1
        <5> HIDE DEF t
        <5>4. t # <<>>
          BY <5>1, <5>2, <5>3
        <5> QED BY <5>1, <5>4 DEF t
      <4> QED BY <3>2, <4>2
    <3>4. new = [old EXCEPT !.cells = more]
      BY DEF old
    <3> HIDE DEF more
    <3>5. new = [qualifier |-> old.qualifier, cells |-> more]
      BY <3>2, <3>4
    <3>6. new \in KeptColumn /\ new.qualifier = q /\ new.cells = more
      BY <1>1, <3>1, <3>3, <3>5 DEF KeptColumn
    <3> QED BY <3>3, <3>6 DEF more, old
  <2>2. added = [columns EXCEPT ![i] = new]
    BY <1>7
  <2> HIDE DEF new, added, KeptColumn, all
  <2>3. /\ added \in Seq(KeptColumn) /\ DOMAIN added = DOMAIN columns /\ added[i] = new
        /\ \A c \in DOMAIN columns : c # i => added[c] = columns[c]
    BY <2>1, <2>2
  <2>4. new.cells = SentTo(all, family, q)
    BY <1>2, <1>5, <1>7, <2>1
  <2>5. \A c \in DOMAIN columns : added[c].qualifier = columns[c].qualifier
    BY <1>7, <2>1, <2>3
  <2>6. \A c, d \in DOMAIN columns : columns[c].qualifier = columns[d].qualifier => c = d
    BY DEF ColumnsHave
  <2>7. ASSUME NEW c \in DOMAIN columns
        PROVE  added[c].cells = SentTo(all, family, added[c].qualifier) /\ added[c].cells # <<>>
    <3>1. CASE c = i
      BY <2>1, <2>3, <2>4, <3>1
    <3>2. CASE c # i
      <4>1. columns[c].qualifier # q
        BY <1>7, <2>6, <3>2
      <4> QED BY <1>2, <1>5, <2>3, <3>2, <4>1
    <3> QED BY <3>1, <3>2
  <2>8. added[i].qualifier = q /\ i \in DOMAIN added
    BY <2>1, <2>3
  <2> QED BY <1>6, <2>3, <2>5, <2>6, <2>7, <2>8
<1>8. ASSUME \A c \in DOMAIN columns : columns[c].qualifier # q,
             added = Append(columns, [qualifier |-> q, cells |-> <<x>>])
      PROVE  added \in Seq(KeptColumn) /\ ColumnsHave(added, all, {}, family)
  <2> DEFINE new == [qualifier |-> q, cells |-> <<x>>]
             n == Len(columns) + 1
  <2>1. new \in KeptColumn /\ new.qualifier = q /\ new.cells = <<x>> /\ new.cells # <<>>
    BY <1>1 DEF KeptColumn
  <2>2. added = Append(columns, new)
    BY <1>8
  <2>a. SentTo(cells, family, q) = <<>>
    <3>1. ASSUME NEW j \in DOMAIN cells PROVE ~IsOf(cells[j], family, q)
      BY <1>8 DEF IsOf, ColumnsHave
    <3> QED BY <3>1, SentToNone
  <2>4. new.cells = SentTo(all, family, q)
    BY <1>2, <2>1, <2>a
  <2> HIDE DEF new, added, KeptColumn, all
  <2>3. /\ added \in Seq(KeptColumn) /\ n \in DOMAIN added /\ added[n] = new /\ n \notin DOMAIN columns
        /\ \A c \in DOMAIN added : c \in DOMAIN columns \/ c = n
        /\ \A c \in DOMAIN columns : c \in DOMAIN added /\ added[c] = columns[c]
    BY <2>1, <2>2
  <2> HIDE DEF n
  <2>6. \A c, d \in DOMAIN columns : columns[c].qualifier = columns[d].qualifier => c = d
    BY DEF ColumnsHave
  <2>7. ASSUME NEW c \in DOMAIN added
        PROVE  added[c].cells = SentTo(all, family, added[c].qualifier) /\ added[c].cells # <<>>
    <3>1. CASE c = n
      BY <2>1, <2>3, <2>4, <3>1
    <3>2. CASE c # n
      <4>1. c \in DOMAIN columns /\ columns[c].qualifier # q
        BY <1>8, <2>3, <3>2
      <4> QED BY <1>2, <1>5, <2>3, <4>1
    <3> QED BY <3>1, <3>2
  <2>8. \A c, d \in DOMAIN added : added[c].qualifier = added[d].qualifier => c = d
    BY <1>8, <2>1, <2>3, <2>6
  <2>9. added[n].qualifier = q
    BY <2>1, <2>3
  <2> QED BY <1>6, <2>3, <2>7, <2>8, <2>9
<1>9. \/ \E i \in DOMAIN columns :
            /\ columns[i].qualifier = q
            /\ added = [columns EXCEPT ![i] = [columns[i] EXCEPT !.cells = Append(columns[i].cells, x)]]
      \/ /\ \A i \in DOMAIN columns : columns[i].qualifier # q
         /\ added = Append(columns, [qualifier |-> q, cells |-> <<x>>])
  <2> HIDE DEF q, x, KeptColumn
  <2> QED BY AddToColumnsCases
<1>10. added \in Seq(KeptColumn) /\ ColumnsHave(added, all, {}, family)
  <2> HIDE DEF added, all, family, q, x, KeptColumn
  <2> QED BY <1>7, <1>8, <1>9
<1> QED BY <1>10

\* A row has the families that were sent, each once, with what is left of them.
RowHas(families, cells, gone) ==
  /\ \A i, k \in DOMAIN families : families[i].name = families[k].name => i = k
  /\ \A i \in DOMAIN families :
       /\ ColumnsHave(families[i].columns, cells, gone, families[i].name)
       /\ \E j \in DOMAIN cells : cells[j].family = families[i].name
  /\ \A j \in DOMAIN cells : \E i \in DOMAIN families : families[i].name = cells[j].family

\* The merger keeps a row equal to the cells sent.
LEMMA RowHasAdded ==
  ASSUME NEW cells \in Seq(SentCell), NEW cell \in SentCell, NEW families \in Seq(KeptFamily),
         RowHas(families, cells, {})
  PROVE  /\ AddCell(families, cell.family, cell.qualifier, Content(cell)) \in Seq(KeptFamily)
         /\ RowHas(AddCell(families, cell.family, cell.qualifier, Content(cell)), Append(cells, cell), {})
<1> DEFINE all == Append(cells, cell)
           name == cell.family
           q == cell.qualifier
           x == Content(cell)
           added == AddCell(families, name, q, x)
<1>1. name \in Families
  BY SentCellFields
<1>2. /\ \A j \in DOMAIN all : all[j].family = name \/ (j \in DOMAIN cells /\ all[j] = cells[j])
      /\ \A j \in DOMAIN cells : j \in DOMAIN all /\ all[j] = cells[j]
      /\ \E j \in DOMAIN all : all[j].family = name
  <2>1. Len(cells) + 1 \in DOMAIN all /\ all[Len(cells) + 1] = cell
    OBVIOUS
  <2> QED BY <2>1
<1>3. ASSUME NEW i \in DOMAIN families
      PROVE  /\ families[i] = [name |-> families[i].name, columns |-> families[i].columns]
             /\ families[i].name \in Families /\ families[i].columns \in Seq(KeptColumn)
  <2>1. families[i] \in KeptFamily
    OBVIOUS
  <2> QED BY <2>1 DEF KeptFamily
<1>4. ASSUME NEW i \in DOMAIN families, families[i].name # name
      PROVE  ColumnsHave(families[i].columns, all, {}, families[i].name)
  <2>1. ColumnsHave(families[i].columns, cells, {}, families[i].name)
    BY DEF RowHas
  <2> QED BY <1>4, <2>1, ColumnsHaveOther
<1>5. ASSUME NEW columns \in Seq(KeptColumn), ColumnsHave(columns, cells, {}, name)
      PROVE  /\ AddToColumns(columns, q, x) \in Seq(KeptColumn)
             /\ ColumnsHave(AddToColumns(columns, q, x), all, {}, name)
  BY <1>5, ColumnsHaveAdded
<1>6. /\ \A i, k \in DOMAIN families : families[i].name = families[k].name => i = k
      /\ \A i \in DOMAIN families :
           /\ ColumnsHave(families[i].columns, cells, {}, families[i].name)
           /\ \E j \in DOMAIN cells : cells[j].family = families[i].name
      /\ \A j \in DOMAIN cells : \E i \in DOMAIN families : families[i].name = cells[j].family
  BY DEF RowHas
<1> DEFINE Good == added \in Seq(KeptFamily) /\ RowHas(added, all, {})
<1>7. ASSUME added \in Seq(KeptFamily),
             \A i, k \in DOMAIN added : added[i].name = added[k].name => i = k,
             \A i \in DOMAIN added : /\ ColumnsHave(added[i].columns, all, {}, added[i].name)
                                     /\ added[i].name = name
                                          \/ \E k \in DOMAIN families : families[k].name = added[i].name,
             \A k \in DOMAIN families : \E i \in DOMAIN added : added[i].name = families[k].name,
             \E i \in DOMAIN added : added[i].name = name
      PROVE  Good
  <2>1. ASSUME NEW j \in DOMAIN all PROVE \E i \in DOMAIN added : added[i].name = all[j].family
    <3>1. CASE all[j].family = name
      BY <1>7, <3>1
    <3>2. CASE j \in DOMAIN cells /\ all[j] = cells[j]
      <4>1. PICK k \in DOMAIN families : families[k].name = cells[j].family
        BY <1>6, <3>2
      <4> HIDE DEF added, all
      <4> QED BY <1>7, <3>2, <4>1
    <3> QED BY <1>2, <3>1, <3>2
  <2>2. ASSUME NEW i \in DOMAIN added PROVE \E j \in DOMAIN all : all[j].family = added[i].name
    <3>1. CASE added[i].name = name
      BY <1>2, <3>1
    <3>2. CASE \E k \in DOMAIN families : families[k].name = added[i].name
      <4>1. PICK j \in DOMAIN cells : cells[j].family = added[i].name
        BY <1>6, <3>2
      <4> HIDE DEF added, all
      <4> QED BY <1>2, <4>1
    <3> QED BY <1>7, <3>1, <3>2
  <2> HIDE DEF added, all
  <2> QED BY <1>7, <2>1, <2>2 DEF RowHas
<1>8. ASSUME NEW i \in DOMAIN families, families[i].name = name, added = Grown(families, i, q, x)
      PROVE  Good
  <2> DEFINE columns == families[i].columns
             more == AddToColumns(columns, q, x)
             new == [families[i] EXCEPT !.columns = more]
  <2>1. more \in Seq(KeptColumn) /\ ColumnsHave(more, all, {}, name)
    BY <1>3, <1>5, <1>6, <1>8
  <2>2. added = [families EXCEPT ![i] = new]
    BY <1>8 DEF Grown
  <2> HIDE DEF more
  <2>3. new = [name |-> name, columns |-> more]
    BY <1>3, <1>8
  <2>4. new \in KeptFamily /\ new.name = name /\ new.columns = more
    BY <1>1, <2>1, <2>3 DEF KeptFamily
  <2> HIDE DEF new, added, KeptFamily, all, Good
  <2>5. /\ added \in Seq(KeptFamily) /\ DOMAIN added = DOMAIN families /\ added[i] = new
        /\ \A k \in DOMAIN families : k # i => added[k] = families[k]
    BY <2>2, <2>4
  <2>6. \A k \in DOMAIN families : added[k].name = families[k].name
    BY <1>8, <2>4, <2>5
  <2>7. ASSUME NEW k \in DOMAIN families
        PROVE  ColumnsHave(added[k].columns, all, {}, added[k].name)
    <3>1. CASE k = i
      BY <2>1, <2>4, <2>5, <3>1
    <3>2. CASE k # i
      <4>1. families[k].name # name
        BY <1>6, <1>8, <3>2
      <4> QED BY <1>4, <2>5, <3>2, <4>1
    <3> QED BY <3>1, <3>2
  <2>8. i \in DOMAIN added /\ added[i].name = name
    BY <2>4, <2>5
  <2> QED BY <1>6, <1>7, <2>5, <2>6, <2>7, <2>8
<1>9. ASSUME \A i \in DOMAIN families : families[i].name # name, added = Extended(families, name, q, x)
      PROVE  Good
  <2> DEFINE none == <<>>
             more == AddToColumns(none, q, x)
             new == [name |-> name, columns |-> more]
             n == Len(families) + 1
  <2>1. added = Append(families, new)
    BY <1>9 DEF Extended
  <2>2. none \in Seq(KeptColumn) /\ DOMAIN none = {}
    OBVIOUS
  <2>a. \A j \in DOMAIN cells : cells[j].family # name
    BY <1>6, <1>9
  <2> HIDE DEF none
  <2>3. ColumnsHave(none, cells, {}, name)
    BY <2>2, <2>a DEF ColumnsHave
  <2>4. more \in Seq(KeptColumn) /\ ColumnsHave(more, all, {}, name)
    BY <1>5, <2>2, <2>3
  <2> HIDE DEF more
  <2>5. new \in KeptFamily /\ new.name = name /\ new.columns = more
    BY <1>1, <2>4 DEF KeptFamily
  <2> HIDE DEF new, added, KeptFamily, all, Good
  <2>6. /\ added \in Seq(KeptFamily) /\ n \in DOMAIN added /\ added[n] = new /\ n \notin DOMAIN families
        /\ \A k \in DOMAIN added : k \in DOMAIN families \/ k = n
        /\ \A k \in DOMAIN families : k \in DOMAIN added /\ added[k] = families[k]
    BY <2>1, <2>5
  <2> HIDE DEF n
  <2>7. ASSUME NEW k \in DOMAIN added
        PROVE  /\ ColumnsHave(added[k].columns, all, {}, added[k].name)
               /\ added[k].name = name \/ \E i \in DOMAIN families : families[i].name = added[k].name
    <3>1. CASE k = n
      BY <2>4, <2>5, <2>6, <3>1
    <3>2. CASE k # n
      <4>1. k \in DOMAIN families /\ added[k] = families[k] /\ families[k].name # name
        BY <1>9, <2>6, <3>2
      <4> QED BY <1>4, <4>1
    <3> QED BY <3>1, <3>2
  <2>8. \A i, k \in DOMAIN added : added[i].name = added[k].name => i = k
    <3>1. \A i \in DOMAIN added : \/ i = n /\ added[i].name = name
                                  \/ i \in DOMAIN families /\ added[i] = families[i] /\ added[i].name # name
      BY <1>9, <2>5, <2>6
    <3> QED BY <1>6, <3>1
  <2>9. added[n].name = name
    BY <2>5, <2>6
  <2> QED BY <1>7, <2>6, <2>7, <2>8, <2>9
<1>10. \/ \E i \in DOMAIN families : families[i].name = name /\ added = Grown(families, i, q, x)
       \/ (\A i \in DOMAIN families : families[i].name # name) /\ added = Extended(families, name, q, x)
  <2> HIDE DEF name, q, x, KeptFamily
  <2> QED BY AddCellCases
<1>11. Good
  <2> HIDE DEF added, Good, name, q, x
  <2> QED BY <1>8, <1>9, <1>10
<1> QED BY <1>11

\* The loop of RowOf, as the families after each cell.
Merging(families, cells) ==
  families = [n \in 0..Len(cells) |->
                IF n = 0 THEN <<>>
                ELSE AddCell(families[n - 1], cells[n].family, cells[n].qualifier, Content(cells[n]))]

\* The cells of a row can be merged one after the other.
LEMMA MergingExists ==
  ASSUME NEW cells, Len(cells) \in Nat
  PROVE  \E families : Merging(families, cells)
<1> DEFINE start == <<>>
           Step(before, n) == AddCell(before, cells[n].family, cells[n].qualifier, Content(cells[n]))
           Turn(g, n) == IF n = 0 THEN start ELSE Step(g[n - 1], n)
           So(N) == \E g : g = [n \in 0..N |-> Turn(g, n)]
           Good == {N \in 0..Len(cells) : So(N)}
<1> HIDE DEF start, Step
<1>1. So(0)
  <2> DEFINE g == [n \in 0..0 |-> start]
  <2>1. g = [n \in 0..0 |-> Turn(g, n)]
    OBVIOUS
  <2> QED BY <2>1
<1>2. ASSUME NEW N \in 0..Len(cells), So(N), N < Len(cells) PROVE So(N + 1)
  <2>1. PICK g : g = [n \in 0..N |-> Turn(g, n)]
    BY <1>2
  <2> DEFINE h == [n \in 0..(N + 1) |-> IF n = N + 1 THEN Step(g[N], N + 1) ELSE g[n]]
  <2>2. \A n \in 0..(N + 1) : h[n] = Turn(h, n)
    <3>1. ASSUME NEW n \in 0..N PROVE h[n] = Turn(h, n)
      <4>1. h[n] = Turn(g, n)
        BY <2>1
      <4>2. CASE n = 0
        BY <4>1, <4>2
      <4>3. CASE n # 0
        <5>1. n - 1 \in 0..N /\ h[n - 1] = g[n - 1]
          BY <4>3
        <5> QED BY <4>1, <4>3, <5>1
      <4> QED BY <4>2, <4>3
    <3>2. h[N + 1] = Turn(h, N + 1)
      <4>1. h[N] = g[N] /\ N + 1 # 0 /\ N + 1 - 1 = N
        OBVIOUS
      <4> QED BY <4>1
    <3> QED BY <3>1, <3>2
  <2>3. h = [n \in 0..(N + 1) |-> Turn(h, n)]
    <3>1. h = [n \in 0..(N + 1) |-> h[n]]
      OBVIOUS
    <3> HIDE DEF h
    <3> QED BY <2>2, <3>1
  <2> HIDE DEF h
  <2> QED BY <2>3
<1>3. \A N \in 0..Len(cells) : N \in Good
  <2>1. 0 \in Good
    BY <1>1
  <2>2. ASSUME NEW N \in 0..Len(cells), N \in Good, N < Len(cells) PROVE N + 1 \in Good
    <3>1. So(N + 1)
      BY <1>2, <2>2
    <3>2. N + 1 \in 0..Len(cells)
      BY <2>2
    <3> HIDE DEF So
    <3> QED BY <3>1, <3>2
  <2> HIDE DEF Good
  <2> QED BY <2>1, <2>2, UpTo
<1>4. So(Len(cells))
  BY <1>3
<1> QED BY <1>4 DEF Merging, start, Step

\* A row that is received has the cells that were sent for it.
LEMMA RowIsSent ==
  ASSUME NEW key, NEW cells \in Seq(SentCell)
  PROVE  \E families \in Seq(KeptFamily) :
           RowOf(key, cells) = [key |-> key, families |-> families] /\ RowHas(families, cells, {})
<1> DEFINE merge == CHOOSE families : Merging(families, cells)
           n == Len(cells)
           Upto(m) == SubSeq(cells, 1, m)
           Good == {m \in 0..n : merge[m] \in Seq(KeptFamily) /\ RowHas(merge[m], Upto(m), {})}
<1>1. n \in Nat /\ Merging(merge, cells)
  BY MergingExists
<1>2. RowOf(key, cells) = [key |-> key, families |-> merge[n]]
  BY DEF RowOf, Merging, Content
<1> HIDE DEF merge, SentCell, KeptFamily
<1>3. 0 \in Good
  <2> DEFINE none == <<>>
             first == Upto(0)
  <2>1. merge[0] = none
    BY <1>1 DEF Merging
  <2>2. first = none
    BY SubSeqEmpty
  <2>3. DOMAIN none = {} /\ none \in Seq(KeptFamily)
    OBVIOUS
  <2> HIDE DEF none, first
  <2>4. RowHas(none, none, {})
    BY <2>3 DEF RowHas
  <2>5. merge[0] \in Seq(KeptFamily) /\ RowHas(merge[0], first, {})
    BY <2>1, <2>2, <2>3, <2>4
  <2> QED BY <1>1, <2>5 DEF first
<1>4. ASSUME NEW m \in 0..n, m \in Good, m < n PROVE m + 1 \in Good
  <2> DEFINE part == Upto(m)
             k == m + 1
             cell == cells[k]
  <2>1. k \in 1..n /\ k # 0 /\ k - 1 = m /\ k \in 0..n
    BY <1>1, <1>4
  <2>2. merge[k] = AddCell(merge[m], cell.family, cell.qualifier, Content(cell))
    <3> HIDE DEF k
    <3> QED BY <1>1, <2>1 DEF Merging
  <2>3. cell \in SentCell /\ part \in Seq(SentCell)
    <3>1. \A i \in 1..m : cells[i] \in SentCell
      BY <1>4
    <3> QED BY <2>1, <3>1, SubSeqProperties
  <2>4. Upto(k) = Append(part, cell)
    <3>1. k \in 1..Len(cells) /\ 1 \in 1..Len(cells) /\ k \in 1..Len(cells)
      BY <2>1
    <3>2. SubSeq(cells, 1, k) = SubSeq(cells, 1, k - 1) \o <<cells[k]>>
      <4> HIDE DEF k
      <4> QED BY <3>1, SubSeqRecursiveSecond
    <3>3. part \o <<cell>> = Append(part, cell)
      <4> HIDE DEF part, cell
      <4> QED BY <2>3
    <3>4. k - 1 = m
      BY <2>1
    <3> QED BY <3>2, <3>3, <3>4
  <2>5. merge[m] \in Seq(KeptFamily) /\ RowHas(merge[m], part, {})
    BY <1>4
  <2> HIDE DEF part, cell, k
  <2>6. merge[k] \in Seq(KeptFamily) /\ RowHas(merge[k], Append(part, cell), {})
    BY <2>2, <2>3, <2>5, RowHasAdded
  <2> QED BY <2>1, <2>4, <2>6 DEF k
<1>5. n \in Good
  <2> HIDE DEF Good, n
  <2>1. \A m \in 0..n : m \in Good
    BY <1>1, <1>3, <1>4, UpTo
  <2> QED BY <1>1, <2>1
<1>6. Upto(n) = cells
  BY SubSeqFull
<1>7. merge[n] \in Seq(KeptFamily) /\ RowHas(merge[n], cells, {})
  BY <1>5, <1>6
<1> QED BY <1>2, <1>7

-----------------------------------------------------------------------------
(* What the decoder finds.                                                 *)

\* What was sent of a family and qualifier are contents of cells.
LEMMA SentToTyped ==
  ASSUME NEW cells \in Seq(SentCell), NEW family, NEW qualifier
  PROVE  SentTo(cells, family, qualifier) \in Seq(KeptCell)
<1>1. CASE Len(cells) = 0
  <2>1. \A j \in DOMAIN cells : ~IsOf(cells[j], family, qualifier)
    BY <1>1
  <2>2. SentTo(cells, family, qualifier) = <<>>
    BY <2>1, SentToNone
  <2> QED BY <2>2
<1>2. CASE Len(cells) # 0
  <2>1. cells[1] \in SentCell
    BY <1>2
  <2> QED BY <2>1, SentToAppended
<1> QED BY <1>1, <1>2

\* find_column finds a column of the qualifier whatever the order of the
\* columns, and nothing only when there is none.
LEMMA FindColumnIs ==
  ASSUME NEW S, NEW columns \in Seq(S), NEW qualifier, NEW c \in FindColumn(columns, qualifier)
  PROVE  \/ c \in DOMAIN columns /\ columns[c].qualifier = qualifier
         \/ c = 0 /\ \A d \in DOMAIN columns : columns[d].qualifier # qualifier
<1> DEFINE I == {i \in 1..Len(columns) : columns[i].qualifier = qualifier}
           first == IF I # {} THEN Min(I) ELSE 0
<1>1. DOMAIN columns = 1..Len(columns) /\ 0 \notin DOMAIN columns
  OBVIOUS
<1>2. PICK hit \in BinarySearch(columns, qualifier) : c = IF hit # 0 THEN hit ELSE first
  BY DEF FindColumn, SelectInSeq
<1>3. hit # 0 => hit \in DOMAIN columns /\ columns[hit].qualifier = qualifier
  BY DEF BinarySearch
<1>4. I # {} => first \in I
  <2>1. I \in SUBSET Nat
    OBVIOUS
  <2> HIDE DEF I
  <2> QED BY <2>1, MinIsLeast
<1>5. I = {} => first = 0 /\ \A d \in DOMAIN columns : columns[d].qualifier # qualifier
  BY <1>1
<1>6. first \in I => first \in DOMAIN columns /\ columns[first].qualifier = qualifier
  BY <1>1
<1> HIDE DEF I, first
<1> QED BY <1>2, <1>3, <1>4, <1>5, <1>6

\* Why nothing of a family and qualifier is there when nothing was taken out.
WhyMissing(cells, family) ==
  IF \E j \in DOMAIN cells : cells[j].family = family THEN "MissingColumn" ELSE "MissingFamily"

\* A row is as the merger builds it, with the columns `gone` emptied since.
Holds(r, cells, gone) ==
  cells \in Seq(SentCell) /\ r.families \in Seq(KeptFamily) /\ RowHas(r.families, cells, gone)

\* required_column finds what is left of the column, or says what is missing.
LEMMA RequiredColumnIs ==
  ASSUME NEW r, NEW cells, NEW gone, Holds(r, cells, gone), NEW family, NEW qualifier,
         NEW column \in RequiredColumn(r, family, qualifier)
  PROVE  \/ /\ column = Column("None", Left(cells, gone, family, qualifier))
            /\ <<family, qualifier>> \notin gone => Left(cells, gone, family, qualifier) # <<>>
         \/ /\ column = Column(WhyMissing(cells, family), <<>>)
            /\ Left(cells, gone, family, qualifier) = <<>>
<1> DEFINE families == r.families
           rest == Left(cells, gone, family, qualifier)
           I == {i \in 1..Len(families) : families[i].name = family}
           f == IF I # {} THEN Min(I) ELSE 0
<1>1. /\ families \in Seq(KeptFamily) /\ cells \in Seq(SentCell) /\ RowHas(families, cells, gone)
      /\ DOMAIN families = 1..Len(families)
  BY DEF Holds
<1>2. column \in IF f = 0 THEN {Column("MissingFamily", <<>>)}
                 ELSE {IF c = 0 THEN Column("MissingColumn", <<>>) ELSE Column("None", families[f].columns[c].cells) :
                         c \in FindColumn(families[f].columns, qualifier)}
  BY DEF RequiredColumn, SelectInSeq
<1> HIDE DEF families, rest
<1>3. I # {} => f \in I
  <2>1. I \in SUBSET Nat
    OBVIOUS
  <2> HIDE DEF I
  <2> QED BY <2>1, MinIsLeast
<1>4. ASSUME \A j \in DOMAIN cells : ~IsOf(cells[j], family, qualifier) PROVE rest = <<>>
  <2>1. SentTo(cells, family, qualifier) = <<>>
    BY <1>1, <1>4, SentToNone
  <2> QED BY <2>1 DEF rest, Left
<1>5. CASE I = {}
  <2>1. column = Column("MissingFamily", <<>>)
    BY <1>2, <1>5
  <2>2. \A i \in DOMAIN families : families[i].name # family
    BY <1>1, <1>5
  <2>3. \A j \in DOMAIN cells : cells[j].family # family
    BY <1>1, <2>2 DEF RowHas
  <2>4. rest = <<>>
    BY <1>4, <2>3 DEF IsOf
  <2>5. WhyMissing(cells, family) = "MissingFamily"
    BY <2>3 DEF WhyMissing
  <2> QED BY <2>1, <2>4, <2>5 DEF rest
<1>6. CASE I # {}
  <2>1. f \in DOMAIN families /\ families[f].name = family /\ f # 0
    BY <1>1, <1>3, <1>6
  <2> HIDE DEF f, I
  <2> DEFINE columns == families[f].columns
  <2>2. columns \in Seq(KeptColumn) /\ ColumnsHave(columns, cells, gone, family)
        /\ \E j \in DOMAIN cells : cells[j].family = family
    <3>1. families[f] \in KeptFamily
      BY <1>1, <2>1
    <3>2. columns \in Seq(KeptColumn)
      BY <3>1 DEF KeptFamily
    <3> QED BY <1>1, <2>1, <3>2 DEF RowHas
  <2>3. PICK c \in FindColumn(columns, qualifier) :
          column = IF c = 0 THEN Column("MissingColumn", <<>>) ELSE Column("None", columns[c].cells)
    BY <1>2, <2>1
  <2> HIDE DEF columns
  <2>4. CASE c \in DOMAIN columns /\ columns[c].qualifier = qualifier
    <3>1. c # 0
      BY <2>2, <2>4
    <3>2. columns[c].cells = rest /\ (<<family, qualifier>> \notin gone => rest # <<>>)
      BY <2>2, <2>4 DEF ColumnsHave, rest
    <3> QED BY <2>3, <3>1, <3>2 DEF rest
  <2>5. CASE c = 0 /\ \A d \in DOMAIN columns : columns[d].qualifier # qualifier
    <3>1. rest = <<>>
      BY <1>4, <2>2, <2>5 DEF ColumnsHave, IsOf
    <3>2. WhyMissing(cells, family) = "MissingColumn"
      BY <2>2 DEF WhyMissing
    <3> QED BY <2>3, <2>5, <3>1, <3>2 DEF rest
  <2> QED BY <2>2, <2>4, <2>5, FindColumnIs
<1> QED BY <1>5, <1>6

MissingIssues == {"MissingFamily", "MissingColumn", "MissingCell"}

\* A column with nothing in it, and the reason given for that.
Lacking(column, cells, gone, family, qualifier) ==
  /\ column.cells = <<>> /\ column.issue \in MissingIssues
  /\ <<family, qualifier>> \notin gone => column.issue = WhyMissing(cells, family)

\* cells() has all that is left of the column, or says that it is missing.
LEMMA CellsAre ==
  ASSUME NEW r, NEW cells, NEW gone, Holds(r, cells, gone), NEW family, NEW qualifier,
         NEW column \in Cells(r, family, qualifier)
  PROVE  IF Left(cells, gone, family, qualifier) # <<>>
           THEN column = Column("None", Left(cells, gone, family, qualifier))
           ELSE Lacking(column, cells, gone, family, qualifier)
<1> DEFINE rest == Left(cells, gone, family, qualifier)
           why == WhyMissing(cells, family)
<1>1. PICK found \in RequiredColumn(r, family, qualifier) :
        column = IF found.issue = "None" /\ found.cells = <<>> THEN Column("MissingCell", <<>>) ELSE found
  BY DEF Cells
<1>2. \/ found = Column("None", rest) /\ (<<family, qualifier>> \notin gone => rest # <<>>)
      \/ found = Column(why, <<>>) /\ rest = <<>>
  BY RequiredColumnIs
<1>3. why \in MissingIssues /\ why # "None" /\ "MissingCell" \in MissingIssues
  BY DEF WhyMissing, MissingIssues
<1> HIDE DEF rest, why
<1>4. \A i, s : Column(i, s).issue = i /\ Column(i, s).cells = s
  BY DEF Column
<1>5. CASE found = Column("None", rest) /\ rest # <<>>
  <2>1. column = found
    BY <1>1, <1>4, <1>5
  <2> QED BY <1>5, <2>1 DEF rest
<1>6. CASE found = Column("None", rest) /\ rest = <<>> /\ <<family, qualifier>> \in gone
  <2>1. column = Column("MissingCell", <<>>)
    BY <1>1, <1>4, <1>6
  <2> QED BY <1>3, <1>4, <1>6, <2>1 DEF rest, Lacking
<1>7. CASE found = Column(why, <<>>) /\ rest = <<>>
  <2>1. column = Column(why, <<>>)
    BY <1>1, <1>3, <1>4, <1>7
  <2> QED BY <1>3, <1>4, <1>7, <2>1 DEF rest, why, Lacking
<1> QED BY <1>2, <1>5, <1>6, <1>7

\* latest_cell() has the version that comes first.
LEMMA LatestCellIs ==
  ASSUME NEW r, NEW cells, NEW gone, Holds(r, cells, gone), NEW family, NEW qualifier,
         NEW column \in LatestCell(r, family, qualifier)
  PROVE  IF Left(cells, gone, family, qualifier) # <<>>
           THEN column = Column("None", <<Left(cells, gone, family, qualifier)[1]>>)
           ELSE Lacking(column, cells, gone, family, qualifier)
<1> DEFINE rest == Left(cells, gone, family, qualifier)
<1>1. PICK all \in Cells(r, family, qualifier) :
        column = IF all.issue = "None" THEN Column("None", <<all.cells[1]>>) ELSE all
  BY DEF LatestCell
<1>2. IF rest # <<>> THEN all = Column("None", rest) ELSE Lacking(all, cells, gone, family, qualifier)
  BY CellsAre
<1> HIDE DEF rest
<1>3. CASE rest # <<>>
  <2>1. all.issue = "None" /\ all.cells = rest
    BY <1>2, <1>3 DEF Column
  <2> QED BY <1>1, <1>3, <2>1 DEF rest
<1>4. CASE rest = <<>>
  <2>1. Lacking(all, cells, gone, family, qualifier) /\ all.issue # "None"
    BY <1>2, <1>4 DEF Lacking, MissingIssues
  <2> QED BY <1>1, <1>4, <2>1 DEF rest
<1> QED BY <1>3, <1>4

\* A required column decodes its latest version, or says what is missing.
LEMMA RequiredIs ==
  ASSUME NEW r, NEW cells, NEW gone, Holds(r, cells, gone), NEW family, NEW qualifier,
         NEW decoder, NEW type, NEW result \in Required(r, family, qualifier, decoder, type)
  PROVE  IF Left(cells, gone, family, qualifier) # <<>>
           THEN result = DecodeCell(Left(cells, gone, family, qualifier)[1], decoder, type)
           ELSE /\ result.issue \in MissingIssues
                /\ <<family, qualifier>> \notin gone => result = Fail(WhyMissing(cells, family), Nowhere)
<1> DEFINE rest == Left(cells, gone, family, qualifier)
<1>1. PICK latest \in LatestCell(r, family, qualifier) :
        result = IF latest.issue # "None" THEN Fail(latest.issue, Nowhere)
                 ELSE DecodeCell(latest.cells[1], decoder, type)
  BY DEF Required
<1>2. IF rest # <<>> THEN latest = Column("None", <<rest[1]>>) ELSE Lacking(latest, cells, gone, family, qualifier)
  BY LatestCellIs
<1> HIDE DEF rest
<1>3. CASE rest # <<>>
  <2>1. latest.issue = "None" /\ latest.cells[1] = rest[1]
    BY <1>2, <1>3 DEF Column
  <2> QED BY <1>1, <1>3, <2>1 DEF rest
<1>4. CASE rest = <<>>
  <2>1. Lacking(latest, cells, gone, family, qualifier) /\ latest.issue # "None"
    BY <1>2, <1>4 DEF Lacking, MissingIssues
  <2>2. result = Fail(latest.issue, Nowhere) /\ result.issue = latest.issue
    BY <1>1, <2>1 DEF Fail
  <2> QED BY <1>4, <2>1, <2>2 DEF rest, Lacking
<1> QED BY <1>3, <1>4

\* An optional column decodes its latest version, and is absent only when there
\* is none.
LEMMA OptionalIs ==
  ASSUME NEW r, NEW cells, NEW gone, Holds(r, cells, gone), NEW family, NEW qualifier,
         NEW decoder, NEW type, NEW result \in Optional(r, family, qualifier, decoder, type)
  PROVE  result = IF Left(cells, gone, family, qualifier) # <<>>
                    THEN DecodeCell(Left(cells, gone, family, qualifier)[1], decoder, type)
                    ELSE Absent
<1> DEFINE rest == Left(cells, gone, family, qualifier)
<1>1. PICK latest \in LatestCell(r, family, qualifier) :
        result = IF latest.cells = <<>> THEN Absent ELSE DecodeCell(latest.cells[1], decoder, type)
  BY DEF Optional, OptionalLatestCell
<1>2. IF rest # <<>> THEN latest = Column("None", <<rest[1]>>) ELSE Lacking(latest, cells, gone, family, qualifier)
  BY LatestCellIs
<1> HIDE DEF rest
<1>3. CASE rest # <<>>
  <2>1. latest.cells = <<rest[1]>> /\ latest.cells[1] = rest[1] /\ latest.cells # <<>>
    BY <1>2, <1>3 DEF Column
  <2> QED BY <1>1, <1>3, <2>1 DEF rest
<1>4. CASE rest = <<>>
  <2>1. latest.cells = <<>>
    BY <1>2, <1>4 DEF Lacking
  <2> QED BY <1>1, <1>4, <2>1 DEF rest
<1> QED BY <1>3, <1>4

\* versions() has every version in order, or the first that does not decode.
LEMMA VersionsAre ==
  ASSUME NEW r, NEW cells, NEW gone, Holds(r, cells, gone), NEW family, NEW qualifier,
         NEW type, NEW result \in Versions(r, family, qualifier, type)
  PROVE  LET rest == Left(cells, gone, family, qualifier)
             bad == SelectInSeq(rest, LAMBDA cell : ~FromCellValue(type, cell.value))
         IN  IF rest # <<>>
               THEN result = IF bad # 0 THEN <<DecodeCell(rest[bad], "Plain", type)>>
                             ELSE [i \in DOMAIN rest |-> DecodeCell(rest[i], "Plain", type)]
               ELSE result[1].issue \in MissingIssues
<1> DEFINE rest == Left(cells, gone, family, qualifier)
           Decode(cell) == DecodeCell(cell, "Plain", type)
           Bad(s) == {i \in 1..Len(s) : ~FromCellValue(type, s[i].value)}
           Undecoded(s) == {i \in 1..Len(s) : s[i].issue # "None"}
           FirstOf(I) == IF I # {} THEN Min(I) ELSE 0
           All(s) == [i \in DOMAIN s |-> Decode(s[i])]
<1>1. PICK column \in Cells(r, family, qualifier) :
        result = IF column.issue # "None" THEN <<Fail(column.issue, Nowhere)>>
                 ELSE IF FirstOf(Undecoded(All(column.cells))) = 0 THEN All(column.cells)
                 ELSE <<All(column.cells)[FirstOf(Undecoded(All(column.cells)))]>>
  BY DEF Versions, SelectInSeq
<1>2. IF rest # <<>> THEN column = Column("None", rest) ELSE Lacking(column, cells, gone, family, qualifier)
  BY CellsAre
<1>3. SelectInSeq(rest, LAMBDA cell : ~FromCellValue(type, cell.value)) = FirstOf(Bad(rest))
  BY DEF SelectInSeq
<1>4. rest \in Seq(KeptCell)
  BY SentToTyped DEF Left, Holds
<1> HIDE DEF rest
<1>5. CASE rest # <<>>
  <2>1. column.issue = "None" /\ column.cells = rest
    BY <1>2, <1>5 DEF Column
  <2>2. result = IF FirstOf(Undecoded(All(rest))) = 0 THEN All(rest)
                 ELSE <<All(rest)[FirstOf(Undecoded(All(rest)))]>>
    BY <1>1, <2>1
  <2>3. \A cell : Decode(cell).issue # "None" <=> ~FromCellValue(type, cell.value)
    BY DEF DecodeCell, Decodes, Ok, Fail
  <2>4. All(rest) = [i \in 1..Len(rest) |-> Decode(rest[i])] /\ DOMAIN rest = 1..Len(rest) /\ Len(rest) \in Nat
    BY <1>4
  <2> HIDE DEF Decode
  <2>5. Len(All(rest)) = Len(rest) /\ \A i \in 1..Len(rest) : All(rest)[i] = Decode(rest[i])
    BY <2>4
  <2>6. Undecoded(All(rest)) = Bad(rest)
    <3> HIDE DEF All
    <3> QED BY <2>3, <2>5
  <2>7. Bad(rest) # {} => FirstOf(Bad(rest)) \in 1..Len(rest)
    <3> DEFINE I == Bad(rest)
    <3>1. I \in SUBSET Nat /\ I \subseteq 1..Len(rest)
      OBVIOUS
    <3> HIDE DEF I
    <3>2. I # {} => Min(I) \in I
      BY <3>1, MinIsLeast
    <3>3. I # {} => FirstOf(I) \in 1..Len(rest)
      BY <3>1, <3>2
    <3> QED BY <3>3 DEF I
  <2>8. FirstOf(Bad(rest)) # 0 => FirstOf(Bad(rest)) \in 1..Len(rest)
    <3> HIDE DEF Bad
    <3> QED BY <2>7
  <2> DEFINE first == FirstOf(Bad(rest))
  <2>9. result = IF first = 0 THEN All(rest) ELSE <<All(rest)[first]>>
    <3> HIDE DEF All, Undecoded, Bad, FirstOf
    <3> QED BY <2>2, <2>6
  <2>10. first # 0 => first \in 1..Len(rest)
    BY <2>8
  <2>11. SelectInSeq(rest, LAMBDA cell : ~FromCellValue(type, cell.value)) = first
    BY <1>3
  <2> HIDE DEF first, Bad, FirstOf
  <2>12. first # 0 => All(rest)[first] = Decode(rest[first])
    <3> HIDE DEF All
    <3> QED BY <2>5, <2>10
  <2>13. result = IF first # 0 THEN <<Decode(rest[first])>> ELSE All(rest)
    <3> HIDE DEF All
    <3> QED BY <2>9, <2>12
  <2> QED BY <1>5, <2>11, <2>13 DEF Decode, rest
<1>6. CASE rest = <<>>
  <2>1. Lacking(column, cells, gone, family, qualifier) /\ column.issue # "None"
    BY <1>2, <1>6 DEF Lacking, MissingIssues
  <2>2. result[1].issue = column.issue
    BY <1>1, <2>1 DEF Fail
  <2> QED BY <1>6, <2>1, <2>2 DEF rest, Lacking
<1> QED BY <1>5, <1>6

-----------------------------------------------------------------------------
(* What from_row makes of a row.                                           *)

\* What a field must become, of a row with this key and these cells.
Due(init, key, cells) ==
  LET versions == SentTo(cells, init.family, init.qualifier)
      Decoded(at, value) ==
        IF Decodes(init.decoder, init.type, value) THEN Ok(at, value) ELSE Fail("InvalidValue", at)
  IN  IF init.source = "RowKey" THEN Decoded(AtRowKey, key)
      ELSE IF versions # <<>> THEN Decoded(versions[1].meta, versions[1].value)
      ELSE CASE init.mode = "Option" -> Absent
             [] init.mode = "Default" -> Ok(Nowhere, "default")
             [] init.mode = "Required" -> Fail(WhyMissing(cells, init.family), Nowhere)

\* A field that was compiled has one of three modes.
Compiles(init) == init.source \in {"RowKey", "Column"} /\ init.mode \in {"Required", "Option", "Default"}

\* The decoder calls of a field give what the field must become.
LEMMA FieldResultsAre ==
  ASSUME NEW r, NEW cells, Holds(r, cells, {}), NEW init, Compiles(init), NEW result \in FieldResults(r, init)
  PROVE  result = Due(init, r.key, cells)
<1> DEFINE versions == SentTo(cells, init.family, init.qualifier)
           decoded == DecodeCell(versions[1], init.decoder, init.type)
           due == Due(init, r.key, cells)
<1>1. versions = Left(cells, {}, init.family, init.qualifier) /\ <<init.family, init.qualifier>> \notin {}
  BY DEF Left
<1>2. CASE init.source = "RowKey"
  BY <1>2 DEF FieldResults, Due, RowKey
<1>3. init.source # "RowKey" =>
        due = IF versions # <<>> THEN decoded
              ELSE CASE init.mode = "Option" -> Absent
                     [] init.mode = "Default" -> Ok(Nowhere, "default")
                     [] init.mode = "Required" -> Fail(WhyMissing(cells, init.family), Nowhere)
  BY DEF Due, DecodeCell
<1>4. versions # <<>> => decoded # Absent
  <2>1. versions \in Seq(KeptCell)
    BY SentToTyped DEF Holds
  <2> HIDE DEF versions
  <2>2. versions # <<>> => versions[1] \in KeptCell
    BY <2>1
  <2>3. versions # <<>> => versions[1].meta \in Nat
    BY <2>2 DEF KeptCell
  <2>4. Absent.at = -2 /\ Absent.issue = "None"
    BY DEF Absent, Ok, Nowhere
  <2>5. decoded.issue = "None" => decoded.at = versions[1].meta
    BY DEF DecodeCell, Ok, Fail
  <2> HIDE DEF decoded
  <2> QED BY <2>3, <2>4, <2>5
<1> HIDE DEF versions, decoded, due
<1>5. CASE init.source # "RowKey" /\ init.mode = "Required"
  <2>1. result \in Required(r, init.family, init.qualifier, init.decoder, init.type)
    BY <1>5 DEF FieldResults
  <2>2. IF versions # <<>> THEN result = decoded
        ELSE result = Fail(WhyMissing(cells, init.family), Nowhere)
    <3> DEFINE rest == Left(cells, {}, init.family, init.qualifier)
    <3>1. IF rest # <<>> THEN result = DecodeCell(rest[1], init.decoder, init.type)
          ELSE result = Fail(WhyMissing(cells, init.family), Nowhere)
      <4> DEFINE gone == {}
                 family == init.family
                 qualifier == init.qualifier
                 decoder == init.decoder
                 type == init.type
      <4>1. <<family, qualifier>> \notin gone
        OBVIOUS
      <4>2. Holds(r, cells, gone) /\ result \in Required(r, family, qualifier, decoder, type)
        BY <2>1
      <4> HIDE DEF gone, family, qualifier, decoder, type
      <4>3. IF Left(cells, gone, family, qualifier) # <<>>
              THEN result = DecodeCell(Left(cells, gone, family, qualifier)[1], decoder, type)
              ELSE result = Fail(WhyMissing(cells, family), Nowhere)
        BY <4>1, <4>2, RequiredIs
      <4> QED BY <4>3 DEF gone, family, qualifier, decoder, type
    <3> HIDE DEF rest
    <3>2. versions = rest
      BY <1>1 DEF rest
    <3> QED BY <3>1, <3>2 DEF decoded
  <2>3. due = IF versions # <<>> THEN decoded ELSE Fail(WhyMissing(cells, init.family), Nowhere)
    BY <1>3, <1>5
  <2> QED BY <2>2, <2>3 DEF due
<1>6. CASE init.source # "RowKey" /\ init.mode \in {"Option", "Default"}
  <2>1. PICK found \in Optional(r, init.family, init.qualifier, init.decoder, init.type) :
          result = IF found = Absent /\ init.mode = "Default" THEN Ok(Nowhere, "default") ELSE found
    BY <1>6 DEF FieldResults
  <2>2. found = IF versions # <<>> THEN decoded ELSE Absent
    BY <1>1, OptionalIs DEF decoded
  <2>3. due = IF versions # <<>> THEN decoded
              ELSE IF init.mode = "Option" THEN Absent ELSE Ok(Nowhere, "default")
    BY <1>3, <1>6
  <2> HIDE DEF Absent
  <2> QED BY <1>4, <1>6, <2>1, <2>2, <2>3 DEF due
<1> QED BY <1>2, <1>5, <1>6 DEF Compiles

\* A value is a sequence, of whatever elements.
IsSequence(s) == Len(s) \in Nat /\ s = [i \in 1..Len(s) |-> s[i]]

\* What one more element makes of a sequence.
LEMMA OneMore ==
  ASSUME NEW s, IsSequence(s), NEW x
  PROVE  /\ IsSequence(Append(s, x)) /\ Len(Append(s, x)) = Len(s) + 1 /\ Append(s, x) # <<>>
         /\ \A i \in 1..Len(s) : Append(s, x)[i] = s[i]
         /\ Append(s, x)[Len(s) + 1] = x
         /\ Last(Append(s, x)) = x /\ Front(Append(s, x)) = s
<1> DEFINE S == {s[i] : i \in 1..Len(s)} \cup {x}
           t == Append(s, x)
<1>1. x \in S /\ \A i \in 1..Len(s) : s[i] \in S
  OBVIOUS
<1> HIDE DEF S
<1>2. s \in [1..Len(s) -> S] /\ Len(s) \in Nat
  BY <1>1 DEF IsSequence
<1>3. s \in Seq(S)
  BY <1>2, SeqDef
<1>4. /\ t \in Seq(S) /\ Len(t) = Len(s) + 1 /\ t[Len(s) + 1] = x
      /\ \A i \in 1..Len(s) : t[i] = s[i]
  BY <1>1, <1>3
<1> HIDE DEF t
<1>5. IsSequence(t)
  BY <1>4 DEF IsSequence
<1>6. t # <<>>
  <2>1. Len(t) # 0 /\ Len(<<>>) = 0
    BY <1>2, <1>4
  <2> QED BY <2>1
<1>7. Last(t) = x
  BY <1>4 DEF Last
<1>8. Front(t) = s
  <2> DEFINE u == Front(t)
             m == Len(t) - 1
  <2>1. m = Len(s) /\ m \in Nat /\ u = SubSeq(t, 1, m)
    BY <1>2, <1>4 DEF Front
  <2> HIDE DEF u, m
  <2>2. \A i \in 1..m : t[i] \in S
    BY <1>1, <1>4, <2>1
  <2>3. /\ u \in Seq(S) /\ Len(u) = (IF 1 <= m THEN m - 1 + 1 ELSE 0)
        /\ \A i \in 1..(m - 1 + 1) : u[i] = t[1 + i - 1]
    BY <2>1, <2>2, SubSeqProperties
  <2>4. Len(u) = Len(s) /\ \A i \in 1..Len(s) : u[i] = s[i]
    BY <1>4, <2>1, <2>3
  <2>5. u = s
    BY <1>3, <2>3, <2>4, SeqEqual
  <2> QED BY <2>5 DEF u
<1> QED BY <1>4, <1>5, <1>6, <1>7, <1>8 DEF t

\* What one more field makes of the outcomes of the fields before it.
Failed(results) == results # <<>> /\ Last(results).issue # "None"
WithField(outcomes, r, init) ==
  UNION {IF Failed(results) THEN {results}
         ELSE {Append(results, result) : result \in FieldResults(r, init)} : results \in outcomes}

\* The loop of from_row, as the outcomes after each field.
Running(outcomes, r, inits) ==
  outcomes = [n \in 0..Len(inits) |-> IF n = 0 THEN {<<>>} ELSE WithField(outcomes[n - 1], r, inits[n])]

\* The fields can be filled one after the other.
LEMMA RunningExists ==
  ASSUME NEW r, NEW inits, Len(inits) \in Nat
  PROVE  \E outcomes : Running(outcomes, r, inits)
<1> DEFINE start == {<<>>}
           Step(before, n) == WithField(before, r, inits[n])
           Turn(g, n) == IF n = 0 THEN start ELSE Step(g[n - 1], n)
           So(N) == \E g : g = [n \in 0..N |-> Turn(g, n)]
           Good == {N \in 0..Len(inits) : So(N)}
<1> HIDE DEF start, Step
<1>1. So(0)
  <2> DEFINE g == [n \in 0..0 |-> start]
  <2>1. g = [n \in 0..0 |-> Turn(g, n)]
    OBVIOUS
  <2> QED BY <2>1
<1>2. ASSUME NEW N \in 0..Len(inits), So(N), N < Len(inits) PROVE So(N + 1)
  <2>1. PICK g : g = [n \in 0..N |-> Turn(g, n)]
    BY <1>2
  <2> DEFINE h == [n \in 0..(N + 1) |-> IF n = N + 1 THEN Step(g[N], N + 1) ELSE g[n]]
  <2>2. \A n \in 0..(N + 1) : h[n] = Turn(h, n)
    <3>1. ASSUME NEW n \in 0..N PROVE h[n] = Turn(h, n)
      <4>1. h[n] = Turn(g, n)
        BY <2>1
      <4>2. CASE n = 0
        BY <4>1, <4>2
      <4>3. CASE n # 0
        <5>1. n - 1 \in 0..N /\ h[n - 1] = g[n - 1]
          BY <4>3
        <5> QED BY <4>1, <4>3, <5>1
      <4> QED BY <4>2, <4>3
    <3>2. h[N + 1] = Turn(h, N + 1)
      <4>1. h[N] = g[N] /\ N + 1 # 0 /\ N + 1 - 1 = N
        OBVIOUS
      <4> QED BY <4>1
    <3> QED BY <3>1, <3>2
  <2>3. h = [n \in 0..(N + 1) |-> Turn(h, n)]
    <3>1. h = [n \in 0..(N + 1) |-> h[n]]
      OBVIOUS
    <3> HIDE DEF h
    <3> QED BY <2>2, <3>1
  <2> HIDE DEF h
  <2> QED BY <2>3
<1>3. \A N \in 0..Len(inits) : N \in Good
  <2>1. 0 \in Good
    BY <1>1
  <2>2. ASSUME NEW N \in 0..Len(inits), N \in Good, N < Len(inits) PROVE N + 1 \in Good
    <3>1. So(N + 1)
      BY <1>2, <2>2
    <3>2. N + 1 \in 0..Len(inits)
      BY <2>2
    <3> HIDE DEF So
    <3> QED BY <3>1, <3>2
  <2> HIDE DEF Good
  <2> QED BY <2>1, <2>2, UpTo
<1>4. So(Len(inits))
  BY <1>3
<1> QED BY <1>4 DEF Running, start, Step

\* The results are those due to the first n fields, up to the first failure.
FilledTo(results, due, n) ==
  /\ IsSequence(results) /\ Len(results) <= n
  /\ \A i \in 1..Len(results) : results[i] = due[i]
  /\ \A i \in 1..Len(results) : i < Len(results) => results[i].issue = "None"
  /\ Len(results) < n => Failed(results)

\* One more field keeps them so.
LEMMA FilledMore ==
  ASSUME NEW due, NEW n \in Nat, NEW before, FilledTo(before, due, n), NEW r, NEW init,
         \A result \in FieldResults(r, init) : result = due[n + 1],
         NEW results \in WithField({before}, r, init)
  PROVE  FilledTo(results, due, n + 1)
<1>1. IsSequence(before) /\ Len(before) \in Nat
  BY DEF FilledTo, IsSequence
<1>2. IF Failed(before) THEN results = before
      ELSE \E result \in FieldResults(r, init) : results = Append(before, result)
  BY DEF WithField
<1>3. CASE Failed(before)
  <2>1. results = before
    BY <1>2, <1>3
  <2> QED BY <1>1, <1>3, <2>1 DEF FilledTo
<1>4. CASE ~Failed(before)
  <2>1. results = Append(before, due[n + 1])
    BY <1>2, <1>4
  <2>2. Len(before) = n
    BY <1>1, <1>4 DEF FilledTo
  <2>3. /\ IsSequence(results) /\ Len(results) = n + 1 /\ results[n + 1] = due[n + 1]
        /\ \A i \in 1..n : results[i] = before[i]
    BY <1>1, <2>1, <2>2, OneMore
  <2>4. \A i \in 1..n : before[i] = due[i]
    BY <2>2 DEF FilledTo
  <2>5. \A i \in 1..n : before[i].issue = "None"
    <3> TAKE i \in 1..n
    <3>1. CASE i < n
      BY <2>2, <3>1 DEF FilledTo
    <3>2. CASE i = n
      <4>1. before # <<>>
        <5>1. Len(<<>>) = 0 /\ n # 0
          BY <3>2
        <5> QED BY <2>2, <5>1
      <4> QED BY <1>4, <2>2, <3>2, <4>1 DEF Failed, Last
    <3> QED BY <3>1, <3>2
  <2>6. \A i \in 1..(n + 1) : i = n + 1 \/ i \in 1..n
    OBVIOUS
  <2> HIDE DEF IsSequence
  <2> QED BY <2>3, <2>4, <2>5, <2>6 DEF FilledTo
<1> QED BY <1>3, <1>4

\* from_row fills the fields in their order, up to the first that fails.
LEMMA FromRowIs ==
  ASSUME NEW r, NEW inits, Len(inits) \in Nat, NEW due,
         \A n \in 1..Len(inits) : \A result \in FieldResults(r, inits[n]) : result = due[n],
         NEW results \in FromRow(r, inits)
  PROVE  FilledTo(results, due, Len(inits))
<1> DEFINE run == CHOOSE outcomes : Running(outcomes, r, inits)
           N == Len(inits)
           Good == {n \in 0..N : \A s \in run[n] : FilledTo(s, due, n)}
<1>1. Running(run, r, inits)
  BY RunningExists
<1>2. FromRow(r, inits) = run[N]
  BY DEF FromRow, Running, WithField, Failed
<1> HIDE DEF run
<1>3. 0 \in Good
  <2> DEFINE none == <<>>
  <2>1. run[0] = {none}
    BY <1>1 DEF Running
  <2>2. Len(none) = 0 /\ none = [i \in 1..0 |-> none[i]]
    OBVIOUS
  <2> HIDE DEF none
  <2>3. IsSequence(none)
    BY <2>2 DEF IsSequence
  <2>4. FilledTo(none, due, 0)
    <3> HIDE DEF IsSequence
    <3> QED BY <2>2, <2>3 DEF FilledTo
  <2> QED BY <2>1, <2>4
<1>4. ASSUME NEW n \in 0..N, n \in Good, n < N PROVE n + 1 \in Good
  <2> DEFINE k == n + 1
             init == inits[k]
  <2>1. k \in 1..N /\ k \in 0..N /\ k # 0 /\ k - 1 = n /\ n \in Nat
    BY <1>4
  <2>2. run[k] = WithField(run[n], r, init)
    <3> HIDE DEF k
    <3> QED BY <1>1, <2>1 DEF Running
  <2>3. \A result \in FieldResults(r, init) : result = due[n + 1]
    BY <2>1
  <2>4. ASSUME NEW s \in run[k] PROVE FilledTo(s, due, n + 1)
    <3> HIDE DEF init, k
    <3>1. PICK before \in run[n] : s \in WithField({before}, r, init)
      BY <2>2 DEF WithField
    <3>2. FilledTo(before, due, n)
      BY <1>4
    <3> QED BY <2>1, <2>3, <3>1, <3>2, FilledMore
  <2> QED BY <2>1, <2>4
<1>5. N \in Good
  <2>1. N \in Nat
    OBVIOUS
  <2> HIDE DEF Good, N
  <2>2. \A n \in 0..N : n \in Good
    BY <1>3, <1>4, <2>1, UpTo
  <2> QED BY <2>1, <2>2
<1> QED BY <1>2, <1>5

-----------------------------------------------------------------------------
(* What the derive macro makes of a field.                                 *)

\* What was written, by attribute name, and the config it adds up to.
Args(w, name) == {x[1].argument : x \in {x \in w : x[1].name = name}}
ConfigOf(w) == [issue |-> "None", set |-> [name \in FieldAttributes |-> Args(w, name)]]

\* Attributes are known, well formed and written once.
WellWritten(w) ==
  /\ \A x \in w : x = <<x[1], 1>> /\ x[1].name \in FieldAttributes /\ QualifierIssue(x[1]) = "None"
  /\ \A x, y \in w : x[1].name = y[1].name => x = y

\* One of them is not.
IllWritten(w) ==
  \/ \E x \in w : x[1].name \notin FieldAttributes \/ QualifierIssue(x[1]) # "None" \/ x[2] > 1
  \/ \E x, y \in w : x[1].name = y[1].name /\ x # y

\* It is never both.
LEMMA WellOrIll ==
  ASSUME NEW w, WellWritten(w)
  PROVE  ~IllWritten(w)
<1>1. \A x \in w : x[2] = 1
  <2> TAKE x \in w
  <2>1. x = <<x[1], 1>>
    BY DEF WellWritten
  <2>2. <<x[1], 1>>[2] = 1
    OBVIOUS
  <2> QED BY <2>1, <2>2
<1>2. \A x \in w : ~(x[2] > 1)
  BY <1>1
<1> QED BY <1>2 DEF WellWritten, IllWritten

\* An attribute more: a config that is still good has exactly what was written,
\* and one that is refused was given something ill.
LEMMA ParseAttributeIs ==
  ASSUME NEW w, WellWritten(w), NEW a, NEW w2, w2 = w \cup {<<a, IF <<a, 1>> \in w THEN 2 ELSE 1>>}
  PROVE  IF ParseAttribute(ConfigOf(w), a).issue = "None"
           THEN ParseAttribute(ConfigOf(w), a) = ConfigOf(w2) /\ WellWritten(w2)
           ELSE IllWritten(w2)
<1> DEFINE c == ConfigOf(w)
           c2 == ParseAttribute(c, a)
           n == IF <<a, 1>> \in w THEN 2 ELSE 1
           x == <<a, n>>
<1>1. /\ w2 = w \cup {x} /\ x \in w2 /\ x[1] = a /\ x[2] = n
  OBVIOUS
<1>2. c.issue = "None" /\ DOMAIN c.set = FieldAttributes /\ \A name \in FieldAttributes : c.set[name] = Args(w, name)
  BY DEF ConfigOf
<1>3. \A issue : [c EXCEPT !.issue = issue].issue = issue
  BY DEF ConfigOf
<1>4. CASE a.name \notin FieldAttributes
  <2>1. c2.issue = "UnsupportedAttribute"
    BY <1>2, <1>3, <1>4 DEF ParseAttribute
  <2>2. IllWritten(w2)
    BY <1>1, <1>4 DEF IllWritten
  <2> QED BY <2>1, <2>2
<1>5. CASE a.name \in FieldAttributes /\ QualifierIssue(a) # "None"
  <2>1. c2.issue = QualifierIssue(a)
    BY <1>2, <1>3, <1>5 DEF ParseAttribute
  <2>2. IllWritten(w2)
    BY <1>1, <1>5 DEF IllWritten
  <2> QED BY <1>5, <2>1, <2>2
<1>6. CASE a.name \in FieldAttributes /\ QualifierIssue(a) = "None" /\ Args(w, a.name) # {}
  <2>1. c2.issue = "DuplicateAttribute"
    BY <1>2, <1>3, <1>6 DEF ParseAttribute, SetOnce
  <2>2. PICK y \in w : y[1].name = a.name
    BY <1>6 DEF Args
  <2>3. y = <<y[1], 1>> /\ y \in w2
    BY <1>1 DEF WellWritten
  <2>4. CASE <<a, 1>> \in w
    <3>1. x[2] > 1
      BY <1>1, <2>4
    <3> HIDE DEF x
    <3> QED BY <1>1, <2>1, <3>1 DEF IllWritten
  <2>5. CASE <<a, 1>> \notin w
    <3>1. x = <<a, 1>> /\ y # x
      BY <2>5
    <3> HIDE DEF x
    <3> QED BY <1>1, <2>1, <2>2, <2>3, <3>1 DEF IllWritten
  <2> QED BY <2>4, <2>5
<1>7. CASE a.name \in FieldAttributes /\ QualifierIssue(a) = "None" /\ Args(w, a.name) = {}
  <2>1. \A y \in w : y[1].name # a.name
    BY <1>7 DEF Args
  <2>2. x = <<a, 1>>
    <3>1. <<a, 1>>[1] = a
      OBVIOUS
    <3> QED BY <2>1, <3>1
  <2>3. c2 = [c EXCEPT !.set[a.name] = {a.argument}]
    BY <1>2, <1>7 DEF ParseAttribute, SetOnce
  <2>4. c2 = [issue |-> "None", set |-> [name \in FieldAttributes |->
                                         IF name = a.name THEN {a.argument} ELSE Args(w, name)]]
    BY <1>7, <2>3 DEF ConfigOf
  <2> HIDE DEF x, n
  <2>5. \A name \in FieldAttributes : Args(w2, name) = IF name = a.name THEN {a.argument} ELSE Args(w, name)
    BY <1>1, <2>1 DEF Args
  <2>6. c2 = ConfigOf(w2)
    BY <2>4, <2>5 DEF ConfigOf
  <2>7. WellWritten(w2)
    BY <1>1, <1>7, <2>1, <2>2 DEF WellWritten
  <2>8. c2.issue = "None"
    BY <2>4
  <2> QED BY <2>6, <2>7, <2>8
<1> QED BY <1>4, <1>5, <1>6, <1>7

\* Attributes that contradict each other, the field's type or its struct's.
Clashing(w, option, families) ==
  \/ Args(w, "row_key") # {} /\ (Args(w, "family") # {} \/ Args(w, "qualifier") # {} \/ Args(w, "default") # {} \/ option)
  \/ Args(w, "row_key") = {} /\ Args(w, "family") = {} /\ families = {}
  \/ option /\ Args(w, "default") # {}

\* The initializer reads the place its attributes name.
Placed(init, w, name, option, families) ==
  IF Args(w, "row_key") # {} THEN init.source = "RowKey"
  ELSE /\ init.source = "Column"
       /\ {init.family} = IF Args(w, "family") # {} THEN Args(w, "family") ELSE families
       /\ {init.qualifier} = IF Args(w, "qualifier") # {} THEN Args(w, "qualifier") ELSE {name}
       /\ init.mode = "Default" <=> Args(w, "default") # {}
       /\ init.mode = "Option" <=> option

\* A set of at most one element is that element's singleton.
LEMMA ChosenOf ==
  ASSUME NEW S, S # {}, \A x, y \in S : x = y
  PROVE  {CHOOSE x \in S : TRUE} = S
  OBVIOUS

\* What is written once has at most one argument.
LEMMA OneArgument ==
  ASSUME NEW w, WellWritten(w), NEW name
  PROVE  \A x, y \in Args(w, name) : x = y
<1>1. \A x, y \in w : x[1].name = name /\ y[1].name = name => x = y
  BY DEF WellWritten
<1> QED BY <1>1 DEF Args

\* field_initializer refuses exactly the attributes that clash, and makes of
\* others an initializer of the place they name.
LEMMA FieldInitializerIs ==
  ASSUME NEW w, WellWritten(w), NEW st, \A x, y \in st.set["family"] : x = y,
         NEW name, NEW option \in BOOLEAN, NEW type
  PROVE  LET e == FieldInitializer(name, ConfigOf(w), option, type, st)
         IN  /\ e.issue # "None" <=> Clashing(w, option, st.set["family"])
             /\ e.issue = "None" =>
                  \E init : e.init = {init} /\ Compiles(init) /\ Placed(init, w, name, option, st.set["family"])
<1> DEFINE c == ConfigOf(w)
           e == FieldInitializer(name, c, option, type, st)
           W(n) == Args(w, n) # {}
           given == st.set["family"]
           families == IF W("family") THEN Args(w, "family") ELSE given
           qualifiers == IF W("qualifier") THEN Args(w, "qualifier") ELSE {name}
           keyIssue == ValidateRowKeyConfig(c, option)
<1>1. \A n \in FieldAttributes : c.set[n] = Args(w, n) /\ (Has(c, n) <=> W(n))
  BY DEF ConfigOf, Has
<1>2. /\ "row_key" \in FieldAttributes /\ "family" \in FieldAttributes /\ "qualifier" \in FieldAttributes
      /\ "default" \in FieldAttributes
  BY DEF FieldAttributes
<1>3. FamilyOf(c, st) = families
  BY <1>1, <1>2 DEF FamilyOf
<1>4. keyIssue # "None" <=> W("family") \/ W("qualifier") \/ option \/ W("default")
  BY <1>1, <1>2 DEF ValidateRowKeyConfig
<1>5. (IF Has(c, "qualifier") THEN c.set["qualifier"] ELSE {name}) = qualifiers
  BY <1>1, <1>2
<1> DEFINE init == IF W("row_key") THEN Initializer("RowKey", "none", NoArgument, c, type, "Required")
                   ELSE Initializer("Column", CHOOSE f \in families : TRUE, CHOOSE q \in qualifiers : TRUE,
                                    c, type, Mode(c, option))
<1>6. e = IF W("row_key")
            THEN IF keyIssue # "None" THEN Refused(keyIssue) ELSE Filled(init)
          ELSE IF families = {} THEN Refused("MissingFamily")
          ELSE IF option /\ W("default") THEN Refused("DefaultOption")
          ELSE Filled(init)
  <2> DEFINE Made(F, Q) == Initializer("Column", CHOOSE f \in F : TRUE, CHOOSE q \in Q : TRUE,
                                       c, type, Mode(c, option))
             F0 == FamilyOf(c, st)
             Q0 == IF Has(c, "qualifier") THEN c.set["qualifier"] ELSE {name}
             key == Initializer("RowKey", "none", NoArgument, c, type, "Required")
  <2>1. e = IF Has(c, "row_key")
              THEN IF keyIssue # "None" THEN Refused(keyIssue) ELSE Filled(key)
            ELSE IF F0 = {} THEN Refused("MissingFamily")
            ELSE IF option /\ Has(c, "default") THEN Refused("DefaultOption")
            ELSE Filled(Made(F0, Q0))
    BY DEF FieldInitializer
  <2>2. (Has(c, "row_key") <=> W("row_key")) /\ (Has(c, "default") <=> W("default"))
    BY <1>1, <1>2
  <2>3. F0 = families /\ Q0 = qualifiers
    BY <1>3, <1>5
  <2>4. init = IF W("row_key") THEN key ELSE Made(families, qualifiers)
    OBVIOUS
  <2> HIDE DEF c, e, W, F0, Q0, key, Made, init, keyIssue, families, qualifiers
  <2>5. Made(F0, Q0) = Made(families, qualifiers)
    BY <2>3
  <2> QED BY <2>1, <2>2, <2>3, <2>4, <2>5
<1> HIDE DEF e, init, keyIssue
<1>7. e.issue # "None" <=> Clashing(w, option, given)
  <2>1. /\ \A i : Refused(i).issue = i /\ Filled(i).issue = "None"
    BY DEF Refused, Filled
  <2> QED BY <1>4, <1>6, <2>1 DEF Clashing
<1>8. ASSUME e.issue = "None" PROVE e.init = {init} /\ Compiles(init) /\ Placed(init, w, name, option, given)
  <2>1. /\ \A i : Refused(i).issue = i /\ Filled(i).init = {i}
    BY DEF Refused, Filled
  <2>2. e.init = {init}
    BY <1>6, <1>8, <2>1
  <2>3. CASE W("row_key")
    <3>1. init.source = "RowKey" /\ init.mode = "Required"
      BY <2>3 DEF init, Initializer
    <3> QED BY <2>2, <2>3, <3>1 DEF Compiles, Placed
  <2>4. CASE ~W("row_key")
    <3>1. families # {} /\ ~(option /\ W("default"))
      BY <1>6, <1>8, <2>1, <2>4
    <3>2. /\ init.source = "Column" /\ init.mode = Mode(c, option)
          /\ init.family = (CHOOSE f \in families : TRUE) /\ init.qualifier = (CHOOSE q \in qualifiers : TRUE)
      BY <2>4 DEF init, Initializer
    <3>3. Mode(c, option) = IF option THEN "Option" ELSE IF W("default") THEN "Default" ELSE "Required"
      BY <1>1, <1>2 DEF Mode
    <3>4. (\A x, y \in families : x = y) /\ (\A x, y \in qualifiers : x = y) /\ qualifiers # {}
      BY OneArgument
    <3>5. {init.family} = families
      <4> HIDE DEF families
      <4> QED BY <3>1, <3>2, <3>4, ChosenOf
    <3>6. {init.qualifier} = qualifiers
      <4> HIDE DEF qualifiers
      <4> QED BY <3>2, <3>4, ChosenOf
    <3> QED BY <2>2, <2>4, <3>1, <3>2, <3>3, <3>5, <3>6 DEF Compiles, Placed
  <2> QED BY <2>3, <2>4
<1> QED BY <1>7, <1>8 DEF e

-----------------------------------------------------------------------------
(* The invariant.                                                          *)

\* A config with nothing written on it.
LEMMA EmptyConfigIs == EmptyConfig(FieldAttributes) = ConfigOf({}) /\ WellWritten({})
<1>1. \A name \in FieldAttributes : Args({}, name) = {}
  BY DEF Args
<1>2. EmptyConfig(FieldAttributes) = ConfigOf({})
  BY <1>1 DEF EmptyConfig, ConfigOf
<1>3. WellWritten({})
  BY DEF WellWritten
<1> QED BY <1>2, <1>3

\* The cells of a row are a sequence of cells.
LEMMA SentCellsTyped ==
  ASSUME NEW cells \in SentCells
  PROVE  cells \in Seq(SentCell)
<1> DEFINE Unstamped(n) == [1..n -> [family : Families, qualifier : Qualifiers, value : Values]]
<1>a. PICK raw \in UNION {Unstamped(n) : n \in 1..MaxCells} :
        cells = [i \in DOMAIN raw |-> [family |-> raw[i].family, qualifier |-> raw[i].qualifier,
                                       meta |-> MaxCells - i + 1, value |-> raw[i].value]]
  BY DEF SentCells
<1>b. PICK n \in 1..MaxCells : raw \in Unstamped(n)
  <2> HIDE DEF Unstamped
  <2> QED BY <1>a
<1>1. DOMAIN raw = 1..n
  BY <1>b
<1>2. n \in Nat /\ MaxCells \in Nat /\ n <= MaxCells
  BY BoundsAssumption
<1>3. ASSUME NEW i \in 1..n
      PROVE  [family |-> raw[i].family, qualifier |-> raw[i].qualifier,
              meta |-> MaxCells - i + 1, value |-> raw[i].value] \in SentCell
  <2> DEFINE meta == MaxCells - i + 1
  <2>1. meta \in Nat
    BY <1>2
  <2>2. raw[i] \in [family : Families, qualifier : Qualifiers, value : Values]
    BY <1>b
  <2> HIDE DEF meta
  <2>3. [family |-> raw[i].family, qualifier |-> raw[i].qualifier, meta |-> meta, value |-> raw[i].value] \in SentCell
    BY <2>1, <2>2 DEF SentCell
  <2> QED BY <2>3 DEF meta
<1> HIDE DEF SentCell
<1>4. cells \in [1..n -> SentCell]
  BY <1>a, <1>1, <1>3
<1> QED BY <1>2, <1>4, SeqDef

\* Emptying a column leaves the row with what is not emptied.
LEMMA HoldsEmptied ==
  ASSUME NEW r, r = [key |-> r.key, families |-> r.families], NEW cells, NEW gone, Holds(r, cells, gone),
         NEW f \in DOMAIN r.families, NEW c \in DOMAIN r.families[f].columns,
         NEW r2, r2 = [r EXCEPT !.families[f].columns[c].cells = <<>>]
  PROVE  /\ Holds(r2, cells, gone \cup {<<r.families[f].name, r.families[f].columns[c].qualifier>>})
         /\ r2 = [key |-> r2.key, families |-> r2.families]
<1> DEFINE families == r.families
           name == families[f].name
           columns == families[f].columns
           q == columns[c].qualifier
           none == <<>>
           column == [columns[c] EXCEPT !.cells = none]
           family == [families[f] EXCEPT !.columns = [columns EXCEPT ![c] = column]]
           after == [families EXCEPT ![f] = family]
           gone2 == gone \cup {<<name, q>>}
<1>1. r2 = [r EXCEPT !.families = after]
  OBVIOUS
<1>2. r2 = [key |-> r.key, families |-> after]
  <2> HIDE DEF after
  <2> QED BY <1>1
<1>3. families \in Seq(KeptFamily) /\ RowHas(families, cells, gone)
  BY DEF Holds
<1>4. /\ families[f] = [name |-> name, columns |-> columns] /\ name \in Families /\ columns \in Seq(KeptColumn)
  <2>1. families[f] \in KeptFamily
    BY <1>3
  <2> QED BY <2>1 DEF KeptFamily
<1>5. columns[c] = [qualifier |-> q, cells |-> columns[c].cells] /\ q \in Qualifiers
  <2>1. columns[c] \in KeptColumn
    BY <1>4
  <2> QED BY <2>1 DEF KeptColumn
<1>6. none \in Seq(KeptCell)
  OBVIOUS
<1> HIDE DEF none
<1>7. column = [qualifier |-> q, cells |-> none]
  BY <1>5
<1>8. column \in KeptColumn /\ column.qualifier = q /\ column.cells = none
  BY <1>5, <1>6, <1>7 DEF KeptColumn
<1> DEFINE columns2 == [columns EXCEPT ![c] = column]
<1> HIDE DEF column, KeptColumn
<1>9. /\ columns2 \in Seq(KeptColumn) /\ DOMAIN columns2 = DOMAIN columns /\ columns2[c] = column
      /\ \A d \in DOMAIN columns : d # c => columns2[d] = columns[d]
  BY <1>4, <1>8
<1>10. family = [name |-> name, columns |-> columns2]
  <2> HIDE DEF columns2
  <2>1. family = [families[f] EXCEPT !.columns = columns2]
    BY DEF columns2
  <2> QED BY <1>4, <2>1
<1> HIDE DEF columns2
<1>11. family \in KeptFamily /\ family.name = name /\ family.columns = columns2
  BY <1>4, <1>9, <1>10 DEF KeptFamily
<1> HIDE DEF family, KeptFamily
<1>12. /\ after \in Seq(KeptFamily) /\ DOMAIN after = DOMAIN families /\ after[f] = family
       /\ \A i \in DOMAIN families : i # f => after[i] = families[i]
  BY <1>3, <1>11
<1> HIDE DEF after
<1>13. /\ \A i, k \in DOMAIN families : families[i].name = families[k].name => i = k
       /\ \A i \in DOMAIN families :
            /\ ColumnsHave(families[i].columns, cells, gone, families[i].name)
            /\ \E j \in DOMAIN cells : cells[j].family = families[i].name
       /\ \A j \in DOMAIN cells : \E i \in DOMAIN families : families[i].name = cells[j].family
  BY <1>3 DEF RowHas
<1>14. \A i \in DOMAIN families : after[i].name = families[i].name
  BY <1>11, <1>12
<1>15. ASSUME NEW i \in DOMAIN families, i # f
       PROVE  ColumnsHave(after[i].columns, cells, gone2, after[i].name)
  <2> DEFINE other == families[i].name
  <2>1. after[i] = families[i] /\ ColumnsHave(families[i].columns, cells, gone, other) /\ other # name
    BY <1>12, <1>13, <1>15
  <2>2. \A p : <<other, p>> \in gone2 <=> <<other, p>> \in gone
    BY <2>1
  <2>3. \A p : Left(cells, gone2, other, p) = Left(cells, gone, other, p)
    <3> HIDE DEF gone2
    <3> QED BY <2>2 DEF Left
  <2> HIDE DEF gone2
  <2> QED BY <2>1, <2>2, <2>3 DEF ColumnsHave
<1>16. ColumnsHave(columns2, cells, gone2, name)
  <2>1. ColumnsHave(columns, cells, gone, name)
    BY <1>13
  <2>2. /\ <<name, q>> \in gone2
        /\ \A p : p # q => (<<name, p>> \in gone2 <=> <<name, p>> \in gone)
    OBVIOUS
  <2> HIDE DEF gone2
  <2>3. /\ Left(cells, gone2, name, q) = none
        /\ \A p : p # q => Left(cells, gone2, name, p) = Left(cells, gone, name, p)
    BY <2>2 DEF Left, none
  <2>4. \A d \in DOMAIN columns : d # c => columns[d].qualifier # q
    BY <2>1 DEF ColumnsHave
  <2>5. \A d \in DOMAIN columns : columns2[d].qualifier = columns[d].qualifier
    BY <1>8, <1>9
  <2>6. \A d, e \in DOMAIN columns2 : columns2[d].qualifier = columns2[e].qualifier => d = e
    BY <1>9, <2>1, <2>5 DEF ColumnsHave
  <2>7. ASSUME NEW d \in DOMAIN columns2
        PROVE  /\ columns2[d].cells = Left(cells, gone2, name, columns2[d].qualifier)
               /\ <<name, columns2[d].qualifier>> \notin gone2 => columns2[d].cells # <<>>
    <3>1. CASE d = c
      BY <1>8, <1>9, <2>2, <2>3, <3>1
    <3>2. CASE d # c
      <4> DEFINE p == columns[d].qualifier
      <4>1. columns2[d] = columns[d] /\ p # q /\ d \in DOMAIN columns
        BY <1>9, <2>4, <3>2
      <4>2. columns[d].cells = Left(cells, gone, name, p) /\ (<<name, p>> \notin gone => columns[d].cells # <<>>)
        BY <2>1, <4>1 DEF ColumnsHave
      <4> QED BY <2>2, <2>3, <4>1, <4>2
    <3> QED BY <3>1, <3>2
  <2>8. \A j \in DOMAIN cells : cells[j].family = name => \E d \in DOMAIN columns2 : columns2[d].qualifier = cells[j].qualifier
    BY <1>9, <2>1, <2>5 DEF ColumnsHave
  <2> HIDE DEF name, columns
  <2> QED BY <2>6, <2>7, <2>8 DEF ColumnsHave
<1>17. \A i \in DOMAIN after : ColumnsHave(after[i].columns, cells, gone2, after[i].name)
  <2> TAKE i \in DOMAIN after
  <2>1. CASE i = f
    BY <1>11, <1>12, <1>16, <2>1
  <2>2. CASE i # f
    BY <1>12, <1>15, <2>2
  <2> QED BY <2>1, <2>2
<1> HIDE DEF gone2
<1>18. RowHas(after, cells, gone2)
  BY <1>12, <1>13, <1>14, <1>17 DEF RowHas
<1>19. Holds(r2, cells, gone2)
  <2>1. r2.families = after
    BY <1>2
  <2>2. cells \in Seq(SentCell) /\ after \in Seq(KeptFamily)
    BY <1>12 DEF Holds
  <2> HIDE DEF SentCell
  <2> QED BY <1>18, <2>1, <2>2 DEF Holds
<1>20. r2 = [key |-> r2.key, families |-> r2.families]
  BY <1>2
<1> QED BY <1>19, <1>20 DEF gone2

\* What the macro has made so far, and what the caller has in hands.
CompileInv ==
  /\ IsSequence(plan) /\ \A i \in 1..Len(plan) : Compiles(plan[i])
  /\ struct = [issue |-> struct.issue, set |-> [name \in StructAttributes |-> struct.set[name]]]
  /\ \A x, y \in struct.set["family"] : x = y
  /\ field = [written |-> field.written, option |-> field.option, type |-> field.type, name |-> field.name]
  /\ pc \in {"Struct", "Fields"} => WellWritten(written) /\ config = ConfigOf(written)
  /\ pc \notin {"Fields", "Refused"} => field = NoField
RowInv ==
  /\ item # <<>> => pc = "Reading"
  /\ pc # "Manual" => answer = NoAnswer /\ emptied = {}
  /\ pc = "Manual" => Holds(row, sent, emptied) /\ row = [key |-> row.key, families |-> row.families]

\* Nothing is written or received at the start.
LEMMA InvInit == Init => CompileInv /\ RowInv
<1> SUFFICES ASSUME Init PROVE CompileInv /\ RowInv
  OBVIOUS
<1> USE DEF Init
<1>1. RowInv
  BY DEF RowInv
<1>2. CompileInv
  <2>1. IsSequence(plan) /\ Len(plan) = 0
    <3> DEFINE none == <<>>
    <3>1. Len(none) = 0 /\ none = [i \in 1..0 |-> none[i]]
      OBVIOUS
    <3> HIDE DEF none
    <3>2. IsSequence(none)
      BY <3>1 DEF IsSequence
    <3> QED BY <3>1, <3>2 DEF none
  <2>2. /\ struct = [issue |-> struct.issue, set |-> [name \in StructAttributes |-> struct.set[name]]]
        /\ \A x, y \in struct.set["family"] : x = y
    BY DEF EmptyConfig, StructAttributes
  <2>3. field = [written |-> field.written, option |-> field.option, type |-> field.type, name |-> field.name]
    BY DEF NoField
  <2>4. WellWritten(written) /\ config = ConfigOf(written)
    BY EmptyConfigIs
  <2>5. field = NoField
    OBVIOUS
  <2>6. \A i \in 1..Len(plan) : Compiles(plan[i])
    BY <2>1
  <2> HIDE DEF Init
  <2> QED BY <2>1, <2>2, <2>3, <2>4, <2>5, <2>6 DEF CompileInv
<1> QED BY <1>1, <1>2

\* Every step keeps the rows where the state says.
LEMMA RowInvStep == RowInv /\ [Next]_vars => RowInv'
<1> SUFFICES ASSUME RowInv, [Next]_vars PROVE RowInv'
  OBVIOUS
<1> USE DEF RowInv
<1>1. ASSUME NEW attribute \in StructChoices, StructAttribute(attribute) PROVE RowInv'
  BY <1>1 DEF StructAttribute, UnchangedRows, Refuse
<1>2. ASSUME NEW data \in {"NamedStruct", "UnnamedStruct", "Enum", "Union"}, Shape(data) PROVE RowInv'
  BY <1>2 DEF Shape, UnchangedRows, Refuse
<1>3. ASSUME NEW attribute \in AttributeChoices, FieldAttribute(attribute) PROVE RowInv'
  BY <1>3 DEF FieldAttribute, UnchangedRows, Refuse
<1>4. ASSUME NEW isOption \in BOOLEAN, NEW type \in Types, EndField(isOption, type) PROVE RowInv'
  <2>1. pc = "Fields" /\ pc' \in {"Fields", "Refused"} /\ UnchangedRows
    BY <1>4 DEF EndField, Refuse
  <2> QED BY <2>1 DEF UnchangedRows
<1>5. CASE Compiled
  BY <1>5 DEF Compiled, UnchangedRows
<1>6. ASSUME NEW key \in KeyValues, NEW cells \in SentCells, NextRow(key, cells) PROVE RowInv'
  BY <1>6 DEF NextRow, UnchangedType
<1>7. ASSUME NEW key \in KeyValues, NEW cells \in SentCells, TakeRow(key, cells) PROVE RowInv'
  <2>1. /\ pc = "Struct" /\ pc' = "Manual" /\ row' = RowOf(key, cells) /\ sent' = cells
        /\ emptied' = emptied /\ item' = item
    BY <1>7 DEF TakeRow
  <2>2. cells \in Seq(SentCell)
    BY SentCellsTyped
  <2>3. PICK families \in Seq(KeptFamily) :
          RowOf(key, cells) = [key |-> key, families |-> families] /\ RowHas(families, cells, {})
    BY <2>2, RowIsSent
  <2>4. Holds(row', sent', {}) /\ row' = [key |-> row'.key, families |-> row'.families]
    BY <2>1, <2>2, <2>3 DEF Holds
  <2>5. emptied' = {} /\ item' = <<>>
    BY <2>1
  <2> QED BY <2>1, <2>4, <2>5
<1>8. CASE TakeItem
  BY <1>8 DEF TakeItem, UnchangedType
<1>9. ASSUME NEW status \in {"Failed", "Complete"}, NextEnds(status) PROVE RowInv'
  BY <1>9 DEF NextEnds, UnchangedRows
<1>10. ASSUME NEW f \in 1..MaxCells, NEW c \in 1..MaxCells, EmptyColumn(f, c) PROVE RowInv'
  <2>1. /\ pc = "Manual" /\ pc' = "Manual" /\ sent' = sent /\ item' = item
        /\ f \in DOMAIN row.families /\ c \in DOMAIN row.families[f].columns
        /\ row' = [row EXCEPT !.families[f].columns[c].cells = <<>>]
        /\ emptied' = emptied \cup {<<row.families[f].name, row.families[f].columns[c].qualifier>>}
    BY <1>10 DEF EmptyColumn
  <2>2. Holds(row, sent, emptied) /\ row = [key |-> row.key, families |-> row.families]
    BY <2>1
  <2>3. Holds(row', sent, emptied') /\ row' = [key |-> row'.key, families |-> row'.families]
    BY <2>1, <2>2, HoldsEmptied
  <2> QED BY <2>1, <2>3
<1>11. ASSUME NEW call \in {"required", "optional", "versions", "cells", "latest_cell"},
              NEW family \in Families, NEW qualifier \in Qualifiers, NEW type \in Types,
              Call(call, family, qualifier, type)
       PROVE  RowInv'
  <2>1. pc = "Manual" /\ UNCHANGED <<pc, row, sent, emptied, item>>
    BY <1>11 DEF Call, UnchangedType
  <2> QED BY <2>1
<1>12. CASE UNCHANGED vars
  BY <1>12 DEF vars
<1> HIDE DEF RowInv
<1> QED BY <1>1, <1>2, <1>3, <1>4, <1>5, <1>6, <1>7, <1>8, <1>9, <1>10, <1>11, <1>12 DEF Next

\* What stands against a field: its attributes, or an earlier field's.
Troubled(w, option, families, others) ==
  \/ Args(w, "json") # {} /\ Args(w, "with") # {}
  \/ Args(w, "row_key") # {} /\ \E i \in DOMAIN others : others[i].source = "RowKey"
  \/ Clashing(w, option, families)

\* Of three issues the first that is one fails.
LEMMA FirstOfThree ==
  ASSUME NEW i1, NEW i2, NEW i3
  PROVE  SelectInSeq(<<i1, i2, i3>>, LAMBDA issue : issue # "None") # 0
           <=> i1 # "None" \/ i2 # "None" \/ i3 # "None"
<1> DEFINE s == <<i1, i2, i3>>
           I == {i \in 1..Len(s) : s[i] # "None"}
<1>1. SelectInSeq(s, LAMBDA issue : issue # "None") = IF I # {} THEN Min(I) ELSE 0
  BY DEF SelectInSeq
<1>2. Len(s) = 3 /\ s[1] = i1 /\ s[2] = i2 /\ s[3] = i3
  OBVIOUS
<1> HIDE DEF s
<1>3. I # {} <=> i1 # "None" \/ i2 # "None" \/ i3 # "None"
  <2>1. \A i \in 1..3 : i = 1 \/ i = 2 \/ i = 3
    OBVIOUS
  <2> QED BY <1>2, <2>1
<1>4. I # {} => Min(I) # 0
  <2>1. I \in SUBSET Nat /\ 0 \notin I
    OBVIOUS
  <2> HIDE DEF I
  <2>2. I # {} => Min(I) \in I
    BY <2>1, MinIsLeast
  <2> QED BY <2>1, <2>2
<1> HIDE DEF I
<1> QED BY <1>1, <1>3, <1>4 DEF s

\* The end of a field: it is refused for its trouble alone, or has its initializer.
LEMMA EndFieldIs ==
  ASSUME CompileInv, NEW isOption \in BOOLEAN, NEW type, EndField(isOption, type)
  PROVE  /\ pc = "Fields" /\ WellWritten(written)
         /\ field' = [written |-> written, option |-> isOption, type |-> type, name |-> Names[Len(plan) + 1]]
         /\ struct' = struct /\ config' = ConfigOf(written') /\ WellWritten(written')
         /\ \/ /\ pc' = "Refused" /\ plan' = plan
               /\ Troubled(written, isOption, struct.set["family"], plan)
            \/ /\ pc' = "Fields" /\ ~Troubled(written, isOption, struct.set["family"], plan)
               /\ \E init : /\ plan' = Append(plan, init) /\ Compiles(init)
                            /\ Placed(init, written, Names[Len(plan) + 1], isOption, struct.set["family"])
<1> DEFINE name == Names[Len(plan) + 1]
           families == struct.set["family"]
           e == FieldInitializer(name, config, isOption, type, struct)
           i1 == ConflictIssue(config)
           i2 == IF DuplicateRowKey(config) THEN "DuplicateRowKey" ELSE "None"
           i3 == e.issue
           failing == SelectInSeq(<<i1, i2, i3>>, LAMBDA issue : issue # "None")
<1>1. /\ pc = "Fields" /\ struct' = struct
      /\ field' = [written |-> written, option |-> isOption, type |-> type, name |-> name]
      /\ config' = EmptyConfig(FieldAttributes) /\ written' = {}
      /\ IF failing # 0 THEN pc' = "Refused" /\ plan' = plan
         ELSE plan' = Append(plan, CHOOSE init \in e.init : TRUE) /\ pc' = pc
  BY DEF EndField, Refuse
<1>2. WellWritten(written) /\ config = ConfigOf(written) /\ \A x, y \in families : x = y
  BY <1>1 DEF CompileInv
<1>3. /\ e.issue # "None" <=> Clashing(written, isOption, families)
      /\ e.issue = "None" =>
           \E init : e.init = {init} /\ Compiles(init) /\ Placed(init, written, name, isOption, families)
  <2> HIDE DEF name
  <2> QED BY <1>2, FieldInitializerIs
<1>4. \A n \in FieldAttributes : Has(config, n) <=> Args(written, n) # {}
  BY <1>2 DEF ConfigOf, Has
<1>5. "json" \in FieldAttributes /\ "with" \in FieldAttributes /\ "row_key" \in FieldAttributes
  BY DEF FieldAttributes
<1>6. i1 # "None" <=> Args(written, "json") # {} /\ Args(written, "with") # {}
  BY <1>4, <1>5 DEF ConflictIssue
<1>7. i2 # "None" <=> Args(written, "row_key") # {} /\ \E i \in DOMAIN plan : plan[i].source = "RowKey"
  BY <1>4, <1>5 DEF DuplicateRowKey
<1>8. failing # 0 <=> i1 # "None" \/ i2 # "None" \/ i3 # "None"
  <2> HIDE DEF i1, i2, i3
  <2> QED BY FirstOfThree
<1>9. failing # 0 <=> Troubled(written, isOption, families, plan)
  <2> HIDE DEF failing, i1, i2, e
  <2> QED BY <1>3, <1>6, <1>7, <1>8 DEF Troubled
<1>10. config' = ConfigOf(written') /\ WellWritten(written')
  BY <1>1, EmptyConfigIs
<1>11. CASE failing # 0
  <2> HIDE DEF failing
  <2> QED BY <1>1, <1>2, <1>9, <1>10, <1>11
<1>12. CASE failing = 0
  <2>1. e.issue = "None"
    <3> HIDE DEF failing, e
    <3> QED BY <1>8, <1>12
  <2>2. PICK init : e.init = {init} /\ Compiles(init) /\ Placed(init, written, name, isOption, families)
    BY <1>3, <2>1
  <2>3. (CHOOSE i \in e.init : TRUE) = init
    <3> HIDE DEF e
    <3> QED BY <2>2
  <2> HIDE DEF failing, e
  <2>4. plan' = Append(plan, init) /\ pc' = "Fields"
    BY <1>1, <1>12, <2>3
  <2> QED BY <1>1, <1>2, <1>9, <1>10, <1>12, <2>2, <2>4
<1> QED BY <1>11, <1>12

\* A struct's attribute more: its family stays one at most.
LEMMA StructAttributeIs ==
  ASSUME NEW c, c = [issue |-> c.issue, set |-> [name \in StructAttributes |-> c.set[name]]],
         \A x, y \in c.set["family"] : x = y, NEW a, NEW c2, c2 = ParseAttribute(c, a)
  PROVE  /\ c2 = [issue |-> c2.issue, set |-> [name \in StructAttributes |-> c2.set[name]]]
         /\ \A x, y \in c2.set["family"] : x = y
<1>1. DOMAIN c.set = StructAttributes
  <2>1. c.set = [name \in StructAttributes |-> c.set[name]]
    OBVIOUS
  <2> QED BY <2>1
<1>2. ASSUME NEW issue, c2 = [c EXCEPT !.issue = issue]
      PROVE  /\ c2 = [issue |-> c2.issue, set |-> [name \in StructAttributes |-> c2.set[name]]]
             /\ \A x, y \in c2.set["family"] : x = y
  <2>1. c2 = [issue |-> issue, set |-> c.set]
    BY <1>2
  <2>2. c2.issue = issue /\ c2.set = c.set
    BY <2>1
  <2> QED BY <2>1, <2>2
<1>3. ASSUME a.name \in StructAttributes, c2 = [c EXCEPT !.set[a.name] = {a.argument}]
      PROVE  /\ c2 = [issue |-> c2.issue, set |-> [name \in StructAttributes |-> c2.set[name]]]
             /\ \A x, y \in c2.set["family"] : x = y
  <2>1. a.name = "family" /\ StructAttributes = {"family"}
    BY <1>3 DEF StructAttributes
  <2> DEFINE new == [c.set EXCEPT ![a.name] = {a.argument}]
  <2>2. c2 = [issue |-> c.issue, set |-> new]
    BY <1>3
  <2>3. new = [name \in StructAttributes |-> new[name]] /\ new["family"] = {a.argument}
    BY <1>1, <2>1
  <2> HIDE DEF new
  <2>4. c2.set = new /\ c2.issue = c.issue
    BY <2>2
  <2> QED BY <2>2, <2>3, <2>4
<1>4. \/ \E issue : c2 = [c EXCEPT !.issue = issue]
      \/ a.name \in StructAttributes /\ c2 = [c EXCEPT !.set[a.name] = {a.argument}]
  BY <1>1 DEF ParseAttribute, SetOnce
<1> QED BY <1>2, <1>3, <1>4

\* An attribute more on a field: the compiler's view of it, or a refusal.
LEMMA FieldAttributeIs ==
  ASSUME CompileInv, NEW attribute, FieldAttribute(attribute)
  PROVE  /\ pc = "Fields" /\ UNCHANGED <<struct, plan>>
         /\ \/ UNCHANGED <<pc, field>> /\ config' = ConfigOf(written') /\ WellWritten(written')
            \/ /\ pc' = "Refused" /\ IllWritten(field'.written)
               /\ field' = [written |-> field'.written, option |-> field'.option,
                            type |-> field'.type, name |-> field'.name]
<1>1. /\ pc = "Fields" /\ UNCHANGED <<struct, plan>> /\ config' = ParseAttribute(config, attribute)
      /\ written' = written \cup {<<attribute, IF <<attribute, 1>> \in written THEN 2 ELSE 1>>}
      /\ IF config'.issue # "None" THEN pc' = "Refused" /\ field' = [field EXCEPT !.written = written']
         ELSE UNCHANGED <<pc, field>>
  BY DEF FieldAttribute, Refuse
<1>2. WellWritten(written) /\ config = ConfigOf(written)
  BY <1>1 DEF CompileInv
<1>3. IF config'.issue = "None" THEN config' = ConfigOf(written') /\ WellWritten(written')
      ELSE IllWritten(written')
  BY <1>1, <1>2, ParseAttributeIs
<1>4. CASE config'.issue = "None"
  BY <1>1, <1>3, <1>4
<1>5. CASE config'.issue # "None"
  <2>1. field = [written |-> field.written, option |-> field.option, type |-> field.type, name |-> field.name]
    BY DEF CompileInv
  <2>2. field' = [field EXCEPT !.written = written']
    BY <1>1, <1>5
  <2>3. field' = [written |-> written', option |-> field.option, type |-> field.type, name |-> field.name]
    BY <2>1, <2>2
  <2>4. /\ field'.written = written'
        /\ field' = [written |-> field'.written, option |-> field'.option,
                     type |-> field'.type, name |-> field'.name]
    BY <2>3
  <2> QED BY <1>1, <1>3, <1>5, <2>4
<1> QED BY <1>4, <1>5

\* Every step keeps what the macro has made.
LEMMA CompileInvStep == CompileInv /\ [Next]_vars => CompileInv'
<1> SUFFICES ASSUME CompileInv, [Next]_vars PROVE CompileInv'
  OBVIOUS
<1>0. ASSUME UNCHANGED <<struct, plan, field, config, written>>,
             pc' \in {"Struct", "Fields"} => pc \in {"Struct", "Fields"},
             pc' \notin {"Fields", "Refused"} => pc \notin {"Fields", "Refused"}
      PROVE  CompileInv'
  BY <1>0 DEF CompileInv
<1>1. ASSUME NEW attribute \in StructChoices, StructAttribute(attribute) PROVE CompileInv'
  <2>1. /\ pc = "Struct" /\ struct' = ParseAttribute(struct, attribute)
        /\ pc' \in {"Struct", "Refused"} /\ UNCHANGED <<config, written, field, plan>>
    BY <1>1 DEF StructAttribute, Refuse
  <2>2. /\ struct' = [issue |-> struct'.issue, set |-> [name \in StructAttributes |-> struct'.set[name]]]
        /\ \A x, y \in struct'.set["family"] : x = y
    BY <2>1, StructAttributeIs DEF CompileInv
  <2> QED BY <2>1, <2>2 DEF CompileInv
<1>2. ASSUME NEW data \in {"NamedStruct", "UnnamedStruct", "Enum", "Union"}, Shape(data) PROVE CompileInv'
  <2>1. pc = "Struct" /\ pc' \in {"Fields", "Refused"} /\ UNCHANGED <<struct, config, written, field, plan>>
    BY <1>2 DEF Shape, Refuse
  <2> QED BY <1>0, <2>1
<1>3. ASSUME NEW attribute \in AttributeChoices, FieldAttribute(attribute) PROVE CompileInv'
  <2>1. /\ pc = "Fields" /\ UNCHANGED <<struct, plan>>
        /\ \/ UNCHANGED <<pc, field>> /\ config' = ConfigOf(written') /\ WellWritten(written')
           \/ /\ pc' = "Refused"
              /\ field' = [written |-> field'.written, option |-> field'.option,
                           type |-> field'.type, name |-> field'.name]
    BY <1>3, FieldAttributeIs
  <2> QED BY <2>1 DEF CompileInv
<1>4. ASSUME NEW isOption \in BOOLEAN, NEW type \in Types, EndField(isOption, type) PROVE CompileInv'
  <2>1. /\ struct' = struct /\ config' = ConfigOf(written') /\ WellWritten(written')
        /\ field' = [written |-> written, option |-> isOption, type |-> type, name |-> Names[Len(plan) + 1]]
        /\ pc' \in {"Fields", "Refused"}
        /\ plan' = plan \/ \E init : plan' = Append(plan, init) /\ Compiles(init)
    BY <1>4, EndFieldIs
  <2>2. /\ field'.written = written /\ field'.option = isOption /\ field'.type = type
        /\ field'.name = Names[Len(plan) + 1]
    BY <2>1
  <2>3. field' = [written |-> field'.written, option |-> field'.option, type |-> field'.type, name |-> field'.name]
    BY <2>1, <2>2
  <2>4. IsSequence(plan) /\ \A i \in 1..Len(plan) : Compiles(plan[i])
    BY DEF CompileInv
  <2>5. IsSequence(plan') /\ \A i \in 1..Len(plan') : Compiles(plan'[i])
    <3>1. CASE plan' = plan
      BY <2>4, <3>1
    <3>2. CASE \E init : plan' = Append(plan, init) /\ Compiles(init)
      <4>1. PICK init : plan' = Append(plan, init) /\ Compiles(init)
        BY <3>2
      <4>2. /\ IsSequence(plan') /\ Len(plan') = Len(plan) + 1 /\ plan'[Len(plan) + 1] = init
            /\ \A i \in 1..Len(plan) : plan'[i] = plan[i]
        BY <2>4, <4>1, OneMore
      <4>3. Len(plan) \in Nat
        BY <2>4 DEF IsSequence
      <4>4. \A i \in 1..Len(plan') : i = Len(plan) + 1 \/ i \in 1..Len(plan)
        BY <4>2, <4>3
      <4> QED BY <2>4, <4>1, <4>2, <4>4
    <3> QED BY <2>1, <3>1, <3>2
  <2>6. /\ struct' = [issue |-> struct'.issue, set |-> [name \in StructAttributes |-> struct'.set[name]]]
        /\ \A x, y \in struct'.set["family"] : x = y
    BY <2>1 DEF CompileInv
  <2> QED BY <2>1, <2>3, <2>5, <2>6 DEF CompileInv
<1>5. CASE Compiled
  <2>1. pc' = "Reading" /\ field' = NoField /\ struct' = EmptyConfig(StructAttributes) /\ UNCHANGED plan
    BY <1>5 DEF Compiled
  <2>2. /\ struct' = [issue |-> struct'.issue, set |-> [name \in StructAttributes |-> struct'.set[name]]]
        /\ \A x, y \in struct'.set["family"] : x = y
    BY <2>1 DEF EmptyConfig, StructAttributes
  <2>3. field' = [written |-> field'.written, option |-> field'.option, type |-> field'.type, name |-> field'.name]
    BY <2>1 DEF NoField
  <2> QED BY <2>1, <2>2, <2>3 DEF CompileInv
<1>6. ASSUME NEW key \in KeyValues, NEW cells \in SentCells, NextRow(key, cells) PROVE CompileInv'
  BY <1>0, <1>6 DEF NextRow, UnchangedType
<1>7. ASSUME NEW key \in KeyValues, NEW cells \in SentCells, TakeRow(key, cells) PROVE CompileInv'
  <2>1. pc = "Struct" /\ pc' = "Manual" /\ UnchangedType
    BY <1>7 DEF TakeRow
  <2> QED BY <1>0, <2>1 DEF UnchangedType
<1>8. CASE TakeItem
  BY <1>0, <1>8 DEF TakeItem, UnchangedType
<1>9. ASSUME NEW status \in {"Failed", "Complete"}, NextEnds(status) PROVE CompileInv'
  <2>1. pc = "Reading" /\ pc' \in {"Failed", "Complete"} /\ UnchangedType
    BY <1>9 DEF NextEnds
  <2> QED BY <1>0, <2>1 DEF UnchangedType
<1>10. ASSUME NEW f \in 1..MaxCells, NEW c \in 1..MaxCells, EmptyColumn(f, c) PROVE CompileInv'
  BY <1>0, <1>10 DEF EmptyColumn, UnchangedType
<1>11. ASSUME NEW call \in {"required", "optional", "versions", "cells", "latest_cell"},
              NEW family \in Families, NEW qualifier \in Qualifiers, NEW type \in Types,
              Call(call, family, qualifier, type)
       PROVE  CompileInv'
  <2>1. UNCHANGED pc /\ UnchangedType
    BY <1>11 DEF Call
  <2> QED BY <1>0, <2>1 DEF UnchangedType
<1>12. CASE UNCHANGED vars
  BY <1>0, <1>12 DEF vars
<1> QED BY <1>1, <1>2, <1>3, <1>4, <1>5, <1>6, <1>7, <1>8, <1>9, <1>10, <1>11, <1>12 DEF Next

\* DeriveExact of given values: a place, a field, its struct and the initializers.
Derived(at, f, families, inits) ==
  f # NoField =>
    /\ at = "Refused" <=> IllWritten(f.written)
                            \/ Troubled(f.written, f.option, families, IF at = "Refused" THEN inits ELSE Front(inits))
    /\ at # "Refused" => Placed(Last(inits), f.written, f.name, f.option, families)

\* DeriveExact says just that of the state, now and after a step.
LEMMA DeriveExactIs ==
  /\ DeriveExact <=> Derived(pc, field, struct.set["family"], plan)
  /\ DeriveExact' <=> Derived(pc', field', struct'.set["family"], plan')
<1>1. DeriveExact <=> Derived(pc, field, struct.set["family"], plan)
  <2>1. \A name : Arguments(name) = Args(field.written, name) /\ (Wrote(name) <=> Args(field.written, name) # {})
    BY DEF Arguments, Args, Wrote
  <2>2. BadAttribute <=> IllWritten(field.written)
    BY DEF BadAttribute, IllWritten
  <2>3. Contradiction <=> Troubled(field.written, field.option, struct.set["family"],
                                   IF pc = "Refused" THEN plan ELSE Front(plan))
    BY <2>1 DEF Contradiction, Troubled, Clashing, Has
  <2> QED BY <2>1, <2>2, <2>3 DEF DeriveExact, Derived, Placed
<1>2. DeriveExact' <=> Derived(pc', field', struct'.set["family"], plan')
  <2>1. \A name : Arguments(name)' = Args(field'.written, name) /\ (Wrote(name)' <=> Args(field'.written, name) # {})
    BY DEF Arguments, Args, Wrote
  <2>2. BadAttribute' <=> IllWritten(field'.written)
    BY DEF BadAttribute, IllWritten
  <2>3. Contradiction' <=> Troubled(field'.written, field'.option, struct'.set["family"],
                                    IF pc' = "Refused" THEN plan' ELSE Front(plan'))
    BY <2>1 DEF Contradiction, Troubled, Clashing, Has
  <2> QED BY <2>1, <2>2, <2>3 DEF DeriveExact, Derived, Placed
<1> QED BY <1>1, <1>2

\* A field is judged when it ends or an attribute is refused, and exactly.
LEMMA DeriveStep == CompileInv /\ DeriveExact /\ [Next]_vars => DeriveExact'
<1> SUFFICES ASSUME CompileInv, DeriveExact, [Next]_vars PROVE DeriveExact'
  OBVIOUS
<1> DEFINE given == struct.set["family"]
           Now == Derived(pc, field, given, plan)
           Then == Derived(pc', field', struct'.set["family"], plan')
<1>a. Now /\ (DeriveExact' <=> Then)
  BY DeriveExactIs
<1>b. ASSUME field' = NoField PROVE DeriveExact'
  BY <1>a, <1>b DEF Derived
<1>c. ASSUME UNCHANGED <<pc, field, struct, plan>> PROVE DeriveExact'
  BY <1>a, <1>c
<1>d. pc \notin {"Fields", "Refused"} => field = NoField
  BY DEF CompileInv
<1>1. ASSUME NEW attribute \in StructChoices, StructAttribute(attribute) PROVE DeriveExact'
  <2>1. pc = "Struct" /\ field' = field
    BY <1>1 DEF StructAttribute
  <2> QED BY <1>b, <1>d, <2>1
<1>2. ASSUME NEW data \in {"NamedStruct", "UnnamedStruct", "Enum", "Union"}, Shape(data) PROVE DeriveExact'
  <2>1. pc = "Struct" /\ field' = field
    BY <1>2 DEF Shape
  <2> QED BY <1>b, <1>d, <2>1
<1>3. ASSUME NEW attribute \in AttributeChoices, FieldAttribute(attribute) PROVE DeriveExact'
  <2>1. /\ UNCHANGED <<struct, plan>>
        /\ UNCHANGED <<pc, field>> \/ (pc' = "Refused" /\ IllWritten(field'.written))
    BY <1>3, FieldAttributeIs
  <2>2. CASE UNCHANGED <<pc, field>>
    BY <1>c, <2>1, <2>2
  <2>3. CASE pc' = "Refused" /\ IllWritten(field'.written)
    BY <1>a, <2>3 DEF Derived
  <2> QED BY <2>1, <2>2, <2>3
<1>4. ASSUME NEW isOption \in BOOLEAN, NEW type \in Types, EndField(isOption, type) PROVE DeriveExact'
  <2> DEFINE name == Names[Len(plan) + 1]
  <2>1. /\ WellWritten(written) /\ struct' = struct
        /\ field' = [written |-> written, option |-> isOption, type |-> type, name |-> name]
        /\ \/ pc' = "Refused" /\ plan' = plan /\ Troubled(written, isOption, given, plan)
           \/ /\ pc' = "Fields" /\ ~Troubled(written, isOption, given, plan)
              /\ \E init : plan' = Append(plan, init) /\ Placed(init, written, name, isOption, given)
    BY <1>4, EndFieldIs
  <2> HIDE DEF name
  <2>2. field'.written = written /\ field'.option = isOption /\ field'.name = name
    BY <2>1
  <2>3. ~IllWritten(written)
    BY <2>1, WellOrIll
  <2>4. CASE pc' = "Refused" /\ plan' = plan /\ Troubled(written, isOption, given, plan)
    BY <1>a, <2>1, <2>2, <2>4 DEF Derived
  <2>5. CASE /\ pc' = "Fields" /\ ~Troubled(written, isOption, given, plan)
             /\ \E init : plan' = Append(plan, init) /\ Placed(init, written, name, isOption, given)
    <3>1. PICK init : plan' = Append(plan, init) /\ Placed(init, written, name, isOption, given)
      BY <2>5
    <3>2. Front(plan') = plan /\ Last(plan') = init
      BY <3>1, OneMore DEF CompileInv
    <3> QED BY <1>a, <2>1, <2>2, <2>3, <2>5, <3>1, <3>2 DEF Derived
  <2> QED BY <2>1, <2>4, <2>5
<1>5. CASE Compiled
  BY <1>b, <1>5 DEF Compiled
<1>6. ASSUME NEW key \in KeyValues, NEW cells \in SentCells, NextRow(key, cells) PROVE DeriveExact'
  BY <1>c, <1>6 DEF NextRow, UnchangedType
<1>7. ASSUME NEW key \in KeyValues, NEW cells \in SentCells, TakeRow(key, cells) PROVE DeriveExact'
  <2>1. pc = "Struct" /\ field' = field
    BY <1>7 DEF TakeRow, UnchangedType
  <2> QED BY <1>b, <1>d, <2>1
<1>8. CASE TakeItem
  BY <1>c, <1>8 DEF TakeItem, UnchangedType
<1>9. ASSUME NEW status \in {"Failed", "Complete"}, NextEnds(status) PROVE DeriveExact'
  <2>1. pc = "Reading" /\ field' = field
    BY <1>9 DEF NextEnds, UnchangedType
  <2> QED BY <1>b, <1>d, <2>1
<1>10. ASSUME NEW f \in 1..MaxCells, NEW c \in 1..MaxCells, EmptyColumn(f, c) PROVE DeriveExact'
  BY <1>c, <1>10 DEF EmptyColumn, UnchangedType
<1>11. ASSUME NEW call \in {"required", "optional", "versions", "cells", "latest_cell"},
              NEW family \in Families, NEW qualifier \in Qualifiers, NEW type \in Types,
              Call(call, family, qualifier, type)
       PROVE  DeriveExact'
  <2>1. UNCHANGED pc /\ UnchangedType
    BY <1>11 DEF Call
  <2> QED BY <1>c, <2>1 DEF UnchangedType
<1>12. CASE UNCHANGED vars
  BY <1>c, <1>12 DEF vars
<1> HIDE DEF Now, Then
<1> QED BY <1>1, <1>2, <1>3, <1>4, <1>5, <1>6, <1>7, <1>8, <1>9, <1>10, <1>11, <1>12 DEF Next

\* A field compiles exactly when its attributes are known, written once and free
\* of contradictions, in whatever order they stand, and its initializer reads
\* the place they name (FieldConfig::parse, field_initializer).
THEOREM FieldsCompileExactly == Spec => []DeriveExact
<1>1. Init => CompileInv /\ DeriveExact
  <2>1. Init => DeriveExact
    BY DEF Init, DeriveExact
  <2> QED BY <2>1, InvInit
<1>2. CompileInv /\ DeriveExact /\ [Next]_vars => CompileInv' /\ DeriveExact'
  BY CompileInvStep, DeriveStep
<1> QED BY <1>1, <1>2, PTL DEF Spec

-----------------------------------------------------------------------------
(* Rows are mapped as declared.                                            *)

\* MappedAsDeclared of given values: an item, its type, and the row's key and
\* cells.
Mapped(results, inits, key, cells) ==
  results # <<>> =>
    /\ \A i \in DOMAIN results : results[i] = Due(inits[i], key, cells)
    /\ \A i \in DOMAIN results : results[i].issue # "None" => i = Len(results)
    /\ Len(results) < Len(inits) => Last(results).issue # "None"

\* MappedAsDeclared says just that of the state, now and after a step.
LEMMA MappedAsDeclaredIs ==
  /\ MappedAsDeclared <=> Mapped(item, plan, row.key, sent)
  /\ MappedAsDeclared' <=> Mapped(item', plan', row'.key, sent')
<1>a. \A cells, family : family \in {cell.family : cell \in ToSet(cells)}
                           <=> \E j \in DOMAIN cells : cells[j].family = family
  BY DEF ToSet
<1>1. \A init : Expected(init) = Due(init, row.key, sent)
  <2> TAKE init
  <2>1. (IF init.family \in {cell.family : cell \in ToSet(sent)} THEN "MissingColumn" ELSE "MissingFamily")
          = WhyMissing(sent, init.family)
    BY <1>a DEF WhyMissing
  <2> QED BY <2>1 DEF Expected, Due
<1>2. \A init : Expected(init)' = Due(init, row'.key, sent')
  <2> TAKE init
  <2>1. (IF init.family \in {cell.family : cell \in ToSet(sent')} THEN "MissingColumn" ELSE "MissingFamily")
          = WhyMissing(sent', init.family)
    BY <1>a DEF WhyMissing
  <2> QED BY <2>1 DEF Expected, Due
<1> QED BY <1>1, <1>2 DEF MappedAsDeclared, Mapped

\* Every row is mapped as it must be when it comes, and the item stays so.
LEMMA MappedStep == CompileInv /\ RowInv /\ MappedAsDeclared /\ [Next]_vars => MappedAsDeclared'
<1> SUFFICES ASSUME CompileInv, RowInv, MappedAsDeclared, [Next]_vars PROVE MappedAsDeclared'
  OBVIOUS
<1> DEFINE Now == Mapped(item, plan, row.key, sent)
           Then == Mapped(item', plan', row'.key, sent')
<1>a. Now /\ (MappedAsDeclared' <=> Then)
  BY MappedAsDeclaredIs
<1>b. ASSUME item' = <<>> PROVE MappedAsDeclared'
  BY <1>a, <1>b DEF Mapped
<1>c. ASSUME UNCHANGED <<item, plan, row, sent>> PROVE MappedAsDeclared'
  BY <1>a, <1>c
<1>d. ASSUME pc # "Reading", item' = item PROVE MappedAsDeclared'
  BY <1>b, <1>d DEF RowInv
<1>1. ASSUME NEW attribute \in StructChoices, StructAttribute(attribute) PROVE MappedAsDeclared'
  BY <1>d, <1>1 DEF StructAttribute, UnchangedRows
<1>2. ASSUME NEW data \in {"NamedStruct", "UnnamedStruct", "Enum", "Union"}, Shape(data) PROVE MappedAsDeclared'
  BY <1>d, <1>2 DEF Shape, UnchangedRows
<1>3. ASSUME NEW attribute \in AttributeChoices, FieldAttribute(attribute) PROVE MappedAsDeclared'
  BY <1>d, <1>3 DEF FieldAttribute, UnchangedRows
<1>4. ASSUME NEW isOption \in BOOLEAN, NEW type \in Types, EndField(isOption, type) PROVE MappedAsDeclared'
  <2>1. pc = "Fields" /\ UnchangedRows
    BY <1>4 DEF EndField
  <2> QED BY <1>d, <2>1 DEF UnchangedRows
<1>5. CASE Compiled
  BY <1>d, <1>5 DEF Compiled, UnchangedRows
<1>6. ASSUME NEW key \in KeyValues, NEW cells \in SentCells, NextRow(key, cells) PROVE MappedAsDeclared'
  <2>1. row' = RowOf(key, cells) /\ sent' = cells /\ item' \in FromRow(row', plan) /\ plan' = plan
    BY <1>6 DEF NextRow, UnchangedType
  <2>2. cells \in Seq(SentCell)
    BY SentCellsTyped
  <2>3. PICK families \in Seq(KeptFamily) :
          RowOf(key, cells) = [key |-> key, families |-> families] /\ RowHas(families, cells, {})
    BY <2>2, RowIsSent
  <2>4. Holds(row', cells, {}) /\ row'.key = key
    BY <2>1, <2>2, <2>3 DEF Holds
  <2> DEFINE due == [n \in 1..Len(plan) |-> Due(plan[n], key, cells)]
  <2>5. ASSUME NEW n \in 1..Len(plan), NEW result \in FieldResults(row', plan[n]) PROVE result = due[n]
    <3>1. Compiles(plan[n])
      BY DEF CompileInv
    <3>2. result = Due(plan[n], row'.key, cells)
      BY <2>4, <3>1, FieldResultsAre
    <3> QED BY <2>4, <3>2
  <2>6. Len(plan) \in Nat
    BY DEF CompileInv, IsSequence
  <2>7. \A n \in 1..Len(plan) : due[n] = Due(plan[n], key, cells)
    OBVIOUS
  <2> HIDE DEF due
  <2>8. FilledTo(item', due, Len(plan))
    BY <2>1, <2>5, <2>6, FromRowIs
  <2>9. /\ Len(item') \in Nat /\ Len(item') <= Len(plan) /\ DOMAIN item' = 1..Len(item')
        /\ \A i \in 1..Len(item') : item'[i] = due[i]
        /\ \A i \in 1..Len(item') : i < Len(item') => item'[i].issue = "None"
        /\ Len(item') < Len(plan) => Failed(item')
    <3>1. IsSequence(item')
      BY <2>8 DEF FilledTo
    <3>2. Len(item') \in Nat /\ DOMAIN item' = 1..Len(item')
      <4>1. item' = [i \in 1..Len(item') |-> item'[i]] /\ Len(item') \in Nat
        BY <3>1 DEF IsSequence
      <4> DEFINE t == item'
      <4>2. DOMAIN [i \in 1..Len(t) |-> t[i]] = 1..Len(t)
        OBVIOUS
      <4> QED BY <4>1, <4>2
    <3> QED BY <2>8, <3>2 DEF FilledTo
  <2>10. \A i \in DOMAIN item' : item'[i] = Due(plan'[i], row'.key, sent')
    <3> TAKE i \in DOMAIN item'
    <3>1. i \in 1..Len(plan) /\ item'[i] = due[i]
      BY <2>6, <2>9
    <3> QED BY <2>1, <2>4, <2>7, <3>1
  <2>11. \A i \in DOMAIN item' : item'[i].issue # "None" => i = Len(item')
    BY <2>9
  <2>12. Len(item') < Len(plan') => Last(item').issue # "None"
    BY <2>1, <2>9 DEF Failed
  <2> QED BY <1>a, <2>10, <2>11, <2>12 DEF Mapped
<1>7. ASSUME NEW key \in KeyValues, NEW cells \in SentCells, TakeRow(key, cells) PROVE MappedAsDeclared'
  BY <1>d, <1>7 DEF TakeRow
<1>8. CASE TakeItem
  BY <1>b, <1>8 DEF TakeItem
<1>9. ASSUME NEW status \in {"Failed", "Complete"}, NextEnds(status) PROVE MappedAsDeclared'
  <2>1. item' = <<>>
    BY <1>9 DEF NextEnds, UnchangedRows
  <2> QED BY <1>b, <2>1
<1>10. ASSUME NEW f \in 1..MaxCells, NEW c \in 1..MaxCells, EmptyColumn(f, c) PROVE MappedAsDeclared'
  BY <1>d, <1>10 DEF EmptyColumn
<1>11. ASSUME NEW call \in {"required", "optional", "versions", "cells", "latest_cell"},
              NEW family \in Families, NEW qualifier \in Qualifiers, NEW type \in Types,
              Call(call, family, qualifier, type)
       PROVE  MappedAsDeclared'
  <2>1. pc = "Manual" /\ item' = item
    BY <1>11 DEF Call
  <2> QED BY <1>d, <2>1
<1>12. CASE UNCHANGED vars
  BY <1>c, <1>12 DEF vars
<1> HIDE DEF Now, Then
<1> QED BY <1>1, <1>2, <1>3, <1>4, <1>5, <1>6, <1>7, <1>8, <1>9, <1>10, <1>11, <1>12 DEF Next

\* Every row of a typed read is mapped as its type declares, from what the
\* server sent and whatever the order of its columns: each field has the latest
\* version of its column, or the key, or its default, and the error is that of
\* the first field that fails (from_row, find_column).
THEOREM RowsMapAsDeclared == Spec => []MappedAsDeclared
<1>1. Init => CompileInv /\ RowInv /\ MappedAsDeclared
  <2>1. Init => MappedAsDeclared
    BY DEF Init, MappedAsDeclared
  <2> QED BY <2>1, InvInit
<1>2. CompileInv /\ RowInv /\ MappedAsDeclared /\ [Next]_vars => CompileInv' /\ RowInv' /\ MappedAsDeclared'
  BY CompileInvStep, RowInvStep, MappedStep
<1> QED BY <1>1, <1>2, PTL DEF Spec

-----------------------------------------------------------------------------
(* A caller's calls are answered from what was sent.                       *)

\* AnswersExact of given values: an answer, the cells sent and what is emptied.
Answered(a, cells, gone) ==
  a # NoAnswer =>
    LET versions == Left(cells, gone, a.family, a.qualifier)
        Decoded(cell) == IF FromCellValue(a.type, cell.value) THEN Ok(cell.meta, cell.value)
                         ELSE Fail("InvalidValue", cell.meta)
        bad == SelectInSeq(versions, LAMBDA cell : ~FromCellValue(a.type, cell.value))
    IN  IF versions = <<>>
          THEN CASE a.call = "optional" -> a.result = <<Absent>>
                 [] a.call \in {"required", "versions"} -> a.result[1].issue \in MissingIssues
                 [] OTHER -> a.result.issue \in MissingIssues
          ELSE CASE a.call \in {"required", "optional"} -> a.result = <<Decoded(versions[1])>>
                 [] a.call = "versions" ->
                      a.result = IF bad # 0 THEN <<Decoded(versions[bad])>>
                                 ELSE [i \in DOMAIN versions |-> Decoded(versions[i])]
                 [] a.call = "cells" -> a.result.cells = versions
                 [] OTHER -> a.result.cells = <<versions[1]>>

\* AnswersExact says just that of the state, now and after a step.
LEMMA AnswersExactIs ==
  /\ AnswersExact <=> Answered(answer, sent, emptied)
  /\ AnswersExact' <=> Answered(answer', sent', emptied')
<1>a. RowMappingIssue \ {"InvalidValue"} = MissingIssues
  BY DEF RowMappingIssue, MissingIssues
<1>1. AnswersExact <=> Answered(answer, sent, emptied)
  BY <1>a DEF AnswersExact, Answered, Left
<1>2. AnswersExact' <=> Answered(answer', sent', emptied')
  BY <1>a DEF AnswersExact, Answered, Left, SelectInSeq
<1> QED BY <1>1, <1>2

\* What one call of the decoder may answer.
AnswerTo(r, call, family, qualifier, type) ==
  CASE call = "required"    -> {<<x>> : x \in Required(r, family, qualifier, "Plain", type)}
    [] call = "optional"    -> {<<x>> : x \in Optional(r, family, qualifier, "Plain", type)}
    [] call = "versions"    -> Versions(r, family, qualifier, type)
    [] call = "cells"       -> Cells(r, family, qualifier)
    [] call = "latest_cell" -> LatestCell(r, family, qualifier)

\* A required column that is not there is answered with what is missing.
LEMMA RequiredAnswers ==
  ASSUME NEW r, NEW cells, NEW gone, Holds(r, cells, gone), NEW family, NEW qualifier,
         NEW decoder, NEW type, NEW result \in Required(r, family, qualifier, decoder, type),
         NEW rest, rest = Left(cells, gone, family, qualifier)
  PROVE  IF rest # <<>> THEN result = DecodeCell(rest[1], decoder, type) ELSE result.issue \in MissingIssues
<1>1. IF Left(cells, gone, family, qualifier) # <<>>
        THEN result = DecodeCell(Left(cells, gone, family, qualifier)[1], decoder, type)
        ELSE /\ result.issue \in MissingIssues
             /\ <<family, qualifier>> \notin gone => result = Fail(WhyMissing(cells, family), Nowhere)
  BY RequiredIs
<1> QED BY <1>1

\* Whatever is asked of a row, the answer is exact.
LEMMA AnswerIs ==
  ASSUME NEW r, NEW cells, NEW gone, Holds(r, cells, gone),
         NEW call \in {"required", "optional", "versions", "cells", "latest_cell"},
         NEW family, NEW qualifier, NEW type, NEW result \in AnswerTo(r, call, family, qualifier, type),
         NEW a, a = [call |-> call, family |-> family, qualifier |-> qualifier, type |-> type, result |-> result]
  PROVE  Answered(a, cells, gone)
<1> DEFINE rest == Left(cells, gone, family, qualifier)
           Decoded(cell) == IF FromCellValue(type, cell.value) THEN Ok(cell.meta, cell.value)
                            ELSE Fail("InvalidValue", cell.meta)
           bad == SelectInSeq(rest, LAMBDA cell : ~FromCellValue(type, cell.value))
           Good == IF rest = <<>>
                     THEN CASE call = "optional" -> result = <<Absent>>
                            [] call \in {"required", "versions"} -> result[1].issue \in MissingIssues
                            [] OTHER -> result.issue \in MissingIssues
                     ELSE CASE call \in {"required", "optional"} -> result = <<Decoded(rest[1])>>
                            [] call = "versions" ->
                                 result = IF bad # 0 THEN <<Decoded(rest[bad])>>
                                          ELSE [i \in DOMAIN rest |-> Decoded(rest[i])]
                            [] call = "cells" -> result.cells = rest
                            [] OTHER -> result.cells = <<rest[1]>>
<1>1. /\ a.call = call /\ a.family = family /\ a.qualifier = qualifier /\ a.type = type /\ a.result = result
  OBVIOUS
<1>2. Good => Answered(a, cells, gone)
  BY <1>1 DEF Answered
<1>3. \A cell : Decoded(cell) = DecodeCell(cell, "Plain", type)
  BY DEF DecodeCell, Decodes
<1> HIDE DEF rest, Decoded, bad
<1>4. CASE call = "required"
  <2>1. PICK x \in Required(r, family, qualifier, "Plain", type) : result = <<x>>
    BY <1>4 DEF AnswerTo
  <2>2. IF rest # <<>> THEN x = DecodeCell(rest[1], "Plain", type) ELSE x.issue \in MissingIssues
    <3> DEFINE plain == "Plain"
    <3>1. x \in Required(r, family, qualifier, plain, type)
      OBVIOUS
    <3>2. rest = Left(cells, gone, family, qualifier)
      BY DEF rest
    <3> HIDE DEF plain
    <3>3. IF rest # <<>> THEN x = DecodeCell(rest[1], plain, type) ELSE x.issue \in MissingIssues
      BY ONLY Holds(r, cells, gone), <3>1, <3>2, RequiredAnswers
    <3> QED BY <3>3 DEF plain
  <2>3. result[1] = x
    BY <2>1
  <2>4. Good
    BY <1>3, <1>4, <2>1, <2>2, <2>3
  <2> QED BY <1>2, <2>4
<1>5. CASE call = "optional"
  <2>1. PICK x \in Optional(r, family, qualifier, "Plain", type) : result = <<x>>
    BY <1>5 DEF AnswerTo
  <2>2. x = IF rest # <<>> THEN DecodeCell(rest[1], "Plain", type) ELSE Absent
    BY OptionalIs DEF rest
  <2>4. Good
    BY <1>3, <1>5, <2>1, <2>2
  <2> QED BY <1>2, <2>4
<1>6. CASE call = "versions"
  <2>1. result \in Versions(r, family, qualifier, type)
    BY <1>6 DEF AnswerTo
  <2>2. IF rest # <<>>
          THEN result = IF bad # 0 THEN <<DecodeCell(rest[bad], "Plain", type)>>
                        ELSE [i \in DOMAIN rest |-> DecodeCell(rest[i], "Plain", type)]
          ELSE result[1].issue \in MissingIssues
    BY <2>1, VersionsAre DEF rest, bad
  <2>3. [i \in DOMAIN rest |-> DecodeCell(rest[i], "Plain", type)] = [i \in DOMAIN rest |-> Decoded(rest[i])]
    BY <1>3
  <2>4. Good
    BY <1>3, <1>6, <2>2, <2>3
  <2> QED BY <1>2, <2>4
<1>7. CASE call = "cells"
  <2>1. result \in Cells(r, family, qualifier)
    BY <1>7 DEF AnswerTo
  <2>2. IF rest # <<>> THEN result = Column("None", rest) ELSE Lacking(result, cells, gone, family, qualifier)
    BY <2>1, CellsAre DEF rest
  <2>3. IF rest # <<>> THEN result.cells = rest ELSE result.issue \in MissingIssues
    BY <2>2 DEF Column, Lacking
  <2>4. Good
    BY <1>7, <2>3
  <2> QED BY <1>2, <2>4
<1>8. CASE call = "latest_cell"
  <2>1. result \in LatestCell(r, family, qualifier)
    BY <1>8 DEF AnswerTo
  <2>2. IF rest # <<>> THEN result = Column("None", <<rest[1]>>) ELSE Lacking(result, cells, gone, family, qualifier)
    BY <2>1, LatestCellIs DEF rest
  <2>3. IF rest # <<>> THEN result.cells = <<rest[1]>> ELSE result.issue \in MissingIssues
    BY <2>2 DEF Column, Lacking
  <2>4. Good
    BY <1>8, <2>3
  <2> QED BY <1>2, <2>4
<1> QED BY <1>4, <1>5, <1>6, <1>7, <1>8

\* Every call is answered exactly when it is made, and the row is not changed
\* after that.
LEMMA AnswersStep == RowInv /\ AnswersExact /\ [Next]_vars => AnswersExact'
<1> SUFFICES ASSUME RowInv, AnswersExact, [Next]_vars PROVE AnswersExact'
  OBVIOUS
<1> DEFINE Now == Answered(answer, sent, emptied)
           Then == Answered(answer', sent', emptied')
<1>a. Now /\ (AnswersExact' <=> Then)
  BY AnswersExactIs
<1>b. ASSUME answer' = NoAnswer PROVE AnswersExact'
  BY <1>a, <1>b DEF Answered
<1>c. ASSUME UNCHANGED <<answer, sent, emptied>> PROVE AnswersExact'
  BY <1>a, <1>c
<1>d. ASSUME pc # "Manual", answer' = answer PROVE AnswersExact'
  BY <1>b, <1>d DEF RowInv
<1>1. ASSUME NEW attribute \in StructChoices, StructAttribute(attribute) PROVE AnswersExact'
  BY <1>c, <1>1 DEF StructAttribute, UnchangedRows
<1>2. ASSUME NEW data \in {"NamedStruct", "UnnamedStruct", "Enum", "Union"}, Shape(data) PROVE AnswersExact'
  BY <1>c, <1>2 DEF Shape, UnchangedRows
<1>3. ASSUME NEW attribute \in AttributeChoices, FieldAttribute(attribute) PROVE AnswersExact'
  BY <1>c, <1>3 DEF FieldAttribute, UnchangedRows
<1>4. ASSUME NEW isOption \in BOOLEAN, NEW type \in Types, EndField(isOption, type) PROVE AnswersExact'
  <2>1. UnchangedRows
    BY <1>4 DEF EndField
  <2> QED BY <1>c, <2>1 DEF UnchangedRows
<1>5. CASE Compiled
  BY <1>c, <1>5 DEF Compiled, UnchangedRows
<1>6. ASSUME NEW key \in KeyValues, NEW cells \in SentCells, NextRow(key, cells) PROVE AnswersExact'
  BY <1>d, <1>6 DEF NextRow
<1>7. ASSUME NEW key \in KeyValues, NEW cells \in SentCells, TakeRow(key, cells) PROVE AnswersExact'
  BY <1>d, <1>7 DEF TakeRow
<1>8. CASE TakeItem
  BY <1>d, <1>8 DEF TakeItem
<1>9. ASSUME NEW status \in {"Failed", "Complete"}, NextEnds(status) PROVE AnswersExact'
  <2>1. UnchangedRows
    BY <1>9 DEF NextEnds
  <2> QED BY <1>c, <2>1 DEF UnchangedRows
<1>10. ASSUME NEW f \in 1..MaxCells, NEW c \in 1..MaxCells, EmptyColumn(f, c) PROVE AnswersExact'
  BY <1>b, <1>10 DEF EmptyColumn
<1>11. ASSUME NEW call \in {"required", "optional", "versions", "cells", "latest_cell"},
              NEW family \in Families, NEW qualifier \in Qualifiers, NEW type \in Types,
              Call(call, family, qualifier, type)
       PROVE  AnswersExact'
  <2>1. /\ pc = "Manual" /\ sent' = sent /\ emptied' = emptied
        /\ \E result \in AnswerTo(row, call, family, qualifier, type) :
             answer' = [call |-> call, family |-> family, qualifier |-> qualifier, type |-> type, result |-> result]
    BY <1>11 DEF Call, AnswerTo
  <2>2. Holds(row, sent, emptied)
    BY <2>1 DEF RowInv
  <2>3. Answered(answer', sent, emptied)
    BY <2>1, <2>2, AnswerIs
  <2> QED BY <1>a, <2>1, <2>3
<1>12. CASE UNCHANGED vars
  BY <1>c, <1>12 DEF vars
<1> HIDE DEF Now, Then
<1> QED BY <1>1, <1>2, <1>3, <1>4, <1>5, <1>6, <1>7, <1>8, <1>9, <1>10, <1>11, <1>12 DEF Next

\* Calls of the decoder see every version of a column, latest first, and say
\* that it is missing only when nothing was sent of it or all of it was taken
\* out of the row (latest_cell, cells, versions, required, optional).
THEOREM AnswersAreExact == Spec => []AnswersExact
<1>1. Init => RowInv /\ AnswersExact
  <2>1. Init => AnswersExact
    BY DEF Init, AnswersExact
  <2> QED BY <2>1, InvInit
<1>2. RowInv /\ AnswersExact /\ [Next]_vars => RowInv' /\ AnswersExact'
  BY RowInvStep, AnswersStep
<1> QED BY <1>1, <1>2, PTL DEF Spec
=============================================================================

---------------------------- MODULE ReadRowsProofs ----------------------------
(***************************************************************************)
(* Proofs about one read: for every table, query, policy and behaviour of  *)
(* an honest server, whatever breaks and is retried, the caller gets the   *)
(* rows of the query once, in order, and the observers a balanced account. *)
(***************************************************************************)
EXTENDS ReadRows, SharedLemmas

Waiting == {"Idle", "Backoff"}
StreamOpen == pc \in {"Connecting", "Streaming", "Handling", "Sending"}
Over == pc \in {"Terminating", "Done"}

-----------------------------------------------------------------------------
(* The inductive invariant, in parts.                                      *)

AllCodes == Codes \cup {"Ok", "Cancelled", "DeadlineExceeded", "Unknown"}
AttemptEnd == [code : AllCodes, rows : Int]
OperationEnd == [code : AllCodes, attempts : Nat, retries : Nat, rows : Int]
Tracker ==
  [attempts : Nat, retries : Nat, active : BOOLEAN, responded : BOOLEAN,
   ended : Seq(AttemptEnd), finished : Seq(OperationEnd)]

ActiveAttempt == [deadline : Int, rows : Int, before : Int]

Typed ==
  /\ original \in Queries
  /\ now \in Nat /\ now <= Deadline
  /\ pc \in Waiting \cup {"Connecting", "Streaming", "Handling", "Sending", "Terminating", "Done"}
  /\ attempts \in Nat /\ rows_returned \in Nat
  /\ active \in ActiveAttempt
  /\ receiver \in BOOLEAN
  /\ pc \in {"Streaming", "Handling", "Sending", "Terminating"} => Spawned

\* What the trackers have reported, and what allows another attempt.
Accounted ==
  /\ telemetry \in Tracker
  /\ telemetry.attempts = attempts
  /\ telemetry.active <=> StreamOpen
  /\ Len(telemetry.ended) = attempts - (IF telemetry.active THEN 1 ELSE 0)
  /\ Len(telemetry.finished) = (IF Over THEN 1 ELSE 0)
  /\ Over => telemetry.finished[1].attempts = attempts
  /\ pc = "Idle" => attempts = 0
  /\ pc = "Backoff" => attempts < RetryPolicy.max_attempts
  /\ attempts <= RetryPolicy.max_attempts
  /\ ~Over => \A i \in DOMAIN telemetry.ended : IsRetryable(telemetry.ended[i].code)

\* A key that a read of request o has not passed at progress p, and the rows the
\* read still owes.
Ahead(o, p, k) == p # NoKey => Beyond(k, p, o.reversed)
Owed(o, p) == {k \in Selected(o) : Ahead(o, p, k)}

\* Request r asks for what is owed of request o at progress p, on a stream that
\* has passed key `last` itself, has `left` rows of its limit to send, and comes
\* after n rows: behind the progress r selects what o selects, and its limit is
\* what is left of the limit of o.
Resumes(r, last, left, o, p, n) ==
  /\ r.reversed = o.reversed
  /\ IF o.rows_limit = 0 THEN r.rows_limit = 0
     ELSE r.rows_limit > 0 /\ left + n = o.rows_limit
  /\ \A k \in Key \ {EmptyKey} : Ahead(o, p, k) => (Selects(r, k) <=> Selects(o, k))
  /\ last = NoKey => \A k \in Key \ {EmptyKey} : Selects(r, k) => Ahead(o, p, k)

StreamFields == {"request", "last", "half", "left", "resets"}

StreamMatches ==
  /\ progress \in (Key \ {EmptyKey}) \cup {NoKey}
  /\ DOMAIN server = StreamFields
  /\ server.half \in BOOLEAN /\ server.left \in Nat /\ server.resets \in Nat
  /\ server.last \in {NoKey, progress}
  /\ ~StreamOpen => server = NoStream
  /\ pc = "Sending" \/ pc = "Connecting" => ~server.half
  /\ StreamOpen => \E r : /\ server.request = {r}
                           /\ Resumes(r, server.last, server.left, original, progress, rows_returned)

\* The row of a key when it has begun.
Begun(key) == [key |-> key, families |-> <<>>]

MergerFields ==
  {"reversed", "state", "last_complete_key", "row", "family", "qualifier", "meta", "value",
   "expected_value_size", "remaining_value_bytes"}

\* The merger in a direction and behind a key: between two rows, and inside the
\* row that the server sends in two pieces.
BetweenRows(m, reversed, passed) ==
  /\ DOMAIN m = MergerFields
  /\ m.reversed = reversed /\ m.last_complete_key = passed /\ m.state = "NewRow"
InsideRow(m, reversed, passed, key) ==
  /\ DOMAIN m = MergerFields
  /\ m.reversed = reversed /\ m.last_complete_key = passed /\ m.state = "CellValue"
  /\ m.row = Begun(key) /\ m.family = "f" /\ m.qualifier = "q" /\ m.meta = 1
  /\ m.value = <<key>> /\ m.remaining_value_bytes = 1

MergerMatches ==
  /\ progress = merger.last_complete_key
  /\ ~Over /\ server.half =>
       HasNext(server) /\ InsideRow(merger, original.reversed, progress, NextKey(server))
  /\ ~Over /\ ~server.half => BetweenRows(merger, original.reversed, progress)

Counted ==
  /\ rows_returned = Cardinality(Selected(original) \ Owed(original, progress))
  /\ original.rows_limit > 0 => rows_returned <= original.rows_limit

\* The items of the first rows counted.
Delivered == FirstItems(original, rows_returned)
ButLast == FirstItems(original, rows_returned - 1)
ReadErrors == {"ReadDeadlineExceeded", "ReadRows"}

\* The items are rows, all that were counted, but for an error at the end.
ItemsMatch ==
  /\ pc \notin {"Sending", "Done"} => sent = Delivered
  /\ pc = "Sending" => /\ rows_returned > 0 /\ sent = ButLast
                       /\ outgoing = RowItem(ServerRow(NthKey(original, rows_returned)))
  /\ pc = "Terminating" => \E error \in ReadErrors : outgoing = ErrorItem(error)
  /\ pc \notin {"Sending", "Terminating"} => outgoing = NoItem
  /\ pc = "Done" =>
       \/ /\ sent = Delivered
          /\ Spawned /\ receiver => telemetry.finished[1].code = "Ok"
       \/ /\ \E error \in ReadErrors : sent = Append(Delivered, ErrorItem(error))
          /\ telemetry.finished[1].code # "Ok"
       \/ /\ ~receiver /\ rows_returned > 0 /\ sent = ButLast
          /\ telemetry.finished[1].code # "Ok"

\* Ok is reported only when the rows of the query are all there.
EndsRight ==
  /\ pc = "Terminating" => telemetry.finished[1].code # "Ok"
  /\ pc = "Done" /\ telemetry.finished[1].code = "Ok" => rows_returned = RowCount(original)

RowsInv == StreamMatches /\ MergerMatches /\ Counted
ItemsInv == ItemsMatch /\ EndsRight
Inv == Typed /\ Accounted /\ RowsInv /\ ItemsInv

-----------------------------------------------------------------------------
(* What the merger makes of the chunks of an honest server.                *)

\* The first cell of a row goes to a family and a column of its own.
LEMMA FirstCell ==
  ASSUME NEW family, NEW qualifier, NEW cell
  PROVE  AddCell(<<>>, family, qualifier, cell)
           = <<[name |-> family, columns |-> <<[qualifier |-> qualifier, cells |-> <<cell>>]>>]>>
<1>1. SelectInSeq(<<>>, LAMBDA c : c.qualifier = qualifier) = 0
  BY DEF SelectInSeq
<1>2. SelectInSeq(<<>>, LAMBDA f : f.name = family) = 0
  BY DEF SelectInSeq
<1>3. AddToColumns(<<>>, qualifier, cell) = <<[qualifier |-> qualifier, cells |-> <<cell>>]>>
  BY <1>1 DEF AddToColumns, FindOrPush
<1>4. AddCell(<<>>, family, qualifier, cell)
        = Append(<<>>, [name |-> family, columns |-> AddToColumns(<<>>, qualifier, cell)])
  BY <1>2 DEF AddCell, FindOrPush
<1> QED BY <1>3, <1>4

\* A row whose only cell is complete is committed as the server holds it.
LEMMA FinishedRow ==
  ASSUME NEW m, NEW key, DOMAIN m = MergerFields, m.row = Begun(key),
         m.family = "f", m.qualifier = "q", m.meta = 1, m.value = <<key, key>>
  PROVE  LET outcome == CommitRow(FinishCell(m))
         IN  /\ outcome.issue = "None" /\ outcome.row = {ServerRow(key)}
             /\ BetweenRows(outcome.merger, m.reversed, key)
<1> DEFINE row == [m.row EXCEPT !.families = AddCell(m.row.families, "f", "q", [meta |-> 1, value |-> <<key, key>>])]
           done == [m EXCEPT !.row = row, !.value = NoValue]
<1>1. row = ServerRow(key)
  <2>1. m.row.families = <<>>
    BY DEF Begun
  <2>2. AddCell(<<>>, "f", "q", [meta |-> 1, value |-> <<key, key>>]) = ServerRow(key).families
    BY FirstCell DEF ServerRow
  <2>3. ServerRow(key) = [key |-> key, families |-> ServerRow(key).families]
    BY DEF ServerRow
  <2>4. \A x : [m.row EXCEPT !.families = x] = [key |-> key, families |-> x]
    BY DEF Begun
  <2> QED BY <2>1, <2>2, <2>3, <2>4
<1> HIDE DEF row
<1>2. FinishCell(m) = done
  BY DEF FinishCell, row
<1>3. DOMAIN done = MergerFields /\ done.row = row /\ done.reversed = m.reversed
  BY DEF MergerFields
<1>4. row.key = key
  BY <1>1 DEF ServerRow
<1> HIDE DEF done
<1> DEFINE cleared == ClearCell(done)
           after == [cleared EXCEPT !.row = EmptyRow, !.last_complete_key = key, !.state = "NewRow"]
<1>5. DOMAIN cleared = MergerFields /\ cleared.reversed = m.reversed
  BY <1>3 DEF ClearCell, MergerFields
<1>6. CommitRow(done) = [merger |-> after, row |-> {row}, issue |-> "None"]
  BY <1>3, <1>4 DEF CommitRow
<1> HIDE DEF cleared
<1>7. BetweenRows(after, m.reversed, key)
  BY <1>5 DEF BetweenRows, MergerFields
<1> HIDE DEF after
<1> QED BY <1>1, <1>2, <1>6, <1>7

\* The first chunk of a row is accepted after every key before it.
LEMMA StartsRow ==
  ASSUME NEW m, NEW reversed, NEW passed, BetweenRows(m, reversed, passed),
         NEW key \in Key \ {EmptyKey}, passed # NoKey => Beyond(key, passed, reversed),
         NEW chunk, chunk.row_key = key, chunk.family_name = "f", chunk.qualifier = "q",
         chunk.row_status # "Reset"
  PROVE  \E started :
           /\ PushChunk(m, chunk) = StartCell(started, chunk)
           /\ DOMAIN started = MergerFields /\ started.row = Begun(key) /\ started.row.key = key
           /\ started.reversed = reversed /\ started.last_complete_key = passed
<1> DEFINE started == [m EXCEPT !.row = Begun(key), !.family = "f", !.qualifier = "q", !.state = "NewCell"]
<1>2. m.state = "NewRow" /\ ~OutOfOrder(m, key)
  BY DEF BetweenRows, OutOfOrder
<1>3. StartRowIssue(m, chunk) = "None"
  BY <1>2 DEF StartRowIssue, Key, EmptyKey, NoName
<1>4. PushChunk(m, chunk) = StartCell(started, chunk)
  BY <1>2, <1>3 DEF PushChunk, StartRow, Begun
<1>5. /\ DOMAIN started = MergerFields /\ started.row = Begun(key)
      /\ started.reversed = reversed /\ started.last_complete_key = passed
  BY DEF BetweenRows, MergerFields
<1>6. Begun(key).key = key
  BY DEF Begun
<1> HIDE DEF started
<1>7. started.row.key = key
  BY <1>5, <1>6
<1> QED BY <1>4, <1>5, <1>7

\* A row in one chunk is rebuilt as the server holds it.
LEMMA MergeWholeRow ==
  ASSUME NEW m, NEW reversed, NEW passed, BetweenRows(m, reversed, passed),
         NEW key \in Key \ {EmptyKey}, passed # NoKey => Beyond(key, passed, reversed)
  PROVE  LET outcome == PushChunk(m, RowChunk(key, <<key, key>>, 0, "Commit"))
         IN  /\ outcome.issue = "None" /\ outcome.row = {ServerRow(key)}
             /\ BetweenRows(outcome.merger, reversed, key)
<1> DEFINE whole == <<key, key>>
           chunk == RowChunk(key, whole, 0, "Commit")
<1> HIDE DEF whole
<1>1. /\ chunk.row_key = key /\ chunk.family_name = "f" /\ chunk.qualifier = "q" /\ chunk.meta = 1
      /\ chunk.value = whole /\ chunk.value_size = 0 /\ chunk.row_status = "Commit"
  BY DEF RowChunk
<1> HIDE DEF chunk
<1>2. PICK started : /\ PushChunk(m, chunk) = StartCell(started, chunk)
                     /\ DOMAIN started = MergerFields /\ started.row = Begun(key) /\ started.row.key = key
                     /\ started.reversed = reversed
  BY <1>1, StartsRow
<1> DEFINE cell == [started EXCEPT !.family = "f", !.qualifier = "q", !.meta = 1, !.value = whole]
<1>3. StartCellIssue(started, chunk) = "None"
  BY <1>1, <1>2 DEF StartCellIssue, NoName
<1>4. StartCell(started, chunk) = EndCell(cell, chunk)
  BY <1>1, <1>3 DEF StartCell, NoName
<1>5. /\ DOMAIN cell = MergerFields /\ cell.row = Begun(key) /\ cell.reversed = reversed
      /\ cell.family = "f" /\ cell.qualifier = "q" /\ cell.meta = 1 /\ cell.value = whole
  BY <1>2 DEF MergerFields
<1> HIDE DEF cell
<1>6. EndCell(cell, chunk) = CommitRow(FinishCell(cell))
  BY <1>1 DEF EndCell
<1> QED BY <1>2, <1>4, <1>5, <1>6, FinishedRow DEF chunk, whole

\* The first piece of a split row leaves the merger inside the row.
LEMMA MergeFirstPiece ==
  ASSUME NEW m, NEW reversed, NEW passed, BetweenRows(m, reversed, passed),
         NEW key \in Key \ {EmptyKey}, passed # NoKey => Beyond(key, passed, reversed)
  PROVE  LET outcome == PushChunk(m, RowChunk(key, <<key>>, 2, "None"))
         IN  /\ outcome.issue = "None" /\ outcome.row = {}
             /\ InsideRow(outcome.merger, reversed, passed, key)
<1> DEFINE piece == <<key>>
           chunk == RowChunk(key, piece, 2, "None")
<1>1. piece # <<>> /\ Len(piece) = 1
  OBVIOUS
<1> HIDE DEF piece
<1>2. /\ chunk.row_key = key /\ chunk.family_name = "f" /\ chunk.qualifier = "q" /\ chunk.meta = 1
      /\ chunk.value = piece /\ chunk.value_size = 2 /\ chunk.row_status = "None"
  BY DEF RowChunk
<1> HIDE DEF chunk
<1>3. PICK started : /\ PushChunk(m, chunk) = StartCell(started, chunk)
                     /\ DOMAIN started = MergerFields /\ started.row = Begun(key) /\ started.row.key = key
                     /\ started.reversed = reversed /\ started.last_complete_key = passed
  BY <1>2, StartsRow
<1>0. chunk.value # <<>> /\ Len(chunk.value) = 1
  BY <1>1, <1>2, Zenon
<1> DEFINE cell == [started EXCEPT !.family = "f", !.qualifier = "q", !.meta = 1, !.value = piece]
           split == [cell EXCEPT !.expected_value_size = 2, !.remaining_value_bytes = 1, !.state = "CellValue"]
<1>4. StartCellIssue(started, chunk) = "None"
  BY <1>0, <1>2, <1>3 DEF StartCellIssue, NoName
<1>5. StartCell(started, chunk) = Accept(split)
  BY <1>0, <1>2, <1>4 DEF StartCell, NoName
<1>6. /\ DOMAIN cell = MergerFields /\ cell.row = Begun(key) /\ cell.reversed = reversed
      /\ cell.last_complete_key = passed
      /\ cell.family = "f" /\ cell.qualifier = "q" /\ cell.meta = 1 /\ cell.value = piece
  BY <1>3 DEF MergerFields
<1> HIDE DEF cell
<1>7. InsideRow(split, reversed, passed, key)
  BY <1>6 DEF InsideRow, MergerFields, piece
<1> HIDE DEF split
<1> QED BY <1>3, <1>5, <1>7 DEF chunk, piece, Accept

\* Two pieces make the whole value.
LEMMA TwoPieces ==
  ASSUME NEW x
  PROVE  Len(<<x>>) = 1 /\ <<x>> \o <<x>> = <<x, x>>
<1> DEFINE one == <<x>>
           two == one \o one
<1>1. one \in Seq({x}) /\ Len(one) = 1 /\ one[1] = x
  OBVIOUS
<1> HIDE DEF one
<1>2. /\ two \in Seq({x}) /\ Len(two) = Len(one) + Len(one)
      /\ \A i \in 1..Len(one) + Len(one) : two[i] = IF i <= Len(one) THEN one[i] ELSE one[i - Len(one)]
  BY <1>1, ConcatProperties
<1> HIDE DEF two
<1>3. Len(two) = 2 /\ two[1] = x /\ two[2] = x
  BY <1>1, <1>2
<1>4. <<x, x>> \in Seq({x}) /\ Len(<<x, x>>) = 2 /\ <<x, x>>[1] = x /\ <<x, x>>[2] = x
  OBVIOUS
<1>5. two = <<x, x>>
  <2> DEFINE pair == <<x, x>>
  <2> HIDE DEF pair
  <2>1. pair \in Seq({x}) /\ Len(pair) = 2 /\ pair[1] = x /\ pair[2] = x
    BY <1>4 DEF pair
  <2>2. \A i \in 1..Len(two) : two[i] = pair[i]
    BY <1>3, <2>1
  <2>3. two = pair
    BY <1>2, <1>3, <2>1, <2>2, SeqEqual
  <2> QED BY <2>3 DEF pair
<1> QED BY <1>1, <1>5 DEF one, two

\* The second piece completes it.
LEMMA MergeSecondPiece ==
  ASSUME NEW m, NEW reversed, NEW passed, NEW key, InsideRow(m, reversed, passed, key)
  PROVE  LET outcome == PushChunk(m, PlainChunk(<<key>>, "Commit"))
         IN  /\ outcome.issue = "None" /\ outcome.row = {ServerRow(key)}
             /\ BetweenRows(outcome.merger, reversed, key)
<1> DEFINE whole == <<key, key>>
           chunk == PlainChunk(<<key>>, "Commit")
           cell == [m EXCEPT !.value = whole, !.remaining_value_bytes = 0]
<1>1. /\ chunk.row_key = EmptyKey /\ chunk.family_name = NoName /\ chunk.qualifier = NoName
      /\ chunk.meta = NoMeta /\ chunk.value = <<key>> /\ chunk.value_size = 0
      /\ chunk.row_status = "Commit"
  BY DEF PlainChunk
<1> HIDE DEF chunk
<1>2. Len(chunk.value) = 1 /\ m.value \o chunk.value = whole
  <2>1. m.value = <<key>> /\ chunk.value = <<key>>
    BY <1>1 DEF InsideRow
  <2>2. Len(<<key>>) = 1 /\ <<key>> \o <<key>> = <<key, key>>
    BY TwoPieces
  <2> QED BY <2>1, <2>2
<1> HIDE DEF whole
<1>3. ~HasMetadata(chunk)
  BY <1>1 DEF HasMetadata
<1>4. ContinueCellIssue(m, chunk) = "None"
  BY <1>1, <1>2, <1>3 DEF ContinueCellIssue, InsideRow
<1>5. PushChunk(m, chunk) = ContinueCell(m, chunk)
  BY DEF PushChunk, InsideRow
<1>6. ContinueCell(m, chunk) = EndCell(cell, chunk)
  <2>1. m.remaining_value_bytes - Len(chunk.value) = 0
    BY <1>2 DEF InsideRow
  <2>2. [m EXCEPT !.value = m.value \o chunk.value,
                  !.remaining_value_bytes = m.remaining_value_bytes - Len(chunk.value)] = cell
    BY <1>2, <2>1
  <2> HIDE DEF cell
  <2> QED BY <1>1, <1>4, <2>2 DEF ContinueCell
<1>7. /\ DOMAIN cell = MergerFields /\ cell.row = Begun(key) /\ cell.reversed = reversed
      /\ cell.family = "f" /\ cell.qualifier = "q" /\ cell.meta = 1 /\ cell.value = whole
  BY DEF InsideRow, MergerFields
<1> HIDE DEF cell
<1>8. EndCell(cell, chunk) = CommitRow(FinishCell(cell))
  BY <1>1 DEF EndCell
<1> QED BY <1>5, <1>6, <1>7, <1>8, FinishedRow DEF chunk, whole

\* What is left of an abandoned row: nothing.
LEMMA ClearedRow ==
  ASSUME NEW m, DOMAIN m = MergerFields
  PROVE  BetweenRows(ClearActiveRow(m), m.reversed, m.last_complete_key)
<1> DEFINE cleared == ClearCell(m)
<1>1. /\ DOMAIN cleared = MergerFields /\ cleared.reversed = m.reversed
      /\ cleared.last_complete_key = m.last_complete_key
  BY DEF ClearCell, MergerFields
<1> HIDE DEF cleared
<1>2. ClearActiveRow(m) = [cleared EXCEPT !.row = EmptyRow, !.family = NoName, !.qualifier = NoName,
                                          !.state = "NewRow"]
  BY DEF ClearActiveRow, cleared
<1> QED BY <1>1, <1>2 DEF BetweenRows, MergerFields

\* A reset inside a row takes the merger back to where the row began.
LEMMA MergeReset ==
  ASSUME NEW m, NEW reversed, NEW passed, NEW key, InsideRow(m, reversed, passed, key)
  PROVE  LET outcome == PushChunk(m, PlainChunk(<<>>, "Reset"))
         IN  /\ outcome.issue = "None" /\ outcome.row = {}
             /\ BetweenRows(outcome.merger, reversed, passed)
<1> DEFINE chunk == PlainChunk(<<>>, "Reset")
<1>1. /\ chunk.row_key = EmptyKey /\ chunk.family_name = NoName /\ chunk.qualifier = NoName
      /\ chunk.meta = NoMeta /\ chunk.value = <<>> /\ chunk.value_size = 0
      /\ chunk.row_status = "Reset"
  BY DEF PlainChunk
<1> HIDE DEF chunk
<1>2. ~HasData(chunk)
  BY <1>1 DEF HasData, HasMetadata
<1>3. PushChunk(m, chunk) = Accept(ClearActiveRow(m))
  BY <1>1, <1>2 DEF PushChunk, InsideRow, ContinueCell, ResetRow
<1>4. BetweenRows(ClearActiveRow(m), reversed, passed)
  BY ClearedRow DEF InsideRow
<1> QED BY <1>3, <1>4 DEF chunk, Accept

\* A marker that comes between two rows and behind the progress is accepted.
LEMMA MergeMarker ==
  ASSUME NEW m, NEW reversed, NEW passed, BetweenRows(m, reversed, passed),
         NEW key, passed # NoKey => Beyond(key, passed, reversed)
  PROVE  ScanMarker(m, key).issue = "None" /\ BetweenRows(ScanMarker(m, key).merger, reversed, key)
<1>1. m.state = "NewRow" /\ ~OutOfOrder(m, key)
  BY DEF BetweenRows, OutOfOrder
<1>2. ScanMarker(m, key) = Accept([m EXCEPT !.last_complete_key = key])
  BY <1>1 DEF ScanMarker
<1>3. BetweenRows([m EXCEPT !.last_complete_key = key], reversed, key)
  BY DEF BetweenRows, MergerFields
<1> QED BY <1>2, <1>3 DEF Accept

-----------------------------------------------------------------------------
(* What the stream sends next.                                             *)

\* A finite set of keys has a first one in either direction.
LEMMA FirstExists ==
  ASSUME NEW S \in SUBSET Key, IsFiniteSet(S), S # {}, NEW reversed
  PROVE  \E k \in S : \A j \in S \ {k} : Beyond(j, k, reversed)
<1>1. CASE reversed
  <2>1. PICK k \in S : \A j \in S : j <= k
    BY GreatestExists DEF Key
  <2> QED BY <1>1, <2>1 DEF Beyond, Key
<1>2. CASE ~reversed
  <2>1. PICK k \in S : \A j \in S : k <= j
    BY MinIsLeast DEF Key
  <2> QED BY <1>2, <2>1 DEF Beyond, Key
<1> QED BY <1>1, <1>2

\* The open stream has still to send exactly the rows that are owed.
LEMMA UnsentIsOwed ==
  ASSUME StreamMatches, StreamOpen
  PROVE  Unsent(server) = Owed(original, progress)
<1>1. PICK r : server.request = {r} /\ Resumes(r, server.last, server.left, original, progress, rows_returned)
  BY DEF StreamMatches
<1>2. server.last \in {NoKey, progress}
  BY DEF StreamMatches
<1>3. \A k \in Table : k \in Key \ {EmptyKey}
  BY TableAssumption
<1>4. ASSUME NEW k \in Table
      PROVE  k \in Unsent(server) <=> k \in Owed(original, progress)
  <2>1. k \in Unsent(server)
          <=> Selects(r, k) /\ (server.last # NoKey => Beyond(k, server.last, original.reversed))
    BY <1>1 DEF Unsent, Resumes
  <2>2. k \in Owed(original, progress) <=> Selects(original, k) /\ Ahead(original, progress, k)
    BY DEF Owed, Selected
  <2>3. /\ Ahead(original, progress, k) => (Selects(r, k) <=> Selects(original, k))
        /\ server.last = NoKey => (Selects(r, k) => Ahead(original, progress, k))
    BY <1>1, <1>3 DEF Resumes
  <2>4. CASE server.last = NoKey
    BY <2>1, <2>2, <2>3, <2>4
  <2>5. CASE server.last # NoKey
    <3>1. Ahead(original, progress, k) <=> Beyond(k, server.last, original.reversed)
      BY <1>2, <2>5 DEF Ahead
    <3> QED BY <2>1, <2>2, <2>3, <2>5, <3>1
  <2> QED BY <2>4, <2>5
<1> QED BY <1>4 DEF Unsent, Owed, Selected

\* The next key is the first that is owed.
LEMMA NextKeyIsFirst ==
  ASSUME StreamMatches, StreamOpen, HasNext(server)
  PROVE  /\ NextKey(server) \in Owed(original, progress)
         /\ \A j \in Owed(original, progress) \ {NextKey(server)} :
              Beyond(j, NextKey(server), original.reversed)
<1> DEFINE owed == Owed(original, progress)
<1>1. Unsent(server) = owed /\ owed # {}
  BY UnsentIsOwed DEF HasNext
<1>2. owed \in SUBSET Key /\ IsFiniteSet(owed)
  BY TableAssumption, FS_Subset DEF Owed, Selected
<1>3. PICK r : server.request = {r} /\ r.reversed = original.reversed
  BY DEF StreamMatches, Resumes
<1> HIDE DEF owed
<1>4. \E k \in owed : \A j \in owed \ {k} : Beyond(j, k, original.reversed)
  BY <1>1, <1>2, FirstExists
<1> DEFINE First(k) == \A j \in owed \ {k} : Beyond(j, k, original.reversed)
<1>5. NextKey(server) = CHOOSE k \in owed : \A q \in server.request : \A j \in owed \ {k} : Beyond(j, k, q.reversed)
  BY <1>1 DEF NextKey
<1>6. \E k \in owed : \A q \in server.request : \A j \in owed \ {k} : Beyond(j, k, q.reversed)
  BY <1>3, <1>4
<1> QED BY <1>3, <1>5, <1>6 DEF owed

\* What a chunk of the server does to the operation: it begins a row, takes one
\* back, or completes the next row that is owed.
LEMMA ChunkEffect ==
  ASSUME Typed, StreamMatches, MergerMatches, pc \in {"Streaming", "Handling"},
         NEW next \in ServerChunks(server), NEW t, NEW a, HandleChunk(next, t, a)
  PROVE  /\ HasNext(server)
         /\ UNCHANGED <<original, now, attempts, channel, wake, result>>
         /\ telemetry' = t /\ active' = a
         /\ \/ /\ pc' = "Handling" /\ UNCHANGED <<rows_returned, progress, outgoing>>
               /\ ~server.half /\ server' = [server EXCEPT !.half = TRUE]
               /\ InsideRow(merger', original.reversed, progress, NextKey(server))
            \/ /\ pc' = "Handling" /\ UNCHANGED <<rows_returned, progress, outgoing>>
               /\ server.half /\ server' = [server EXCEPT !.half = FALSE, !.resets = @ + 1]
               /\ BetweenRows(merger', original.reversed, progress)
            \/ /\ pc' = "Sending"
               /\ rows_returned' = rows_returned + 1 /\ progress' = NextKey(server)
               /\ outgoing' = RowItem(ServerRow(NextKey(server)))
               /\ server' = [server EXCEPT !.last = NextKey(server), !.half = FALSE,
                                           !.left = IF @ > 0 THEN @ - 1 ELSE 0]
               /\ BetweenRows(merger', original.reversed, NextKey(server))
<1> DEFINE key == NextKey(server)
           outcome == PushChunk(merger, next.chunk)
           rowSent == [server EXCEPT !.last = key, !.half = FALSE, !.left = IF @ > 0 THEN @ - 1 ELSE 0]
<1>1. HasNext(server)
  BY DEF ServerChunks
<1>2. StreamOpen /\ ~Over /\ server.half \in BOOLEAN
  BY DEF StreamOpen, Over, StreamMatches
<1>3. key \in Key \ {EmptyKey} /\ (progress # NoKey => Beyond(key, progress, original.reversed))
  BY <1>1, <1>2, NextKeyIsFirst, TableAssumption DEF Owed, Selected, Ahead
<1>4. ServerRow(key).key = key
  BY DEF ServerRow
<1> HIDE DEF key
<1>5. CASE ~server.half
  <2>1. BetweenRows(merger, original.reversed, progress)
    BY <1>2, <1>5 DEF MergerMatches
  <2>2. \/ next = [chunk |-> RowChunk(key, <<key, key>>, 0, "Commit"), after |-> rowSent]
        \/ next = [chunk |-> RowChunk(key, <<key>>, 2, "None"), after |-> [server EXCEPT !.half = TRUE]]
    BY <1>1, <1>5 DEF ServerChunks, key
  <2>3. CASE next = [chunk |-> RowChunk(key, <<key, key>>, 0, "Commit"), after |-> rowSent]
    <3>1. next.chunk = RowChunk(key, <<key, key>>, 0, "Commit") /\ next.after = rowSent
      BY <2>3
    <3>2. outcome.issue = "None" /\ outcome.row = {ServerRow(key)} /\ BetweenRows(outcome.merger, original.reversed, key)
      BY <1>3, <2>1, <3>1, MergeWholeRow
    <3> HIDE DEF outcome, rowSent
    <3> QED BY <1>1, <1>4, <3>1, <3>2 DEF HandleChunk, outcome, rowSent, key
  <2>4. CASE next = [chunk |-> RowChunk(key, <<key>>, 2, "None"), after |-> [server EXCEPT !.half = TRUE]]
    <3>1. next.chunk = RowChunk(key, <<key>>, 2, "None") /\ next.after = [server EXCEPT !.half = TRUE]
      BY <2>4
    <3>2. outcome.issue = "None" /\ outcome.row = {} /\ InsideRow(outcome.merger, original.reversed, progress, key)
      BY <1>3, <2>1, <3>1, MergeFirstPiece
    <3> HIDE DEF outcome
    <3> QED BY <1>1, <1>5, <3>1, <3>2 DEF HandleChunk, outcome, key
  <2> QED BY <2>2, <2>3, <2>4
<1>6. CASE server.half
  <2>1. InsideRow(merger, original.reversed, progress, key)
    BY <1>2, <1>6 DEF MergerMatches, key
  <2>2. \/ next = [chunk |-> PlainChunk(<<key>>, "Commit"), after |-> rowSent]
        \/ next = [chunk |-> PlainChunk(<<>>, "Reset"),
                   after |-> [server EXCEPT !.half = FALSE, !.resets = @ + 1]]
    BY <1>1, <1>6 DEF ServerChunks, key
  <2>3. CASE next = [chunk |-> PlainChunk(<<key>>, "Commit"), after |-> rowSent]
    <3>1. next.chunk = PlainChunk(<<key>>, "Commit") /\ next.after = rowSent
      BY <2>3
    <3>2. outcome.issue = "None" /\ outcome.row = {ServerRow(key)} /\ BetweenRows(outcome.merger, original.reversed, key)
      BY <2>1, <3>1, MergeSecondPiece
    <3> HIDE DEF outcome, rowSent
    <3> QED BY <1>1, <1>4, <3>1, <3>2 DEF HandleChunk, outcome, rowSent, key
  <2>4. CASE next = [chunk |-> PlainChunk(<<>>, "Reset"),
                     after |-> [server EXCEPT !.half = FALSE, !.resets = @ + 1]]
    <3>1. /\ next.chunk = PlainChunk(<<>>, "Reset")
          /\ next.after = [server EXCEPT !.half = FALSE, !.resets = @ + 1]
      BY <2>4
    <3>2. outcome.issue = "None" /\ outcome.row = {} /\ BetweenRows(outcome.merger, original.reversed, progress)
      BY <2>1, <3>1, MergeReset
    <3> HIDE DEF outcome
    <3> QED BY <1>1, <1>6, <3>1, <3>2 DEF HandleChunk, outcome, key
  <2> QED BY <2>2, <2>3, <2>4
<1> QED BY <1>2, <1>5, <1>6

-----------------------------------------------------------------------------
(* What the trackers record.                                               *)

\* The trackers of an operation that has no attempt running and is not finished.
Settled(t) ==
  /\ t \in Tracker /\ t.attempts = attempts /\ ~t.active
  /\ Len(t.ended) = attempts /\ t.finished = <<>>

\* finish of a running attempt reports it once and leaves the rest alone.
LEMMA AttemptFinished ==
  ASSUME NEW t \in Tracker, t.active, NEW code \in AllCodes, NEW rows \in Int
  PROVE  LET u == FinishAttempt(t, code, rows)
         IN  /\ u \in Tracker /\ ~u.active /\ u.attempts = t.attempts /\ u.finished = t.finished
             /\ Len(u.ended) = Len(t.ended) + 1
             /\ \A i \in 1..Len(t.ended) : u.ended[i] = t.ended[i]
             /\ u.ended[Len(t.ended) + 1].code = code
<1> DEFINE end == [code |-> code, rows |-> rows]
           ended == Append(t.ended, end)
           u == [t EXCEPT !.active = FALSE, !.responded = FALSE, !.ended = ended]
<1>1. FinishAttempt(t, code, rows) = u
  BY DEF FinishAttempt
<1>2. end \in AttemptEnd /\ end.code = code
  BY DEF AttemptEnd
<1>3. t.ended \in Seq(AttemptEnd)
  BY DEF Tracker
<1> HIDE DEF end
<1>4. /\ ended \in Seq(AttemptEnd) /\ Len(ended) = Len(t.ended) + 1
      /\ \A i \in 1..Len(t.ended) : ended[i] = t.ended[i]
      /\ ended[Len(t.ended) + 1] = end
  BY <1>2, <1>3, AppendProperties
<1> HIDE DEF ended
<1>5. /\ u \in Tracker /\ ~u.active /\ u.attempts = t.attempts /\ u.finished = t.finished
      /\ u.ended = ended
  BY <1>4 DEF Tracker
<1> HIDE DEF u
<1> QED BY <1>1, <1>2, <1>4, <1>5

\* finish of an unfinished operation reports it with the attempts it made.
LEMMA OperationFinished ==
  ASSUME NEW t \in Tracker, t.finished = <<>>, NEW code \in AllCodes, NEW rows \in Int
  PROVE  LET u == FinishOperation(t, code, rows)
         IN  /\ u \in Tracker /\ u.active = t.active /\ u.attempts = t.attempts /\ u.ended = t.ended
             /\ Len(u.finished) = 1
             /\ u.finished[1].attempts = t.attempts /\ u.finished[1].code = code
<1> DEFINE end == [code |-> code, attempts |-> t.attempts, retries |-> t.retries, rows |-> rows]
           finished == Append(t.finished, end)
           u == [t EXCEPT !.finished = finished]
<1>1. FinishOperation(t, code, rows) = u
  BY DEF FinishOperation
<1>2. end \in OperationEnd /\ end.code = code /\ end.attempts = t.attempts
  BY DEF OperationEnd, Tracker
<1>3. t.finished \in Seq(OperationEnd) /\ Len(t.finished) = 0
  BY DEF Tracker
<1> HIDE DEF end
<1>4. finished \in Seq(OperationEnd) /\ Len(finished) = 1 /\ finished[1] = end
  BY <1>2, <1>3, AppendProperties
<1> HIDE DEF finished
<1>5. /\ u \in Tracker /\ u.active = t.active /\ u.attempts = t.attempts /\ u.ended = t.ended
      /\ u.finished = finished
  BY <1>4 DEF Tracker
<1> HIDE DEF u
<1> QED BY <1>1, <1>2, <1>4, <1>5

\* The trackers, with or without the mark that an answer has come, no event.
Alike(t) ==
  /\ t \in Tracker /\ t.attempts = telemetry.attempts /\ (t.active <=> telemetry.active)
  /\ t.ended = telemetry.ended /\ t.finished = telemetry.finished

\* FirstResponse only sets the mark.
LEMMA ResponseAlike ==
  ASSUME telemetry \in Tracker, NEW t \in {telemetry, FirstResponse(telemetry)}
  PROVE  Alike(t)
BY DEF Alike, FirstResponse, Tracker

\* Finishing the attempt, if one is running, settles the trackers.
LEMMA FinishSettles ==
  ASSUME Typed, Accounted, ~Over, NEW code \in AllCodes, NEW rows \in Int,
         NEW u, Alike(u), NEW t, t = FinishAttempt(u, code, rows)
  PROVE  /\ Settled(t)
         /\ IsRetryable(code) => \A i \in DOMAIN t.ended : IsRetryable(t.ended[i].code)
<1>1. /\ u \in Tracker /\ u.attempts = attempts /\ attempts \in Nat
      /\ u.ended \in Seq(AttemptEnd)
  BY DEF Alike, Accounted, Tracker, Typed
<1>2. \A i \in DOMAIN u.ended : IsRetryable(u.ended[i].code)
  BY DEF Alike, Accounted
<1>3. u.finished = <<>>
  <2>1. u.finished \in Seq(OperationEnd) /\ Len(u.finished) = 0
    BY <1>1 DEF Alike, Tracker, Accounted
  <2> QED BY <2>1
<1>4. CASE u.active
  <2>1. Len(u.ended) = attempts - 1
    BY <1>4 DEF Alike, Accounted
  <2>2. /\ t \in Tracker /\ ~t.active /\ t.attempts = attempts /\ t.finished = <<>>
    BY <1>1, <1>3, <1>4, AttemptFinished
  <2>3. /\ Len(t.ended) = Len(u.ended) + 1
        /\ \A i \in 1..Len(u.ended) : t.ended[i] = u.ended[i]
        /\ t.ended[Len(u.ended) + 1].code = code
    BY <1>1, <1>4, AttemptFinished, SMTT(30)
  <2>4. Len(t.ended) = attempts
    BY <1>1, <2>1, <2>3
  <2>5. t.ended \in Seq(AttemptEnd)
    BY <2>2 DEF Tracker
  <2>6. DOMAIN t.ended = 1..attempts /\ DOMAIN u.ended = 1..(attempts - 1)
    BY <1>1, <2>1, <2>4, <2>5
  <2>7. ASSUME IsRetryable(code), NEW i \in 1..attempts
        PROVE  IsRetryable(t.ended[i].code)
    <3>1. CASE i = attempts
      BY <1>1, <2>1, <2>3, <2>7, <3>1
    <3>2. CASE i # attempts
      <4>1. i \in 1..(attempts - 1)
        BY <1>1, <3>2
      <4>2. t.ended[i] = u.ended[i]
        BY <2>1, <2>3, <4>1
      <4> QED BY <1>2, <2>6, <4>1, <4>2
    <3> QED BY <3>1, <3>2
  <2> QED BY <2>2, <2>4, <2>6, <2>7 DEF Settled
<1>5. CASE ~u.active
  <2>1. t = u
    BY <1>5 DEF FinishAttempt
  <2>2. Len(u.ended) = attempts
    <3>1. ~telemetry.active /\ u.ended = telemetry.ended
      BY <1>5 DEF Alike
    <3>2. Len(telemetry.ended) = attempts
      BY <1>1, <3>1 DEF Accounted
    <3> QED BY <3>1, <3>2
  <2> QED BY <1>1, <1>2, <1>3, <1>5, <2>1, <2>2 DEF Settled
<1> QED BY <1>4, <1>5

\* An operation that finishes with settled trackers keeps the books.
LEMMA EndBooks ==
  ASSUME Typed, Accounted, ~Over, NEW t, Settled(t), NEW code \in AllCodes, NEW rows \in Int,
         telemetry' = FinishOperation(t, code, rows),
         UNCHANGED <<original, now, attempts, receiver>>,
         rows_returned' \in Nat, active' \in ActiveAttempt,
         pc' \in {"Terminating", "Done"}, pc' = "Terminating" => result' = "Stream"
  PROVE  Typed' /\ Accounted' /\ telemetry'.finished[1].code = code
<1>1. /\ telemetry' \in Tracker /\ ~telemetry'.active /\ telemetry'.attempts = attempts
      /\ Len(telemetry'.ended) = attempts /\ Len(telemetry'.finished) = 1
      /\ telemetry'.finished[1].attempts = attempts /\ telemetry'.finished[1].code = code
  BY OperationFinished DEF Settled
<1>2. attempts \in Nat /\ attempts <= RetryPolicy.max_attempts
  BY DEF Typed, Accounted
<1>3. Typed'
  BY DEF Typed, Waiting, Spawned, Deadline
<1>4. Accounted'
  BY <1>1, <1>2 DEF Accounted, Over, StreamOpen
<1> QED BY <1>1, <1>3, <1>4

\* So does one that backs off behind a transient failure.
LEMMA RetryBooks ==
  ASSUME Typed, Accounted, ~Over, NEW t, Settled(t),
         \A i \in DOMAIN t.ended : IsRetryable(t.ended[i].code),
         attempts < RetryPolicy.max_attempts,
         telemetry' = ScheduleRetry(t), pc' = "Backoff", active' \in ActiveAttempt,
         UNCHANGED <<original, now, attempts, receiver, rows_returned, result>>
  PROVE  Typed' /\ Accounted'
<1>1. /\ telemetry' \in Tracker /\ ~telemetry'.active /\ telemetry'.attempts = attempts
      /\ telemetry'.ended = t.ended /\ telemetry'.finished = <<>>
  BY DEF Settled, ScheduleRetry, Tracker
<1>2. attempts \in Nat /\ attempts <= RetryPolicy.max_attempts
  BY DEF Typed, Accounted
<1>3. Typed'
  BY DEF Typed, Waiting, Spawned, Deadline
<1>4. Accounted'
  BY <1>1, <1>2 DEF Accounted, Over, StreamOpen, Settled
<1> QED BY <1>3, <1>4

\* The trackers of an operation that waits are settled.
LEMMA WaitingSettled ==
  ASSUME Typed, Accounted, pc \in Waiting
  PROVE  Settled(telemetry) /\ ~Over
<1>1. telemetry \in Tracker /\ ~telemetry.active /\ telemetry.attempts = attempts /\ ~Over
  BY DEF Accounted, StreamOpen, Over, Waiting
<1>2. Len(telemetry.ended) = attempts
  BY <1>1 DEF Accounted, Typed
<1>3. telemetry.finished \in Seq(OperationEnd) /\ Len(telemetry.finished) = 0
  BY <1>1 DEF Accounted, Tracker
<1>4. telemetry.finished = <<>>
  BY <1>3
<1> QED BY <1>1, <1>2, <1>4 DEF Settled

\* How an error reaches the caller.
FailsWith(error) ==
  \/ result = "Stream" /\ pc' = "Terminating" /\ outgoing' = ErrorItem(error) /\ result' = result
  \/ result # "Stream" /\ pc' = "Done" /\ outgoing' = outgoing /\ result' = error

\* How a failed attempt goes on: the operation fails or backs off.
LEMMA ReopenEffect ==
  ASSUME NEW t, NEW code \in AllCodes \ {"Ok"}, NEW info, Reopen(t, code, info)
  PROVE  \/ \E c \in AllCodes \ {"Ok"}, error \in ReadErrors :
              /\ telemetry' = FinishOperation(t, c, rows_returned)
              /\ FailsWith(error)
         \/ /\ IsRetryable(code) /\ attempts < RetryPolicy.max_attempts
            /\ telemetry' = ScheduleRetry(t) /\ pc' = "Backoff"
            /\ UNCHANGED <<outgoing, result>>
<1>1. "DeadlineExceeded" \in AllCodes \ {"Ok"} /\ ReadErrors = {"ReadDeadlineExceeded", "ReadRows"}
  BY DEF ReadErrors, AllCodes
<1> QED BY <1>1 DEF Reopen, Fail, FailsWith, Spawned

\* An attempt that fails while its call or its stream is awaited.
AttemptFails ==
  /\ pc \in {"Connecting", "Streaming"}
  /\ \E code \in AllCodes \ {"Ok"}, info \in Nat, rows \in Int :
       Reopen(FinishAttempt(telemetry, code, rows), code, info)
  /\ DropStream
  /\ merger' = IF pc = "Connecting" THEN merger ELSE DiscardPartial(merger)
  /\ UNCHANGED <<original, now, attempts, rows_returned, progress, channel>>

\* These are its four ways to fail.
LEMMA FailuresAreAlike ==
  ASSUME Typed,
         \/ \E code \in Codes, info \in RetryInfos : ConnectFails(code, info) \/ StreamFails(code, info)
         \/ ConnectTimesOut \/ StreamTimesOut
  PROVE  AttemptFails
<1>1. /\ active.rows \in Int /\ Codes \subseteq AllCodes \ {"Ok"} /\ RetryInfos \subseteq Nat
      /\ "DeadlineExceeded" \in AllCodes \ {"Ok"}
  BY CodesAssumption, BoundsAssumption DEF Typed, ActiveAttempt, AllCodes
<1>2. ASSUME NEW code \in Codes, NEW info \in RetryInfos, ConnectFails(code, info)
      PROVE  AttemptFails
  <2>1. /\ pc = "Connecting" /\ DropStream
        /\ Reopen(FinishAttempt(telemetry, code, 0), code, info)
        /\ UNCHANGED <<original, now, attempts, scan, channel>>
    BY <1>2 DEF ConnectFails
  <2>2. \E c \in AllCodes \ {"Ok"}, i \in Nat, rows \in Int : Reopen(FinishAttempt(telemetry, c, rows), c, i)
    BY <1>1, <2>1
  <2> QED BY <2>1, <2>2 DEF AttemptFails, scan
<1>3. ASSUME NEW code \in Codes, NEW info \in RetryInfos, StreamFails(code, info)
      PROVE  AttemptFails
  <2>1. Reopen(FinishAttempt(telemetry, code, active.rows), code, info)
    BY <1>3 DEF StreamFails
  <2>2. \E c \in AllCodes \ {"Ok"}, i \in Nat, rows \in Int : Reopen(FinishAttempt(telemetry, c, rows), c, i)
    BY <1>1, <2>1
  <2> QED BY <1>3, <2>2 DEF AttemptFails, StreamFails
<1>4. CASE ConnectTimesOut
  <2>1. \E c \in AllCodes \ {"Ok"}, i \in Nat, rows \in Int : Reopen(FinishAttempt(telemetry, c, rows), c, i)
    BY <1>1, <1>4 DEF ConnectTimesOut
  <2> QED BY <1>4, <2>1 DEF AttemptFails, ConnectTimesOut, scan
<1>5. CASE StreamTimesOut
  <2>1. \E c \in AllCodes \ {"Ok"}, i \in Nat, rows \in Int : Reopen(FinishAttempt(telemetry, c, rows), c, i)
    BY <1>1, <1>5 DEF StreamTimesOut
  <2> QED BY <1>5, <2>1 DEF AttemptFails, StreamTimesOut
<1> QED BY <1>2, <1>3, <1>4, <1>5

\* A failed attempt keeps the books.
LEMMA FailureBooks ==
  ASSUME Typed, Accounted, AttemptFails
  PROVE  Typed' /\ Accounted'
<1>1. PICK code \in AllCodes \ {"Ok"}, info \in Nat, rows \in Int :
        Reopen(FinishAttempt(telemetry, code, rows), code, info)
  BY DEF AttemptFails
<1> DEFINE t == FinishAttempt(telemetry, code, rows)
<1>2. ~Over /\ rows_returned \in Nat
  BY DEF AttemptFails, Over, Typed
<1>3. /\ Settled(t)
      /\ IsRetryable(code) => \A i \in DOMAIN t.ended : IsRetryable(t.ended[i].code)
  <2>1. Alike(telemetry)
    BY DEF Alike, Accounted
  <2> QED BY <1>2, <2>1, FinishSettles
<1>4. UNCHANGED <<original, now, attempts, rows_returned, receiver>> /\ active' \in ActiveAttempt
  BY DEF AttemptFails, DropStream, NoAttempt, ActiveAttempt, channel
<1>5. Reopen(t, code, info)
  BY <1>1
<1> HIDE DEF t
<1>6. ASSUME NEW c \in AllCodes \ {"Ok"}, NEW error \in ReadErrors,
             telemetry' = FinishOperation(t, c, rows_returned), FailsWith(error)
      PROVE  Typed' /\ Accounted'
  <2>1. /\ pc' \in {"Terminating", "Done"} /\ (pc' = "Terminating" => result' = "Stream")
    BY <1>2, <1>6 DEF FailsWith, ReadErrors
  <2> QED BY <1>2, <1>3, <1>4, <1>6, <2>1, EndBooks
<1>7. CASE /\ IsRetryable(code) /\ attempts < RetryPolicy.max_attempts
           /\ telemetry' = ScheduleRetry(t) /\ pc' = "Backoff"
           /\ UNCHANGED <<outgoing, result>>
  BY <1>2, <1>3, <1>4, <1>7, RetryBooks
<1> QED BY <1>5, <1>6, <1>7, ReopenEffect

\* What BeginAttempt does: nothing is left to read, the time is up, or an
\* attempt starts, whose deadline lies within that of the operation.
LEMMA BeginAttemptEffect ==
  ASSUME Typed, BeginAttempt
  PROVE  \/ /\ ResumeRequest(original, progress, rows_returned) = {}
            /\ telemetry' = FinishOperation(telemetry, "Ok", rows_returned)
            /\ pc' = "Done" /\ UNCHANGED <<attempts, rpc, wake, outgoing, result>>
         \/ /\ telemetry' = FinishOperation(telemetry, "DeadlineExceeded", rows_returned)
            /\ FailsWith("ReadDeadlineExceeded") /\ UNCHANGED <<attempts, rpc>>
         \/ /\ now < Deadline /\ attempts' = attempts + 1
            /\ active' \in ActiveAttempt /\ active'.deadline \in (now + 1)..Deadline
            /\ \E r \in ResumeRequest(original, progress, rows_returned) : server' = Opened(r)
            /\ telemetry' = StartAttempt(telemetry) /\ pc' = "Connecting"
            /\ UNCHANGED <<wake, outgoing, result>>
<1> DEFINE request == ResumeRequest(original, progress, rows_returned)
           timeout == Min({Deadlines.attempt_timeout, Deadline - now})
<1>1. CASE request = {} /\ Stop(FinishOperation(telemetry, "Ok", rows_returned)) /\ UNCHANGED <<attempts, rpc>>
  BY <1>1 DEF Stop
<1>2. CASE /\ request # {} /\ now >= Deadline
           /\ Fail(FinishOperation(telemetry, "DeadlineExceeded", rows_returned), "ReadDeadlineExceeded")
           /\ UNCHANGED <<attempts, rpc>>
  BY <1>2 DEF Fail, FailsWith, Spawned
<1>3. CASE /\ request # {} /\ now < Deadline
           /\ attempts' = attempts + 1
           /\ active' = [NoAttempt EXCEPT !.deadline = now + timeout]
           /\ \E r \in request : server' = Opened(r)
           /\ telemetry' = StartAttempt(telemetry)
           /\ pc' = "Connecting"
           /\ UNCHANGED <<wake, outgoing, result>>
  <2>1. /\ now \in Nat /\ Deadline \in Nat /\ now < Deadline
        /\ Deadlines.attempt_timeout \in Nat /\ Deadlines.attempt_timeout > 0
    BY <1>3, PolicyAssumption, ValidPoliciesUsable DEF Typed, Deadline
  <2>2. timeout \in 1..(Deadline - now)
    <3> DEFINE choices == {Deadlines.attempt_timeout, Deadline - now}
    <3>1. choices \in SUBSET Nat /\ choices # {} /\ \A x \in choices : x > 0
      BY <2>1
    <3>2. Deadline - now \in choices
      OBVIOUS
    <3> HIDE DEF choices
    <3>3. Min(choices) \in choices /\ \A x \in choices : Min(choices) <= x
      BY <3>1, MinIsLeast
    <3>4. Min(choices) \in Nat /\ Min(choices) > 0 /\ Min(choices) <= Deadline - now
      BY <3>1, <3>2, <3>3
    <3> QED BY <2>1, <3>4 DEF choices
  <2> HIDE DEF timeout
  <2>3. active' \in ActiveAttempt /\ active'.deadline = now + timeout
    BY <1>3, <2>1, <2>2 DEF NoAttempt, ActiveAttempt
  <2> QED BY <1>3, <2>1, <2>2, <2>3
<1> HIDE DEF request, timeout
<1> QED BY <1>1, <1>2, <1>3 DEF BeginAttempt, request, timeout

\* Starting an attempt, or not needing one, keeps the books.
LEMMA BeginBooks ==
  ASSUME Typed, Accounted, Start \/ Wake
  PROVE  Typed' /\ Accounted'
<1>1. /\ pc \in Waiting /\ BeginAttempt
      /\ UNCHANGED <<original, now, rows_returned, receiver>>
  BY DEF Start, Wake, Waiting, scan, channel
<1>2. Settled(telemetry) /\ ~Over
  BY <1>1, WaitingSettled
<1>3. rows_returned \in Nat /\ active \in ActiveAttempt /\ {"Ok", "DeadlineExceeded"} \subseteq AllCodes
  BY DEF Typed, AllCodes
<1>4. CASE /\ telemetry' = FinishOperation(telemetry, "Ok", rows_returned)
           /\ pc' = "Done" /\ UNCHANGED <<attempts, rpc, wake, outgoing, result>>
  <2>1. telemetry' = FinishOperation(telemetry, "Ok", rows_returned) /\ pc' \in {"Terminating", "Done"}
        /\ pc' # "Terminating" /\ attempts' = attempts /\ active' = active
    BY <1>4 DEF rpc
  <2> QED BY <1>1, <1>2, <1>3, <2>1, EndBooks
<1>5. CASE /\ telemetry' = FinishOperation(telemetry, "DeadlineExceeded", rows_returned)
           /\ FailsWith("ReadDeadlineExceeded") /\ UNCHANGED <<attempts, rpc>>
  <2>1. /\ telemetry' = FinishOperation(telemetry, "DeadlineExceeded", rows_returned)
        /\ pc' \in {"Terminating", "Done"}
        /\ (pc' = "Terminating" => result' = "Stream") /\ attempts' = attempts /\ active' = active
    BY <1>5 DEF rpc, FailsWith
  <2> QED BY <1>1, <1>2, <1>3, <2>1, EndBooks
<1>6. CASE /\ attempts' = attempts + 1 /\ active' \in ActiveAttempt
           /\ telemetry' = StartAttempt(telemetry) /\ pc' = "Connecting"
           /\ UNCHANGED result
  <2>1. /\ telemetry' \in Tracker /\ telemetry'.active /\ telemetry'.attempts = attempts + 1
        /\ telemetry'.ended = telemetry.ended /\ telemetry'.finished = telemetry.finished
    <3>1. telemetry \in Tracker /\ telemetry.attempts = attempts
      BY <1>2 DEF Settled
    <3>2. telemetry' = [telemetry EXCEPT !.attempts = attempts + 1, !.active = TRUE, !.responded = FALSE]
      BY <1>6, <3>1 DEF StartAttempt
    <3>3. attempts + 1 \in Nat
      BY DEF Typed
    <3> QED BY <3>1, <3>2, <3>3 DEF Tracker
  <2>2. attempts \in Nat /\ attempts + 1 <= RetryPolicy.max_attempts
    BY <1>1, PolicyAssumption, ValidPoliciesUsable DEF Typed, Accounted, Waiting
  <2>3. Typed'
    BY <1>1, <1>6 DEF Typed, Waiting, Spawned, Deadline
  <2>4. Len(telemetry'.ended) = attempts /\ Len(telemetry'.finished) = 0
    BY <1>2, <2>1 DEF Settled
  <2>5. \A i \in DOMAIN telemetry'.ended : IsRetryable(telemetry'.ended[i].code)
    BY <1>2, <2>1 DEF Accounted
  <2>6. Accounted'
    BY <1>6, <2>1, <2>2, <2>4, <2>5 DEF Accounted, Over, StreamOpen
  <2> QED BY <2>3, <2>6
<1> QED BY <1>1, <1>4, <1>5, <1>6, BeginAttemptEffect

\* So does every step that leaves the trackers and the account of attempts as
\* they are, while the stream stays open, or the operation over, or waiting.
LEMMA QuietBooks ==
  ASSUME Typed, Accounted, UNCHANGED <<original, attempts>>, Alike(telemetry'),
         now' \in Nat, now' <= Deadline, rows_returned' \in Nat,
         active' \in ActiveAttempt, receiver' \in BOOLEAN,
         pc' \in {"Streaming", "Handling", "Sending", "Terminating"} => result' = "Stream",
         \/ pc' = pc
         \/ StreamOpen /\ pc' \in {"Connecting", "Streaming", "Handling", "Sending"}
         \/ Over /\ pc' = "Done"
  PROVE  Typed' /\ Accounted'
<1>1. Typed'
  BY DEF Typed, Waiting, Spawned, Deadline, StreamOpen, Over
<1>2. (Over' <=> Over) /\ (StreamOpen' <=> StreamOpen) /\ (pc' = pc \/ (pc' # "Idle" /\ pc' # "Backoff"))
  BY DEF Over, StreamOpen
<1>3. Accounted'
  BY <1>2 DEF Accounted, Alike
<1> QED BY <1>1, <1>3

\* Finishing the attempt and then the operation keeps the books.
LEMMA CloseBooks ==
  ASSUME Typed, Accounted, ~Over, NEW u, Alike(u),
         NEW code \in AllCodes, NEW rows \in Int, NEW last \in AllCodes, NEW total \in Int,
         telemetry' = FinishOperation(FinishAttempt(u, code, rows), last, total),
         UNCHANGED <<original, now, attempts, receiver>>,
         rows_returned' \in Nat, active' \in ActiveAttempt,
         pc' \in {"Terminating", "Done"}, pc' = "Terminating" => result' = "Stream"
  PROVE  Typed' /\ Accounted' /\ telemetry'.finished[1].code = last
<1>1. Settled(FinishAttempt(u, code, rows))
  BY FinishSettles
<1> QED BY <1>1, EndBooks

\* A response that breaks the protocol keeps them too.
LEMMA InvalidBooks ==
  ASSUME Typed, Accounted, ~Over, NEW u, Alike(u), Invalid(u),
         UNCHANGED <<original, now, attempts, receiver, rows_returned>>
  PROVE  Typed' /\ Accounted'
<1>1. /\ telemetry' = FinishOperation(FinishAttempt(u, "Unknown", active.rows), "Unknown", rows_returned)
      /\ pc' \in {"Terminating", "Done"} /\ (pc' = "Terminating" => result' = "Stream")
      /\ active' = NoAttempt
  BY DEF Invalid, Fail, Spawned, DropStream
<1>2. "Unknown" \in AllCodes /\ active.rows \in Int /\ rows_returned \in Nat /\ NoAttempt \in ActiveAttempt
  BY DEF Typed, AllCodes, ActiveAttempt, NoAttempt
<1> QED BY <1>1, <1>2, CloseBooks

\* The steps that read a response keep the books.
LEMMA ReadBooks ==
  ASSUME Typed, Accounted,
         (\E key \in ServerMarkers(server) : ReceiveMarker(key)) \/ ReceiveChunk \/ NextChunk
  PROVE  Typed' /\ Accounted'
<1>1. ~Over /\ StreamOpen /\ result = "Stream"
  BY DEF ReceiveMarker, ReceiveChunk, NextChunk, Over, StreamOpen, Typed, Spawned
<1>2. Alike(telemetry) /\ Alike(FirstResponse(telemetry))
  BY ResponseAlike DEF Accounted
<1>3. rows_returned \in Nat /\ active \in ActiveAttempt /\ [active EXCEPT !.before = rows_returned] \in ActiveAttempt
      /\ now \in Nat /\ now <= Deadline /\ receiver \in BOOLEAN
  BY DEF Typed, ActiveAttempt
<1>4. ASSUME NEW next, NEW t, Alike(t), NEW a \in ActiveAttempt, HandleChunk(next, t, a)
      PROVE  Typed' /\ Accounted'
  <2> DEFINE outcome == PushChunk(merger, next.chunk)
  <2>1. UNCHANGED <<original, now, attempts, receiver>>
    BY <1>4 DEF HandleChunk, channel
  <2>2. CASE rows_returned' = rows_returned /\ Invalid(t)
    BY <1>1, <1>4, <2>1, <2>2, InvalidBooks
  <2>3. CASE /\ pc' \in {"Handling", "Sending"} /\ telemetry' = t /\ active' = a
             /\ rows_returned' \in {rows_returned, rows_returned + 1} /\ result' = result
    <3>1. rows_returned' \in Nat /\ Alike(telemetry')
      BY <1>3, <1>4, <2>3
    <3> QED BY <1>1, <1>3, <1>4, <2>1, <2>3, <3>1, QuietBooks
  <2> HIDE DEF outcome
  <2> QED BY <1>4, <2>2, <2>3 DEF HandleChunk, outcome
<1>5. ASSUME NEW key, ReceiveMarker(key)
      PROVE  Typed' /\ Accounted'
  <2> DEFINE outcome == ScanMarker(merger, key)
  <2>1. UNCHANGED <<original, now, attempts, receiver, rows_returned>>
    BY <1>5 DEF ReceiveMarker, channel
  <2>2. CASE Invalid(FirstResponse(telemetry))
    BY <1>1, <1>2, <2>1, <2>2, InvalidBooks
  <2>3. CASE /\ pc' = "Handling" /\ telemetry' = FirstResponse(telemetry)
             /\ active' = [active EXCEPT !.before = rows_returned] /\ result' = result
    <3>1. rows_returned' \in Nat /\ Alike(telemetry')
      BY <1>2, <1>3, <2>1, <2>3
    <3> QED BY <1>1, <1>3, <2>1, <2>3, <3>1, QuietBooks
  <2> HIDE DEF outcome
  <2> QED BY <1>5, <2>2, <2>3 DEF ReceiveMarker, outcome
<1>6. CASE ReceiveChunk
  <2>1. PICK next \in ServerChunks(server) :
          HandleChunk(next, FirstResponse(telemetry), [active EXCEPT !.before = rows_returned])
    BY <1>6 DEF ReceiveChunk
  <2> QED BY <1>2, <1>3, <1>4, <2>1
<1>7. CASE NextChunk
  <2>1. PICK next \in ServerChunks(server) : HandleChunk(next, telemetry, active)
    BY <1>7 DEF NextChunk
  <2> QED BY <1>2, <1>3, <1>4, <2>1
<1> QED BY <1>5, <1>6, <1>7

\* Every step keeps the books.
LEMMA BooksStep ==
  ASSUME Typed, Accounted, [Next]_vars
  PROVE  Typed' /\ Accounted'
<1>1. /\ now \in Nat /\ now <= Deadline /\ rows_returned \in Nat /\ attempts \in Nat
      /\ active \in ActiveAttempt /\ active.rows \in Int /\ active.before \in Int
      /\ NoAttempt \in ActiveAttempt /\ receiver \in BOOLEAN /\ Deadline \in Nat
  BY PolicyAssumption DEF Typed, ActiveAttempt, NoAttempt, Deadline
<1>2. {"Ok", "Cancelled", "Unknown"} \subseteq AllCodes
  BY DEF AllCodes
<1>3. Alike(telemetry)
  BY DEF Alike, Accounted
<1>4. CASE Start \/ Wake
  BY <1>4, BeginBooks
<1>5. CASE \/ \E code \in Codes, info \in RetryInfos : ConnectFails(code, info) \/ StreamFails(code, info)
           \/ ConnectTimesOut \/ StreamTimesOut
  BY <1>5, FailuresAreAlike, FailureBooks
<1>6. CASE (\E key \in ServerMarkers(server) : ReceiveMarker(key)) \/ ReceiveChunk \/ NextChunk
  BY <1>6, ReadBooks
<1>7. CASE Connected
  BY <1>1, <1>3, <1>7, QuietBooks DEF Connected, scan, rpc, channel, StreamOpen
<1>8. CASE SendRow
  BY <1>1, <1>3, <1>8, QuietBooks DEF SendRow, scan, rpc, StreamOpen, Typed, Spawned
<1>9. CASE SendFails
  <2>1. /\ ~Over /\ pc' = "Done" /\ active' = NoAttempt
        /\ telemetry' = FinishOperation(FinishAttempt(telemetry, "Cancelled", active.rows), "Cancelled", rows_returned)
        /\ UNCHANGED <<original, now, attempts, receiver, rows_returned>>
    BY <1>9 DEF SendFails, scan, channel, DropStream, Over
  <2> QED BY <1>1, <1>2, <1>3, <2>1, CloseBooks
<1>10. CASE EndResponse
  <2> DEFINE rows == active.rows + (rows_returned - active.before)
  <2>1. rows \in Int /\ [active EXCEPT !.rows = rows, !.before = 0] \in ActiveAttempt
    <3>1. rows \in Int
      BY <1>1
    <3> HIDE DEF rows
    <3>2. \A x, y \in Int : [active EXCEPT !.rows = x, !.before = y] \in ActiveAttempt
      BY <1>1 DEF ActiveAttempt
    <3> DEFINE none == 0
    <3>3. none \in Int
      OBVIOUS
    <3> HIDE DEF none
    <3>4. [active EXCEPT !.rows = rows, !.before = none] \in ActiveAttempt
      BY <3>1, <3>2, <3>3
    <3> QED BY <3>1, <3>4, Zenon DEF none
  <2>2. pc = "Handling" /\ UNCHANGED <<original, now, attempts, receiver, rows_returned>>
    BY <1>10 DEF EndResponse, scan, channel
  <2>3. CASE /\ Stop(FinishOperation(FinishAttempt(telemetry, "Ok", rows), "Ok", rows_returned))
             /\ DropStream
    <3>1. /\ ~Over /\ pc' = "Done" /\ active' = NoAttempt
          /\ telemetry' = FinishOperation(FinishAttempt(telemetry, "Ok", rows), "Ok", rows_returned)
      BY <2>2, <2>3 DEF Stop, DropStream, Over
    <3> HIDE DEF rows
    <3> QED BY <1>1, <1>2, <1>3, <2>1, <2>2, <3>1, CloseBooks
  <2>4. CASE /\ pc' = "Streaming" /\ active' = [active EXCEPT !.rows = rows, !.before = 0]
             /\ UNCHANGED <<server, wake, outgoing, result, telemetry>>
    <3> HIDE DEF rows
    <3> QED BY <1>1, <1>3, <2>1, <2>2, <2>4, QuietBooks DEF StreamOpen, Typed, Spawned
  <2> HIDE DEF rows
  <2> QED BY <1>10, <2>3, <2>4 DEF EndResponse, rows
<1>11. CASE StreamEnds
  <2>1. /\ ~Over /\ pc' \in {"Terminating", "Done"} /\ (pc' = "Terminating" => result' = "Stream")
        /\ active' = NoAttempt
        /\ \E last \in {"Ok", "Unknown"} :
             telemetry' = FinishOperation(FinishAttempt(telemetry, "Ok", active.rows), last, rows_returned)
        /\ UNCHANGED <<original, now, attempts, receiver, rows_returned>>
    BY <1>11 DEF StreamEnds, Stop, Fail, Spawned, DropStream, Over, scan, channel
  <2> QED BY <1>1, <1>2, <1>3, <2>1, CloseBooks
<1>12. CASE SendTerminal
  BY <1>1, <1>3, <1>12, QuietBooks DEF SendTerminal, scan, rpc, Over, Typed
<1>13. CASE Cancel
  <2>1. /\ ~Over /\ pc' = "Done" /\ active' = NoAttempt
        /\ telemetry' = FinishOperation(FinishAttempt(telemetry, "Cancelled", active.rows), "Cancelled", rows_returned)
        /\ UNCHANGED <<original, now, attempts, receiver, rows_returned>>
    BY <1>13 DEF Cancel, Stop, scan, channel, DropStream, Over
  <2> QED BY <1>1, <1>2, <1>3, <2>1, CloseBooks
<1>14. CASE DropStart
  <2>1. /\ ~Over /\ pc' = "Done" /\ active' = NoAttempt
        /\ telemetry' = FinishOperation(FinishAttempt(telemetry, "Cancelled", 0), "Cancelled", 0)
        /\ UNCHANGED <<original, now, attempts, receiver, rows_returned>>
    BY <1>14 DEF DropStart, DropTrackers, scan, channel, DropStream, Over
  <2> QED BY <1>1, <1>2, <1>3, <2>1, CloseBooks
<1>15. CASE Take
  BY <1>1, <1>3, <1>15, QuietBooks DEF Take, scan, rpc, Typed, Spawned
<1>16. CASE DropStreamHandle
  BY <1>1, <1>3, <1>16, QuietBooks DEF DropStreamHandle, scan, rpc, Typed, Spawned
<1>17. CASE Tick
  BY <1>1, <1>3, <1>17, QuietBooks DEF Tick, scan, rpc, channel, Typed, Spawned
<1>18. CASE UNCHANGED vars
  BY <1>1, <1>3, <1>18, QuietBooks DEF vars, scan, rpc, channel, Typed, Spawned
<1> QED BY <1>4, <1>5, <1>6, <1>7, <1>8, <1>9, <1>10, <1>11, <1>12, <1>13, <1>14, <1>15,
           <1>16, <1>17, <1>18 DEF Next, Operation

\* They are in order at the start.
LEMMA BooksInit ==
  ASSUME Init
  PROVE  Typed /\ Accounted
<1>1. telemetry \in Tracker
  <2>1. <<>> \in Seq(AttemptEnd) /\ <<>> \in Seq(OperationEnd)
    OBVIOUS
  <2> QED BY <2>1 DEF Init, NewOperation, Tracker
<1>2. Len(telemetry.ended) = 0 /\ Len(telemetry.finished) = 0 /\ telemetry.attempts = 0 /\ ~telemetry.active
  BY DEF Init, NewOperation
<1>3. Typed
  BY PolicyAssumption DEF Init, Typed, Deadline, Waiting, NoAttempt, ActiveAttempt, Spawned
<1>4. DOMAIN telemetry.ended = {}
  BY DEF Init, NewOperation
<1>5. pc = "Idle" /\ attempts = 0
  BY DEF Init
<1>6. Accounted
  <2>1. ~Over /\ ~StreamOpen
    BY <1>5 DEF Over, StreamOpen
  <2>2. telemetry.attempts = attempts /\ (telemetry.active <=> StreamOpen)
    BY <1>2, <1>5, <2>1
  <2>3. Len(telemetry.ended) = attempts - (IF telemetry.active THEN 1 ELSE 0)
    <3>1. (IF telemetry.active THEN 1 ELSE 0) = 0
      BY <1>2, Zenon
    <3> DEFINE running == IF telemetry.active THEN 1 ELSE 0
    <3>2. running = 0
      BY <3>1
    <3> HIDE DEF running
    <3>3. Len(telemetry.ended) = attempts - running
      BY <1>2, <1>5, <3>2
    <3> QED BY <3>3 DEF running
  <2>4. attempts <= RetryPolicy.max_attempts
    BY <1>5, PolicyAssumption
  <2>5. Len(telemetry.finished) = (IF Over THEN 1 ELSE 0)
    BY <1>2, <2>1
  <2> QED BY <1>1, <1>4, <1>5, <2>1, <2>2, <2>3, <2>4, <2>5 DEF Accounted
<1> QED BY <1>3, <1>6

\* An attempt starts only before the deadline of the operation, within the
\* attempt budget, with its own deadline inside the operation's, and after a
\* failure only behind a transient code: for every policy that validate_policies
\* accepts (open).
THEOREM AttemptsAreBounded == Spec => AttemptsBounded
<1>1. Init => Typed /\ Accounted
  BY BooksInit
<1>2. Typed /\ Accounted /\ [Next]_vars => (Typed /\ Accounted)'
  BY BooksStep
<1>3. ASSUME Typed, Accounted, [Next]_vars, attempts' # attempts
      PROVE  /\ attempts' = attempts + 1 /\ attempts' <= RetryPolicy.max_attempts
             /\ now < Deadline /\ active'.deadline \in (now + 1)..Deadline
             /\ \A i \in DOMAIN telemetry.ended : IsRetryable(telemetry.ended[i].code)
  <2>1. Start \/ Wake
    BY <1>3 DEF Next, Operation, vars, Connected, ConnectFails, StreamFails, ConnectTimesOut,
      StreamTimesOut, ReceiveMarker, ReceiveChunk, NextChunk, HandleChunk, EndResponse, StreamEnds,
      SendRow, SendFails, SendTerminal, Cancel, DropStart, Take, DropStreamHandle, Tick
  <2>2. BeginAttempt /\ ~Over
    BY <2>1 DEF Start, Wake, Over
  <2>3. /\ attempts' = attempts + 1 /\ now < Deadline /\ active'.deadline \in (now + 1)..Deadline
    BY <1>3, <2>2, BeginAttemptEffect
  <2>4. Accounted'
    BY <1>3, BooksStep
  <2> QED BY <1>3, <2>2, <2>3, <2>4 DEF Accounted
<1> QED BY <1>1, <1>2, <1>3, PTL DEF Spec, AttemptsBounded

-----------------------------------------------------------------------------
(* Passing a key.                                                          *)

\* A key that the read may pass at progress p.
Passable(o, p, key) ==
  /\ o \in Requests /\ p \in (Key \ {EmptyKey}) \cup {NoKey} /\ key \in Key \ {EmptyKey}
  /\ Ahead(o, p, key)
  /\ \A j \in Owed(o, p) \ {key} : Beyond(j, key, o.reversed)

\* What is ahead of a key is ahead of every progress the key is ahead of.
LEMMA AheadTransitive ==
  ASSUME NEW o \in Requests, NEW p \in (Key \ {EmptyKey}) \cup {NoKey}, NEW key \in Key \ {EmptyKey},
         Ahead(o, p, key), NEW k \in Key, Ahead(o, key, k)
  PROVE  Ahead(o, p, k)
BY DEF Ahead, Beyond, Key, NoKey, EmptyKey

\* Passing a key takes it, and nothing else, from what is owed.
LEMMA PassingKey ==
  ASSUME NEW o, NEW p, NEW key, Passable(o, p, key)
  PROVE  Owed(o, key) = Owed(o, p) \ {key}
<1>1. key # NoKey /\ key \in Key \ {EmptyKey} /\ Table \subseteq Key
  BY TableAssumption DEF Passable, Key, NoKey
<1>2. ASSUME NEW k \in Owed(o, key)
      PROVE  k \in Owed(o, p) \ {key}
  <2>1. k \in Selected(o) /\ k \in Key /\ Ahead(o, key, k)
    BY <1>1 DEF Owed, Selected
  <2>2. Ahead(o, p, k)
    BY <2>1, AheadTransitive DEF Passable
  <2>3. k # key
    BY <1>1, <2>1 DEF Ahead, Beyond, Key
  <2> QED BY <2>1, <2>2, <2>3 DEF Owed
<1>3. ASSUME NEW k \in Owed(o, p) \ {key}
      PROVE  k \in Owed(o, key)
  BY DEF Passable, Owed, Ahead
<1> QED BY <1>2, <1>3

\* The selected keys are finitely many.
LEMMA SelectedFinite ==
  ASSUME NEW o
  PROVE  /\ IsFiniteSet(Selected(o)) /\ Selected(o) \subseteq Key \ {EmptyKey}
         /\ \A S \in SUBSET Selected(o) :
              /\ IsFiniteSet(S) /\ Cardinality(S) \in Nat
              /\ Cardinality(S) <= Cardinality(Selected(o))
              /\ Cardinality(S) = Cardinality(Selected(o)) => S = Selected(o)
<1>1. IsFiniteSet(Selected(o)) /\ Selected(o) \subseteq Key \ {EmptyKey}
  BY TableAssumption, FS_Subset DEF Selected
<1> QED BY <1>1, FS_Subset, FS_CardinalityType

\* What the read has passed comes before the first key it owes.
LEMMA PassedIsBefore ==
  ASSUME NEW o, NEW p, NEW key \in Owed(o, p), Passable(o, p, key)
  PROVE  Before(o, key) = Selected(o) \ Owed(o, p)
<1>1. ASSUME NEW j \in Selected(o)
      PROVE  Beyond(key, j, o.reversed) <=> j \notin Owed(o, p)
  <2>1. j \in Key /\ key \in Key /\ p \in Int /\ o.reversed \in BOOLEAN
    BY SelectedFinite DEF Passable, Key, NoKey, Requests
  <2>2. CASE j \in Owed(o, p)
    <3>1. j = key \/ Beyond(j, key, o.reversed)
      BY <2>2 DEF Passable
    <3> QED BY <2>1, <2>2, <3>1 DEF Beyond, Key
  <2>3. CASE j \notin Owed(o, p)
    <3>1. p # NoKey /\ ~Beyond(j, p, o.reversed)
      BY <2>3 DEF Owed, Ahead
    <3>2. Beyond(key, p, o.reversed)
      BY <3>1 DEF Passable, Ahead
    <3> QED BY <2>1, <2>3, <3>1, <3>2 DEF Beyond, Key
  <2> QED BY <2>2, <2>3
<1> QED BY <1>1 DEF Before, Owed

\* A key has the rank of the number of selected keys before it, and no other
\* key has that rank.
LEMMA RankUnique ==
  ASSUME NEW o \in Requests, NEW k1 \in Selected(o), NEW k2 \in Selected(o),
         Cardinality(Before(o, k1)) = Cardinality(Before(o, k2))
  PROVE  k1 = k2
<1>1. ASSUME NEW a \in Selected(o), NEW b \in Selected(o), Beyond(b, a, o.reversed)
      PROVE  Cardinality(Before(o, a)) # Cardinality(Before(o, b))
  <2>1. a \in Key /\ b \in Key /\ \A j \in Selected(o) : j \in Key
    BY SelectedFinite
  <2>2. o.reversed \in BOOLEAN
    BY DEF Requests
  <2>3. Before(o, a) \subseteq Before(o, b)
    <3>1. ASSUME NEW j \in Selected(o), Beyond(a, j, o.reversed)
          PROVE  Beyond(b, j, o.reversed)
      <4>1. j \in Key
        BY <2>1
      <4> QED BY <1>1, <2>1, <2>2, <3>1, <4>1 DEF Beyond, Key
    <3> QED BY <3>1 DEF Before
  <2>4. a \in Before(o, b) /\ a \notin Before(o, a)
    BY <1>1, <2>1, <2>2 DEF Before, Beyond, Key
  <2>5. IsFiniteSet(Before(o, b))
    BY SelectedFinite DEF Before
  <2>6. Cardinality(Before(o, a)) = Cardinality(Before(o, b)) => Before(o, a) = Before(o, b)
    BY <2>3, <2>5, FS_Subset
  <2> QED BY <2>4, <2>6
<1>2. k1 \in Key /\ k2 \in Key /\ o.reversed \in BOOLEAN
  BY SelectedFinite DEF Requests
<1>3. k1 = k2 \/ Beyond(k1, k2, o.reversed) \/ Beyond(k2, k1, o.reversed)
  BY <1>2 DEF Beyond, Key
<1> QED BY <1>1, <1>3

\* The next row the server sends is the next the caller expects.
LEMMA NextIsNth ==
  ASSUME NEW o, NEW p, NEW key \in Owed(o, p), Passable(o, p, key),
         NEW n \in Nat, n = Cardinality(Selected(o) \ Owed(o, p))
  PROVE  NthKey(o, n + 1) = key
<1>1. key \in Selected(o) /\ Cardinality(Before(o, key)) = n /\ o \in Requests
  BY PassedIsBefore DEF Owed, Passable
<1>2. NthKey(o, n + 1) \in Selected(o) /\ Cardinality(Before(o, NthKey(o, n + 1))) = (n + 1) - 1
  <2>1. \E k \in Selected(o) : Cardinality(Before(o, k)) = (n + 1) - 1
    BY <1>1
  <2> QED BY <2>1 DEF NthKey
<1> QED BY <1>1, <1>2, RankUnique

\* A read that owes nothing, or has reached its limit, has returned all.
LEMMA AllReturned ==
  ASSUME Typed, Counted, Owed(original, progress) = {} \/ LimitReached(original, rows_returned)
  PROVE  rows_returned = RowCount(original)
<1> DEFINE passed == Selected(original) \ Owed(original, progress)
           all == Cardinality(Selected(original))
<1>1. original.rows_limit \in Nat /\ rows_returned \in Nat /\ rows_returned = Cardinality(passed)
  BY QueriesAssumption DEF Typed, Counted, Requests
<1>2. all \in Nat /\ rows_returned <= all
  BY <1>1, SelectedFinite
<1>3. RowCount(original) = IF original.rows_limit = 0 \/ all < original.rows_limit
                             THEN all ELSE original.rows_limit
  BY DEF RowCount
<1>4. CASE Owed(original, progress) = {}
  <2>1. rows_returned = all
    BY <1>1, <1>4
  <2> HIDE DEF all
  <2> QED BY <1>1, <1>2, <1>3, <2>1 DEF Counted
<1>5. CASE LimitReached(original, rows_returned)
  <2> HIDE DEF all
  <2> QED BY <1>1, <1>2, <1>3, <1>5 DEF Counted, LimitReached
<1> QED BY <1>4, <1>5

-----------------------------------------------------------------------------
(* The rows: what the stream, the merger and the counters know of them.    *)

\* A step that leaves them alone and the stream as open as it was.
LEMMA QuietRows ==
  ASSUME RowsInv, UNCHANGED <<original, rows_returned, progress, merger, server>>,
         pc' = pc \/ (StreamOpen /\ pc' \in {"Streaming", "Handling"})
  PROVE  RowsInv'
<1>1. (Over' <=> Over) /\ (StreamOpen' <=> StreamOpen)
  BY DEF Over, StreamOpen
<1>2. StreamMatches'
  BY <1>1 DEF RowsInv, StreamMatches
<1>3. MergerMatches'
  BY <1>1 DEF RowsInv, MergerMatches
<1>4. Counted'
  BY DEF RowsInv, Counted
<1> QED BY <1>2, <1>3, <1>4 DEF RowsInv

\* Without a stream there is only the progress to keep.
LEMMA ClosedRows ==
  ASSUME RowsInv, UNCHANGED <<original, rows_returned, progress>>, server' = NoStream,
         merger'.last_complete_key = merger.last_complete_key,
         \/ pc' \in {"Terminating", "Done"}
         \/ pc' = "Backoff" /\ BetweenRows(merger', original.reversed, progress)
  PROVE  RowsInv'
<1>1. ~StreamOpen' /\ (Over' \/ BetweenRows(merger', original.reversed, progress))
  BY DEF StreamOpen, Over
<1>2. StreamMatches'
  BY <1>1 DEF RowsInv, StreamMatches, NoStream, StreamFields
<1>3. MergerMatches'
  BY <1>1 DEF RowsInv, MergerMatches, NoStream
<1>4. Counted'
  BY DEF RowsInv, Counted
<1> QED BY <1>2, <1>3, <1>4 DEF RowsInv

\* A stream that breaks, also inside a row, leaves the merger between rows.
LEMMA FailureRows ==
  ASSUME RowsInv, AttemptFails
  PROVE  RowsInv'
<1>1. /\ pc \in {"Connecting", "Streaming"} /\ server' = NoStream
      /\ merger' = IF pc = "Connecting" THEN merger ELSE DiscardPartial(merger)
      /\ UNCHANGED <<original, rows_returned, progress>>
  BY DEF AttemptFails, DropStream
<1>2. ~Over /\ server.half \in BOOLEAN /\ (pc = "Connecting" => ~server.half)
  BY <1>1 DEF Over, RowsInv, StreamMatches
<1>3. BetweenRows(merger', original.reversed, progress)
  <2>1. CASE server.half
    <3>1. InsideRow(merger, original.reversed, progress, NextKey(server))
      BY <1>2, <2>1 DEF RowsInv, MergerMatches
    <3>2. merger' = ClearActiveRow(merger)
      BY <1>1, <1>2, <2>1, <3>1 DEF InsideRow, DiscardPartial
    <3> QED BY <3>1, <3>2, ClearedRow DEF InsideRow
  <2>2. CASE ~server.half
    <3>1. BetweenRows(merger, original.reversed, progress)
      BY <1>2, <2>2 DEF RowsInv, MergerMatches
    <3>2. merger' = merger
      BY <1>1, <3>1 DEF BetweenRows, DiscardPartial
    <3> QED BY <3>1, <3>2
  <2> QED BY <1>2, <2>1, <2>2
<1>4. merger'.last_complete_key = merger.last_complete_key
  BY <1>3 DEF BetweenRows, RowsInv, MergerMatches
<1>5. pc' \in {"Terminating", "Done", "Backoff"}
  <2>1. PICK code \in AllCodes \ {"Ok"}, info \in Nat, rows \in Int :
          Reopen(FinishAttempt(telemetry, code, rows), code, info)
    BY DEF AttemptFails
  <2> QED BY <2>1, ReopenEffect DEF FailsWith
<1> QED BY <1>1, <1>3, <1>4, <1>5, ClosedRows

\* No range of a caller's query ends at the empty key: the end that the service
\* takes for no end at all and trim_range for the least key.
ProperEnds ==
  \A o \in Queries : \A rs \in o.rows : \A r \in rs.row_ranges : NonEmptyEnd(r)

\* The request of a new attempt asks for what is owed.
LEMMA RequestResumes ==
  ASSUME ProperEnds, NEW o \in Queries, NEW p \in (Key \ {EmptyKey}) \cup {NoKey}, NEW n \in Nat,
         NEW r \in ResumeRequest(o, p, n)
  PROVE  Resumes(r, NoKey, r.rows_limit, o, p, n) /\ r.rows_limit \in Nat
<1>1. /\ o \in Requests /\ (\A rs1, rs2 \in o.rows : rs1 = rs2)
      /\ \A rs \in o.rows : \A range \in rs.row_ranges : NonEmptyEnd(range)
  BY QueriesAssumption DEF ProperEnds
<1>2. ~LimitReached(o, n)
  BY DEF ResumeRequest
<1>3. /\ r.reversed = o.reversed /\ r.rows_limit \in Nat
      /\ IF o.rows_limit = 0 THEN r.rows_limit = 0
         ELSE r.rows_limit > 0 /\ r.rows_limit + n = o.rows_limit
  BY <1>1, <1>2, ResumeRequestLimit
<1>4. ResumeRequest(o, p, n) = {r}
  BY <1>1, ResumeRequestUnique
<1>5. ASSUME NEW k \in Key \ {EmptyKey}
      PROVE  Selects(r, k) <=> Selects(o, k) /\ Ahead(o, p, k)
  <2>1. CASE p = NoKey
    <3> DEFINE limited == [o EXCEPT !.rows_limit = IF o.rows_limit > 0 THEN o.rows_limit - n ELSE 0]
    <3>1. r = limited
      BY <1>2, <2>1 DEF ResumeRequest
    <3>2. limited.rows = o.rows
      BY <1>1 DEF Requests
    <3> HIDE DEF limited
    <3> QED BY <2>1, <3>1, <3>2 DEF Selects, Ahead
  <2>2. CASE p # NoKey
    <3>1. (\E q \in ResumeRequest(o, p, n) : Selects(q, k)) <=> Selects(o, k) /\ Beyond(k, p, o.reversed)
      BY <1>1, <1>2, <2>2, ResumeRequestExact
    <3> QED BY <1>4, <2>2, <3>1 DEF Ahead
  <2> QED BY <2>1, <2>2
<1> QED BY <1>3, <1>5 DEF Resumes

\* When there is no request to make, everything has been returned.
LEMMA NoRequestLeft ==
  ASSUME ProperEnds, Typed, RowsInv, ResumeRequest(original, progress, rows_returned) = {}
  PROVE  rows_returned = RowCount(original)
<1>1. /\ original \in Requests /\ rows_returned \in Nat
      /\ progress \in (Key \ {EmptyKey}) \cup {NoKey}
      /\ \A rs \in original.rows : \A range \in rs.row_ranges : NonEmptyEnd(range)
  BY QueriesAssumption DEF ProperEnds, Typed, RowsInv, StreamMatches
<1>2. CASE LimitReached(original, rows_returned)
  BY <1>2, AllReturned DEF RowsInv
<1>3. CASE ~LimitReached(original, rows_returned)
  <2>1. progress \in Key \ {EmptyKey} /\ progress # NoKey
    BY <1>1, <1>3 DEF ResumeRequest, Key, NoKey
  <2>2. ASSUME NEW k \in Selected(original)
        PROVE  k \notin Owed(original, progress)
    <3>1. k \in Key \ {EmptyKey} /\ Selects(original, k)
      BY SelectedFinite DEF Selected
    <3>2. ~Beyond(k, progress, original.reversed)
      BY <1>1, <1>3, <2>1, <3>1, ResumeRequestExact
    <3> QED BY <2>1, <3>2 DEF Owed, Ahead
  <2>3. Owed(original, progress) = {}
    BY <2>2 DEF Owed
  <2> QED BY <2>3, AllReturned DEF RowsInv
<1> QED BY <1>2, <1>3

\* Starting an attempt, or not needing one, keeps the rows in step.
LEMMA BeginRows ==
  ASSUME ProperEnds, Typed, RowsInv, Start \/ Wake
  PROVE  RowsInv'
<1>1. /\ pc \in Waiting /\ BeginAttempt
      /\ UNCHANGED <<original, rows_returned, progress, merger>>
  BY DEF Start, Wake, Waiting, scan
<1>2. server = NoStream /\ ~Over
  BY <1>1 DEF Waiting, StreamOpen, Over, RowsInv, StreamMatches
<1>3. BetweenRows(merger, original.reversed, progress)
  BY <1>2 DEF RowsInv, MergerMatches, NoStream
<1>4. CASE pc' \in {"Terminating", "Done"} /\ UNCHANGED rpc
  BY <1>1, <1>2, <1>4, ClosedRows DEF rpc
<1>5. CASE /\ \E r \in ResumeRequest(original, progress, rows_returned) : server' = Opened(r)
           /\ pc' = "Connecting"
  <2>1. PICK r \in ResumeRequest(original, progress, rows_returned) : server' = Opened(r)
    BY <1>5
  <2>2. /\ original \in Queries /\ progress \in (Key \ {EmptyKey}) \cup {NoKey}
        /\ rows_returned \in Nat /\ original \in Requests
    BY QueriesAssumption DEF Typed, RowsInv, StreamMatches
  <2>3. Resumes(r, NoKey, r.rows_limit, original, progress, rows_returned) /\ r.rows_limit \in Nat
    BY <2>2, RequestResumes
  <2>4. /\ DOMAIN server' = StreamFields /\ server'.request = {r} /\ server'.last = NoKey
        /\ server'.half = FALSE /\ server'.left = r.rows_limit /\ server'.resets = 0
    BY <2>1 DEF Opened, StreamFields
  <2>5. server'.half \in BOOLEAN /\ server'.left \in Nat /\ server'.resets \in Nat
    <3>1. server'.half \in BOOLEAN
      BY <2>4, Zenon
    <3>2. 0 \in Nat
      OBVIOUS
    <3> QED BY <2>3, <2>4, <3>1, <3>2, Zenon
  <2>6. StreamOpen' /\ ~Over'
    BY <1>5 DEF StreamOpen, Over
  <2>7. StreamMatches'
    <3>1. Resumes(r, server'.last, server'.left, original', progress', rows_returned')
      BY <1>1, <2>3, <2>4
    <3> QED BY <1>1, <1>5, <2>2, <2>4, <2>5, <2>6, <3>1 DEF StreamMatches
  <2>8. MergerMatches'
    BY <1>1, <1>3, <2>4, <2>6 DEF RowsInv, MergerMatches
  <2>9. Counted'
    BY <1>1 DEF RowsInv, Counted
  <2> QED BY <2>7, <2>8, <2>9 DEF RowsInv
<1> QED BY <1>1, <1>4, <1>5, BeginAttemptEffect DEF FailsWith, rpc

\* Once a stream has passed a key, it resumes behind that key.
LEMMA ResumesOn ==
  ASSUME NEW r, NEW last, NEW left, NEW o, NEW p, NEW n, Resumes(r, last, left, o, p, n),
         NEW key, Passable(o, p, key), NEW left2, NEW n2,
         o.rows_limit # 0 => left2 + n2 = o.rows_limit
  PROVE  Resumes(r, key, left2, o, key, n2)
<1>1. key # NoKey /\ key \in Key \ {EmptyKey} /\ o \in Requests /\ Ahead(o, p, key)
      /\ p \in (Key \ {EmptyKey}) \cup {NoKey}
  BY DEF Passable, Key, NoKey
<1>2. \A k \in Key \ {EmptyKey} : Ahead(o, key, k) => Ahead(o, p, k)
  BY <1>1, AheadTransitive
<1> QED BY <1>1, <1>2 DEF Resumes

\* The next key of the stream may be passed.
LEMMA NextKeyPassable ==
  ASSUME Typed, RowsInv, StreamOpen, HasNext(server)
  PROVE  Passable(original, progress, NextKey(server)) /\ NextKey(server) \in Owed(original, progress)
<1>1. /\ NextKey(server) \in Owed(original, progress)
      /\ \A j \in Owed(original, progress) \ {NextKey(server)} :
           Beyond(j, NextKey(server), original.reversed)
  BY NextKeyIsFirst DEF RowsInv
<1>2. NextKey(server) \in Key \ {EmptyKey} /\ Ahead(original, progress, NextKey(server))
  BY <1>1, SelectedFinite DEF Owed
<1>3. original \in Requests /\ progress \in (Key \ {EmptyKey}) \cup {NoKey}
  BY QueriesAssumption DEF Typed, RowsInv, StreamMatches
<1> QED BY <1>1, <1>2, <1>3 DEF Passable

\* A scan marker of the server is accepted, and passes a key that holds no row.
LEMMA MarkerEffect ==
  ASSUME Typed, RowsInv, NEW key \in ServerMarkers(server), ReceiveMarker(key)
  PROVE  /\ pc = "Streaming" /\ pc' = "Handling" /\ telemetry' = FirstResponse(telemetry)
         /\ progress' = key /\ server' = [server EXCEPT !.last = key]
         /\ BetweenRows(merger', original.reversed, key)
         /\ UNCHANGED <<original, rows_returned, outgoing, channel, result>>
         /\ Passable(original, progress, key) /\ key \notin Table /\ ~server.half
<1>1. /\ pc = "Streaming" /\ StreamOpen /\ ~Over
  BY DEF ReceiveMarker, StreamOpen, Over
<1>2. PICK r : server.request = {r} /\ Resumes(r, server.last, server.left, original, progress, rows_returned)
  BY <1>1 DEF RowsInv, StreamMatches
<1>3. /\ ~server.half /\ key \in ScanKeys /\ key \notin Table
      /\ Selects(r, key)
      /\ server.last # NoKey => Beyond(key, server.last, original.reversed)
      /\ \A j \in Unsent(server) : Beyond(j, key, original.reversed)
  BY <1>2 DEF ServerMarkers, Resumes
<1>4. key \in Key \ {EmptyKey}
  BY <1>3, TableAssumption
<1>5. Ahead(original, progress, key)
  <2>1. server.last \in {NoKey, progress}
    BY DEF RowsInv, StreamMatches
  <2> QED BY <1>2, <1>3, <1>4, <2>1 DEF Resumes, Ahead
<1>6. \A j \in Owed(original, progress) : Beyond(j, key, original.reversed)
  BY <1>1, <1>3, UnsentIsOwed DEF RowsInv
<1>7. Passable(original, progress, key)
  BY <1>4, <1>5, <1>6, QueriesAssumption DEF Passable, Typed, RowsInv, StreamMatches
<1>8. BetweenRows(merger, original.reversed, progress)
  BY <1>1, <1>3 DEF RowsInv, MergerMatches
<1> DEFINE outcome == ScanMarker(merger, key)
<1>9. outcome.issue = "None" /\ BetweenRows(outcome.merger, original.reversed, key)
  BY <1>5, <1>8, MergeMarker DEF Ahead
<1> HIDE DEF outcome
<1> QED BY <1>1, <1>3, <1>7, <1>9 DEF ReceiveMarker, outcome

\* A marker keeps the rows in step.
LEMMA MarkerRows ==
  ASSUME Typed, RowsInv, NEW key \in ServerMarkers(server), ReceiveMarker(key)
  PROVE  RowsInv'
<1>1. /\ pc = "Streaming" /\ pc' = "Handling"
      /\ progress' = key /\ server' = [server EXCEPT !.last = key]
      /\ BetweenRows(merger', original.reversed, key)
      /\ UNCHANGED <<original, rows_returned>>
      /\ Passable(original, progress, key) /\ key \notin Table /\ ~server.half
  BY MarkerEffect
<1>2. StreamOpen /\ StreamOpen' /\ ~Over'
  BY <1>1 DEF StreamOpen, Over
<1>3. PICK r : server.request = {r} /\ Resumes(r, server.last, server.left, original, progress, rows_returned)
  BY <1>2 DEF RowsInv, StreamMatches
<1>4. /\ DOMAIN server' = StreamFields /\ server'.request = {r} /\ server'.last = key
      /\ server'.half = server.half /\ server'.left = server.left /\ server'.resets = server.resets
  BY <1>1, <1>3 DEF RowsInv, StreamMatches, StreamFields
<1>5. Resumes(r, key, server.left, original, key, rows_returned)
  <2>1. original.rows_limit # 0 => server.left + rows_returned = original.rows_limit
    BY <1>3 DEF Resumes
  <2> QED BY <1>1, <1>3, <2>1, ResumesOn
<1>6. StreamMatches'
  <2>1. key \in Key \ {EmptyKey}
    BY <1>1 DEF Passable
  <2>2. Resumes(r, server'.last, server'.left, original', progress', rows_returned')
    BY <1>1, <1>4, <1>5
  <2> QED BY <1>1, <1>2, <1>4, <2>1, <2>2 DEF RowsInv, StreamMatches
<1>7. MergerMatches'
  BY <1>1, <1>2, <1>4 DEF MergerMatches, BetweenRows
<1>8. Counted'
  <2>1. Owed(original, key) = Owed(original, progress) \ {key}
    BY <1>1, PassingKey
  <2>2. key \notin Owed(original, progress)
    BY <1>1 DEF Owed, Selected
  <2>3. Owed(original, key) = Owed(original, progress)
    BY <2>1, <2>2
  <2> QED BY <1>1, <2>3 DEF RowsInv, Counted
<1> QED BY <1>6, <1>7, <1>8 DEF RowsInv

\* What the server sends next does not depend on how far it is in a row.
LEMMA SameNext ==
  ASSUME NEW s1, NEW s2, s1.request = s2.request, s1.last = s2.last, s1.left = s2.left
  PROVE  HasNext(s1) = HasNext(s2) /\ NextKey(s1) = NextKey(s2)
<1>1. Unsent(s1) = Unsent(s2)
  BY DEF Unsent
<1> QED BY <1>1 DEF HasNext, LimitLeft, NextKey

\* A chunk keeps the rows in step.
LEMMA ChunkRows ==
  ASSUME Typed, RowsInv, pc \in {"Streaming", "Handling"},
         NEW next \in ServerChunks(server), NEW t, NEW a, HandleChunk(next, t, a)
  PROVE  RowsInv'
<1> DEFINE key == NextKey(server)
<1>1. HasNext(server) /\ UNCHANGED original
  BY ChunkEffect DEF RowsInv
<1>2. StreamOpen
  BY DEF StreamOpen
<1>3. PICK r : server.request = {r} /\ Resumes(r, server.last, server.left, original, progress, rows_returned)
  BY <1>2 DEF RowsInv, StreamMatches
<1>4. /\ DOMAIN server = StreamFields /\ server.left \in Nat /\ server.resets \in Nat
      /\ server.half \in BOOLEAN /\ server.last \in {NoKey, progress}
      /\ progress \in (Key \ {EmptyKey}) \cup {NoKey} /\ rows_returned \in Nat
  BY DEF RowsInv, StreamMatches, Typed
<1>5. Passable(original, progress, key) /\ key \in Owed(original, progress)
  BY <1>1, <1>2, NextKeyPassable
<1>6. CASE /\ pc' = "Handling" /\ UNCHANGED <<rows_returned, progress>>
           /\ server' = [server EXCEPT !.half = TRUE]
           /\ InsideRow(merger', original.reversed, progress, NextKey(server))
  <2>1. /\ DOMAIN server' = StreamFields /\ server'.request = server.request /\ server'.last = server.last
        /\ server'.half = TRUE /\ server'.left = server.left /\ server'.resets = server.resets
    BY <1>4, <1>6 DEF StreamFields
  <2>2. HasNext(server') /\ NextKey(server') = NextKey(server)
    BY <1>1, <2>1, SameNext
  <2>3. StreamOpen' /\ ~Over'
    BY <1>6 DEF StreamOpen, Over
  <2>4. StreamMatches'
    <3>1. Resumes(r, server'.last, server'.left, original', progress', rows_returned')
      BY <1>1, <1>3, <1>6, <2>1
    <3>2. server'.half \in BOOLEAN
      BY <2>1, Zenon
    <3> QED BY <1>3, <1>4, <1>6, <2>1, <2>3, <3>1, <3>2 DEF StreamMatches
  <2>5. MergerMatches'
    BY <1>1, <1>6, <2>1, <2>2, <2>3 DEF MergerMatches, InsideRow
  <2>6. Counted'
    BY <1>1, <1>6 DEF RowsInv, Counted
  <2> QED BY <2>4, <2>5, <2>6 DEF RowsInv
<1>7. CASE /\ pc' = "Handling" /\ UNCHANGED <<rows_returned, progress>>
           /\ server' = [server EXCEPT !.half = FALSE, !.resets = @ + 1]
           /\ BetweenRows(merger', original.reversed, progress)
  <2>1. /\ DOMAIN server' = StreamFields /\ server'.request = server.request /\ server'.last = server.last
        /\ server'.half = FALSE /\ server'.left = server.left /\ server'.resets = server.resets + 1
    BY <1>4, <1>7 DEF StreamFields
  <2>2. StreamOpen' /\ ~Over'
    BY <1>7 DEF StreamOpen, Over
  <2>3. StreamMatches'
    <3>1. Resumes(r, server'.last, server'.left, original', progress', rows_returned')
      BY <1>1, <1>3, <1>7, <2>1
    <3>2. server'.half \in BOOLEAN
      BY <2>1, Zenon
    <3>3. server'.resets \in Nat
      BY <1>4, <2>1
    <3> QED BY <1>3, <1>4, <1>7, <2>1, <2>2, <3>1, <3>2, <3>3 DEF StreamMatches
  <2>4. MergerMatches'
    BY <1>1, <1>7, <2>1, <2>2 DEF MergerMatches, BetweenRows
  <2>5. Counted'
    BY <1>1, <1>7 DEF RowsInv, Counted
  <2> QED BY <2>3, <2>4, <2>5 DEF RowsInv
<1>8. CASE /\ pc' = "Sending"
           /\ rows_returned' = rows_returned + 1 /\ progress' = NextKey(server)
           /\ server' = [server EXCEPT !.last = NextKey(server), !.half = FALSE,
                                       !.left = IF @ > 0 THEN @ - 1 ELSE 0]
           /\ BetweenRows(merger', original.reversed, NextKey(server))
  <2> DEFINE left == IF server.left > 0 THEN server.left - 1 ELSE 0
  <2>1. left \in Nat
    BY <1>4
  <2>2. original \in Requests /\ key \in Key \ {EmptyKey}
    BY <1>5 DEF Passable
  <2> HIDE DEF left, key
  <2>3. /\ DOMAIN server' = StreamFields /\ server'.request = server.request /\ server'.last = key
        /\ server'.half = FALSE /\ server'.left = left /\ server'.resets = server.resets
    BY <1>4, <1>8 DEF StreamFields, left, key
  <2>4. StreamOpen' /\ ~Over'
    BY <1>8 DEF StreamOpen, Over
  <2>5. original.rows_limit # 0 => server.left > 0 /\ left + (rows_returned + 1) = original.rows_limit
    <3>1. r.rows_limit > 0 => server.left > 0
      BY <1>1, <1>3 DEF HasNext, LimitLeft
    <3>2. original.rows_limit # 0 => r.rows_limit > 0 /\ server.left + rows_returned = original.rows_limit
      BY <1>3 DEF Resumes
    <3>3. server.left > 0 => left = server.left - 1
      BY DEF left
    <3> QED BY <1>4, <3>1, <3>2, <3>3
  <2>6. Resumes(r, key, left, original, key, rows_returned + 1)
    BY <1>3, <1>5, <2>5, ResumesOn DEF key
  <2>7. StreamMatches'
    <3>1. Resumes(r, server'.last, server'.left, original', progress', rows_returned')
      BY <1>1, <1>8, <2>3, <2>6 DEF key
    <3>2. server'.half \in BOOLEAN
      BY <2>3, Zenon
    <3> QED BY <1>3, <1>4, <1>8, <2>1, <2>2, <2>3, <2>4, <3>1, <3>2 DEF StreamMatches, key
  <2>8. MergerMatches'
    BY <1>1, <1>8, <2>3, <2>4 DEF MergerMatches, BetweenRows
  <2>9. Counted'
    <3> DEFINE passed == Selected(original) \ Owed(original, progress)
    <3>1. Owed(original, key) = Owed(original, progress) \ {key}
      BY <1>5, PassingKey DEF key
    <3>2. Selected(original) \ Owed(original, key) = passed \cup {key} /\ key \notin passed
      BY <1>5, <3>1 DEF Owed, key
    <3>3. IsFiniteSet(passed)
      BY SelectedFinite
    <3>4. Cardinality(passed \cup {key}) = Cardinality(passed) + 1
      BY <3>2, <3>3, FS_AddElement
    <3>5. rows_returned = Cardinality(passed)
      BY DEF RowsInv, Counted
    <3>6. progress' = key /\ original' = original /\ rows_returned' = rows_returned + 1
      BY <1>1, <1>8 DEF key
    <3>7. original.rows_limit > 0 => rows_returned + 1 <= original.rows_limit
      BY <1>4, <2>1, <2>2, <2>5 DEF Requests
    <3> HIDE DEF passed
    <3> QED BY <3>2, <3>4, <3>5, <3>6, <3>7 DEF Counted
  <2> QED BY <2>7, <2>8, <2>9 DEF RowsInv
<1> QED BY <1>6, <1>7, <1>8, ChunkEffect DEF RowsInv

\* Every step keeps the rows in step.
LEMMA RowsStep ==
  ASSUME ProperEnds, Typed, RowsInv, [Next]_vars
  PROVE  RowsInv'
<1>1. CASE Start \/ Wake
  BY <1>1, BeginRows
<1>2. CASE \/ \E code \in Codes, info \in RetryInfos : ConnectFails(code, info) \/ StreamFails(code, info)
           \/ ConnectTimesOut \/ StreamTimesOut
  BY <1>2, FailuresAreAlike, FailureRows
<1>3. CASE \E key \in ServerMarkers(server) : ReceiveMarker(key)
  BY <1>3, MarkerRows
<1>4. CASE ReceiveChunk
  <2>1. PICK next \in ServerChunks(server) :
          HandleChunk(next, FirstResponse(telemetry), [active EXCEPT !.before = rows_returned])
    BY <1>4 DEF ReceiveChunk
  <2> QED BY <1>4, <2>1, ChunkRows DEF ReceiveChunk
<1>5. CASE NextChunk
  <2>1. PICK next \in ServerChunks(server) : HandleChunk(next, telemetry, active)
    BY <1>5 DEF NextChunk
  <2> QED BY <1>5, <2>1, ChunkRows DEF NextChunk
<1>6. CASE Connected
  BY <1>6, QuietRows DEF Connected, scan, rpc, StreamOpen
<1>7. CASE SendRow
  BY <1>7, QuietRows DEF SendRow, scan, rpc, StreamOpen
<1>8. CASE SendFails
  BY <1>8, ClosedRows DEF SendFails, scan, DropStream
<1>9. CASE EndResponse
  <2>1. pc = "Handling" /\ UNCHANGED <<original, scan>>
    BY <1>9 DEF EndResponse
  <2>2. \/ pc' = "Done" /\ server' = NoStream
        \/ pc' = "Streaming" /\ server' = server
    BY <1>9 DEF EndResponse, Stop, DropStream
  <2> QED BY <2>1, <2>2, QuietRows, ClosedRows DEF scan, StreamOpen
<1>10. CASE StreamEnds
  BY <1>10, ClosedRows DEF StreamEnds, Fail, Stop, scan, DropStream
<1>11. CASE SendTerminal
  <2>1. server = NoStream
    BY <1>11 DEF SendTerminal, RowsInv, StreamMatches, StreamOpen
  <2> QED BY <1>11, <2>1, ClosedRows DEF SendTerminal, scan, rpc
<1>12. CASE Cancel
  BY <1>12, ClosedRows DEF Cancel, Stop, scan, DropStream
<1>13. CASE DropStart
  BY <1>13, ClosedRows DEF DropStart, scan, DropStream
<1>14. CASE Take \/ DropStreamHandle \/ Tick \/ UNCHANGED vars
  BY <1>14, QuietRows DEF Take, DropStreamHandle, Tick, vars, scan, rpc
<1> QED BY <1>1, <1>2, <1>3, <1>4, <1>5, <1>6, <1>7, <1>8, <1>9, <1>10, <1>11, <1>12, <1>13, <1>14
        DEF Next, Operation

\* At the start nothing has been passed.
LEMMA RowsInit ==
  ASSUME Init
  PROVE  RowsInv
<1>1. /\ pc = "Idle" /\ progress = NoKey /\ server = NoStream /\ rows_returned = 0
      /\ merger = NewMerger(original.reversed) /\ original \in Requests
  BY QueriesAssumption DEF Init
<1>2. ~StreamOpen /\ ~Over
  BY <1>1 DEF StreamOpen, Over
<1>3. StreamMatches
  <2>1. /\ DOMAIN NoStream = StreamFields /\ NoStream.half = FALSE /\ NoStream.left = 0
        /\ NoStream.resets = 0 /\ NoStream.last = NoKey
    BY DEF NoStream, StreamFields
  <2>2. NoStream.half \in BOOLEAN /\ 0 \in Nat
    BY <2>1, Zenon
  <2> QED BY <1>1, <1>2, <2>1, <2>2, Zenon DEF StreamMatches
<1>4. MergerMatches
  <2>1. ~server.half
    BY <1>1 DEF NoStream
  <2>2. BetweenRows(merger, original.reversed, NoKey)
    BY <1>1 DEF NewMerger, BetweenRows, MergerFields
  <2> QED BY <1>1, <1>2, <2>1, <2>2 DEF MergerMatches, BetweenRows
<1>5. Counted
  <2>1. Owed(original, progress) = Selected(original)
    BY <1>1 DEF Owed, Ahead
  <2>2. Selected(original) \ Owed(original, progress) = {}
    BY <2>1
  <2>3. Cardinality({}) = 0
    BY FS_EmptySet
  <2>4. original.rows_limit \in Nat
    BY <1>1 DEF Requests
  <2> QED BY <1>1, <2>2, <2>3, <2>4 DEF Counted
<1> QED BY <1>3, <1>4, <1>5 DEF RowsInv

-----------------------------------------------------------------------------
(* The items: what is in the channel and how the stream ends.              *)

\* The rows a query may deliver, and the errors that may end it.
Items(o) == {RowItem(ServerRow(NthKey(o, n))) : n \in Nat} \cup {ErrorItem(error) : error \in ReadErrors}

\* The first items are a sequence of as many rows.
LEMMA FirstItemsSeq ==
  ASSUME NEW o, NEW n \in Nat
  PROVE  /\ FirstItems(o, n) \in Seq(Items(o)) /\ Len(FirstItems(o, n)) = n
         /\ \A i \in 1..n : FirstItems(o, n)[i] = RowItem(ServerRow(NthKey(o, i)))
<1> DEFINE Item(i) == RowItem(ServerRow(NthKey(o, i)))
<1>1. \A i \in 1..n : Item(i) \in Items(o)
  BY DEF Items
<1> HIDE DEF Item
<1>2. [i \in 1..n |-> Item(i)] \in Seq(Items(o)) /\ Len([i \in 1..n |-> Item(i)]) = n
  BY <1>1
<1>3. FirstItems(o, n) = [i \in 1..n |-> Item(i)]
  BY DEF FirstItems, Item
<1> QED BY <1>2, <1>3 DEF Item

\* One more row makes one more item.
LEMMA NextItem ==
  ASSUME NEW o, NEW n \in Nat, n > 0
  PROVE  Append(FirstItems(o, n - 1), RowItem(ServerRow(NthKey(o, n)))) = FirstItems(o, n)
<1> DEFINE items == FirstItems(o, n - 1)
           item == RowItem(ServerRow(NthKey(o, n)))
           all == FirstItems(o, n)
<1>1. /\ items \in Seq(Items(o)) /\ Len(items) = n - 1
      /\ \A i \in 1..(n - 1) : items[i] = RowItem(ServerRow(NthKey(o, i)))
  BY FirstItemsSeq
<1>2. /\ all \in Seq(Items(o)) /\ Len(all) = n
      /\ \A i \in 1..n : all[i] = RowItem(ServerRow(NthKey(o, i)))
  BY FirstItemsSeq
<1>3. item \in Items(o)
  BY DEF Items
<1>4. all[n] = item /\ \A i \in 1..(n - 1) : all[i] = items[i]
  BY <1>1, <1>2
<1> HIDE DEF items, item, all
<1> DEFINE more == Append(items, item)
<1>5. /\ more \in Seq(Items(o)) /\ Len(more) = n
      /\ \A i \in 1..(n - 1) : more[i] = items[i]
      /\ more[n] = item
  BY <1>1, <1>3, AppendProperties
<1> HIDE DEF more
<1>6. \A i \in 1..n : more[i] = all[i]
  BY <1>4, <1>5
<1>7. more = all
  BY <1>2, <1>5, <1>6, SeqEqual
<1> QED BY <1>7 DEF more, items, item, all

\* A step that puts nothing in the channel and does not end the operation.
LEMMA QuietItems ==
  ASSUME ItemsInv, UNCHANGED <<original, rows_returned, sent, outgoing>>, receiver' => receiver,
         \/ pc' = pc /\ UNCHANGED <<result, telemetry>>
         \/ {pc, pc'} \subseteq {"Idle", "Backoff", "Connecting", "Streaming", "Handling"}
  PROVE  ItemsInv'
<1>1. ItemsMatch'
  BY DEF ItemsInv, ItemsMatch, Delivered, ButLast, Spawned
<1>2. EndsRight'
  BY DEF ItemsInv, EndsRight
<1> QED BY <1>1, <1>2 DEF ItemsInv

\* A step that ends the operation with a code.
LEMMA EndItems ==
  ASSUME ItemsInv, ~Over, UNCHANGED <<original, rows_returned, sent, receiver>>,
         NEW code, telemetry'.finished[1].code = code,
         \/ /\ pc' = "Terminating" /\ code # "Ok" /\ pc # "Sending"
            /\ \E error \in ReadErrors : outgoing' = ErrorItem(error)
         \/ /\ pc' = "Done" /\ outgoing' = NoItem
            /\ result' = "Stream" /\ receiver => code = "Ok"
            /\ pc = "Sending" => ~receiver /\ code # "Ok",
         code = "Ok" => rows_returned = RowCount(original)
  PROVE  ItemsInv'
<1>1. ItemsMatch'
  <2>1. CASE pc = "Sending"
    BY <2>1 DEF ItemsInv, ItemsMatch, Delivered, ButLast, Spawned, Over
  <2>2. CASE pc # "Sending"
    <3>1. sent = Delivered
      BY <2>2 DEF ItemsInv, ItemsMatch, Over
    <3> QED BY <2>2, <3>1 DEF ItemsMatch, Delivered, ButLast, Spawned
  <2> QED BY <2>1, <2>2
<1>2. EndsRight'
  BY DEF EndsRight
<1> QED BY <1>1, <1>2 DEF ItemsInv

\* The code an operation finishes with is the code it reports.
LEMMA EndCode ==
  ASSUME NEW t, Settled(t), NEW code \in AllCodes, NEW rows \in Int,
         telemetry' = FinishOperation(t, code, rows)
  PROVE  telemetry'.finished[1].code = code
BY OperationFinished DEF Settled

\* A report also has its code when the end of the attempt is reported before it.
LEMMA CloseCode ==
  ASSUME Typed, Accounted, ~Over, NEW code \in AllCodes, NEW rows \in Int,
         NEW last \in AllCodes, NEW total \in Int,
         telemetry' = FinishOperation(FinishAttempt(telemetry, code, rows), last, total)
  PROVE  telemetry'.finished[1].code = last
<1>1. Alike(telemetry)
  BY DEF Alike, Accounted
<1>2. Settled(FinishAttempt(telemetry, code, rows))
  BY <1>1, FinishSettles
<1> QED BY <1>2, EndCode

\* An error ends the stream behind the rows, or is what `start` returns.
LEMMA ErrorItems ==
  ASSUME Typed, ItemsInv, pc \in {"Idle", "Backoff", "Connecting", "Streaming"},
         NEW code, code # "Ok", telemetry'.finished[1].code = code,
         NEW error \in ReadErrors, FailsWith(error),
         UNCHANGED <<original, rows_returned, channel>>
  PROVE  ItemsInv'
<1>1. ~Over /\ pc # "Sending" /\ outgoing = NoItem
  BY DEF Over, ItemsInv, ItemsMatch
<1>2. error # "Stream"
  BY DEF ReadErrors
<1>3. UNCHANGED <<original, rows_returned, sent, receiver>>
  BY DEF channel
<1>4. CASE pc' = "Terminating" /\ outgoing' = ErrorItem(error)
  BY <1>1, <1>3, <1>4, EndItems
<1>5. CASE pc' = "Done" /\ outgoing' = outgoing /\ result' = error
  BY <1>1, <1>2, <1>3, <1>5, EndItems
<1> QED BY <1>4, <1>5 DEF FailsWith

\* Starting an attempt, or not needing one.
LEMMA BeginItems ==
  ASSUME ProperEnds, Typed, Accounted, RowsInv, ItemsInv, Start \/ Wake
  PROVE  ItemsInv'
<1>1. /\ pc \in Waiting /\ BeginAttempt
      /\ UNCHANGED <<original, rows_returned, channel>>
  BY DEF Start, Wake, Waiting, scan
<1>2. Settled(telemetry) /\ ~Over
  BY <1>1, WaitingSettled
<1>3. rows_returned \in Int /\ {"Ok", "DeadlineExceeded"} \subseteq AllCodes
  BY DEF Typed, AllCodes
<1>4. outgoing = NoItem
  BY <1>1 DEF Waiting, ItemsInv, ItemsMatch
<1>5. CASE /\ ResumeRequest(original, progress, rows_returned) = {}
           /\ telemetry' = FinishOperation(telemetry, "Ok", rows_returned)
           /\ pc' = "Done" /\ UNCHANGED <<attempts, rpc, wake, outgoing, result>>
  <2>1. telemetry'.finished[1].code = "Ok"
    BY <1>2, <1>3, <1>5, EndCode
  <2>2. rows_returned = RowCount(original)
    BY <1>5, NoRequestLeft
  <2>3. pc # "Sending"
    BY <1>1 DEF Waiting
  <2> QED BY <1>1, <1>2, <1>4, <1>5, <2>1, <2>2, <2>3, EndItems DEF channel
<1>6. CASE /\ telemetry' = FinishOperation(telemetry, "DeadlineExceeded", rows_returned)
           /\ FailsWith("ReadDeadlineExceeded") /\ UNCHANGED <<attempts, rpc>>
  <2>1. telemetry'.finished[1].code = "DeadlineExceeded"
    BY <1>2, <1>3, <1>6, EndCode
  <2>2. "ReadDeadlineExceeded" \in ReadErrors /\ pc \in {"Idle", "Backoff", "Connecting", "Streaming"}
    BY <1>1 DEF ReadErrors, Waiting
  <2> QED BY <1>1, <1>6, <2>1, <2>2, ErrorItems
<1>7. CASE pc' = "Connecting" /\ UNCHANGED outgoing
  BY <1>1, <1>7, QuietItems DEF Waiting, channel
<1> QED BY <1>1, <1>5, <1>6, <1>7, BeginAttemptEffect

\* A failed attempt.
LEMMA FailureItems ==
  ASSUME Typed, Accounted, ItemsInv, AttemptFails
  PROVE  ItemsInv'
<1>1. PICK code \in AllCodes \ {"Ok"}, info \in Nat, rows \in Int :
        Reopen(FinishAttempt(telemetry, code, rows), code, info)
  BY DEF AttemptFails
<1>2. /\ ~Over /\ rows_returned \in Int /\ pc \in {"Connecting", "Streaming"}
      /\ UNCHANGED <<original, rows_returned, channel>>
  BY DEF AttemptFails, Over, Typed
<1>3. ASSUME NEW c \in AllCodes \ {"Ok"}, NEW error \in ReadErrors,
             telemetry' = FinishOperation(FinishAttempt(telemetry, code, rows), c, rows_returned),
             FailsWith(error)
      PROVE  ItemsInv'
  <2>1. telemetry'.finished[1].code = c
    BY <1>2, <1>3, CloseCode
  <2> QED BY <1>2, <1>3, <2>1, ErrorItems
<1>4. CASE pc' = "Backoff" /\ UNCHANGED <<outgoing, result>>
  BY <1>2, <1>4, QuietItems DEF channel
<1> QED BY <1>1, <1>3, <1>4, ReopenEffect

\* A chunk: the row it completes, if it does, is the next that is expected.
LEMMA ChunkItems ==
  ASSUME Typed, RowsInv, ItemsInv, pc \in {"Streaming", "Handling"},
         NEW next \in ServerChunks(server), NEW t, NEW a, HandleChunk(next, t, a)
  PROVE  ItemsInv'
<1>1. HasNext(server) /\ UNCHANGED <<original, channel>> /\ StreamOpen
  BY ChunkEffect DEF RowsInv, StreamOpen
<1>2. CASE pc' = "Handling" /\ UNCHANGED <<rows_returned, outgoing>>
  BY <1>1, <1>2, QuietItems DEF channel
<1>3. CASE /\ pc' = "Sending" /\ rows_returned' = rows_returned + 1
           /\ outgoing' = RowItem(ServerRow(NextKey(server)))
  <2>1. /\ rows_returned \in Nat /\ (rows_returned + 1) - 1 = rows_returned
        /\ rows_returned = Cardinality(Selected(original) \ Owed(original, progress))
    BY DEF Typed, RowsInv, Counted
  <2>2. NthKey(original, rows_returned + 1) = NextKey(server)
    BY <1>1, <2>1, NextKeyPassable, NextIsNth
  <2>3. sent = FirstItems(original, rows_returned)
    BY DEF ItemsInv, ItemsMatch, Delivered
  <2>4. sent' = FirstItems(original', rows_returned' - 1)
    BY <1>1, <1>3, <2>1, <2>3 DEF channel
  <2>5. outgoing' = RowItem(ServerRow(NthKey(original', rows_returned')))
    BY <1>1, <1>3, <2>2
  <2>6. rows_returned' > 0
    BY <1>3, <2>1
  <2> QED BY <1>3, <2>4, <2>5, <2>6 DEF ItemsInv, ItemsMatch, EndsRight, ButLast
<1> QED BY <1>2, <1>3, ChunkEffect DEF RowsInv

\* A stream the server has closed has delivered everything, and the merger is
\* between rows.
LEMMA StreamComplete ==
  ASSUME Typed, RowsInv, pc = "Streaming", ~HasNext(server)
  PROVE  FinishStream(merger).issue = "None" /\ rows_returned = RowCount(original)
<1>1. StreamOpen /\ ~Over
  BY DEF StreamOpen, Over
<1>2. BetweenRows(merger, original.reversed, progress)
  BY <1>1 DEF RowsInv, MergerMatches
<1>3. FinishStream(merger).issue = "None"
  BY <1>2 DEF BetweenRows, FinishStream, Accept
<1>4. CASE Unsent(server) = {}
  BY <1>1, <1>3, <1>4, UnsentIsOwed, AllReturned DEF RowsInv
<1>5. CASE ~LimitLeft(server)
  <2>1. PICK r : server.request = {r} /\ Resumes(r, server.last, server.left, original, progress, rows_returned)
    BY <1>1 DEF RowsInv, StreamMatches
  <2>2. r.rows_limit > 0 /\ ~(server.left > 0) /\ server.left \in Nat
    BY <1>5, <2>1 DEF LimitLeft, RowsInv, StreamMatches
  <2>3. original.rows_limit \in Nat /\ rows_returned \in Nat
    BY QueriesAssumption DEF Typed, Requests
  <2>4. original.rows_limit # 0 /\ server.left + rows_returned = original.rows_limit
    BY <2>1, <2>2 DEF Resumes
  <2>5. LimitReached(original, rows_returned)
    BY <2>2, <2>3, <2>4 DEF LimitReached
  <2> QED BY <1>3, <2>5, AllReturned DEF RowsInv
<1> QED BY <1>4, <1>5 DEF HasNext

\* Every step keeps the items in order.
LEMMA ItemsStep ==
  ASSUME ProperEnds, Typed, Accounted, RowsInv, ItemsInv, [Next]_vars
  PROVE  ItemsInv'
<1>1. /\ rows_returned \in Nat /\ active.rows \in Int /\ active.before \in Int
      /\ receiver \in BOOLEAN /\ {"Ok", "Cancelled"} \subseteq AllCodes
  BY DEF Typed, ActiveAttempt, AllCodes
<1>2. CASE Start \/ Wake
  BY <1>2, BeginItems
<1>3. CASE \/ \E code \in Codes, info \in RetryInfos : ConnectFails(code, info) \/ StreamFails(code, info)
           \/ ConnectTimesOut \/ StreamTimesOut
  BY <1>3, FailuresAreAlike, FailureItems
<1>4. CASE \E key \in ServerMarkers(server) : ReceiveMarker(key)
  BY <1>4, MarkerEffect, QuietItems DEF channel
<1>5. CASE ReceiveChunk
  <2>1. PICK next \in ServerChunks(server) :
          HandleChunk(next, FirstResponse(telemetry), [active EXCEPT !.before = rows_returned])
    BY <1>5 DEF ReceiveChunk
  <2> QED BY <1>5, <2>1, ChunkItems DEF ReceiveChunk
<1>6. CASE NextChunk
  <2>1. PICK next \in ServerChunks(server) : HandleChunk(next, telemetry, active)
    BY <1>6 DEF NextChunk
  <2> QED BY <1>6, <2>1, ChunkItems DEF NextChunk
<1>7. CASE Connected
  BY <1>7, QuietItems DEF Connected, scan, channel
<1>8. CASE SendRow
  <2>1. /\ rows_returned > 0 /\ sent = FirstItems(original, rows_returned - 1)
        /\ outgoing = RowItem(ServerRow(NthKey(original, rows_returned)))
    BY <1>8 DEF SendRow, ItemsInv, ItemsMatch, ButLast
  <2>2. Append(sent, outgoing) = FirstItems(original, rows_returned)
    BY <1>1, <2>1, NextItem
  <2>3. /\ pc' = "Handling" /\ sent' = FirstItems(original', rows_returned') /\ outgoing' = NoItem
    BY <1>8, <2>2 DEF SendRow, scan
  <2> QED BY <2>3 DEF ItemsInv, ItemsMatch, EndsRight, Delivered
<1>9. CASE SendFails
  <2>1. /\ ~Over /\ pc' = "Done" /\ outgoing' = NoItem /\ ~receiver
        /\ telemetry' = FinishOperation(FinishAttempt(telemetry, "Cancelled", active.rows), "Cancelled", rows_returned)
        /\ UNCHANGED <<original, rows_returned, sent, receiver>>
    BY <1>9 DEF SendFails, scan, channel, Over
  <2>2. telemetry'.finished[1].code = "Cancelled"
    BY <1>1, <2>1, CloseCode
  <2> QED BY <2>1, <2>2, EndItems
<1>10. CASE EndResponse
  <2> DEFINE rows == active.rows + (rows_returned - active.before)
  <2>1. rows \in Int /\ pc = "Handling" /\ UNCHANGED <<original, rows_returned, sent, receiver>>
    BY <1>1, <1>10 DEF EndResponse, scan, channel
  <2>2. CASE /\ LimitReached(original, rows_returned)
             /\ Stop(FinishOperation(FinishAttempt(telemetry, "Ok", rows), "Ok", rows_returned))
    <3>1. /\ ~Over /\ pc' = "Done" /\ outgoing' = NoItem
          /\ telemetry' = FinishOperation(FinishAttempt(telemetry, "Ok", rows), "Ok", rows_returned)
      BY <2>1, <2>2 DEF Stop, Over, ItemsInv, ItemsMatch
    <3> HIDE DEF rows
    <3>2. telemetry'.finished[1].code = "Ok"
      BY <1>1, <2>1, <3>1, CloseCode
    <3>3. rows_returned = RowCount(original)
      BY <2>2, AllReturned DEF RowsInv
    <3> QED BY <2>1, <3>1, <3>2, <3>3, EndItems
  <2>3. CASE pc' = "Streaming" /\ UNCHANGED outgoing
    BY <2>1, <2>3, QuietItems
  <2> HIDE DEF rows
  <2> QED BY <1>10, <2>2, <2>3 DEF EndResponse, rows
<1>11. CASE StreamEnds
  <2>1. FinishStream(merger).issue = "None" /\ rows_returned = RowCount(original)
    BY <1>11, StreamComplete DEF StreamEnds
  <2>2. /\ ~Over /\ pc = "Streaming" /\ pc' = "Done" /\ outgoing' = NoItem
        /\ telemetry' = FinishOperation(FinishAttempt(telemetry, "Ok", active.rows), "Ok", rows_returned)
        /\ UNCHANGED <<original, rows_returned, sent, receiver>>
    BY <1>11, <2>1 DEF StreamEnds, Stop, Over, scan, channel, ItemsInv, ItemsMatch
  <2>3. telemetry'.finished[1].code = "Ok"
    BY <1>1, <2>2, CloseCode
  <2> QED BY <2>1, <2>2, <2>3, EndItems
<1>12. CASE SendTerminal
  <2>1. /\ pc = "Terminating" /\ pc' = "Done" /\ outgoing' = NoItem
        /\ UNCHANGED <<original, rows_returned, receiver, result, telemetry>>
        /\ sent' = Append(sent, outgoing) \/ (~receiver /\ sent' = sent)
    BY <1>12 DEF SendTerminal, scan
  <2>2. /\ sent = FirstItems(original, rows_returned) /\ telemetry.finished[1].code # "Ok"
        /\ \E error \in ReadErrors : outgoing = ErrorItem(error)
    BY <2>1 DEF ItemsInv, ItemsMatch, EndsRight, Delivered
  <2> QED BY <2>1, <2>2 DEF ItemsInv, ItemsMatch, EndsRight, Delivered, Spawned
<1>13. CASE Cancel
  <2>1. /\ ~Over /\ pc # "Sending" /\ pc' = "Done" /\ outgoing' = NoItem /\ ~receiver
        /\ telemetry' = FinishOperation(FinishAttempt(telemetry, "Cancelled", active.rows), "Cancelled", rows_returned)
        /\ UNCHANGED <<original, rows_returned, sent, receiver>>
    BY <1>13 DEF Cancel, Stop, scan, channel, Over, ItemsInv, ItemsMatch
  <2>2. telemetry'.finished[1].code = "Cancelled"
    BY <1>1, <2>1, CloseCode
  <2> QED BY <2>1, <2>2, EndItems
<1>14. CASE DropStart
  <2>1. /\ ~Over /\ pc # "Sending" /\ pc' = "Done" /\ outgoing' = NoItem /\ result' = "Dropped"
        /\ telemetry' = FinishOperation(FinishAttempt(telemetry, "Cancelled", 0), "Cancelled", 0)
        /\ UNCHANGED <<original, rows_returned, sent, receiver>>
    BY <1>14 DEF DropStart, DropTrackers, scan, channel, Over, ItemsInv, ItemsMatch
  <2>2. telemetry'.finished[1].code = "Cancelled"
    BY <1>1, <2>1, CloseCode
  <2> QED BY <2>1, <2>2, EndItems
<1>15. CASE Take \/ DropStreamHandle \/ Tick \/ UNCHANGED vars
  BY <1>15, QuietItems DEF Take, DropStreamHandle, Tick, vars, scan, channel
<1> QED BY <1>2, <1>3, <1>4, <1>5, <1>6, <1>7, <1>8, <1>9, <1>10, <1>11, <1>12, <1>13, <1>14, <1>15
        DEF Next, Operation

\* The channel starts empty.
LEMMA ItemsInit ==
  ASSUME Init
  PROVE  ItemsInv
<1>1. pc = "Idle" /\ outgoing = NoItem /\ sent = <<>> /\ rows_returned = 0
  BY DEF Init
<1>2. FirstItems(original, 0) = <<>>
  <2>1. FirstItems(original, 0) \in Seq(Items(original)) /\ Len(FirstItems(original, 0)) = 0
    BY FirstItemsSeq
  <2> QED BY <2>1
<1> QED BY <1>1, <1>2 DEF ItemsInv, ItemsMatch, EndsRight, Delivered

-----------------------------------------------------------------------------
(* The theorems.                                                           *)

\* The invariant holds in every state of a read, for queries with proper ends.
THEOREM ReadInvariant ==
  ASSUME ProperEnds
  PROVE  Spec => []Inv
<1>1. Init => Inv
  BY BooksInit, RowsInit, ItemsInit DEF Inv
<1>2. Inv /\ [Next]_vars => Inv'
  BY BooksStep, RowsStep, ItemsStep DEF Inv
<1> QED BY <1>1, <1>2, PTL DEF Spec

\* A channel of rows only is taken for what it is.
LEMMA OnlyRows ==
  ASSUME NEW o, NEW n \in Nat
  PROVE  RowsOf(FirstItems(o, n)) = FirstItems(o, n)
<1> DEFINE rows == FirstItems(o, n)
<1>1. /\ rows \in Seq(Items(o)) /\ Len(rows) = n
      /\ \A i \in 1..n : rows[i] = RowItem(ServerRow(NthKey(o, i)))
  BY FirstItemsSeq
<1> HIDE DEF rows
<1>2. ASSUME rows # <<>>
      PROVE  Last(rows).error = "None"
  <2>1. n \in 1..n
    BY <1>1, <1>2
  <2>2. Last(rows) = RowItem(ServerRow(NthKey(o, n)))
    BY <1>1, <2>1 DEF Last
  <2> QED BY <2>2 DEF RowItem
<1>3. RowsOf(rows) = rows
  BY <1>2 DEF RowsOf
<1> QED BY <1>3 DEF rows

\* The rows before an error are those in front of it.
LEMMA RowsThenError ==
  ASSUME NEW o, NEW n \in Nat, NEW error \in ReadErrors
  PROVE  LET items == Append(FirstItems(o, n), ErrorItem(error))
         IN  RowsOf(items) = FirstItems(o, n) /\ FirstItems(o, n) # items
<1> DEFINE rows == FirstItems(o, n)
           item == ErrorItem(error)
           items == Append(rows, item)
<1>1. rows \in Seq(Items(o)) /\ Len(rows) = n
  BY FirstItemsSeq
<1>2. item \in Items(o) /\ item.error = error /\ error # "None"
  BY DEF Items, ErrorItem, ReadErrors
<1> HIDE DEF rows, item
<1>3. /\ items \in Seq(Items(o)) /\ Len(items) = n + 1
      /\ (\A i \in 1..n : items[i] = rows[i]) /\ items[n + 1] = item
  BY <1>1, <1>2, AppendProperties
<1> HIDE DEF items
<1>4. items # <<>> /\ Last(items).error # "None"
  BY <1>2, <1>3 DEF Last
<1> DEFINE front == SubSeq(items, 1, n)
<1>5. RowsOf(items) = front
  BY <1>3, <1>4 DEF RowsOf, Front
<1>6. front \in Seq(Items(o)) /\ Len(front) = n /\ \A i \in 1..n : front[i] = items[i]
  BY <1>3, SubSeqProperties
<1> HIDE DEF front
<1>7. front = rows
  BY <1>1, <1>3, <1>6, SeqEqual
<1>8. rows # items
  BY <1>1, <1>3
<1> QED BY <1>5, <1>7, <1>8 DEF items, item, rows

\* The rows counted are never more than expected.
LEMMA ChannelCount ==
  ASSUME Inv
  PROVE  RowCount(original) \in Nat /\ rows_returned <= RowCount(original)
<1>1. rows_returned \in Nat /\ original.rows_limit \in Nat
  BY QueriesAssumption DEF Inv, Typed, Requests
<1>2. /\ Cardinality(Selected(original)) \in Nat
      /\ rows_returned <= Cardinality(Selected(original))
  BY SelectedFinite DEF Inv, RowsInv, Counted
<1>3. original.rows_limit > 0 => rows_returned <= original.rows_limit
  BY DEF Inv, RowsInv, Counted
<1> QED BY <1>1, <1>2, <1>3 DEF RowCount

\* What the channel holds.
LEMMA ChannelShape ==
  ASSUME Inv
  PROVE  \E n \in Nat :
           /\ n <= RowCount(original) /\ RowsSent = FirstItems(original, n)
           /\ receiver => rows_returned = n + (IF pc = "Sending" THEN 1 ELSE 0)
           /\ \/ sent = FirstItems(original, n) /\ RowsSent = sent
              \/ /\ \E error \in ReadErrors : sent = Append(FirstItems(original, n), ErrorItem(error))
                 /\ pc = "Done" /\ RowsSent # sent /\ telemetry.finished[1].code # "Ok"
<1>1. rows_returned \in Nat
  BY DEF Inv, Typed
<1>2. RowCount(original) \in Nat /\ rows_returned <= RowCount(original)
  BY ChannelCount
<1>3. CASE pc # "Sending" /\ sent = FirstItems(original, rows_returned)
  BY <1>1, <1>2, <1>3, OnlyRows DEF RowsSent
<1>4. CASE /\ rows_returned > 0 /\ sent = FirstItems(original, rows_returned - 1)
           /\ pc = "Sending" \/ (pc # "Sending" /\ ~receiver)
  <2>1. rows_returned - 1 \in Nat /\ rows_returned - 1 <= RowCount(original)
    BY <1>1, <1>2, <1>4
  <2>2. RowsSent = sent
    BY <1>4, <2>1, OnlyRows DEF RowsSent
  <2>3. receiver => rows_returned = (rows_returned - 1) + (IF pc = "Sending" THEN 1 ELSE 0)
    BY <1>1, <1>4
  <2> QED BY <1>4, <2>1, <2>2, <2>3
<1>5. CASE /\ pc = "Done" /\ telemetry.finished[1].code # "Ok"
           /\ \E error \in ReadErrors : sent = Append(FirstItems(original, rows_returned), ErrorItem(error))
  <2>1. RowsSent = FirstItems(original, rows_returned) /\ RowsSent # sent
    BY <1>1, <1>5, RowsThenError DEF RowsSent
  <2>2. receiver => rows_returned = rows_returned + (IF pc = "Sending" THEN 1 ELSE 0)
    BY <1>1, <1>5
  <2> QED BY <1>1, <1>2, <1>5, <2>1, <2>2
<1> QED BY <1>3, <1>4, <1>5 DEF Inv, ItemsInv, ItemsMatch, Delivered, ButLast

\* Whatever fails and is resumed, the rows in the stream are a prefix of what
\* the query selects: none skipped, repeated, reordered, past the limit, or put
\* together from pieces of two attempts (run, handle_response, open).
THEOREM RowsAreExact ==
  ASSUME ProperEnds
  PROVE  Spec => []RowsExact
<1>1. Inv => RowsExact
  <2> SUFFICES ASSUME Inv PROVE RowsExact
    OBVIOUS
  <2>1. PICK n \in Nat : n <= RowCount(original) /\ RowsSent = FirstItems(original, n)
    BY ChannelShape
  <2>2. RowCount(original) \in Nat
    BY ChannelCount
  <2> DEFINE rows == FirstItems(original, n)
             all == FirstItems(original, RowCount(original))
  <2>3. /\ rows \in Seq(Items(original)) /\ Len(rows) = n
        /\ all \in Seq(Items(original)) /\ Len(all) = RowCount(original)
        /\ \A i \in 1..n : rows[i] = all[i]
    BY <2>1, <2>2, FirstItemsSeq
  <2> HIDE DEF rows, all
  <2>4. /\ SubSeq(rows, 1, n) \in Seq(Items(original)) /\ Len(SubSeq(rows, 1, n)) = n
        /\ SubSeq(all, 1, n) \in Seq(Items(original)) /\ Len(SubSeq(all, 1, n)) = n
        /\ \A i \in 1..n : SubSeq(rows, 1, n)[i] = rows[i] /\ SubSeq(all, 1, n)[i] = all[i]
    BY <2>1, <2>2, <2>3, SubSeqProperties
  <2>5. SubSeq(rows, 1, n) = SubSeq(all, 1, n)
    BY <2>3, <2>4, SeqEqual
  <2>6. IsPrefix(rows, all)
    BY <2>1, <2>3, <2>5 DEF IsPrefix
  <2> QED BY <2>1, <2>6 DEF RowsExact, ExpectedItems, rows, all
<1> QED BY <1>1, ReadInvariant, PTL

\* A stream that ends without an error item has delivered every row of the
\* query; nothing is lost in silence (run, open, handle_response).
THEOREM NothingIsLost ==
  ASSUME ProperEnds
  PROVE  Spec => []CompleteUnlessError
<1>1. Inv => CompleteUnlessError
  <2> SUFFICES ASSUME Inv, pc = "Done", Spawned, receiver, RowsSent = sent
               PROVE  sent = ExpectedItems
    BY DEF CompleteUnlessError
  <2>1. \A n \in Nat, error \in ReadErrors : sent # Append(FirstItems(original, n), ErrorItem(error))
    BY RowsThenError DEF RowsSent
  <2>2. rows_returned \in Nat
    BY DEF Inv, Typed
  <2>3. sent = FirstItems(original, rows_returned) /\ telemetry.finished[1].code = "Ok"
    BY <2>1, <2>2 DEF Inv, ItemsInv, ItemsMatch, Delivered
  <2> QED BY <2>3 DEF Inv, ItemsInv, EndsRight, ExpectedItems
<1> QED BY <1>1, ReadInvariant, PTL

\* A server that follows the protocol is never accused of breaking it, also when
\* a stream broke inside a row and the next one starts that row again
\* (handle_response, RowMerger::discard_partial).
THEOREM HonestServersAreAccepted ==
  ASSUME ProperEnds
  PROVE  Spec => []HonestServerAccepted
<1>1. Inv => HonestServerAccepted
  <2> SUFFICES ASSUME Inv, NEW item \in ToSet(sent) \cup {outgoing}
               PROVE  item.error # "InvalidReadRowsResponse"
    BY DEF HonestServerAccepted
  <2>1. /\ \A n : RowItem(ServerRow(NthKey(original, n))).error = "None"
        /\ \A error \in ReadErrors : ErrorItem(error).error # "InvalidReadRowsResponse"
        /\ NoItem.error = "None"
    BY DEF RowItem, ErrorItem, NoItem, ReadErrors
  <2>2. \A x \in Items(original) : x.error # "InvalidReadRowsResponse"
    BY <2>1 DEF Items
  <2>3. CASE item = outgoing
    BY <2>1, <2>3 DEF Inv, ItemsInv, ItemsMatch
  <2>4. CASE item \in ToSet(sent)
    <3>1. PICK n \in Nat : \/ sent = FirstItems(original, n)
                           \/ \E error \in ReadErrors : sent = Append(FirstItems(original, n), ErrorItem(error))
      BY ChannelShape
    <3>2. FirstItems(original, n) \in Seq(Items(original))
          /\ \A error \in ReadErrors : ErrorItem(error) \in Items(original)
      BY FirstItemsSeq DEF Items
    <3>3. sent \in Seq(Items(original))
      BY <3>1, <3>2, AppendProperties
    <3> QED BY <2>2, <2>4, <3>3 DEF ToSet
  <2> QED BY <2>3, <2>4
<1> QED BY <1>1, ReadInvariant, PTL

\* The key a retry resumes behind is the key the merger orders against, and the
\* rows counted against the limit are the rows sent or being sent
\* (ReadOperation.progress and rows_returned, handle_response).
THEOREM ProgressIsConsistent ==
  ASSUME ProperEnds
  PROVE  Spec => []ProgressConsistent
<1>1. Inv => ProgressConsistent
  <2> SUFFICES ASSUME Inv PROVE ProgressConsistent
    OBVIOUS
  <2>1. progress = merger.last_complete_key
    BY DEF Inv, RowsInv, MergerMatches
  <2>2. PICK n \in Nat : /\ RowsSent = FirstItems(original, n)
                         /\ receiver => rows_returned = n + (IF pc = "Sending" THEN 1 ELSE 0)
    BY ChannelShape
  <2>3. Len(RowsSent) = n
    BY <2>2, FirstItemsSeq
  <2> QED BY <2>1, <2>2, <2>3 DEF ProgressConsistent
<1> QED BY <1>1, ReadInvariant, PTL

\* Observers see every attempt and the operation finish exactly once, attempts
\* before the operation, on every path, and the code reported says Ok just when
\* the stream ends without an error (OperationTracker and AttemptTracker finish).
THEOREM TelemetryIsBalanced ==
  ASSUME ProperEnds
  PROVE  Spec => []TelemetryBalanced
<1>1. Inv => TelemetryBalanced
  <2> SUFFICES ASSUME Inv PROVE TelemetryBalanced
    OBVIOUS
  <2>1. ASSUME pc = "Done", Spawned, receiver
        PROVE  telemetry.finished[1].code = "Ok" <=> RowsSent = sent
    <3>1. CASE sent = FirstItems(original, rows_returned) /\ telemetry.finished[1].code = "Ok"
      <4>1. rows_returned \in Nat
        BY DEF Inv, Typed
      <4> QED BY <3>1, <4>1, OnlyRows DEF RowsSent
    <3>2. CASE /\ \E error \in ReadErrors : sent = Append(FirstItems(original, rows_returned), ErrorItem(error))
               /\ telemetry.finished[1].code # "Ok"
      <4>1. rows_returned \in Nat
        BY DEF Inv, Typed
      <4> QED BY <3>2, <4>1, RowsThenError DEF RowsSent
    <3> QED BY <2>1, <3>1, <3>2 DEF Inv, ItemsInv, ItemsMatch, Delivered
  <2>2. Accounted
    BY DEF Inv
  <2> QED BY <2>1, <2>2 DEF Accounted, TelemetryBalanced, StreamOpen, Over
<1> QED BY <1>1, ReadInvariant, PTL

-----------------------------------------------------------------------------
(* The read implements the abstract row stream.                            *)

\* What steps do to the channel and to an operation that is done.
LEMMA StepEffect ==
  ASSUME [Next]_vars
  PROVE  /\ original' = original
         /\ pc = "Done" => UNCHANGED <<pc, sent, telemetry, result>>
         /\ sent' = sent \/ SendRow \/ SendTerminal
<1>1. CASE Start \/ Wake \/ Connected
  BY <1>1 DEF Start, Wake, Connected, channel
<1>2. ASSUME NEW code, NEW info, ConnectFails(code, info) \/ StreamFails(code, info)
      PROVE  original' = original /\ pc # "Done" /\ sent' = sent
  BY <1>2 DEF ConnectFails, StreamFails, channel
<1>3. CASE ConnectTimesOut \/ StreamTimesOut
  BY <1>3 DEF ConnectTimesOut, StreamTimesOut, channel
<1>4. ASSUME NEW key, ReceiveMarker(key)
      PROVE  original' = original /\ pc # "Done" /\ sent' = sent
  BY <1>4 DEF ReceiveMarker, channel
<1>5. CASE ReceiveChunk \/ NextChunk
  BY <1>5 DEF ReceiveChunk, NextChunk, HandleChunk, channel
<1>6. CASE EndResponse \/ StreamEnds \/ SendFails \/ Cancel \/ DropStart
  BY <1>6 DEF EndResponse, StreamEnds, SendFails, Cancel, DropStart, channel
<1>7. CASE SendRow \/ SendTerminal
  BY <1>7 DEF SendRow, SendTerminal
<1>8. CASE Take \/ DropStreamHandle \/ Tick \/ UNCHANGED vars
  BY <1>8 DEF Take, DropStreamHandle, Tick, vars, channel
<1> QED BY <1>1, <1>2, <1>3, <1>4, <1>5, <1>6, <1>7, <1>8 DEF Next, Operation

\* The status of the stream as its caller sees it.
LEMMA StatusCases ==
  /\ pc # "Done" => StreamStatus = "Open"
  /\ pc = "Done" => StreamStatus \in {"Complete", "Failed", "Abandoned"}
  /\ StreamStatus = "Complete" => Spawned /\ RowsSent = sent /\ telemetry.finished[1].code = "Ok"
BY DEF StreamStatus

\* A step of the read delivers the next row, ends the stream, or is not seen.
LEMMA StepImplements ==
  ASSUME Inv, Inv', [Next]_vars
  PROVE  \/ UNCHANGED <<ExpectedItems, RowsSent, StreamStatus>>
         \/ /\ StreamStatus = "Open" /\ Len(RowsSent) < Len(ExpectedItems)
            /\ RowsSent' = Append(RowsSent, ExpectedItems[Len(RowsSent) + 1])
            /\ UNCHANGED <<ExpectedItems, StreamStatus>>
         \/ /\ StreamStatus = "Open" /\ RowsSent = ExpectedItems /\ StreamStatus' = "Complete"
            /\ UNCHANGED <<ExpectedItems, RowsSent>>
         \/ /\ StreamStatus = "Open" /\ StreamStatus' \in {"Failed", "Abandoned"}
            /\ UNCHANGED <<ExpectedItems, RowsSent>>
<1>1. /\ original' = original
      /\ pc = "Done" => UNCHANGED <<pc, sent, telemetry, result>>
      /\ sent' = sent \/ SendRow \/ SendTerminal
  BY StepEffect
<1>2. ExpectedItems' = ExpectedItems
  BY <1>1 DEF ExpectedItems
<1>3. sent' = sent => RowsSent' = RowsSent
  BY DEF RowsSent
<1>4. CASE pc = "Done"
  <2>1. StreamStatus' = StreamStatus
    BY <1>1, <1>3, <1>4 DEF StreamStatus, Spawned
  <2> QED BY <1>1, <1>2, <1>3, <1>4, <2>1
<1>5. CASE pc # "Done" /\ pc' # "Done"
  <2>1. StreamStatus = "Open" /\ StreamStatus' = "Open"
    BY <1>5, StatusCases DEF StreamStatus
  <2>2. CASE sent' = sent
    BY <1>2, <1>3, <2>1, <2>2
  <2>3. CASE SendRow
    <3> DEFINE n == rows_returned
    <3>1. /\ n \in Nat /\ n > 0 /\ sent = FirstItems(original, n - 1)
          /\ outgoing = RowItem(ServerRow(NthKey(original, n)))
      BY <2>3 DEF SendRow, Inv, Typed, ItemsInv, ItemsMatch, ButLast
    <3>2. sent' = FirstItems(original, n)
      BY <2>3, <3>1, NextItem DEF SendRow
    <3>3. RowsSent = sent
      BY <3>1, OnlyRows DEF RowsSent
    <3>4. RowsSent' = sent'
      BY <3>1, <3>2, OnlyRows DEF RowsSent
    <3>5. n <= RowCount(original) /\ RowCount(original) \in Nat
      BY ChannelCount
    <3>6. ExpectedItems[n] = outgoing /\ Len(ExpectedItems) = RowCount(original) /\ Len(sent) = n - 1
      BY <3>1, <3>5, FirstItemsSeq DEF ExpectedItems
    <3> QED BY <1>2, <2>1, <2>3, <3>1, <3>3, <3>4, <3>5, <3>6 DEF SendRow
  <2>4. CASE SendTerminal
    BY <1>5, <2>4 DEF SendTerminal
  <2> QED BY <1>1, <2>2, <2>3, <2>4
<1>6. CASE pc # "Done" /\ pc' = "Done"
  <2>1. StreamStatus = "Open" /\ StreamStatus' \in {"Complete", "Failed", "Abandoned"}
    BY <1>6, StatusCases DEF StreamStatus
  <2>2. RowsSent' = RowsSent
    <3>1. CASE SendTerminal /\ sent' = Append(sent, outgoing)
      <4>1. PICK error \in ReadErrors : outgoing = ErrorItem(error)
        BY <3>1 DEF SendTerminal, Inv, ItemsInv, ItemsMatch
      <4>2. rows_returned \in Nat /\ sent = FirstItems(original, rows_returned)
        BY <3>1 DEF SendTerminal, Inv, Typed, ItemsInv, ItemsMatch, Delivered
      <4>3. RowsSent = FirstItems(original, rows_returned)
        BY <4>2, OnlyRows DEF RowsSent
      <4>4. sent' = Append(FirstItems(original, rows_returned), ErrorItem(error))
        BY <3>1, <4>1, <4>2
      <4>5. RowsSent' = FirstItems(original, rows_returned)
        BY <4>2, <4>4, RowsThenError DEF RowsSent
      <4> QED BY <4>3, <4>5
    <3>2. CASE SendRow
      BY <1>6, <3>2 DEF SendRow
    <3> QED BY <1>1, <1>3, <3>1, <3>2 DEF SendTerminal
  <2>3. ASSUME StreamStatus' = "Complete"
        PROVE  RowsSent = ExpectedItems
    <3>1. RowsSent' = sent' /\ telemetry'.finished[1].code = "Ok"
      BY <2>3 DEF StreamStatus
    <3>2. sent' = FirstItems(original', rows_returned') /\ rows_returned' = RowCount(original')
      BY <1>6, <3>1 DEF Inv, ItemsInv, ItemsMatch, EndsRight, Delivered
    <3> QED BY <1>1, <2>2, <3>1, <3>2 DEF ExpectedItems
  <2> QED BY <1>2, <2>1, <2>2, <2>3
<1> QED BY <1>4, <1>5, <1>6

\* The operation implements the abstract row stream: retries, resumption,
\* buffering and deadlines stay invisible, the stream ends once, an error is its
\* last item, and it completes only when every row is in it.
THEOREM ReadImplementsRowStream ==
  ASSUME ProperEnds
  PROVE  Spec => ImplementsRowStream
<1>1. Init => Promised!Init
  <2> SUFFICES ASSUME Init PROVE RowsSent = <<>> /\ StreamStatus = "Open"
    BY DEF Promised!Init
  <2> QED BY DEF Init, RowsSent, RowsOf, StreamStatus
<1>2. Inv /\ Inv' /\ [Next]_vars => [Promised!Next]_(Promised!vars)
  <2> SUFFICES ASSUME Inv, Inv', [Next]_vars PROVE [Promised!Next]_(Promised!vars)
    OBVIOUS
  <2> QED BY StepImplements
          DEF Promised!Next, Promised!vars, Promised!Deliver, Promised!Complete, Promised!Stop
<1> QED BY <1>1, <1>2, ReadInvariant, PTL DEF Spec, ImplementsRowStream, Promised!Spec
=============================================================================

# Verification of bigtable-client

TLA+ models of the Rust Bigtable client in `src/crates/bigtable-client` and of its
derive macro in `src/crates/bigtable-client-derive`, the TLC runs that check them on small instances, and TLAPS proofs of the theorems
that hold for every instance. `PROJECT.json` lists the runs, the properties,
the source lines behind each definition, the hazards the properties are aimed
at, and for each property a faulty variant of the code that breaks it.

## The system

A `Client` is made of a checked configuration, opens an authenticated channel and
offers streaming reads, raw or mapped to Rust types, and bulk writes. Both retry
transient failures inside an operation deadline and report every attempt to an
observer.

| Component | State | Operations | Talks to |
| --- | --- | --- | --- |
| Query (`query.rs`) | keys, ranges, prefixes, limit, direction, filter | builders, `validate`, `into_request` | gives the read its first request |
| Resumption (`read.rs`: `resume_request`, `trim_*`) | none, pure | request + progress -> request for the rest, or nothing | called before every retry |
| Row merger (`merge.rs`) | state, partial row and cell, last key | `push`, `scan_marker`, `discard_partial`, `finish` | fed by the read, refuses bad streams |
| ReadRows (`read.rs`) | attempts, progress, rows returned, merger, stream, channel | `start`, `open`, `run`, `handle_response` | server, caller's `RowStream`, trackers |
| Row mapping (`mapping.rs`) | the inner stream | `RowDecoder`'s lookups and conversions, `TypedRowStream` | fed with the read's rows |
| Derive macro (derive crate) | configs of the struct and of the field at hand | attribute parsing, field by field expansion | generates calls of `RowDecoder` |
| Retry policy (`retry.rs`) | none, pure | retryable codes, `backoff`, `retry_delay`, validation | reads and writes |
| Mutation builder (`mutation.rs`) | changes of a row, rows of a bulk mutation | constructors, builders, checks, `is_retry_safe` | gives bulk writes their entries |
| Batch split (`write.rs`: `split_batches`) | none, pure | entries -> requests within three limits | bulk writes |
| MutateRows (`write.rs`) | pending and running entries, results, failures | `run_batches`, `BatchOperation::run`, `consume_stream` | server, caller, trackers |
| Telemetry (`telemetry.rs`) | counters, finished flags | attempt and operation events, `Drop` | observer |
| Configuration (`config.rs`) | ten settings | `new`, `load`, setters | consumed by connecting |
| Client (`client.rs`, `channel.rs`) | configuration, channel, token manager | connecting, cloning, `AuthInterceptor`, calls | everything above and below |
| Token manager (`auth.rs`) | current token, refresh task | `start`, `refresh_loop`, `authorization`, `drop` | token provider, every request |
| Errors, rows, names (`error.rs`, `row.rs`, `resource.rs`) | plain data | accessors, formatting | everyone |

What is hard here: a read is a task that waits in five places (connect, backoff,
message, a full channel, the final error) while the caller may drop the stream
at each; a retry must ask for exactly the rows that are left, from keys and
ranges that overlap, in two directions, after rows and after scan markers; the
merger must throw away a broken row and nothing else; a bulk write has several
batches at once whose retries shrink, so that positions in an answer no longer
are positions in the request of the caller; whether an entry may be replayed at
all depends on each of its changes; deadlines race answers everywhere; rows come
with their columns in any order; settings are normalised in two places; and
whatever happens, each attempt and each operation reports itself once.

What correct means: the stream is a prefix of the queried rows, and all of them
if it ends without an error; every entry of a bulk write is confirmed or failed
exactly once under the caller's index, replayed only if that is called safe, and
called safe only if it is; a type that compiles gets from each row what its
attributes name; reads and writes end by their deadlines; dropped futures end
their work and are reported; what a configuration accepts is usable; requests are
not refused for want of a token and never sent without one.

## Modules

| Module | Models | Used by |
| --- | --- | --- |
| `RowRanges` | keys, bounds, ranges, `into_request`, `resume_request` | `RowQuery`, `RowMerge`, `ReadRows` |
| `RowQuery` | a caller builds, submits and resumes a query | `PrefixQuery`, `RowQueryProofs` |
| `PrefixQuery` | the same with `RowRange::prefix`, on keys that are byte strings | run `query`, `RowQueryProofs` |
| `RowMerge` | every method of `RowMerger`, as operators on its record | `RowMerger`, `RowEncoding`, `ReadRows` |
| `RowMerger` | the merger under an arbitrary stream | run `merger`, `RowMergerProofs` |
| `RowEncoding` | the merger under a server that keeps the chunk protocol | run `encoding`, `RowMergerProofs` |
| `Retry`, `Telemetry` | `retry.rs`; the trackers of one operation | `ReadRows`, `MutateRows` |
| `RowStream` | abstract: what a read promises its caller | refined by `ReadRows` |
| `ReadRows` | one read: task, server, caller, clock | runs `read*`, `ReadRowsProofs` |
| `RowMapping` | `RowDecoder` on the rows `RowMerge` builds | `Derive` |
| `Derive` | attributes -> initializers, and the generated `from_row` | `TypedRows` |
| `TypedRows` | a type is derived, then a stream of rows is mapped to it; or a caller uses the decoder | run `mapping`, `TypedRowsProofs` |
| `Mutation` | constructors, checks, `is_retry_safe`, and the row they change | `BulkMutation` |
| `SplitBatches` | `split_batches` and the sizes of the wire format | `BulkMutation`, `MutateRows` |
| `BulkMutation` | a caller builds a bulk mutation and executes it, up to the first request | run `bulk`, `BulkMutationProofs` |
| `MutateRows` | one bulk mutation: batches, server, caller, clock | runs `mutate*`, `MutateRowsProofs` |
| `TokenManager` | the shared token, its refresh task, connecting | `Client`, `ClientProofs` |
| `ClientConfig` | `new`, `load` and the setters of `config.rs` | `Client` |
| `Client` | configuring, connecting, clones, requests; runs `TokenManager` inside | run `client`, `ClientProofs` |
| `SharedLemmas` | lemmas that several proofs cite | every `*Proofs` module |
| `*MC` | the values of the constants | the runs |

Conventions. Row keys are natural numbers, in the order of the byte strings they
stand for; `EmptyKey` is 0 and `NoKey` is Rust's `None`. An optional value is a
set of at most one element. An operator that stands for a method on `&mut self`
takes the record and returns the new one, with what the method returned.
Operators marked "Faulty variant" are deliberate mistakes; no specification uses
them, they are there to be put in place of the definition that follows them.

How state and actions correspond:

* `RowMerge`. The record has the fields of `RowMerger`; timestamp and labels of a
  cell are one `meta`. `PushChunk` dispatches on the state as `push` does and
  returns the merger, at most one row and an issue.
* `RowMerger`, `RowEncoding`. `Receive`, `Mark`, `Discard` and `Finish` are the four calls
  `read.rs` makes. `RowEncoding` (the server, external) restricts what comes: names left
  out where they repeat, values split, rows given up by a reset or by a break of the
  stream and sent again, scan markers and the end of the stream between rows. `sent` is
  what it has begun of the row at hand and `offset` how far it is in the last value.
* `ReadRows`. `pc` names the await where the task is; one action runs from one
  await to the next. `Reopen` is the body of `open` up to the backoff sleep,
  `BeginAttempt` the rest; `Start` calls it without a failure. `HandleChunk` is
  one turn of the loop in `handle_response`, which stops only where a row is sent
  to the channel. `active.before` is the `before` of `run`: rows are added to the
  attempt when the response ends. `sent` and `taken` are what went into the
  channel and how much of it the caller has; `StreamBuffer` its size. The server
  (external) holds `Table`, sends each selected row in two chunks, may break
  inside a row, may reset it and may send scan markers.
* `MutateRows`. The same at batch level: `BeginAttempt` and `EndAttempt` are the
  two halves of the loop in `BatchOperation::run`, `ReadResult` one entry of a
  response in `consume_stream`, where the index may be negative, out of range or
  seen already, `ConsumeStream` what follows the stream. `answer` is a history variable with
  the last status learned for an entry.
* `Mutation`, `BulkMutation`. A constructor returns an issue and a change; a builder
  that refuses has consumed what was built. `Mutate` is a constructor chained with
  `RowMutation::mutation`. `Execute` is `execute` up to the split: the checks of
  the options, the empty bulk mutation, the deadline that does not fit the clock.
  `ApplyEntry` (external) is the row in the table, as far as `is_retry_safe` relies
  on it: versions by column and timestamp, sums in aggregate cells, tokens the
  service remembers for a while and refuses afterwards. Its clock is taken to be
  past the time at which the client dated a token; skew is not modelled.
* `RowMapping`, `Derive`, `TypedRows`. Of a value only which decoders accept it is
  kept. The library's binary search promises nothing on columns out of order, so
  `BinarySearch` has every outcome the promise leaves open and lookups return sets.
  `StructAttribute`, `FieldAttribute` and `EndField` are the turns of the parser's
  loops and the expansion of one field; `NextRow` is `map_row` on a row that the
  merger's own `AddCell` has put together. `sent` keeps the cells as they came and
  `emptied` the columns whose cells the caller, who owns the row, has taken out of it.
* `ClientConfig`, `Client`. A text is whether blanks surround it, its scheme and the
  kind of its rest: exactly what the checks look at. `raw` is a history variable:
  the environment with the values the setters were given. `tokens` is
  the local `Option<Arc<TokenManager>>` of `connect_builder` and `interceptor` what
  `AuthInterceptor::new` makes of it. `ServiceStep` is any step of `TokenManager` with
  what `connect_builder` does then: it keeps the reference while the channel connects,
  moves it into the interceptor or drops it. `Request` is the checks of a call without
  options and then `AuthInterceptor::call`, which looks at the interceptor and nothing else.
* `PrefixQuery`. All byte strings of two bytes over a two-letter alphabet are
  numbered in lexicographic order, so that the keys of `RowQuery` are strings and
  `IsPrefix` can be compared with what a range selects.
* `TokenManager`. `task` names the await of `refresh_loop`; `left` and `timer` are
  the times left until expiry and until the sleep ends, so the clock needs no
  bound. Both run by one clock: that `SystemTime`, by which tokens expire, may part
  from the monotonic clock of tokio's sleeps is not modelled. `Release` is dropping an `Arc`, the last of which aborts the task.

## Runs

| Run | Instance | What it shows |
| --- | --- | --- |
| `query` | 6 keys (the strings of up to 2 bytes), bounds at some, at the empty and at an overlong one, every prefix, up to 2 ranges, limits 0, 2 and one too large, both directions | a query selects what it names, prefixes compared byte by byte; a request resumed at any progress selects exactly the rest; limits never turn into "unlimited" |
| `merger` | 2 keys, 2 families, 2 qualifiers, values of 0 to 2 bytes, any size field of -1..2, rows of up to 2 cells | whatever comes, order, byte counts and isolation of rows hold; a finished split value has the announced size and lands in its column |
| `encoding` | 2 keys in reverse, rows of up to 3 cells, values split anywhere, each row given up at most once, scan markers | a correct server is never refused and its rows are rebuilt |
| `read` | 3 rows and a marker key, 4 queries, 3 attempts, 4 ticks, channel of 1 | rows are exact through all failures; the abstract stream is implemented; telemetry is balanced; dropping ends the task; a consumed read ends |
| `mapping` | 2 fields, 8 field attributes in any order and number, 3 types, rows of 2 cells in 2 families and 2 columns | a field compiles exactly when its attributes make sense; rows are mapped as declared and compared with the cells as sent, not as merged |
| `bulk` | up to 3 changes of every kind in up to 3 entries around the 128-byte varint boundary, 2 changes per entry, 12 options | all entries, in order, within limits recomputed from the wire format, no request cut short; what is called safe to retry can be applied twice at any later time |
| `mutate` | 3 entries in 2 concurrent batches, 2 attempts, RetryInfo, 2 ticks | each entry accounted once and as the server said; replays are justified; counts add up |
| `mutate_terminates` | the same with one request in flight | it returns although the server may be silent for ever |
| `client` | 24 texts, durations and sizes of 0 to 2, 2 setters after `new` or `load`; the token constants of the code in seconds, tokens of 0, 10 and 18 s, 2 handles | setters and `load` agree; values that were returned can be set again; what is accepted is never refused later; two failed one-second refreshes refuse no request; outages end; the task dies with its manager; the manager that is started is in every interceptor, and only emulators get requests without a token |

Bounds. Two ranges are enough for overlap, touching and enclosing, since ranges
are trimmed one at a time; three keys give one before, at and after a progress.
Two cells reach every transition of the merger and a third, in `encoding`, returns
to an earlier column. Three attempts give a retry of a retry. A channel of one
element is full after one row. Two fields give one before and one after the other;
two cells give two versions, two columns out of order, or two families. Three
changes make one entry and a half, so that a limit is met inside an entry and
between two. Two setters give each pair in both orders; a setter reads nothing
another one writes. Prefixes of two bytes have the byte that can be raised last,
first or nowhere. `operation_timeout` is twice `attempt_timeout`, so
each of the two deadlines comes first in some behaviour. Runs that may stop
(finished operations, refused queries) do not check deadlock; that they reach
their end is what the liveness properties say.

Fairness. In `ReadRows!ClientSpec` only the steps of the task itself are fair: tokio polls
a task whose timer, channel or future is ready. The server is never assumed to
answer. `DropEndsOperation` needs no more. `ReadTerminates` also assumes
`ConsumerFairness`: the clock runs and the caller takes rows, because
`sender.send` waits for the caller without a deadline. `MutateRows!FairSpec` has
the batches, the clock and the final step. `Client!ClientSpec` has the refresh
task, the clock and, strongly, a provider that does not fail for ever, without
which no client could recover; nobody is assumed to configure, connect or call.

## Where code and documentation differ

Three runs expect a violation; `PROJECT.json` quotes the lines.

* `read_empty_end`. A range whose *end* is the empty key means "to the end of the
  table" (README, and the API). `end_at_or_before` compares it like any key, so a
  forward read that breaks after its first row drops the range, finds nothing
  left and ends the stream with success and rows missing. The other runs and
  `ResumeIsExact` therefore assume that ends are not empty.
* `read_retry_count`. `retries` counts a retry when its backoff starts; a read
  dropped in the backoff reports a retry without an attempt.
* `mutate_retry_safety`. `retry_safe()` is false for every failure by deadline or
  invalid response, also for idempotent entries. The run finds it by a response that
  breaks the protocol, before any deadline.

Not a violation, but other than documented: `src/README.md:216` says "Dropping
`RowStream` cancels its background read task once the next row is ready to send." The
task watches `sender.closed()` at every await but the sends (`read.rs:237`, and twice
in `open`) and ends at once, whether or not a row comes. `DropEndsOperation` holds from
each of its awaits with a server that stays silent for ever, where a task that waited
for the next row would not end; its faulty variant, which does not watch while it
connects or backs off, fails.

Seen in the model of `read.rs` and not a run of its own: `AttemptFinished.rows` is
brought up to date once per response (`active.before`), so the rows of a response
that a dropped stream cuts short are not in it.

## Proofs

tlapm checks all of them; SMT and LS4 are the only backends used besides Zenon.
Each holds for every value of the constants that the named assumptions in the
modules admit, and TLC evaluates those assumptions in every run. They are as weak
as the code makes them: keys of tables and chunks are not empty, a request has at
most one row set, policies are ones `validate_policies` accepts, a failure is not
`Ok`, sizes are natural numbers, a margin covers the failures of the source.

* `SharedLemmas`: least and greatest elements, induction up to a bound, the checks
  of a validation, what trimming does from one range (`TrimRangeExact`) up to a
  request (`ResumeRequestExact`, `ResumeRequestLimit`), flattening, and the split of
  a bulk mutation: the loop of `split_batches` cuts the entries into runs, so the
  batches one after the other are the entries (`SplitFlattens`) and each entry is in
  one batch only (`SplitDeals`).
* `RowQueryProofs!ResumeIsExact`: for all keys, queries, limits and progress the
  resumed request selects exactly the keys left, provided `EmptyKey` is no end of
  a range. The invariant adds that a request keeps the bounds of its query, as
  `ResumeExact` alone does not say where the original comes from.
  `ResumeKeepsLimit` follows from the same invariant without that proviso.
* `RowQueryProofs!PrefixesAreExact`: for every alphabet and length of keys, a request
  selects the rows its query asks for by key, range or prefix, under the same proviso.
  `Less` is a strict total order (`LessIsOrder`) of finitely many strings, so `Number`,
  the count of those below, keeps it (`NumberKeepsOrder`); and a string starts with a
  prefix exactly if it is not below the prefix and below its successor, where there is
  one (`PrefixBetween`). The invariant adds that the range of each prefix is in the
  query and that the request is the query's. `PrefixesResumeExactly` extends the two
  theorems above to such queries.
* `RowMergerProofs`: `MergerTyped`, `ScansInOrder`, `SplitsAccounted`,
  `RowsIsolated`, `RowsAreWellFormed`, for all chunk fields, sizes, directions and
  row lengths. The inductive invariant is the type of the record together with:
  the byte counts inside a split value, an empty record between rows, a key and a
  named family and column inside one, a partial row that is already well formed,
  and the last key scanned equal to `last_complete_key`. Order needs the last of
  these, well-formedness the partial row; underflow of `remaining_value_bytes`
  follows from the byte counts and the checks of `continue_cell`. The action property
  `SplitValuesAreExact` rests on the same invariant: names being unique in a partial
  row, the cells of a family and qualifier are those of one column, to which
  `AddCell` appends (`CellsOfAdded`), and the byte counts leave a final chunk only
  the length that completes the announced size. For a server that keeps the protocol,
  `ProtocolIsAccepted` and `RowsAreRebuilt` hold by `EncodingInv`: between rows the merger
  orders against a key behind any the server may start (`StartsAhead`); inside one its
  partial row holds, column by column, exactly the cells sent so far, and inside a split
  value all cells but the last together with the bytes of that one up to `offset`
  (`Progress`). A cell sent is a cell appended (`SentToAppend`, `Content`), so this is
  passed on chunk by chunk, for rows of any length.
* `ReadRowsProofs`. `AttemptsAreBounded` holds for every query. The rest assumes
  `ProperEnds`, that no range of a query ends at the empty key; without it
  `NothingIsLost` is false, as the run `read_empty_end` shows. `RowsAreExact`,
  `HonestServersAreAccepted`, `ProgressIsConsistent`, `TelemetryIsBalanced` and
  `NothingIsLost` (a stream without an error is complete) are consequences of one
  invariant: `Typed`; `Accounted`, what the trackers have reported; `RowsInv`, by
  which the stream in the air owes exactly the rows that the original query still
  owes at the progress, the merger is between rows or in the half row that the
  server is in, and the rows counted are the selected ones already passed; and
  `ItemsInv`, by which the items are the first rows of the query, with at most an
  error at the end. The row part is about requests and progress only and is proved
  first; the items follow from it because a row that is committed is the next one
  owed.
* `ReadRowsProofs!ReadImplementsRowStream`: the initial states map to those of
  `RowStream`, and each step appends the next row, ends the stream, or is a stutter;
  what is sent stays a prefix of the promise by the same invariant.
* `MutateRowsProofs`. The invariant has seven parts. `Queues` and `Placed` say where
  entries are: a batch's queues hold entries of its own, each once, and each entry is
  queued, confirmed or failed. `Counted` and `Failed` tie the counter and the report of a
  batch to those. `Tried` bounds what a queued entry has been through and `Reported`
  what the trackers have. Together they are inductive: an answer is filed under an
  entry only because the current queue is injective; a failure is new only because a
  queued entry has not failed before. `EntriesAreAccountedOnce`, `ReportsAreExact`,
  `RetriesAreExhausted`, `TelemetryAlwaysAddsUp`, `TypesAreKept` and the action
  property `SendsAreJustified` follow, for any entries, limits, batches and answers.
* `BulkMutationProofs`: `BuildersKeepTypes`; `RequestsHoldEachEntry`, from
  `SplitFlattens`; `LimitsAreKept`, by an invariant of the loop of `split_batches`
  (`Packing`): the counts of the batch being filled are those of its entries, each batch
  may be sent, and its next entry would not have fitted in. The loop of `varint_size`
  counts, for every number, the groups that the wire format needs (`VarintIsGroups`),
  which are defined by powers of 128 and not by the loop; and `ReplayIsHarmless`, for any row, entry and pair of times. Either
  every change is safe by itself: then it decides alone, and always alike, of the
  versions it touches (`SafeChange`), so that each version ends as the last change
  that touches it decides, or was never touched (`SafeTwice`). Or the entry carries a
  token, which the service still remembers and refuses (`TokenOnce`).
* `ClientProofs`, for `TokenManager`: `ManagerTyped`, `MarginSuffices`, if
  `MaxFailures * (MaxLatency + RetryDelay) + MaxLatency < Margin`, and
  `RefreshIsOwned`. The invariant counts what each failure may have used of the
  margin. With 15 s and 5 s this allows two failures in a row if calls take less
  than 5/3 s, and one if they take less than 5 s.
* `ClientProofs`, for `Client`: `ClientRunsManager`, every behaviour of a client is one of the
  token manager, so that its theorems hold in the composition (`ClientAuthorized`);
  and `RequestsAreAuthenticated`. Its invariant follows the reference to the manager
  (`HolderInv`): with `connect_builder` while the channel connects, then in the
  interceptor as long as there is a client, and nowhere for an emulator. The interceptor
  looks only at the reference it was given, so that it tells the kinds of clients apart
  comes from this and from the stage, which decides which kind the client is
  (`StageInv`). That the token is live when the request goes out comes from the
  manager's invariant. For the two configuration paths `ConfigInv` remembers the values
  given: a configuration is what `load` makes of them, or they are refused with the error
  reported. Each setter changes one field and repeats the one or two of `load`'s ten
  checks that read it, and as all the others passed before, the first that fails is
  the same (`SettersAgreeWithLoad`). `AcceptedIsUsable` and `ClientTyped` need
  `ServiceInv` as well, which keeps the deadline of a connected client positive.
* `TypedRowsProofs`. `FieldsCompileExactly` rests on `CompileInv`: the attributes read so
  far are each known and written once, and the parser's record is the one they make
  (`ConfigOf`), so that the conflicts `EndField` finds in the record are those the
  attributes have, in whatever order they stand. Every initializer made so far
  `Compiles`. `AnswersAreExact` rests on `RowInv`: the row in the caller's hands `Holds`
  the cells sent, less what was taken out of it. For a row put together by `AddCell` the
  names of its families and columns are unique and each column has the cells sent of it
  (`RowHas`), so that the binary search, though it may answer anything on columns out of
  order, together with the linear search behind it finds a column exactly if it is there
  (`FindColumnIs`); every lookup and every conversion follows from that.
  `RowsMapAsDeclared` puts both together: `from_row`, field by field, stops at the first
  initializer that fails, and each initializer decodes what was sent.

A recursive function is reasoned about in two steps: one with its equations exists,
and what it satisfies at 0 and passes on from `n` to `n + 1` holds up to the bound
(`UpTo`, by a least counterexample), since a theorem about an operator parameter
cannot be instantiated.

Every invariant and every action property of the runs is the subject of a theorem. Only
model-checked are the liveness properties `DropEndsOperation`, `ReadTerminates`,
`MutateTerminates` and `Recovers`: they rest on fairness, and so on `ENABLED`, which
tlapm does not reason about.

## Not modelled

Filters (passed through), spans, metrics and observer panics, float arithmetic of
the backoff multiplier and its saturation, the tonic channel pool and its TLS
settings, header encoding, the text of resource names and error messages. Of
`error.rs` only the issues an operation can report and `retry_safe` are behaviour.
The client's convenience methods (`read_row`, `mutate_row`, the typed ones) chain
operations that are modelled and add no state. Empty structs, attributes
whose `family` or `with` is no literal, tokens, spans and generics of the generated code
are the compiler's business; `Derive` models which decoder call
a field becomes.

Two hazards have no property, as `PROJECT.json` says: the order in which retried
entries are applied, which the client documents as open, and the pace at which a
provider with short-lived tokens is asked, which the code does not bound.

## Plan

1. Composition: `read_row` on top of `ReadRows` (limit 1, first item, drop), and
   attempts refused by the interceptor as failures of a read.

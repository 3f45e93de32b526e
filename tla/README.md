# TomTom in TLA+

TomTom is a contract service: a C backend (`src/backend/src`) that answers
FlatBuffers messages over HTTPS and keeps users and contracts in PostgreSQL, an
Android app that is its client (`src/android-app`), and a checker script that
exercises it (`src/backend/checker`).  This directory models the backend and
the app's session in TLA+, checks the models with TLC and proves the main
properties with TLAPS.

The service is a training target and marks some of its weaknesses in comments
(`// VULNERABILITY`).  Those are not the subject here: request texts in the
models contain no quote character, and `edit_me`'s admin flag is modelled as
the code has it.

## Inventory

| Component | State | Operations | Interacts with |
|---|---|---|---|
| Request handlers, `api/*.c` | the tables `users`, `contracts` and their id sequences; locals between two queries; the query text | `login`, `register`, `get_me`, `edit_me`, `request_contract`, `list_contracts`, `check_contract` | called by `process()`; query `db_conn`; leave the response in `pss->out_data` |
| Dispatch, `processing.c` | none | verify the message, choose a handler | called from `http_callback` |
| Bindings, `api-schema/*/gen` | the request's tables; the builder's stack of open frames | verify, read, build | `process()` and the handlers |
| Schema, `main.c` 78-112 | table definitions | DROP and CREATE at every start | the handlers' queries |
| HTTP transaction, `http_callback` in `main.c` | `struct pss`: `data`, `data_len`, `out_data`, `out_data_len`, `i` | HTTP, BODY, BODY_COMPLETION, WRITEABLE, DROP_PROTOCOL | libwebsockets calls it; it calls `process()` |
| Shared connection, `globals.h` | `db_conn` and the protocol state inside it | every `PQexec` of every thread | all service threads, without a lock |
| Life cycle, `main()`, `thread_service`, `sigint_handler` | options, `context`, `interrupted`, the threads, what is allocated | parse, connect, create, start, serve, join, destroy, release | the kernel delivers signals; supervisor restarts the process |
| Utilities, `utils.c` | none | Base64, `strlcat` | handlers |
| Android client | the stored token and address, screens, calls under way | launch, log in, register, edit, log out | the service, asynchronously |
| Checker, `svc2_tomtom.py` | tokens and ids it was given | check, push, pull | the service |

What is hard in this code and hardly reached by a test:

- the service threads (32 in the container) run handlers at the same time, on
  one database connection;
- two handlers send two queries and use what the first returned in the second;
- the connection to the database can be lost before a query, or after it was
  committed and before the answer, and is never opened again;
- the process is restarted by supervisor and drops all tables while clients
  keep their tokens; ids start again at 1;
- answers are lost on the way to the client;
- bodies arrive and responses leave in pieces, and a connection can end at any
  of them;
- a signal comes on any thread, before there is a context or after it is gone;
- buffers have exactly the width of the columns copied into them, and queries
  are put together in buffers of fixed size, where what does not fit is cut
  without a word;
- verifier, reader and builder of a message know its fields by number, each for
  itself;
- the app applies answers whenever they come, also after a logout, and writes
  its token to disk some time later.

`PROJECT.json` lists these, at their lines, under `hazards`, with the
properties that cover them.  Some have none and say why in a note: an admin flag
that is stale when a page is queried, names without a terminator in an answer, an
edit answered after a logout, and two edits at once are modelled, but the code
does what it does there and nothing in the repository states otherwise, so there
is no property to hold it to.

What makes the components correct: a token opens the account it was issued for
and no other, for ever; it dies when the credentials change; nobody without it
changes the row; a contract is filed under the account of the token that asked
for it, in the order of the requests; what `request_contract` answers is what it
stored; pages show their reader his contracts; a client receives the response byte for byte and
the backend frees every buffer once; a thread receives the result of its own
query and works with nothing that main() has released; a signal stops the
server; a verified message can be read and an answer is read as it was meant;
no UPDATE is ever sent without its WHERE; the app holds the token of the user
who is logged in, and none when nobody is.

## Modules

| Module | Models | Checked by | Proved in |
|---|---|---|---|
| `ContractService` | handlers, schema, restart, lost answers | `MCContractService` with `accounts`, `contracts`, `data`, `edit_token` | `ContractServiceProofs` |
| `HttpTransaction` | `http_callback` on one connection | `http` | `HttpTransactionProofs` |
| `Exchange` | what a connection promises a client (abstract) | `http`, as `ImplementsExchange` | `HttpTransactionProofs` |
| `SharedConn` | `PQexec` calls of several threads on `db_conn` | `shared_conn`, `shared_conn_own` | `SharedConnProofs` |
| `LifeCycle` | `main()`, service threads, signal handler | `lifecycle` | `LifeCycleProofs` |
| `Messages` | `process()` with the generated verifiers, readers and builders | `MCMessages` with `messages` | `MessagesProofs` |
| `Base64` | `b64_encode`, `b64_decode` | `MCBase64` with `base64` | `Base64Proofs` |
| `QueryBuffer` | `strlcat` and the query texts of `login`, `edit_me`, `request_contract` | `query` | `QueryBufferProofs` |
| `AppSession` | the app's stored token, screens and calls | `app` | `AppSessionProofs` |

They meet at these points.  `Exchange` is the wire that the requests of
`ContractService` and the calls of `AppSession` travel on: `AppSession` has a
call that is answered once, as a whole, or not at all.  `Messages` stands between
`HttpTransaction`'s completed body and `ContractService`'s handler, and
`SharedConn` and `QueryBuffer` look inside what `ContractService` treats as one
query.  `AppSession` has the token column of `ContractService` and nothing else
of it, and no restart of the service: after one every token is dead.

### ContractService

`users` and `contracts` are sets of rows with the columns of the schema;
`nextUser` and `nextContract` are the SERIAL sequences, which a failed INSERT
may advance as PostgreSQL does.  `pc[c]` says where the request on connection
`c` stands: `idle`, between two queries (`insert` in `request_contract`, `page`
in `list_contracts`), or `reply` with the response in `pss`.  `job[c]` holds the
handler's locals over that gap, and as history the time (`since`) and the next
contract's id (`next`) at the first query; `reply[c]` and `body[c]` the response.  `known`
is the set of tokens that reached a client, with the user each was issued for;
requests present a token from it, or junk.

Each handler is one action with the early returns and error answers of the
code as disjuncts; the two that query twice are two actions.  A thread inside a
handler serves no other connection (`Free`), while the handlers of other threads
may run between its two queries: the service has 8 threads unless told
otherwise, and 32 in the container, so `accounts` and `contracts` give each
connection a thread of its own.  Every
query may find the connection lost (`DbLost`), INSERT and UPDATE before or after
they are committed; `dbUp` then stays false until `Restart`, because nothing
calls `PQreset`.

The data is abstracted to what the code tells apart.  A text is a stem and a
length class: `short`, `full` (the column's width exactly), `long`, and, for
what is shown, `overread`, the content of a full-width copy and what lies behind
its missing terminator.  `Clip` is `PQescapeLiteral` with a length, `Fits` the
VARCHAR check, which INSERT and UPDATE both make of the rows they leave
(`NarrowRows`, and `UniqueUsernames` beside it), `CopyOut` the `strncpy` into a buffer of the column's width.
Tokens are the numbers of the `RAND_bytes` draws; `-n` is the 32-character
beginning of token `n`.  Prices and attachments are classes by what `%f`, the
128 byte buffer and the size limits do to them.

### HttpTransaction and Exchange

One connection and its `struct pss`; one action per callback.  A body is the
sequence of its byte positions, so that a byte lost, repeated or misplaced is
seen; a response is its length, and `wire` records offset, length and FINAL mark
of each chunk.  `heap` counts the buffers allocated.  libwebsockets is external:
it delivers a body in pieces of 1 to `RxMax` bytes, calls WRITEABLE when asked
to, keeps or closes the connection after a transaction, and ends it at any time
(`Hangup`).  A request may have no body: BODY_COMPLETION then writes through a
null pointer and the process ends (`EmptyCompletion`) until supervisor starts it
again (`Restart`).  `lws_write` takes the bytes, takes none, or fails with -1,
which the code treats as success.  Connections share nothing else, so one is
enough.

`Exchange` is the connection without chunks, buffers and callbacks: down, ready,
asking, answering.  The refinement maps `phase` to its stage, the end of the
last chunk on `wire` to the bytes delivered, and a connection on which
`lws_write` failed to "down", whatever the code believes of it.  A ready
connection keeps the size of the last response and what was delivered of it: one
that is kept alive has delivered the whole of it.

### SharedConn

`ContractService` treats a query as atomic.  `SharedConn` looks inside: `login`
on every thread, with `PQexec` as libpq performs it (drop what an earlier
command left, check that none is in progress, send, collect until the server is
ready, keep the last result).  libpq's own data races are not modelled below
this grain, so the run with overlapping calls shows a lower bound of what can
go wrong; for calls that do not overlap there is no race to model.  A login may
be a stranger's, whose query finds no row.  The module
justifies `ContractService` for executions in which calls do not overlap: with
one service thread, or when the timing happens to keep them apart.

### LifeCycle

`main()` from `getopt_long` to its return: every step that can fail has its
failure as a disjunct, with the exit code and the buffers that path releases
(`live`).  `ToInt` is the cast of `strtol`'s long.  The service threads wait in
`lws_service_tsi`, come back because their pipe was written to (`Woken`) or for
any other event or error (`Served`), and look at `interrupted` (`Check`).  A
signal handler runs on any thread, which stands still meanwhile, in two steps;
`SIGINT` and `SIGTERM` can nest.  `lws_cancel_service` on a context that is null
or freed, and `pthread_join` on a thread that was never created, may end the
process (`fault`).

### Messages

One call of `process()`.  A request is its union type and a vtable of any
length, each slot absent or the set of kinds it can be read as without leaving
the buffer; that is all a verifier, which checks field by field, can find out.
Verifier and reader have one table of fields each per message, copied from their
own headers.  `todo` holds the reads and then the builder calls of the handler,
in the order of the code; the builder has its stack of open frames, and a call
adds its field to the frame on top, whatever table it was generated for.  A page
is a call per row (`Row`), and `ListRow`, a turn of the loop of `list_contracts`,
puts the calls for that row's contract and its push before the rows that are
left.  At the end `Seen` reads the response with the readers' tables and defaults.  `create`
functions of the generated builders are their start, add and end calls; the
order of adds inside one does not show in the response.

### Base64

The encoder and the decoder turn by turn: blocks of three bytes, the padded
tail, the table lookup that skips foreign characters, and the
padding that moves the output back.  Sizes are computed modulo `Modulus`, as
`size_t` is; the decoder's characters are the code points.  What is in the
buffers is in the sequences, and the size that was allocated is beside them.

### QueryBuffer

A query is the number of bytes in it (`dst`), the highest byte written (`top`)
and the number that was to be in it (`wanted`).  `strlcat`'s unsigned subtraction
wraps at `Modulus`.  A literal is between 2 and twice its clipped length and 4
bytes long, as `PQescapeLiteral` makes it, or a null pointer, which the code does
not test for (`crashed`).  The constants in the actions are the lengths of the
code's string literals.

### AppSession

`mem` and `disk` are the `SharedPreferences` in memory and in their file:
`commit` writes both, `apply` the memory, and `Flush` the file some time later.
`call` holds the requests under way, whether the service has handled each,
whether the app still waits for it and whether its fragment is still there.
A call that timed out for the app may still reach the service; the service may
commit and answer with an error.  An answer is applied whatever is shown by then.
The screens that store nothing are the one screen `list`.  `who` is the account
whose session the user opened, and `spoilt` the accidents that the code does not
guard against: calls that overlapped, a call under way at a logout, the lost
answer of an edit, a process killed with a token not yet written.
`StoredTokenIsOwn` has two parts.  That the app holds its user's token is
excepted after all of them but a late answer, because the code does lose it.
That the token it is left with opens no other account holds after lost answers
and lost writes too.

## Runs

| Run | Instance | Shows |
|---|---|---|
| `accounts` | two connections, two threads, two usernames (one too wide), two passwords, three tokens; edits, logins and lists, no contracts | `TypeOK`, `SessionIntegrity`, `TokensDistinct`, `NoTokenResurrection`, `CredentialChangeRotates`, `OnlyHolderEdits` |
| `contracts` | two connections, two threads, two users who may take each other's name and become administrators, two contracts, two seconds, pages of one | `RequesterExists`, `PageShowsOwn`, `FiledByHolder`, `RequestsKeepOrder` |
| `data` | one connection, all texts, prices and attachments | `EchoMatchesStore` |
| `edit_token` | one connection | violation of `EditMeReplyIsCurrent` |
| `http` | chunk 3, reads of up to 2, bodies of 0, 1, 2 and 5, responses of 1 to 10 | `StreamExact`, `KeptMeansComplete`, `BodyWhole`, `HeapExact`, `CrashOnlyWhenEmpty`, `EveryAnswerEnds`, `ImplementsExchange` |
| `shared_conn` | two threads, three users and a stranger | `OwnTokenUnlessOverlapped` |
| `shared_conn_own` | two threads, two users and a stranger | violation of `OwnToken` |
| `lifecycle` | up to three threads, ints of four bits, two signals, both virtual hosts | `ThreadsHoldResources`, `SlotsInBounds`, `ServingSurvivesSignals`, `CleanExit`, `StopsWhenAsked` |
| `messages` | vtables of up to six slots, union types 0 to 8, pages of up to two rows, prices -1 (the default), 0 and 5 | `ReadsAreChecked`, `CallsReachTheirTable`, `ClientReadsWhatWasMeant`, `KnownRequestsAnswered` |
| `base64` | strings of up to five of four bytes, texts of up to eight characters, sizes of 12 bits | `BufferSuffices`, `EncodesBits`, `RoundTrip`, `DecodeFits` |
| `query` | the buffers' real sizes; lengths at and around each limit | `InsideBuffer`, `PrefixKept`, `UpdateIsWhole`, `InsertCutOnlyByName` |
| `app` | two accounts, two calls, three tokens | `StoredTokenIsOwn`, `LogoutSticks` |

`contracts` asks what remains true of the gap between two queries when other
threads run in it.  That nothing changes there is not: the user may rename
himself, lose the token he asked with or become an administrator, and of two
handlers that overlap the one with the later id may have the earlier time.  What
is true is that the row that was found is still there (`RequesterExists`), that a
contract is filed under the account of the token that asked for it, even if
somebody else bears the name by then (`FiledByHolder`), and that a contract that
was stored before a request came in has a smaller id and no later time than what
that request stores (`RequestsKeepOrder`).

The bounds.  `MaxUsers`, `MaxContracts`, `MaxTokens` and `MaxTime` end the
histories; they count draws, not rows, so failed registrations use them up too,
and `Restart` may come at any point, any number of times.  Two users and three
tokens are what it takes to confuse two users and to replace a token once more
after it was replaced; two contracts over two seconds with pages of one are what
it takes to order a page and overflow it.  `FewGrants` and `FewReplies` bound
`contracts` further, to two deliveries that clients remember and one response
that waits: two clients with a token each, one of which may be replaced once more
in a response that is lost, are enough for every step between two queries.  The response sizes lie below, at and
beyond one, two and three chunks.  `MaxPending` leaves room for two results that
nobody collected.  `Longs` asks for no, one, two, and more threads than there can
be, for a negative int and for longs whose low bits are a small int; two signals
are what it takes to interrupt a handler or to come again after the first.  Six
slots are as many as the largest table of a request has and more than the others
have; union type 8 is unknown to the schema.  Five bytes are a block and each tail; `Modulus` 4096 lets
the size computation of Base64 wrap around.  `Lengths` of `query` holds the limit
of each literal and the lengths at which each of the buffers is just full.
Connections with threads of their own, and passwords, are interchangeable, which
`Symmetry` uses; only safety is checked with it.

Fairness.  `HttpTransaction` assumes weak fairness of `HttpWriteable`: the
service loop of `thread_service` polls all sockets of the thread and calls back
on one that is writable and was asked for.  A peer that never reads is ended by
libwebsockets' timeout, which is `Hangup`.  `Exchange` assumes weak fairness of
its answers, which is what the refinement has to show.  `LifeCycle` assumes that
every thread that can run does, that a written pipe ends the wait, and that the
options come to an end; it does not assume that other events wake a thread.
`Messages` is one thread running `process()`, weakly fair as a whole.  The other
modules assume nothing.

Deadlock is checked except in `lifecycle` (the process ends), `messages` (one call
of `process()` returns), `base64` (one call each) and `query` (a null pointer ends
the process).

`TypeOK` is an invariant of the run `accounts`, where it says that rows fit their
columns; the other modules' `TypeOK` are proved by TLAPS.

### Findings

- `edit_token`: `edit_me` without a new username or password answers with the
  first 32 of the token's 44 characters (`edit_me.c:72`).  A client that stores
  the answer, as the app does (`ProfileFragment.kt:135`), is logged out in
  effect.  The app itself always sends a username and the checker a password, so
  it takes another client of the API to send such an edit.
- `shared_conn_own`: two logins at the same time can answer with each other's
  token, because all threads use one `db_conn` (`globals.h:17`) without a lock.

### Mutants

Every property of a passing run is also tried against a faulty variant of a
definition it depends on, kept beside the original and named after it:

- `ContractService`: `EditedWritesBack` (the shortened token goes back into the
  row), `EditedReinserted` (an edit as DELETE and INSERT), `FreshTokenOfId` and
  `FreshTokenConstant` (tokens that are not drawn anew), `RegeneratesForName` (a
  new password keeps the token), `RowsWithAny` (a lookup that matches too much),
  `RowOfNamed` (a contract filed by the username that was read),
  `RequestJobUndated` (a contract dated from before its request),
  `ListedInverted` (the admin test the wrong way round), `EchoWhole` (the answer
  keeps a dropped attachment).
- `HttpTransaction`: `FinalEarly` (the last chunk marked too soon),
  `OffsetAfterCut` (offset computed after the size was cut), `AppendAtStart`
  (memcpy to the start of the buffer), `DropForgetsOut` (a leak), `RearmedNever`
  (no further callback), `HttpBodyFallsThrough` (the first piece of a body is not kept).
- `SharedConn`: `AnswerOfUnchecked` (the result's status is not looked at).
- `LifeCycle`: `CreateContextLocal` (the context in a local variable),
  `SpawnInclusive` (`<=` in the loop), `JoinSkipsFirst` (`> 0` in the loop),
  `ReleaseKeepsConn` (no `PQfinish`), `HandlerWakesOne` (one pipe written).
- `Messages`: `EditMeVerifyNoToken` (a field not verified), `ContractCallsOpen`
  (a table not closed), `PushRefSameSlot` (the vector keeps one element),
  `DispatchFewer` (a case missing in the switch).
- `Base64`: `SizeForUnpadded` (no room for the padding), `EncodeTailShort` (one
  padding character too few), `DecodeCharStuck` (the bytes that padding stands for are kept),
  `AcceptedNoPad` (padding is not counted for the decoder's buffer).
- `QueryBuffer`: `strlcatNoTerminator` (the terminator not counted),
  `strlcatAllOrNothing` (a text that does not fit is left out),
  `LiteralUnbounded` (escaping without a length), `ByteaUnchecked` (attachments
  of any size).
- `AppSession`: `EditKeepsToken` (the answer's token is not stored),
  `LogoutApplied` (logout with `apply`).

TLC finds each one.

## Proofs

All theorems hold for every value of the constants that satisfies the named
assumptions of the modules; these are typing assumptions and, for tokens, the
model's own: draws do not repeat.

`ContractServiceProofs`

- `TypeCorrect`: `TypeOK`, by one lemma per action.  The interesting part is
  that no row is ever wider than the schema.
- `SessionInvariant`: `SessionIntegrity` is not inductive.  `SessionInv` adds
  that rows hold drawn tokens and drawn ids, each in one row only (`RowsInv`),
  and that whatever a client, a response or a handler between two queries holds
  is `Bound` to its user: drawn, and in no row but that user's (`HeldInv`).  The
  argument has two parts.  A step leaves in the users table only rows that were
  there with the same id and token, or rows that carry the token just drawn
  (`Evolves` in the proofs), so what was bound stays bound.  Then each handler
  is shown to hand out bound tokens only.
- `SessionsSafe`, `TokensStayDistinct`, `RequestersExist`, `TokensNeverReturn`,
  `CredentialsRotate`, `HolderEdits` follow from it.
- `EchoTrue`: the one action that fills the answer fills it from the row it
  stores.  `PagesRight` needs `PageInv`: every contract's user is in the table,
  or the join would lose contracts.
- `RequestInvariant`, `HolderFiles`, `OrderKept`, for any number of threads.
  `FiledByHolder` and `RequestsKeepOrder` speak of the INSERT alone and need to
  know what its handler found long before.  `RequestInv` keeps it over the gap:
  the token it was sent had been delivered for the user it found, which rests on
  `SessionInv`, and deliveries are never forgotten; contracts with ids below
  `next` are no newer than `since`, which no later step can undo, because new
  contracts take ids from `nextContract` on.

`HttpTransactionProofs`

- `TransactionInvariant`: `PssInv` (which buffer is in use in which phase),
  `BodyInv` (`data` is the beginning of the body that has arrived), `WriteInv`
  (`out_data_len = total - i * Chunk`, which is positive, and `i` chunks are on
  the wire).  The last is why the offset computed from `i` is right although the
  code never stores an offset.
- `ResponseExact`, `KeptComplete`, `BodyDelivered`, `BuffersOwned`,
  `CrashesBounded`, `TransactionTypes` follow, for every chunk size and message
  size.
- `CallbackImplementsExchange`: the initial states and steps map to `Exchange`'s,
  or to stutters.

`SharedConnProofs`

- `ConnectionInvariant`: while no calls have overlapped, one thread at most
  executes, the connection is quiet before each `Send`, and after it carries that
  thread's query or its result and nothing else.
- `NoOverlapNoMixup`, `ConnectionTypes` follow.

`LifeCycleProofs`: `TypeCorrect`, then `IInv`, which ties what is allocated and
the threads to the place of main(): threads exist from the first `Spawn` on, in slots below `n`, and
after `Join` has counted down past a slot its thread has ended.  `ResourcesSafe`,
`SlotsSafe`, `SignalsSafe`, `ExitIsClean` follow, for any number of threads and
signals.

`MessagesProofs`

- `MessageTypes` and `VerifiedReadsSafe`, for vtables of any length and content.
  The invariant says that a table being read has passed its verifier, and that
  what is left to read is a tail of the handler's reads; one lemma compares each
  verifier with each reader.
- `BuilderCallsMatch` and `ResponsesFaithful`, for every answer, prices of any
  value and pages of any length.  Both properties look at one call, or at the
  finished message, and neither is inductive.  `BuildInv` adds the stage the
  builder is in: which answer is being built (`Stage`), what calls are left, what
  frames are open below, and, while fields are added (`Fielding`), that the calls
  left fill the open table (`Fills`: each sets a field of its own that is not
  there yet, and every other field is already as it shall be).  One lemma per
  kind of call says what it does to such a stage.  `Contracting` is a contract
  with its user on any frames and before any calls; `list_contracts`,
  `request_contract` and `check_contract`, which add the fields in two orders,
  share it.  For a page, `k` rows are in the vector and the calls for the others
  are left.  That the client reads what was meant then compares builder and
  reader field by field: the builder leaves out exactly what the reader puts
  back.  `AbsentAssumption` says that the mark for a missing field is none of the
  contents a field can have, as a vtable entry of zero is.

`Base64Proofs`, for data of every length and content, every text and every
`Modulus` from 256 on:

- `BufferSafe`: three bytes consumed are four characters written (`EncodeInv`);
  and if the size is not below the length, which makes the code give up, then its
  computation has not wrapped around and covers the text with its terminator.
- `EncodingCorrect`: `BitsInv` says of every turn of the encoder that the
  characters written so far carry the bits of the bytes consumed.  It is an
  invariant of the loop, so no induction over the data is needed.
- `CodecTypes` and `DecoderSafe`, for any text: `DecodeInv` counts the characters
  that are in the alphabet and ties them to the bytes written, so that no padding
  in the middle moves the output out of the buffer.
- `DecodingInverts`: `RoundInv` says that the bytes decoded so far are the
  beginning of the data, for encoded text with and without a foreign character
  in it.  `ForeignAssumption`, that foreign characters are not of the alphabet,
  is what the inserted character means.

`QueryBufferProofs`: `BuffersSafe`, `PrefixSafe` from what `strlcat` does to a
well-formed buffer (one lemma), `UpdateSafe` and `InsertSafe` from a bound on
`wanted` at each place of the handler.

`AppSessionProofs`: `AppInvariant`.  `StoredTokenIsOwn` is not inductive;
`SessionKept` adds that a call that has overlapped with no other is alone, that
an edit still to be handled presents the account's token, and that a login on
its way carries the token in the account's row.  For its second part, that a
stale token opens no other account, `Separate` says of every token in memory, in
the file and in a call that it opens the session's account or none
(`OnlyOpens`); it outlives a lost answer or write, since a token once replaced is
in no row and new ones are in one only (`Distinct`).  `LogoutSticks` needs
`LoggedOut`: on a phone nobody is logged in on no edit is under way.
`SessionOwn` and `LogoutHolds` follow.

Only model-checked: liveness (`EveryAnswerEnds`, `StopsWhenAsked`,
`KnownRequestsAnswered`, and the fairness of `ImplementsExchange`, whose safety
part is `CallbackImplementsExchange`), which is beyond the prover.  All
invariants and action properties of the passing runs are proved.

## Assumptions and what is not modelled

- Texts have one byte per character and no quotes in `ContractService`; the clock
  does not go back; `RAND_bytes` succeeds and does not repeat; hashes of
  different passwords differ; allocation does not fail.
- `b64_decode` is modelled and proved like the rest of `utils.c`, although no
  handler calls it: the service only encodes.
- Memory of the handlers (the query of `login` is never freed, for one) is not
  tracked; `HeapExact` is about `struct pss` and `CleanExit` about what main()
  allocates.
- The byte layout of FlatBuffers, which flatcc's run-time library and not this
  repository defines; of the generated headers the sort, scan, clone and pick
  functions, which nothing calls.
- The app's views, input checks, attachments and the screens that only show what
  they were sent; a restart of the service during a session of the app.
- The checker: a script that sends one request at a time and compares answers;
  what it compares are properties of `ContractService` here.
- Certificates, container files, the notebooks that build sample requests, and
  third-party code.

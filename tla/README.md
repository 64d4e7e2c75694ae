# A TLA+ model of the QuestDB ingestion client

This directory models `c-questdb-client`: the Rust crate `questdb-rs`, the C API
over it (`questdb-rs-ffi`, `include/questdb/ingress/line_sender.h`), the C++ wrapper
over that (`line_sender.hpp`), the example programs, and the test code that judges
the C++ side. The client builds batches of rows as InfluxDB Line Protocol text in a
`Buffer` and hands them to a QuestDB server through a `Sender`, over TCP or HTTP.

## 1. Inventory

| Component | Code | State | Operations | Hard behaviour | What makes it correct |
|---|---|---|---|---|---|
| Buffer | `questdb-rs/src/ingress/mod.rs` 412-1186 | `output`, `op_case`, `row_count`, `first_table`, `transactional`, `marker` | `table`, `symbol`, `column_*`, `at`, `at_now`, `set_marker`, `rewind_to_marker`, `clear_marker`, `clear` | errors between two writes, markers used late, long call sequences | the state beside the text describes it; the text is lines; a rewind restores what the marker saw |
| Timestamps | `ingress/timestamp.rs` | none | conversions between micro- and nanoseconds | overflow, negative values | a conversion fails or is exact in range |
| Sender, flush | `mod.rs` 2505-2694 | `connected`, `max_buf_size`, the connection | `flush`, `flush_and_keep`, `flush_and_keep_with_flags`, `must_close` | partial writes, a broken connection, several buffers, transactions | no torn rows, rows kept on error, Ok means handed over |
| HTTP retries | `ingress/http.rs` | clock, backoff, last error | `http_send_with_retries`, `retry_http_send` | lost answers, slow requests, late wake-ups | bounded time, at-least-once on Ok, the last error is returned |
| TCP set-up, authentication | `mod.rs` 311-378, 2082-2172, `gai.rs` | socket, TLS session, read timeout | `connect_tcp`, `authenticate`, `read_challenge` | every step may fail or time out; answers in pieces | a sender exists only after the whole handshake; keys go out only in TLS; the wait ends |
| SenderBuilder | `mod.rs` 1456-2364, `ingress/conf.rs` | settings, each defaulted or specified | setters, `from_conf`, `build_auth`, `build` | parameters in the order of a `HashMap`, overlapping cases | the order does not matter; each combination is a scheme or refused |
| Names, escaping | `mod.rs` 81-309 | none | `TableName::new`, `ColumnName::new`, `write_escaped_impl` | boundaries, multi-byte characters, unchecked writes | exactly the right names are accepted; escaping fills its room and reads back |
| C API | `questdb-rs-ffi/src/lib.rs`, `line_sender.h` | boxed options, buffers, senders, errors | one function per Rust method | ownership, a failed setter | no double free, a builder that is what was asked for |
| C++ wrapper | `line_sender.hpp` | `_impl` pointers | constructors, copies, moves, destructors, methods | moved-from, closed and never-used objects, exceptions | each C object has one owner; the objects are values |
| Examples | `examples/*.c`, `*.cpp`, `concat.c` | locals | seven programs in C, seven in C++ | every call may fail | what is left behind; the exit code tells |
| Mock server | `cpp_test/mock_server.cpp` | two descriptors, messages | constructor, `accept`, `recv`, `close` | a stream cut at any byte, rows that it misreads, failing calls | messages are rows, or rows joined where one is misread; `recv` returns |
| doctest | `cpp_test/doctest.h` (vendored) | `ContextState`, the reporters | the run loop, subcases, asserts, reporters | tests entered again per leaf, exceptions, signals | every leaf once, nested reports, the exit code |
| Number formatting, error texts, TLS stores | `mod.rs`, `error.rs` | none | | library calls | |
| System tests, TLS proxy, build files, `corrosion` | | | | | not part of the client |

How they interact: a caller owns `Buffer`s and lends one to `Sender::flush`,
which checks it against the op case, the size limit and the transactional flag,
then writes its text to the socket or to an HTTP request. HTTP goes through the
retry loop, which talks to the server through `ureq`. `SenderBuilder::build` makes
the sender, over TCP with `connect_tcp`. The C API boxes these objects and hands
out pointers; the C++ classes own the pointers and turn errors into exceptions; the
examples are programs over one or the other. Rust's borrow rules make each buffer
call atomic and give a flush the sender and one buffer for its duration;
concurrency is between the flush, the caller's other threads (with other buffers),
the network and the server.

## 2. Modules

| Module | Models | Builds on |
|---|---|---|
| `Timestamp` | the conversions of `timestamp.rs`; i64 with a parametric largest value | |
| `BufferOps` | each call of `Buffer` as an operator from a buffer to a buffer and a result | `Timestamp` |
| `BufferText` | what a text says, read from its pieces alone: the reference for the state beside it | `BufferOps` |
| `Buffer` | one buffer and a caller that may make any call at any time | `BufferText` |
| `RowBatch` | what a buffer promises: a list of rows and one savepoint | |
| `BufferRefinement` | `Buffer` implements `RowBatch` | `Buffer` |
| `HttpError` | outcomes of a request, `is_retriable_error`, the error code reported | |
| `HttpRetry` | the retry loop with clock, jitter, network and server | `HttpError` |
| `HttpSend` | what the loop promises: at-least-once delivery on Ok | |
| `Sender` | flushes of several buffers over TCP or HTTP | `BufferOps`, `HttpError` |
| `BuilderOps` | setters, arms of `from_conf`, `build_auth`, roots, as operators on builders | |
| `Opts` | one `line_sender_opts`: made, set, built; `from_conf` in any order | `BuilderOps` |
| `TcpConnect` | `connect_tcp` and `authenticate` against a server and a network | `BuilderOps` |
| `Escaping`, `Names` | the loops of `write_escaped_impl` and of the two `new` | |
| `SenderOps` | `flush_impl` as one call, for the layers above | `BufferOps`, `BuilderOps` |
| `CApi` | every C function on a heap of owned objects | `SenderOps` |
| `CppBuffer`, `CppSender` | the C++ classes over `CApi` | `CApi` |
| `ValueBuffer`, `ValueSender` | what the classes promise: plain values, no heap | `BufferOps`, `SenderOps` |
| `CExamples`, `CppExamples`, `Examples` | the example programs over `CApi` and `CppSender` | |
| `MockServer` | the mock server, its client and the stream between them | |
| `Reporters`, `Filters`, `TestRunner` | doctest's XML and JUnit reporters, its filters, its run loop and subcases | |
| `BufferOps_proofs` | lemmas: what each call of `Buffer` does to a good buffer | `BufferText` |
| `Buffer_proofs` | theorems about `Buffer` and `BufferRefinement` | `BufferOps_proofs` |
| `Sender_proofs` | theorems about `Sender` and `HttpRetry` | `BufferOps_proofs` |
| `Opts_proofs`, `TcpConnect_proofs`, `TestRunner_proofs` | theorems about the module each is named for | |
| `Cpp_proofs` | theorems about `CppBuffer`, `CppSender` and `Examples` | |
| `Names_proofs` | theorems about `Names`, `Escaping` and `MockServer` | |
| `MC*` | values of the constants for TLC | |

Definitions keep the source's names. An `Option`, or a fallible conversion, is a
set with at most one element. Operators whose comment starts with "Mutant" are
not part of the models: each is a plausible slip in the definition that follows
it, and replacing that definition by it makes TLC find a property violated
(`mutants` in `PROJECT.json`).

**Buffer text.** `output` is a sequence of the pieces the code pushes (a table
name, `,name=value`, a column key with its separator, a value, a timestamp, a
new-line), so that `String::len` is the length of the sequence, `truncate` is
`SubSeq`, and the op case can be compared with what the text really ends in.
Escaping happens within a piece (`Escaping` looks inside). A name is one of
`Tables` or `BadName`, which stands for the names that are too long. The argument
of `at` and `column_ts` is any `T: TryInto<Timestamp>`, so its conversion may fail;
in `column_ts` it fails after the key has been written, and the model leaves that
key in the text as the code does.

**Retry loop.** `now` advances in `Outcome` (a request takes up to
`RequestTimeout`) and in `Wake` (a sleep takes at least what was asked). A post
stays in `wire` until the server deals with it, possibly after the client has
given up. `ServerApplyAndFail` is a server or gateway that answers with a
retriable status after the rows were stored.

**Sender.** `setup` is the sender and its caller: protocol, limit, buffers. `call`
is the flush in progress; `left` what `write_all` has yet to write. A broken
connection may still swallow writes (`TcpWrite` with `up` false), which is why Ok
over TCP does not mean delivered. `TcpWriteError` may come at any point of a
write. Over HTTP the loop is represented by what `HttpSend` allows; `HttpRetry` is
shown to implement that. Rows have one symbol each here, since their contents are
`Buffer`'s concern. A flush records its buffer when it is called (`Begun`); `ret`
describes the flush that returned in the last step, with that buffer.

**Builder and options.** A value is the text that a configuration string would
give; the members of the small sets are those the code tells apart (a control
character, not a number, at and below a limit, a file that cannot be opened).
`Param` takes any parameter not yet taken, which is the `HashMap`. `upd_opts!`
takes the builder out and puts a dummy in when the setter fails; `base` and `asked`
record what the caller has a right to expect after it.

**TCP set-up.** One action per step of `connect_tcp` that may fail. The server's
bytes arrive in pieces (`Arrives`), or never; `Tick` is time passing while the
client waits in a read, and `TimesOut` what happens once a read has waited
`auth_timeout`, which is a setting of the builder and may be 0: then the socket has no
read timeout and nothing ends the wait but the server. Signatures are symbolic: over a
challenge.

**Mock server.** One thread is the test: it connects, flushes, and calls the server. The
bytes go through `flight` and the kernel (`avail`) in pieces of any size. A system call that
the code tests may fail: the exception ends the test (`Throws`), the descriptors are closed
by the destructor, and what `recv` had taken is gone.

**Names and escaping.** A run takes a name through validation and, if accepted,
through `write_escaped_impl`; values go to the latter directly. `set_len` uncovers
bytes that hold `Uninit`, and a write past the end leads to `pc = "undefined"`.

**C API and C++ classes.** A heap maps addresses to objects; a freed address may
be given out again. A call returns a heap, a value and an error; following `NULL`
or a pointer to something else is `ub`. A statement of the C++ program is an
action: constructors, copies, moves, assignments (to the object itself too),
destructors, setters, builds and flushes. Every statement may be made at any time, also
those that hand `NULL` to the C API without a test in the wrapper (`CopiesNull`,
`UsesNull`); a program that makes one of them is undefined from there on. What happened
is in `out`, which `ValueBuffer` and `ValueSender` also have to explain.

**Examples.** A program is the sequence of its calls; each fails or not, and the
rest is the code's own clean-up (`on_error` in C, destructors in C++).

**Test framework.** A test is a tree of subcases with an assertion at every node;
each may pass, fail, throw or be hit by a signal (`faults` are bounded). The
reporters are states that the events update. A command line is the lists of masks
that the user means, written as `CommandLine` does; the code parses it
(`parseCommaSepArgs`) and matches names by `wildcmp`, and `EveryLeafOnce` compares
what is run with what the masks mean (`Means`); it asks for every leaf only of a test in
which no assertion failed, since a failure may end a pass early. A signal leaves the pass at
"killed", or at "killed late" if a subcase of the pass had ended; a read past the
end of `subcaseStack` leaves it at "undefined".

## 3. Runs

| Run | Checks | Bounds |
|---|---|---|
| `buffer` | `TypeOK`, `StateDescribesOutput`, `OutputIsLines`, `MarkerIsSnapshot`, `RewindRestores`, `ErrorsContained`, `ImplementsRowBatch` | 2 tables (symmetric), 8 pieces of text: a marker after the first row and a mixed pair after it; i64 cut to 13 bits so that 5 us overflows in ns; a negative, an overflowing and an unconvertible timestamp are among the inputs |
| `http_retry` | `DurationBounded`, `LastOutcomeReturned`, `OkMeansApplied`, `Returns`, `ImplementsHttpSend` | budget 60 ms: up to three retries, requests up to 2 ms, wake-ups up to 2 ms late, one retriable and one fatal status |
| `sender` | `StreamIntact`, `RefusalsJustified`, `KeptUnlessFlushed`, `OkMeansHandedOver`, `FlushReturns` | TCP: 2 buffers, rows of 3 pieces, `max_buf_size` of one row and buffers of two, a socket of 2 pieces so that a row never fits, two flushes per connection, any number of connections. HTTP: 1 buffer of up to 3 rows of 2 tables, `max_buf_size` of two rows, 2 posts per flush, any number of flushes |
| `opts` | `OrderFree`, `HoldsWhatWasAsked`, `AuthAsDocumented`, `RootsAsAsked` | strings of up to 3 of 18 parameters on each protocol, in every order; up to 4 setters of 14, or fewer after a string |
| `tcp_connect` | `AllOrNothing`, `KeysGuarded`, `SignsTheChallenge`, `WaitBounded`, `ConnectEnds` | 8 builders with timeouts of 2 ticks and of 0, servers that speak TLS or do not, ask for keys, stay silent or close, challenges of 1 and 2 bytes, handshakes of 2 pieces; without a timeout 13 ticks per read (`MaxTicks`), one more than `WaitBounded` allows in all with a timeout |
| `names` | `AcceptsExactly`, `RoomIsExact`, `ReadsBack` | every name of up to 4 characters of 7 kinds, every value of up to 4 bytes of 6 kinds |
| `cpp_buffer` | `BuffersOwned`, `ActsAsValue` | 2 variables, 3 addresses, a name of 128 bytes and limits of 127 and 128, 4 pieces of text |
| `cpp_sender` | `AllOwned`, `ActsAsValues` | 2 options, 2 senders, 1 buffer; 2 options or senders alive at a time, 1 setting each |
| `examples` | `WhatIsLeft`, `ExitCodeTells` | the 14 programs, up to 2 arguments |
| `mock_server` | `NothingLost`, `RecvReturns` | up to 3 rows of 5 kinds, one ending in an escaped backslash, chunks of 3 bytes so that a row is below, at and above one |
| `test_runner` | `EveryLeafOnce`, `ReportsHold`, `ExitTells` | 5 tests (a tree of depth 2, a skipped one, a loop over two subcases, three decorations), 2 faults, 8 command lines: `abort_after` 0 and 2, a query, a range, masks with stars, question marks, escaped commas and both cases |
| `cpp_sender_doc` | `ClosedSenderThrows` (violated) | as `cpp_sender` |

The bounds are those at which each case of the code occurs: every early return
of `flush_impl` (save the one for an empty text, which no buffer reaches: the op
case allows a flush only after a row, by `StateDescribesOutput`), a text below, at
and above `max_buf_size`, a write that fails before, within and at the end of a
row, a retry after each kind of outcome, a read that is cut before, within and
after a line, an assignment between any two states of two objects. A third object
adds no case: a statement names two at most, and what it does depends on no other.

Deadlock is checked everywhere but in `opts`, whose caller may stop at any time.
Where a system ends, a step says so (`Quiet`, `Over`, `Ended`).

**What `cpp_sender_doc` shows.** `line_sender::flush_and_keep` of a buffer that has
no C buffer yet passes `_impl` on without a test (`line_sender.hpp:1241`). For a
sender that was closed or moved from it is null, and the C API dereferences it;
`flush` and the other branch throw "Sender closed.".

**Other disagreements met while modelling.** None is a fault of the code, and none
has a run.
- `mod.md` says that a recoverable error is reported "only after it has exhausted
  the retry time budget"; the loop gives up as soon as the next sleep would end
  after the budget, with a 1 s backoff up to a second early.
- The comments on `Sender::flush` (`mod.rs:2660`) and `line_sender_flush`
  (`line_sender.h:891`) say "After this function returns, the buffer is empty"; after
  an error it is as it was at the call (`KeptUnlessFlushed`), and the tests rely on it.
- `line_sender.h` says of `line_sender_build` that the "opts object is freed"; the
  implementation clones it and leaves it to the caller, as the C++ wrapper expects.
- `connect_tcp` sets a read timeout "to prevent the client from 'hanging'"
  (`mod.rs:2115`). `auth_timeout` accepts 0 (`mod.rs:1935`), which the socket takes for
  no timeout: then a silent server makes the client hang (`WaitBounded` and
  `ConnectEnds` are about the timeouts above 0).
- `transactional()` of a C++ buffer without a C buffer is `false` (`line_sender.hpp:418`),
  of an empty C buffer `true`; its comment says that a buffer "is transactional iff it
  contains data for at most one table". `ActsAsValue` states both answers for an empty
  buffer, and that for any other the comment is right.
- A copy construction of a C++ buffer that was never written to, or was moved from,
  clones a null pointer (`line_sender.hpp:332`), where the copy assignment tests for it;
  options that were moved from are passed on untested by their setters, their copies and
  `line_sender`'s constructor (`line_sender.hpp:842`). `BuffersOwned` and `AllOwned` say
  that these, and the flush of `cpp_sender_doc`, are the only undefined statements.
- The seven C examples free their buffer in `on_error` only: one that succeeds closes the
  sender and leaks the buffer (`line_sender_c_example.c:73-75`). `WhatIsLeft` says that
  this buffer, and nothing else, is left.
- The position in the error for a bad name counts characters where the check for a
  last dot compares it with a number of bytes: a name with a multi-byte character
  may end in a dot (`AcceptsExactly` states what is accepted).
- The mock server takes a row that ends in an escaped backslash (`a\\` and a line feed, as
  the sender writes a last symbol `a\`) for one that goes on (`mock_server.cpp:224-234`):
  it becomes part of the next message, and without one `recv` waits for ever. After the
  last byte of a closed connection `recv` does not return either. No test meets these cases;
  `NothingLost` and `RecvReturns` say what happens in them.
- doctest's handler of signals ends the subcases that its stack holds, some of
  which may have ended already: after a signal in a pass of which a subcase has
  ended the XML report is not nested. `ReportsHold` says so, in both directions.
- In a function that loops over nested subcases doctest runs a leaf in more than
  one pass, and with one of them left out by a filter it reads past the end of
  `subcaseStack` (`doctest.h:4166`). `EveryLeafOnce` says where this may happen.
- With `--subcase-filter-levels` below the depth of a test's subcases, an excluded
  subcase beside an entered one makes doctest begin passes for ever: `checkFilters`
  compares the levels with the size of the stack, which is that of the last leaf
  (`doctest.h:4144`). The command lines of the run have levels of 0 or above the
  depth of every test.

**Fairness.** `HttpRetry`: weak fairness of the client, one thread whose every
wait is bounded, by `sleep` or by the timeout that `flush_impl` sets on the
request. No fairness of the server or the network is assumed. `Sender`: weak
fairness of writing and returning, and of the server reading a connection that
stands. The last one is an assumption about the server that the code needs:
the socket has no write timeout, so without it `flush` may block for ever.
`TcpConnect`: weak fairness of the client's thread and of time; none of the server
or the network, since the read timeout is set before the first read. With an
`auth_timeout` of 0 there is none, and `ConnectEnds` claims nothing. `MockServer`:
weak fairness of the server's thread and of TCP delivering what was sent; a system call
need not ever fail.

## 4. Proofs

`tlapm` checks the following for every value of the constants. Each inductive
invariant was first checked by TLC on the component's run.

- `BufferOps_proofs` holds the lemmas about the calls of `Buffer`, shared by the two
  modules below. A buffer is `Good` when its state describes its text and the text
  is in the grammar; each call is `Sound` (it keeps a good buffer good and only adds
  text, or says so) and `Contained` (what an error leaves behind).
- `Buffer_proofs`: `BufferTypeOK`, `BufferStateDescribesOutput`,
  `BufferOutputIsLines`, `BufferMarkerIsSnapshot`, `BufferRewindRestores`,
  `BufferErrorsContained`, `BufferImplementsRowBatch`. The inductive invariant is the
  conjunction of the four
  invariants: the op case is needed to know which piece may come next
  (`OutputIsLines`), the marker's state must describe its prefix of the text for a
  rewind to re-establish `StateDescribesOutput`, and a prefix that ends on a row
  boundary is again in the grammar. Since calls only add text, a marker set earlier
  stays a snapshot (`GrowKeepsInv`).
  The refinement `BufferImplementsRowBatch` maps the text to rows by reading it piece
  by piece (`Read`, a recursive function, which exists and agrees on common prefixes by
  `UpTo`). One more piece is one more step of the reader (`ReadAppend`), so each call
  opens a row, adds a field or finishes a row of what is read (`Builds`). The invariant
  `ReadInv` adds to the one above that what is read fits the state (`Fits`: the op case
  says how far the open row has come), for the whole text and for the text before the
  marker, which is why a rewind is the rollback of `RowBatch`.
- `Sender_proofs`: `SenderStreamIntact`, `SenderRefusalsJustified`,
  `SenderKeptUnlessFlushed`, `SenderOkMeansHandedOver`. The four are proved together
  with `BufsInv` (every buffer of the caller is good, which is why a refusal by op
  case or flag is a refusal by text), `CallInv` (the flush in progress passed the
  checks, and its buffer is still what the caller handed over and what goes to the
  network: Rust's borrow keeps other calls off it) and `LeftInv` (only
  a TCP flush in progress on a usable sender has text left to write).
- `Sender_proofs`, on `HttpRetry`: `RetrySleepWithinBudget`, `RetriesCostBudget`,
  `RetryDurationBounded`, `RetryLastOutcomeReturned`, `RetryOkMeansApplied` and
  the refinement `RetryImplementsHttpSend`. The invariant relates the clock to
  the sleeps (`ClockInv`: since the loop was entered at
  `retry_end - RetryTimeout` at least `slept` ms have passed, and no sleep ends
  after `retry_end`) and the outcomes to the server (`OutcomeInv`: an `Ok` in
  the client's hands was applied, and applications plus posts on the wire never
  exceed posts). With a budget of 0 the request is posted once.
- `Opts_proofs`: `OptsOrderFree`, `OptsHoldsWhatWasAsked`, `OptsAuthAsDocumented`,
  `OptsRootsAsAsked`. The heart is `LoopInv`: in the middle of `from_conf` the builder is the one that the
  parameters taken so far describe (`Partial`), and all of them pass. `ArmStep` shows
  that one more turn keeps this whichever parameter it takes, also for `tls_ca` and
  `tls_roots`, which write the same setting. After it, `AskedInv` accounts for each
  setting by the setters called, `tls_roots` counting for two. `BuildAuthCases` goes through the
  overlapping arms of `build_auth`.
- `TcpConnect_proofs`: `ConnectAllOrNothing`, `ConnectKeysGuarded`,
  `ConnectSignsTheChallenge`, `ConnectWaitBounded`. `StepInv` says what must have
  been done at each step, `SentInv` what was written in which order, `BytesInv`
  accounts for every byte of the server (in its hands, on the wire, read: together
  the handshake, and then the challenge line or an alert), and `TimeInv` pays for
  the time waited with the bytes that have come, if there is a timeout.
- `Cpp_proofs`: `BuffersAlwaysOwned`, `EverythingOwned`, for every program over the classes.
  A statement that hands null on is undefined at once and is one of `CopiesNull` or
  `UsesNull`; every other statement finds and keeps the invariant, so none of them is
  undefined (`NullCopied`, `NullRead`, `Astray`). The invariant is a relation between the
  variables and the heap: each live variable points to nothing or to an object of its
  class, and no two to the same (`Owns`), everything on the heap is pointed to, there
  is no error object, and no call has touched freed memory. Each C function is shown to
  keep this outside of the variable it is called for; the statements of a method are
  then composed in their order, exceptions included. An allocation must also succeed:
  the addresses in use are fewer than the objects in scope (`AllRoom`, an injection from
  addresses into variables), so two more are free, enough for any one statement.
  `BuffersActAsValues` is the refinement of `ValueBuffer` by `CppBuffer`. A variable's value
  is read through its pointer (a null one is the empty buffer with the limits that the
  object keeps). With one owner per C buffer, a C call changes the value of the variable
  it is called for and no other (`MethodsFare`, `ConstructFares`, `DestroyFares`); the
  invariant adds that the limits of the object are those of its C buffer (`Limits`).
  `transactional()` and the copy of an empty buffer are the two places where the value
  has more than one answer (`NullCopyAllowed`).
- `Cpp_proofs`, on `Examples`: `ExamplesWhatIsLeft`. In C++ (`CppInv`) the two destructors
  are the last statements of what is left, whether a statement threw or not
  (`Unwound`), and the ownership of `EverythingOwned` holds at each statement; when
  both variables are gone the heap is empty. In C nothing owns the memory but the
  order of the calls, so `CInv` says for each number of calls left which of the four
  pointers hold an object, which are null and which dangle (`Held`, `Settled`): a
  program is read from its end, where all seven agree (`When`). `on_error` begins with
  whatever was set when the call failed, and each of its calls takes one pointer out
  of `Held` or finds it null. No pointer that dangles is used again, because `conf_str`
  is set to null and each of the others is freed by the last call that reads it.
- `Names_proofs`: `NamesRoomIsExact`, `NamesAcceptsExactly`, `NamesReadsBack`, for
  names and values of every length. The room is measured and filled by two loops, so the invariant counts
  the bytes to escape among the first `read` (`NHits`): the first loop has counted them,
  the second has written `Used(read)` bytes, and the room is `Used(Len(text))`. The
  loop over a name keeps that every character so far passes; `BytesFacts` (the bytes of
  a name are as many as its characters if and only if none is long) then decides the
  comparison of a character's index with a number of bytes. What is read back is
  decided byte by byte: a byte is escaped when the one before it is a backslash that is
  not (`EscapedStep`), so at the end of each byte of the text the reader is in the state
  in which it began (`EscapedWhere`), keeps the byte and drops only its backslash.
  These are inductions over the text; they go by the least element of a set of
  numbers (`LeastNumber`, `UpTo`), which needs no theorem with an operator as parameter.
- `Names_proofs`, on `MockServer`: `MockServerLosesNothing`. The stream is the rows one after
  the other, so what has been split off, what is accumulated, what waits in the socket and
  what is in flight are, joined in this order, the rows flushed (`MockInv`); a `recv` that
  throws breaks this and ends the test. A byte ends a message if and only if it is the
  last of a row that is not misread (`ByteOf`). So the loop over what was read stands, after
  each byte, behind a number of rows that are reported, followed by rows that have ended and
  are misread (`Stands`); where it stops a row has ended that is not misread, and all rows
  before are reported.
- `TestRunner_proofs`: `RunnerExitTells`, `RunnerReportsHold`. For the exit code the invariant
  (`ExitInv`) says that the flags and the counter of the test in hand tell what went wrong
  in all of its passes so far (`FlagsInv`), that the tests before it are counted as failed
  exactly when they did not do as declared (`CountInv`), and that a run which goes on has
  not reached `abort_after` (`AbortInv`, which is why the flag for too many failures never
  comes without a failed assertion). `XmlInv` gives the number of open elements at
  each point, the depth of the subcase in the function included, and their order follows
  from their number (`Nested`); the stack has at least the subcases that the function is in
  (`Stacked`), so a signal closes exactly these or, with one more on the stack, an element
  that is no subcase, after which the report is broken and yet ends with nothing open
  (`Loose`). `JUnitInv` keeps the sum of the filed failures of a test equal
  to what happened in it; between the throw and the runner's `catch` an exception may be
  filed or not (`Unwinding`).

The assumptions are those named in the modules: timeouts are natural numbers,
status codes are 400 to 599, `BadName` is no table, timestamps are i64; the strings
and setters given to `Opts` have the four protocols and the settings of the builder
and no caller passes what marks a default
(`OptsAssumption`); `connect_tcp` is reached only with a TCP protocol and after
`build_auth` succeeded, as in `build` (`BuildersAssumption`); a challenge has no
new-line, which is what ends it (`ChallengesAssumption`); lengths are natural numbers
(`LengthsAssumption`); memory does not run out,
which the C API does not report either, so there is an address for every object in
scope and two temporaries, and a variable is of one class (`AddrAssumption`,
`VariablesAssumption`), and an example has its variables (`ExamplesAssumption`);
a row given to the mock server is longer than its line feed, and
those inside of it are escaped, as the sender writes rows (`RowsAssumption`), a chunk is not empty
(`BoundsAssumption`); a test has a suite (`""` if none was named) and one of the four
decorations, and the parent of a subcase is a subcase (`TestsAssumption`). TLC evaluates
all of them in the runs.

Only model-checked:

- everything under fairness: `Returns`, `FlushReturns`, `ConnectEnds`, `RecvReturns`,
  the liveness conjunct of `HttpSend`. The prover has no `ENABLED`;
- `ActsAsValues`: the refinement of `ValueSender` by all classes together. Its buffers are
  covered by `BuffersActAsValues` and its ownership by `EverythingOwned`; the builders and
  connections behind options and senders would need the same again for each setter and
  for the flush;
- `EveryLeafOnce`: that a test's passes are as many as its leaves is an induction over the
  order of the passes, with a stack of names that the passes share;
- `ExitCodeTells` of the examples: a program is a given sequence of some fifteen calls
  with one row, so TLC's run over all fourteen programs with every outcome of every
  call leaves only the addresses and the arguments to generalise.

## 5. Plan

1. Proofs: `ActsAsValues`, from the invariants of `Cpp_proofs`.
2. A composition of `TcpConnect` with `Sender`, so that `TcpRebuild` is a connection
   that may fail.

## 6. Not modelled

- The capacity of a buffer and `reserve` beyond its call, `now_nanos` and
  `now_micros`, error texts, number formatting: they have no control of their own.
- `line_sender_flush_and_keep_with_flags` of the C API: neither the C++ wrapper nor
  an example calls it; the Rust method behind it is modelled in `Sender`.
- What `configure_tls` does with certificate stores, and the cryptography: `rustls`,
  `ring`. Which roots it is asked for is in `BuilderOps`.
- The parser of configuration strings (`questdb-confstr`, external): a string is its
  parameters.
- Windows: `gai.rs` for it and the winsock branches of the mock server.
- doctest: stringification, decomposition of expressions, the console reporter,
  timeouts, the other options.
- System tests, the TLS proxy, the examples in Rust, build files, `corrosion`.

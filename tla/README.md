# TLA+ project for twirpjs

twirpjs is a JavaScript client for twirp services with an extension of twirp for
streaming responses.  The repository also holds a Go server and a Go client
whose streaming code is generated, which is the only definition of what the other
end of a stream does, and, vendored, the Go tools that build them; of these dep,
with its solver and its source manager, is by far the largest program with state
of its own.  This directory holds TLA+ modules of the system, the TLC
configurations that check them on small instances, and proofs for TLAPS.

All paths below are relative to the repository.  `twirper.twirp.go` is
`example/twirper/twirper.twirp.go`; files of dep are relative to
`example/_tools/src/github.com/golang/dep`.

## The system

| Component | State | Operations | Talks to |
|---|---|---|---|
| Stream framing, `streaming.js` | none; a reader position inside one call | `concatByteArrays`, `extractMessages`, `parseTwirpError` | called by both stream readers with the bytes that have arrived |
| Fetch transport, `transports/fetch_transport.js` | `reader.leftover`; the client's `fetchOptions` | `fetchTwirpRPC`, `sendReqAndCheckResp`, `readFromStream` | `fetch`, a reader, the caller's callback and promise |
| RxJS fetch transport, `transports/rxjs_transport/index.js` | `leftover`, whether each Subscriber is closed or stopped, the abort controller | `send`, `_next`, `_complete`, `unsubscribe` | `fetch`, a reader, the observer |
| RxJS XHR transport, the same file and `ajax_observable.js` | `done`, the XHR's state | event handlers, `send`, `unsubscribe`, `checkXHRStatus` | XMLHttpRequest, the observer |
| Registry, `core.js`, `index.js` | `TRANSPORT_TYPES`, `TransportGenerators`, the options that clients share | `registerTransportGenerator`, `newTwirpClient`, `getRpcCall` | transports |
| Errors, `helpers.js` | none | `TwirpError` and codes | everything |
| Twirper server, `twirper.twirp.go`, `twirper_go_server` | the loop of the handler, the goroutine of the sender, an unbuffered channel, the context, the hooks called | `ServeHTTP`, `serveEcho*`, `serveRepeat*`, `writeError`, `Repeat`, `sendRepeatResps` | net/http, the service, hooks |
| Go client, `twirper.twirp.go`, `twirper_go_client` | the goroutine, the `RepeatResp` it decodes into, an unbuffered channel, the context | `Echo`, `Repeat`, `protoStreamReader.Read`, the range loop of `main` | net/http, the caller |
| Solver of dep, `gps/solver.go`, `selection.go`, `satisfy.go`, `version_queue.go` | the selection, the queue of unselected projects, the stack of version queues | `Solve`, `selectAtom`, `backtrack`, `findValidVersion`, `check` | source manager (versions, packages, manifests) |
| Package trees, `gps/pkgtree` | the maps of one search | `ToReachMap`, `wmToReach`, `TrimHiddenPackages` | solver |
| SafeWriter of dep, `txn_writer.go`, `gps/solution.go`, `internal/fs` | files on disk, the moves to take back, an errgroup | `Write`, `WriteDepTree`, `RenameWithFallback` | file system, source manager |
| Source manager of dep, `gps/source_manager.go`, `source.go`, `deduce.go`, `source_cache.go`, `vcs_source.go` | supervisor, tries of known roots, gateways and who waits for them, the caches and flags of each gateway | `DeduceProjectRoot`, `getSourceGatewayFor`, the calls of a gateway, `Release` | network, clones, many goroutines |
| `gen_twirpjs`, React example, protobuf and its generators, the commands of dep | none that several steps share | | |

What is hard in it:

* *Chunks.*  The network cuts a body anywhere: inside a tag, a length, a payload,
  a trailer.  Both JavaScript readers keep the bytes of the open message
  (`leftover`) and must join them to the next chunk exactly once.
* *Ends.*  A body may end with a trailer, without one, in the middle of a frame,
  by an error of the connection.  The call must end, once, and as a success only
  if everything that arrived was delivered.
* *Callbacks.*  An observer may unsubscribe while messages of the same chunk are
  in the loop, or while a read is under way.
* *Event order.*  An XMLHttpRequest that fails raises readystatechange before its
  error event, and aborting it raises events inside the handler that aborts.
* *Goroutines.*  Handler and sender of a stream meet at an unbuffered channel
  while net/http may cancel their context at any moment; the Go client shares one
  message between its goroutine and its caller.
* *Error paths.*  Hooks must be called once, trailers written, bodies closed,
  whichever way a loop is left.
* *Shared objects.*  Calls of one JavaScript client share its options and change
  them; registrations change what the names of transports mean.
* *Backtracking.*  dep's solver undoes selections by working out again what they
  had pushed; it must take back exactly that, forget nothing, and end.
* *Rollback and kills.*  SafeWriter replaces three things on disk by renames that
  may fail, on two devices, in a process that may be killed.
* *One of each.*  Callers of the source manager that ask for the same source under
  several names must end up with one gateway, whoever comes first and whatever
  fails; nobody may wait for ever; `Release` must wait for everybody.
* *Stale caches.*  Upstream goes on while a gateway remembers versions and a clone.

What makes each component correct:

* framing and readers: delivery in order, exactly once, without gaps; no bytes
  lost or doubled between reads; success means complete; a failure has a cause;
  the call settles;
* RxJS transports: the same, and nothing after the end of a subscription;
* server: the wire is the requested stream from its beginning, complete for a
  client that stays, each hook called as promised, both goroutines end;
* a whole call: the client has a prefix of the stream it asked for, and all of it
  if the call succeeds;
* Go client: as the readers, and the caller reads from a message what was sent
  in it;
* registry: a name, once registered, keeps its generator; clients of one type
  agree; headers of one's own go out with the calls they were given for;
* solver: a solution satisfies every constraint and every import; what is undone
  is what was done; the search ends;
* package trees: what a package reaches is what graph reachability says;
* SafeWriter: all of it or nothing, and the originals somewhere whatever happens;
* source manager: one gateway, all calls return, the lock file outlives all calls;
* gateway: its flags are true, a listed version can be read, a list stays.

## The modules

| Module | Models | How |
|---|---|---|
| `TwirpStream` | `streaming.js` | A body is given by its frame boundaries, header lengths and frame kinds. A `View` is a Uint8Array: where its buffer begins in the body, its byteOffset, its length. `Turns` is one turn of the loop of `extractMessages`. |
| `StreamDelivery` | nothing: the abstract promise of a call | Messages in order, each once; settled once; success only after the last message. |
| `FetchStream` | a call of `fetchTwirpRPC`, with `sendReqAndCheckResp` and `readFromStream` | One action per await and per turn of the loop, unary and streaming; `leftover` is `reader.leftover`, `view` and `pos` the array and position of `extractMessages`, `outcome` the promise. |
| `ProtoStreamSubscriber` | what both observable transports put behind their source: `ProtoStreamSubscriber._next` and `_complete`, the decoding map, the observer | `Split`, `Turn`, `Emit`, `Finish` are pieces of the callers' actions; `outcome` is the end of the whole chain of Subscribers, which open and close together. |
| `RxStream` | `FetchSubscriber.send` in front of it | `phase` is where `send` stands. |
| `AjaxTransport` | `AjaxSubscriber` and `checkXHRStatus` in front of it | One action per event of the XMLHttpRequest; `done` is `AjaxSubscriber.done`, `handling` and `pending` say which events have begun and which must follow. |
| `ObservableTransports` | a call of either | `transport` says which; the variables of the other stand still. |
| `TwirpClient` | `registerTransportGenerator`, `newTwirpClient`, `getRpcCall`, and the headers of the requests that calls make | `types` and `generators` are the registry; an options object is shared by the clients made with it, and `custom` says which still have headers of their own. |
| `TwirperServer` | `ServeHTTP`, `serveEcho*`, `serveRepeat*`, `writeError`, `theTwirper.Repeat`, `sendRepeatResps` | `handler` and `sender` are the program counters of the two goroutines, `Receive` is their meeting at the channel, `Disconnect` and `Cancel` are net/http, `wire` is what a client that listens is sent, `hooks` the server hooks called. |
| `EndToEnd` | a whole call: the server, the connection, the fetch client | The client reads the items of `wire`; that it does so in order, however they are cut, is what `FetchStream` shows. |
| `GoClient` | `Echo` (by its outcome), `Repeat` with its goroutine, `protoStreamReader.Read`, the loop of `main_client.go` | `goroutine` and `caller` are the two sides; `out` is the shared message, reset when decoding begins and filled when it ends. |
| `GpsSelection` | `selection.go`, `satisfy.go` and the solver's helpers | Pure operators on the record `s` of selection, dependencies and queue; `world` is all that the solver learns from outside. |
| `GpsSolver` | `solver.go`, `version_queue.go` | One action per turn of the loop of `solve` or of `backtrack`; `vqs` is the stack of version queues. |
| `ReachMap` | `pkgtree.go`, `reachmap.go` | One action per call of `dfe` and per return; `workmap`, `exrsets`, `inrsets` and `errmap` are the maps of `wmToReach`. |
| `DepTree` | `WriteDepTree` with its goroutines and errgroup | `worker` is where each goroutine stands, `err` what it returns. |
| `SafeWriter` | `NewSafeWriter`, `Write`, `RenameWithFallback` | One action per file operation; `disk` is a content for each place, `restore` the moves to take back; moves and removals may fail. |
| `GoMap` | maps of Go | |
| `Supervisor` | `supervisor`, `Release` | `running` counts calls by name and type, `inside` is the call each goroutine is in. |
| `Deduction` | `deductionCoordinator`, `httpMetadataDeducer` | `rootxt` is the trie, a deducer has a `once` and an answer. |
| `SourceCoordinator` | `sourceCoordinator`, `newSourceGateway`, `DeduceProjectRoot` | `at` is the program counter of each caller, `protoSrcs` and `mail` are the waiting callers and their channels. |
| `SourceGateway` | `sourceGateway`, its cache and source | One action per piece under the mutex between two requests; `upstream` goes on by itself. |
| `MCBodies` and `MC*` | small instances | Constants for TLC. |
| `*Proofs` | theorems | see below |

How they are put together.  `TwirpStream` is extended by `FetchStream`,
`ProtoStreamSubscriber` and `GoClient`, so that the JavaScript readers and the Go reader
see the same bodies; `ProtoStreamSubscriber` by `RxStream` and `AjaxTransport`; where both have a name, that of
`AjaxTransport` begins with `XHR`.  `ObservableTransports` extends both, so that what
an observer may rely on is stated and checked once, of either.  `EndToEnd` extends `TwirperServer`.
`StreamDelivery` is instantiated by `FetchStream`, `ProtoStreamSubscriber` (for both
of its sources), `EndToEnd` and `GoClient`, each with a refinement mapping.  `GpsSolver`
extends `GpsSelection`; what its worlds give as the imports of a package is what
`ReachMap` computes.  `SafeWriter` extends `DepTree`, `SourceCoordinator` extends
`Deduction`, and that `Supervisor`.  The coordinator sees a gateway as one supervised
call; what happens in it is `SourceGateway`.

### What the models leave out

* What the bytes of a payload mean.  The outcome of decoding is a choice.  Where
  the code reads at the wrong position (see the findings), any outcome a payload
  could cause is possible, save that reading beyond the end fails.
* The text of an error and its meta data; the kind of an error is kept where
  properties tell it apart.
* `fetch`, readers, rxjs, net/http and XMLHttpRequest: only how the code meets
  them.  A reader returns each chunk in a buffer of its own, as browsers do.
* Of XMLHttpRequest: the response type moz-chunked-arraybuffer is known, so that a
  readystatechange at 3 carries a chunk of its own and the one at 4 the bytes since;
  a request that fails, times out or is aborted has status 0 and no response at its
  last readystatechange.  What `ajax_observable.js` puts into the text of an error
  is left out.
* A `requestCtor.encode` that throws.
* A root manifest with a constraint that admits no version (see `WorldsAssumption`).
* Solver: alternate network sources of a project, case variants of its name,
  constraints that are revisions, dependencies on the root project, ignored
  packages, failing network calls, cancellation and tracing.
* Package trees: the import of ".", how an internal import is told from an external
  one, and `ListPackages`, which parses directories.
* SafeWriter: the texts of the files, and the dry run.
* Source manager: `InferConstraint`, `disambiguateRevision`, signal handling, prefixes
  in the tries that are no paths, roots inside roots, the persistent cache, and
  clones that a killed command leaves half made.
* Operators whose comment begins with *Mutant* or names *a bug* are not part of the
  model: each is one definition as a plausible bug would change it, and shows that
  a property notices the bug.

## The runs

`tlc -config <run>.cfg <module>`:

| Run | Module | Checks | Shows |
|---|---|---|---|
| `fetch_stream` | `MCFetchStream` | `IInv`, `SettlesUnlessTruncated`, `KeepsPromise` | messages in order, each once; the leftover bytes are those of the open message; a call that resolves was complete, one that fails had a cause; it settles unless the body is cut inside a frame; it implements `StreamDelivery` |
| `observables` | `MCObservableTransports` | `CallTypeOK`, `BreakIsTold`, `NothingAfterTheEnd`, `LetsGo`, `SendReturns`, `KeepsPromise` | both RxJS transports keep the same promise with an observer that may leave in any callback; nothing comes after the end; a failure of an XMLHttpRequest is told whatever the order of its events; a subscription that has ended reads no more; `send` returns and the subscription ends |
| `twirp_client` | `MCTwirpClient` | `HeadersGoOnce`, `RegistryInv`, `NamesKeepGenerators` | which generator a name and a type mean after any registrations; which calls send the headers of a shared options object |
| `end_to_end` | `MCEndToEnd` | `HooksInOrder`, `CallInv`, `CallEnds`, `KeepsPromise` | server, connection and client together: hooks in order, the client has a prefix of its stream, no success without all of it, and the call and the handler end (the sender of an aborted call may not) |
| `go_client` | `MCGoClient` | `AtMostOneAhead`, `StreamEnds`, `KeepsPromise` | the shared message is the one the caller was given or the next; both sides end; nothing is lost without an error but where `Read` cannot tell |
| `gps_solver` | `MCGpsSolver` | `SelectionIsConsistent`, `SolutionIsSound`, `NothingForgotten`, `AlwaysAdvances` | what is undone is what was done; a solution satisfies everybody; every required package is selected or queued; every step lowers a rank, so that the search ends |
| `reach_map` | `MCReachMap` | `ReachMapIsRight`, `CausesArePaths` | the depth-first search against reachability in the graph of imports, and its causes against the paths of that graph; what error is given for a missing package is left to `reach_unknown` |
| `safe_writer` | `MCSafeWriter` | `TypeOK`, `AllOrNothing`, `OriginalsSurvive`, `TreeIsAllOrNothing`, `ErrorIsTheCause`, `WriteEnds` | all or nothing with one or two moves, files or removals that fail; the originals are somewhere after a kill; a vendor tree is whole or gone; the error returned is the first; `Write` ends |
| `source_manager` | `MCSourceCoordinator` | `CoordInv`, `OneGateway`, `CallsReturn` | waiting callers are served, the counts of the supervisor are right, the lock file covers every call; one gateway for a source; every call and `Release` return |
| `source_gateway` | `MCSourceGateway` | `GatewayInv`, `ListedIsReadable`, `ListStays` | flags and caches tell the truth while upstream goes on; a version that was in the list when the clone was brought up to date can be read (not one that upstream got after a prefetch, `SyncSourceFor`, and that the list, fetched later, has); a list stays |
| `fetch_split` | `MCFetchStream` | `SplitNeverFails`, expected to be violated | a chunk that ends inside a length makes the call fail |
| `reach_unknown` | `MCReachMap` | `FromErrExists`, expected to be violated | the second importer of a missing package is given the unknown error |

The last two each state what a comment of the code says and the code does not do; see
the findings.

**Deadlock** is checked in every run but `twirp_client`, where an application may
stop calling.  Where a system has come to its end it stutters in an action of its
own (`Settled`, `Over`, `Finished` and the like), whose guard says what that means.

**Bounds of the streams.**  `MaxMessages` (2 in the JavaScript readers, 3 in the Go
client), `Heads` (header lengths: 2 is tag and a one-byte length, 3 a two-byte one)
and `Payloads` bound the bodies; every row of frames within the bounds is an initial
state, with every ending (none, EOF, an error, junk, an oversized frame), every
position where the body may end, and both ways to end.  Chunks have any length.
Two messages suffice for a chunk to hold the end of one, all of the next and the
beginning of a trailer; payloads of 0 and 2 bytes make empty messages and cuts
inside a payload; a header of 3 bytes makes cuts inside a length.  The Go client needs three messages,
so that being two ahead would be possible.  `fetch_split` needs one message only.
`MaxRepeats` and `MaxErrAfter` bound the requests of `end_to_end`: -1 .. 3 and -1 .. 4
include refused requests, errors before, at and after the end of the stream, and
none; Echo and Repeat, protobuf and JSON, and requests with an empty message
are all there.  `MaxCancel` bounds the flag cancel of the Go client's caller.

**Bounds of the clients.**  `twirp_client` has four names (one of them DEFAULT), two
objects of options, one of which has headers, two clients and two requests: two
calls must share an object for the second to find its headers gone, and two
clients of one type must have a registration between them.

**Bounds of dep.**  `gps_solver`: three projects with two versions each, a third
version that constraints and locks may name, and one project with two packages;
families of worlds vary the imports, the constraints, the locks of root and of
dependers, a project that does not exist, and one that is to be changed.  Three
projects are the least with a conflict between two dependers whose cause is a
fourth party, the root; two packages make a project be selected, and then again
for more.  `reach_map`: every tree of three packages, and a family with main
packages, tests and what is ignored; three packages have every kind of cycle and
diamond that differs for a search by colours.  `safe_writer`: every combination of
what is to be written and what was there, a temporary directory on the same device
or another, `MaxFaults` = 2 failures of moves, files or removals, so that a rollback fails too (what `AllOrNothing`
and `OriginalsSurvive` say of the disk after a failure is about a single one: a
rollback that fails itself leaves what it leaves), two projects to export, `ConcurrentWriters` = 1 so that one
waits for the other, and a kill between any two steps.  `source_manager`: two
callers, two calls between them, six paths of which two are spellings of one,
one is a package of another, and two are URLs of one repository in two spellings.
`source_gateway`: two callers, up to three calls, revisions up to 3, git and the rest.
Callers are symmetric in the last, which has no liveness property.

**Fairness.**  `FetchStream`: weak fairness of the whole next step; one JavaScript
task runs at a time, the event loop runs it when it is ready, and a connection
delivers or ends.  `ObservableTransports`: weak fairness of `Run`, which is `Send` for the
same reason, or `Event`, the events a browser raises for a request; none of `Chance`:
the subscriber may never unsubscribe, and a timeout need not be set.  `EndToEnd`: weak fairness of each
goroutine of the server and of their meeting (the Go scheduler), of the timer
(part of `Sender`), of `Cancel` (net/http cancels the context once the client has
gone or the handler has returned), and of the client's `Reading`; none of
`Disconnect` nor of the client's leaving.  `GoClient`: weak fairness of the
goroutine, the caller, and their meeting.  `SafeWriter`: weak fairness of `Step`; none
of `Crash`.  `SourceCoordinator`: weak fairness of each caller's steps and of those of a
`Release` that has begun, because the scheduler runs every goroutine and supervised
calls have a context or a timeout; none of `Call` and `BeginRelease`.  `GpsSolver`
needs none: `AlwaysAdvances` is a rank.  No strong fairness is assumed anywhere.

## What the checks found

* A chunk that ends inside a length of two or more bytes makes the call fail
  (`streaming.js:111`), although incomplete messages are meant to be kept (`:120`).
  `fetch_split` shows it.
* The second importer of a missing package is given an "unknown error"
  (`pkgtree.go:805`), of which the comment at `:806` says that it should not be possible:
  the error of a package that is not in the tree is never written to `errmap`.
  `reach_unknown` shows it.

Both are listed in `PROJECT.json`.

Noted while reading, in twirpjs.  The models have what is marked (m):

* A body closed inside a frame makes the fetch transport loop forever (m,
  `fetch_transport.js:100`), and ends the RxJS transport without telling anybody (m,
  `rxjs_transport/index.js:61`).  The liveness properties leave out such bodies.
* The server never writes the trailer EOF (m, `twirper.twirp.go:520`) and never calls
  ResponseSent for a stream (m, `:585`); the sender of a cancelled request blocks
  forever (m, `repeat_resp_stream.go:65`).
* The Go client's caller may find the next message in the one it is looking at (m,
  `twirper.twirp.go:131`), and miss the one it means to cancel at (`main_client.go:44`).
* The bytes left over at the end of a body are read at the wrong place (m,
  `streaming.js:89` sets a position of the buffer where one of the view is
  meant), so that what stands in a payload may be taken for a frame (`StrayTurns`).
* `delete fetchOptions.headers` (m, `fetch_transport.js:72`) takes custom headers from
  all calls but the first of all clients that share the object; `HeadersGoOnce` says
  exactly that.  With the RxJS transports custom headers replace the Content-Type
  (m, `rxjs_transport/index.js:115`).
* `TwirpErrorIntermediate` is not imported at `fetch_transport.js:89`.
* The TRANSPORT error of `checkXHRStatus` (m, `rxjs_transport/index.js:247`) is never
  seen once a request was sent: the readystatechange before the error event has
  told the observer of an internal error.  An error response that comes in chunks
  is parsed by its first chunk alone (`:240`).
* `Repeat` of the Go client returns without closing the body of an error response
  (m, `twirper.twirp.go:105-110`, the variable `bodyOpen`).
* The name DEFAULT can be registered (m, `core.js:36`).  A type that is not registered
  is `undefined` in `TRANSPORT_TYPES` and silently gives the default (m).  `MAX_LEN` is
  2 MiB where its comment says 1 GiB (`streaming.js:31`), and no server enforces it; IDs
  run from 1 where `twirper.proto:37` says 0.

And in dep:

* `findValidVersion` blames the first depender on a project whose queue is exhausted;
  with an entry that an earlier pop left in the unselected queue there is none, and
  the index is out of range (m, `solver.go:957`, `SelectPanics` and `RetryPanics`; the run
  reaches them).
* Backtracking means to take a project that nobody depends on any more out of the
  queue of the unselected (`solver.go:1374`), but looks for it under all the packages of
  the dependency it popped (m, `:1376`): an entry that was put back with the packages it
  had been selected with, or queued for those that were missing, is not found and
  stays; this is where the entry above comes from.  `NothingForgotten` and
  `SolutionIsSound` hold all the same.
* A metadata request that failed stays the answer for its path (m, `deduce.go:643`),
  although "as in the deducer" errors are not to be kept, so that a caller can try
  again (`source.go:176`).
* If a move fails after `vendor/.git` was moved into the temporary directory,
  `vendor/.git` goes with that directory; that this move itself fails is not noticed,
  because `RenameWithFallback` wraps the `*os.LinkError` it is compared with (m,
  `txn_writer.go:338`).  New files that replaced nothing stay after a failure
  (m, `:365`), and errors of the rollback are ignored (m, `:429`), as are those of
  removing the backup of vendor and the temporary directory (m, `:420`, `:291`): a part of
  either may stay after a success.
* `WriteDepTree` means not to report the errors that follow from a cancellation
  (`solution.go:125`), but an export that fails so has wrapped its error (m, `:112`) and
  is reported to `onWrite` as a failure.  The error returned is still the first.
* A URL with upper case gets two keys and two gateways (m, `source.go:212`).
* A caller that waits is given the error of another caller's context (`source.go:157`).
* Some disk access is unsupervised (`source.go:217`, `:526`), and `HandleSignals` or
  `StopSignalHandling` after a `Release` would close `qch` again (`source_manager.go:402`).
* For hg and bzr the list of versions comes from a clone that may be older than what
  upstream has (m), where `source_manager.go:446` speaks of the latest.
* Behind a cycle of imports what a package reaches may be incomplete (m, `pkgtree.go:951`).
  `ReachMapIsRight` says what holds instead.

## What is proved

For every value of the constants, from these assumptions, which TLC evaluates:

* `BodiesAssumption` (`TwirpStream`): bodies are rows of frames of which only the last
  is not a message.  A reader looks at nothing behind such a frame.
* `RequestsAssumption` (`TwirperServer`): requests are records of the fields the server
  reads.  `CancelAftersAssumption` (`GoClient`): the flag is an integer.
* `NamesAssumption`, `OptionsAssumption`, `BoundsAssumption` (`TwirpClient`): the names that
  core.js and index.js register are among the names, and no name is a marker.
* `ProjectsAssumption`, `WritersAssumption` (`DepTree`), `FaultsAssumption` (`SafeWriter`): a
  lock lists finitely many projects, none of them the marker, the semaphore has
  room for one writer, and the bound is a number.
* `CallsAssumption` (`Supervisor`): finitely many goroutines call.
  `DeductionAssumption` (`Deduction`): the supervised calls have names, and what
  stands above a path and is a path, or a root of one, has the same root; the
  tries, which look for the longest prefix, are of no use for roots inside roots.
  `CoordinatorAssumption` (`SourceCoordinator`): deducing a path gives at least one URL
  (`pathDeduction.mb` is never empty without an error), folding twice is folding
  once, and folding makes no URL of a path and no path of a URL.
* `GatewayAssumption` (`SourceGateway`): callers and bounds.

* `NamesAssumption`, `InputsAssumption` (`ReachMap`): there are finitely many names;
  what a package of a tree imports, and what is ignored, are names or external paths,
  and an option is on or off.
* `GpsAssumption` (`GpsSelection`): finitely many projects, versions and packages, some
  version, and each package in a project.  The solver loads them into slices and
  maps; its doc promises nothing of infinite ones.
* `WorldsAssumption` (`GpsSolver`): every world is as `IsWorld` says.  What comes of the
  manifests and locks has its types.  The version list of a project names each
  version once (`vcs_source.go:273`, `:335`: refs are put into maps).  Each constraint
  of the root admits some version.  That is a restriction: a manifest may say `>2, <1`,
  which parses to a constraint that admits none.  `selectRoot` does no checks, so with it
  `GetConstraint` is empty from the start and `SelectionIsConsistent` is false of the
  selection of the root alone; such a root is not modelled.  The constraints of the
  dependencies may admit nothing, and the solver's checks are what deals with them.  What a package reaches in its own project has an entry in the
  reach map, and all that is reached from there is reached from the package: that
  is what `ReachMapIsRightAtLast` proves of `ReachMap` for packages behind no cycle of
  imports, and Go rejects such cycles.

| Module | Theorems |
|---|---|
| `FetchStreamProofs` | `TypeCorrect`, `Invariance` (`IInv`), `DeliversInOrder` (`InOrder`), `KeepsTheGap` (`LeftoverIsTheGap`), `FailsForACause` (`FailureHasCause`), `ResolvesComplete` (`ResolvedIsComplete`), `ImplementsStreamDelivery` (`KeepsPromise`) |
| `JsClientProofs`, `RxStream` | `Invariance` (`IInv`), `TypeCorrect`, `ImplementsStreamDelivery`, `NothingComesAfterTheEnd` |
| `JsClientProofs`, `AjaxTransport` | `AjaxInvariance` (`XHRInv`), `BreaksAreTold`, `ConnectionsAreLetGo`, `NoEventComesAfterTheEnd`, `AjaxImplementsStreamDelivery` |
| `JsClientProofs`, `ObservableTransports` | `CallIsOfOneTransport`, `CallsAreTyped` (`CallTypeOK`), `CallsTellBreaks` (`BreakIsTold`), `CallsLetGo` (`LetsGo`), `CallsAreOverAtTheEnd` (`NothingAfterTheEnd`), `CallsKeepPromise` (`KeepsPromise`) |
| `JsClientProofs`, `TwirpClient` | `RegistryInvariance` (`RegistryInv`), `RegistryTypeCorrect`, `DefaultAlwaysUsable`, `OneTransportPerType`, `ContentTypeIsNamed`, `HeadersGoWithTheFirst` (`HeadersGoOnce`), `GeneratorsStay` (`NamesKeepGenerators`) |
| `TwirperServerProofs` | `TypeCorrect`, `SendsInOrder` (`WireIsThePrefix`), `SendsTheWholeStream` (`WholeStream`), `AbortIsNeverSent` (`AbortGoesNowhere`), `HooksComeInOrder` (`HooksInOrder`) |
| `TwirperServerProofs`, `EndToEnd` | `CallInvariance` (`CallInv`), `HooksComeInOrderInACall` (`HooksInOrder`), `ImplementsThePromise` (`KeepsPromise`) |
| `GoClientProofs` | `TypeCorrect`, `Invariance` (`IInv`), `SharedMessageIsAtMostOneAhead` (`AtMostOneAhead`), `KeepsThePromise` (`KeepsPromise`) |
| `DepProofs`, `SafeWriter` | `Invariance` (`WholeInv`), `TypeCorrect` (`TypeOK`), `WriteIsAllOrNothing` (`AllOrNothing`), `NothingIsLost` (`OriginalsSurvive`), `TreeInvariance` (`TreeInv`), `TreeIsWholeOrGone` (`TreeIsAllOrNothing`), `FirstErrorIsTheCause` (`ErrorIsTheCause`) |
| `DepProofs`, `ReachMap` | `ReachInvariance` (`ReachInv`), `CausesAreRight` (`CausesArePaths`), `ReachMapIsRightAtLast` (`ReachMapIsRight`) |
| `SourceCoordinatorProofs` | `Invariance` (`WholeInv`), `BookkeepingIsRight` (`CoordInv`), `PathsShareAGateway` (`OneGateway`) |
| `GpsProofs`, `SourceGateway` | `GatewayInvariance` (`GatewayInv`), `ListedReadable` (`ListedIsReadable`), `ListIsKept` (`ListStays`) |
| `GpsProofs`, `GpsSolver` | `SolverInvariance` (`SolverInv`), `SelectionStaysConsistent` (`SelectionIsConsistent`), `NothingIsForgotten` (`NothingForgotten`), `SolutionsAreSound` (`SolutionIsSound`), `SearchAdvances` (`AlwaysAdvances`) |

Every safety property of a passing run is proved, invariants and action properties,
the refinements of `StreamDelivery` among them.

**The reader.**  `InOrder` is not inductive: that message 3 comes next depends on
where the bytes at hand begin.  `IInv` adds it: while the call is pending, the
bytes not yet turned into messages begin where frame `Len(delivered) + 1` begins
and end where the next chunk will begin, and while the loop runs the view has
offset 0, so that reader and buffer agree on positions.  Both fail once a body
that is cut inside a frame has ended, so `IInv` speaks of such a body only by its
types.  `TwirpStreamProofs` has the lemmas on one turn of the loop
(`AlignedTurn`, `TurnCases`), on joining adjacent views (`ConcatAdjacent`) and on
what has arrived (`ArriveWholeFacts`, `DrainedIsComplete`).  With `IInv`,
every step maps to a step of `StreamDelivery` or to a stutter.

**The observable transports.**  `PipelineInv` says of `ProtoStreamSubscriber` what `IInv`
says of the reader, as long as the subscription is open: once the observer has left
or was told of an error, the for loop goes on over bytes that nobody is given.  It
is kept by `Split`, `Extract`, `Answer` and `Finish` (`SplitStep`, `ExtractStep`, `AnswerStep`,
`FinishStep`), whoever calls them, and each of these is a step of `StreamDelivery` or
none.  That `_complete` finds an open subscription only behind all of the body is the
caller's part: `FinishingHasAll` for `send`, `LoadedHasAll` for `AjaxSubscriber`.  For the
latter `XHRInv` adds that a request is under way only while the subscription is open
(`OpenWhileUnderWay`, hence `LetsGo`), and that the observer of a request whose error
event is still to come was told before (hence `BreakIsTold`).  A behavior of
`ObservableTransports` is one of either module (`CallIsOfOneTransport`), and what is proved of
both holds of it.

**The server.**  `IInv` of `TwirperServer` says that, while the client listens, what
is on the wire, in the handler's hands and in the sender's are consecutive
responses, and that the context of a client that listens is not cancelled before
the handler has returned; hence no aborted error is taken by a handler with a
listening client.  For `HooksInOrder`, `HooksSoFar` adds which hooks the handler has
called where it stands, and that it returns without having reported an error only
if none is on the wire.

**The whole call.**  The client moves the server in one way only, by going away, so
that the server's invariants carry over to `EndToEnd` step by step.  `CallInv` adds
that the client has a prefix of the wire while it has not left; the wire is a prefix
of the stream, and ends cleanly only where the stream does; so the call implements
`StreamDelivery` over the stream that was asked for.

**The Go client.**  That the caller reads a message or the one after depends on how
far the goroutine can have gone.  `IInv` of `GoClient` says that the goroutine is one
frame ahead of what the caller has received exactly while it offers a message, that
what it offers is then the newest thing in the shared message, and that a caller
that does not look has looked at everything it received.  `KeepsPromise` needs
besides that what is decoded or offered has arrived whole (`HandsOverWhatArrived`), and
that a goroutine whose channel is closed without an error stands at the end of a
flawless body (`ClosesAtTheEnd`), unless the end is one that `Read` cannot tell from a cut.

**Registry and clients.**  `HeadersGoOnce` relates a request to all earlier ones of
clients that share its options.  `RegistryInv` adds that an object has headers left
exactly if it was given some and no request of a fetch client has gone out with it
(`CustomUntilFirst`), that the rpc of every client of a type other than DEFAULT is
what its type means now (`ClientsAreCurrent`), and that every type that is
registered has a generator.

**SafeWriter.**  What is on disk at the end says nothing of how it came there.
`WriterInv` tells, for each place where `Write` may stand, what each of manifest, lock
and vendor directory is: still untouched with the new one waiting, moved out and
kept, or replaced (`Standing`); that the list of moves to take back names each thing
that was moved out, once, with where it is kept (`RestoreOK`); and that after one
failure everything is back or still in that list with its place free
(`Recoverable`).  A removal that fails leaves a part of what it was to remove and touches
nothing else (`RemovalFacts`), so that a success may leave a part of the backup behind,
but never in the place of something that was there before.  `TreeInv` relates the errgroup to where each goroutine of `WriteDepTree`
is: the error that it keeps is some goroutine's own, and that goroutine is done;
whoever returns a cancellation does so after it.  Neither counts goroutines, so both
hold for any finite set of projects; reports are counted by `Told`.

**The coordinator.**  `CoordInv` is not inductive in four ways.  That a name has a
gateway when somebody looks again needs that an import path and its folded form are
recorded together (`NamesOK`) and that a gateway is in the map once (`GatewaysOK`).  That
whoever waits is served needs that each list of waiting callers belongs to one
caller who will hand out the answer, that those in it have not been told yet, and
that nobody waits outside a list (`JoiningOK`).  That two callers of one path
have one gateway needs what each is about to do with which (`CallOK`).  And that a
root is the right one needs that every deducer in the trie, and every answer it
keeps, is of one root (`DeductionInv`).  `SupInv` counts the callers inside each
supervised call: `done()` finds its entry because the count is the number of those
who are inside, itself included.

**The gateway.**  That a listed version can be read is not inductive: it needs that the
flag `HasLatestLocally` is never set over a clone older than the list, which in
turn needs what each caller in the middle of `require()` is about to fetch.
`GatewayInv` has both: only the holder of the mutex is inside (`Serialized`), every
flag is true of upstream, clone or cache (`FlagsAreTrue`), whatever opens the source
comes first (`OpenedFirst`), and what is still to be required is what is missing
(`RequiresWhatIsMissing`, `FreshEnough`).

**The reach map.**  `ReachMapIsRight` compares what a depth-first search by colours has
found with reachability in the graph of imports.  Reachability is defined by paths,
and a path of any length would need an induction; the proof has it in another form:
what is reached is the least set that is closed under imports, so that a set that
contains a package's imports and is closed contains all that it reaches.  `ReachInv`
says that the calls of `dfe` under way are a path of imports whose packages are the
grey ones (`StackIsPath`, and the lemmas on `Path`), that the sets of a package hold
only what it reaches (`SetsAreSound`), and all that lies behind each import that was
followed (`ImportsAreFollowed`), unless that import leads back onto the path: hence the
exception for packages that reach a cycle.  A package that is done and has no entry reaches one with an error
(`PoisonIsReal`), and every cause is a path of imports to the package that the error is
about, the error being lost only if that package is missing and imported more than
once (`ErrorsAreRight`).  What is left
when the stack is empty gives both properties.

**The solver.**  `SelectionIsConsistent` is not inductive.  `SolverInv` adds what makes it
so.  The first entry of each project in the stack is marked, all of its entries have
the same version, and their packages have entries in its reach map
(`EntriesAreSound`); the stack of dependencies on a project has exactly one for
each entry of the selection that asks for it, in the order of the selection
(`DepsMatchSelection`), so that what `unselectLast` works out again and pops is what
`selectAtom` pushed, although the entry was given more packages in between
(`MatchAdded`, `MatchRemoved`); every version selected is allowed by all dependers, later
ones included (`SelectedIsAllowed`, from the checks that `Check` = {} stands for); and
each version queue has the version that is selected of its project
(`QueuesMatchSelection`, for `PopQueue` and `RetryQueue`).  That nothing is forgotten
(`IsNothingForgotten`) is where the queue of the unselected matters: `remove()` takes out
the first entry for exactly these packages, and `unselectLast` calls it only for what
nobody asks for any more.  TLC checked `SolverInv` on the run `gps_solver` before it was
proved.  A selection with an empty queue and this invariant is a solution
(`SelectionSolves`).

`SearchAdvances` needs ranks of one length: there are never more queues than projects
(`QueuesAreFew`), a new queue has at most two versions more than there are, a project's
version list having each once (`NewQueueIsShort`), and `advance` takes from it what it
skips (`AdvanceTakes`).  An addition to a selected project shortens the queue of the
unselected or selects packages that were not selected before: packages that were
ask for nothing new (`NothingNewlyRequired`).  As the rank is a sequence of fixed
length of numbers that have bounds, its order is well-founded, and no run of the solver
is infinite; that last step is not stated, because it speaks of behaviors.

Sequences and sets are folded by recursive functions (`RemoveAll`, `HeapPush`,
`UnselectProject`).  The theorems on natural induction take an operator, which the
provers cannot instantiate; `IndexInduction` says the same of a *set* of indices, with
the well-foundedness of < on the naturals behind it, and each recursive definition
is shown to have a function that satisfies it by induction over the set of lengths up
to which there is one (`RemoveAllIsDefined`, `HeapPushAllIsDefined`, `ClimbIsDefined`,
`UnselectProjectIsDefined`).

Model-checked only: liveness (`SettlesUnlessTruncated`, `SendReturns`,
`CallEnds`, `StreamEnds`, `WriteEnds`, `CallsReturn`), which is out of
the prover's reach.

## Not modelled

The map of `PROJECT.json` covers about a tenth of the implementation's lines.
The first-party code is covered but for what is listed here; most of the rest of the
repository is vendored:

* `protoc-gen-go`, `protoc-gen-twirp`, `gen_twirpjs`: generators that map one description
  to one text.  They have no state that outlives a call and no order of steps to
  get wrong; a model would be their text again.
* The protobuf runtime and its descriptors: encoding and decoding of single
  messages, by reflection over tables.  The models abstract a payload's bytes.
* The commands of dep (`ensure`, `init`, `status`, importers of other tools): straight
  sequences of calls of the parts that are modelled, and printing.
* `gps` beyond the parts above: constraint algebra and semver (values, modelled as sets
  of versions), the persistent cache over BoltDB, command wrappers of git, hg and bzr.
* The React example (a user interface), `repeatRespStream` in `repeat_resp_stream.go`
  (called by nothing), `helpers.js` (plain data), the JSON half of the Go client
  and its mapping of error responses to twirp errors.

## Plan

Written: all modules above, and a proof of every safety property that a run checks.
What could come next, the most useful first:

1. The rollback of SafeWriter after a second failure: what can be said of it, and of
   `vendor/.git`.
2. The source manager's persistent cache (`source_cache_bolt.go`), between two runs of dep
   of which the first is killed.
3. Alternate network sources in the solver: `checkIdentMatches`, and the identifiers
   that entries of the queue keep after a change of source.

# A verification project for rpckit2

rpckit2 generates RPC code from a schema written in Go. The generated Go file for the protobuf
transport is a runtime of its own (codec, connections, calls, dialling, hooks) plus a client and a
server stub for every method; there are a second runtime in Swift and a stateless HTTP/JSON variant.
There are no tests in the repository. This directory holds TLA+ models of the generated code, the
TLC runs that check them, and machine-checked proofs about them.

The code is modelled as it is compiled. Line numbers without a file refer to
`src/examples/sample_pingpong/schema.generated.pb.go`, whose runtime is the runtime part of
`src/templates/go-pb.tmpl`, the template it was generated from, with that file's imports and
messages filled in.

Contents: 1 inventory · 2 modules · 3 how the models correspond to the code · 4 runs · 5 bounds · 6
fairness · 7 proofs · 8 what the code gets wrong · 9 what is not modelled · 10 plan.

## 1. Inventory

| Component | State it keeps | Operations | Modelled by |
|---|---|---|---|
| Calls and replies on one connection (570-663, 908-1232, stubs 2330-2370) | `connection`: `connected`, `endReason`, `conn`, `ready`, `waitingCalls`, `nextID`; per call a `callSlot` with its `waiter` and a decoder | client stub, `call`, `send`, `acquireCallSlot`, `findAndReleaseCallSlot`, `releaseAllCallSlots`, `end`, `readLoop`, `gotMessage`, handler goroutines, `Close` | `Connection` |
| `RPCConnection`: dialling and life cycle, methods across reconnects (667-906) | `done`, the current `conn`; the options | `NewRPCConnection`, `dial`, `connect`, `refreshInnerConn`, hooks, `Ready`, `Wait`, `Close` | `Lifecycle`, `Serving` |
| Back-off of the dialer (872-905) | `curDelay`, `connectTime` of each object | `dial`, `refreshInnerConn` | `Backoff` |
| Framing (256-269, 953-1008) | `readLoop`'s `buf` and `off`, the pending error of `Read` | `messageFromBytes`, compaction and growth, deferred errors | `Framing` |
| Two endpoints and the stream between them | two of the first component, two bounded byte streams | everything above, both ways | `RPCPair` |
| Codec, generated messages, clients and servers (122-566, 1312 to the end; `examples/simpletest`) | read and write positions of a `message` | `newMessage`, varints, tags, skipping, every type's reader and writer, arrays, maps and structs; `handle` | `Wire`, `Fields`, `Messages`, `SampleSchema`, `Stubs` |
| HTTP/JSON (`schema.generated.http.go` of both examples) | none | request, handler, mapping of errors to status codes and back | `Http` |
| Swift connection (`examples/simpletest/schema.generated.pb.swift`) | a dictionary of callbacks, read state and position, write buffer, two streams | `connect`, `disconnect`, stream events, client and server stubs | `SwiftConnection` |
| Swift codec (same file) | none | as the Go codec | not modelled |
| Schema (`protocol.go`) | the definitions | `AddMethod`, `AddStruct`, `verify*` | `Schema`, but for type names |
| Generators (`generator.*.go`, `templates/go.tmpl`), `templates.go`, example programs | none | text generation; go-bindata; users of the generated code | not modelled |

How they interact. An application makes one `RPCConnection`. A chain of goroutines keeps it alive:
`dial` obtains a `net.Conn`, `connect` installs it in a `connection` object and starts `readLoop`;
when `readLoop` ends it releases the pending calls, runs the disconnect hook and calls `dial` again.
Meanwhile any number of goroutines place calls on whatever object is current, each registering a
slot that `readLoop` fills and wakes; each incoming call gets a goroutine that executes the method
and writes the reply; the connect hook runs in one more; and anyone may call `Close`. They all share
the object, and all but the call table (under `slotLock`) and the writes (under `writeLock`) is
shared without a lock.

What is hard:

* **Unsynchronised ends.** Ten call sites can end a connection, at the same time. `end` tests and
  stores without a lock, `call` reads `connected` and `endReason` without one.
* **Time-outs.** A call that stops waiting leaves its slot; its reply may still come, be decoded
  into the returned stub, or meet a reused ID.
* **Partial failure.** A send that fails ends the connection from inside a call that still holds a
  slot, while the read loop is cleaning up the same table.
* **Recycling.** An object is reused for the next `net.Conn` if it has not been marked ready, which
  another goroutine does later; a stale goroutine may still hold it.
* **Shutdown.** `Close`, the dialer's give-up, hooks and the redial loop race for `done`, `ready`
  and the socket.
* **Blocking.** A `Write` to a peer that does not read blocks for good, with the lock held, and the
  read loop itself writes when it refuses a call.
* **Late replies.** A method may return when the connection its call came in on has been replaced.
* **Delays that move.** The back-off is kept in objects that are replaced while it is growing.
* **Shared memory in the codec.** Message bodies are slices of a buffer that the read loop goes on
  using.
* **Versions.** Either side may have been generated from an older schema than the other.
* **Re-entrancy.** The Swift runtime runs the application's callbacks in the middle of its own
  bookkeeping, and they may call `connect` and `disconnect`.

What makes it correct, in a sentence for each component. *Calls*: every call returns once, with its
own reply or a reason that exists, and nothing an endpoint does by itself brings its connection
down. *Life cycle*: exactly one goroutine is in charge of dialling or reading until shutdown, on its
own object and socket, everything that was opened is closed in the end, and nobody waits for
readiness for ever. *Two endpoints*: what a remote call promises, whatever the network does.
*Framing and codec*: what was written is what is read, however it is split into reads and whatever
version reads it. *HTTP*: a result is the method's own. *Swift*: every callback runs once.
`PROJECT.json` lists the hazards one by one, with their lines and the properties that watch them.

## 2. The modules

| Module | What it is |
|---|---|
| `Connection` | one `connection` object from the preamble to its end: calls, read loop, handlers, hook, `Close`, the peer |
| `CallContract` | the abstract specification: what the caller of a generated method may rely on |
| `ConnectionContract` | the refinement mapping from `Connection` to `CallContract` |
| `ConnectionInv` | the inductive invariant `IInv` of `Connection`, part by part, and `WakeupOK` |
| `ConnectionProofs` | the proof that they are inductive, the theorems this gives, and the proof that `Connection` implements `CallContract` |
| `Lifecycle` | one `RPCConnection`: dialling, objects, sockets, the chain of read loops, hooks, `Close` |
| `LifecycleInv`, `LifecycleProofs` | its inductive invariants `LInv` and `DInv`, the proofs, the theorems |
| `Serving` | `Lifecycle` composed with the methods that serve the peers' calls |
| `Backoff` | `Lifecycle` composed with the dialer's delays |
| `ExtensionProofs` | the proofs about `Serving` and `Backoff` |
| `Framing` | `readLoop`'s buffer, byte by byte: reads, compaction, growth, cutting out messages |
| `MessageStream` | the abstract specification: what `readLoop` promises of the messages that a peer writes |
| `FramingInv`, `FramingProofs` | the inductive invariant `FInv` of `Framing`, the refinement mapping; proofs |
| `RPCPair` | two endpoints that call each other over a bounded stream |
| `RemoteCall` | the abstract specification: what a remote call promises across both ends |
| `RPCPairInv`, `RPCPairProofs` | what the pair promises, the refinement mapping, the inductive invariant `PairInv`; proofs |
| `Wire` | the buffer and the primitives of the format: varints, fixed widths, byte strings, skipping |
| `Fields` | writing and reading a field whose value is no other message: what is left out, scalar types, times, UUIDs; `RPCEncode` and `RPCDecode` of tables of scalars |
| `CodecProofs` | the proofs about `Wire` and `Fields`, and the facts about numbers, powers and digits they rest on |
| `Messages` | `RPCEncode` and `RPCDecode` of any table of fields |
| `SampleSchema` | the tables and methods of the two generated examples |
| `Stubs` | one call from the caller's arguments to the caller's result, through both buffers |
| `Schema` | which schemas `AddMethod` and `AddStruct` accept, and the tables made of them |
| `Types` | the types of a schema, and their values |
| `JSONText` | what `encoding/json` makes of those values; for TLC, since it follows the types recursively |
| `Http`, `HttpProofs` | one call of a generated HTTP client; proofs |
| `SwiftConnection`, `SwiftProofs` | the Swift `RPCConnection` on its run loop; proofs |
| `MC*` | constants for TLC: `MCConnection`, `MCLifecycle`, `MCFraming`, `MCBackoff`, `MCServing`, `MCRPCPair`, `MCStubs`, `MCHttp`, `MCSwift`; `MCValues` has the values and versions that `MCStubs` and `MCHttp` share, `MCSchemas` the small schemas, `MCScalars` the assumption that ties the proofs' messages of scalars to `Messages` |

`Connection` and `Lifecycle` cut the runtime along its objects: `Connection` follows one object
closely between being connected and being ended, with its messages; `Lifecycle` follows all objects
and sockets, and of a read loop only its start, its failure and its cleanup. Both contain `end`,
`Close`, the hook and the two exits of `readLoop`, seen from the two sides. `Serving` and `Backoff`
extend `Lifecycle`: its actions are steps of theirs, so that what is proved of it holds there.
`RPCPair` puts two connections face to face, with less of each than `Connection` has of one.
`Framing` justifies what these take for granted of the stream, whole messages in order, each once,
and `Stubs` what they take for granted of the contents. There are four refinements: `Connection`
implements `CallContract`, `RPCPair` implements `RemoteCall`, `Framing` implements `MessageStream`,
and `Backoff` implements `Lifecycle`; each has a theorem.

## 3. Correspondence with the code

`PROJECT.json` maps each definition to its lines. The conventions:

**Goroutines** are processes with a control point `pc[p]`. In `Connection` each call, each incoming
call, `Reader`, `Hook` and `Closer` is one; in `Lifecycle` a dialling or reading goroutine is
`<<"loop", s>>` (the read loop of socket s, which becomes the dialler after it) and a connect hook
`<<"hook", s>>`.

**Grain.** A step is a critical section, or one access to a variable that is shared without a lock.
So `acquireCallSlot`, `findAndReleaseCallSlot` and `releaseAllCallSlots` are single steps, while
`end` is four: test (`EndTest`, 1225), store the reason (`EndStore`), clear `connected` (`EndFlag`),
close (`EndClose`). `RPCPair` has the same four. `Lifecycle` has no reasons, but it has the test of
`conn.conn` (`EndCheck`, 1228) apart from the `Close` (1229), since there `connect` may set it to
nil in between. A `send` is one step that succeeds or fails; both are possible after the peer
has left, since the kernel may take bytes nobody will read. While the peer does not read,
`SendRequest` is disabled: `Write` blocks and sets no deadline.

**Data races.** `connected` and `endReason` are written by `end` and read by `call` with nothing
between them, and a stub's `decoderErr` likewise. The model takes them as words that are written in
program order and become visible in that order, as on amd64; and since an error is an interface of
two words, a read that meets the first store may see a type without a value, which the model calls
`"torn"` (`TornRead`, and `ReturnToCaller` for `decoderErr`). Under a weaker memory, where the
cleared `connected` or the closed channel may be seen before the reason, more could happen than the
model shows. `ready`, `done` and the waiters are channels and need no such care.

**Messages** are records: type, ID, the call a reply was made for, and how it decodes (`"resp"`,
`"rpcErr"`, `"bad"`). `wire` holds what is on its way, `buf` what `readLoop` has read and not
handled: any number of whole messages may arrive with one `Read`. Framing is the business of
`Framing`. `TakeReturn` and `Decode` are two steps: between them the slot is found and gone from the
table and the decoder has not written its results. A reply for a free slot makes
`findAndReleaseCallSlot` panic; the deferred `recover` of `readLoop` turns this into a
`GenericError`.

**The peer** answers each request at most once, in any order, and calls back; with `MaxStrays > 0`
it also sends what it should not (a second or unknown reply, a call to an unknown protocol, a frame
that does not parse, an unknown type, a wrong preamble). It may leave at any moment, losing a suffix
of what it sent, and stop reading for good.

**`AfterEnd`** says where the caller of `end` continues. Some callers run `end` twice on their way
out (`send` and then its caller, `gotMessage` and then `readLoop`): the second call finds
`connected` false, as the thread that made it false is the same, so it is left out.

**In `Lifecycle`**, `Objects` are the `connection` structs (`connOf`, `connected`, `ready`), `cur`
is `RPCConnection.conn`, and sockets are numbered in the order in which they are dialled. Closing a
closed channel or a nil `net.Conn` is `crash`, after which nothing happens any more. `displaced` and
`bornDead` are history: sockets whose object was given the next one, and sockets installed in an
object that had been ended. `goesTo` is what `AfterEnd` is in `Connection`.

**In `Framing`** a byte is its position in the stream, so that what is in the buffer says where it
came from, and a message is the sequence of its bytes. `buf` is the array behind the slice, `cap`
and `len` the slice's, `off` the code's. The body of the outer `for` is three steps, `MakeRoom`,
`Read` and `Handle` once for each message; `Fail` is its first test. `Read` returns any number of
bytes that have arrived, an error if the stream has ended, or both. `Relocate` is `copy`, with the
zeroes of a new array and the stale bytes of an old one. `Declared` looks for a frame that starts at
`off`: bytes that are no header would declare some other length. A frame may declare less than the 4
bytes of its own header, as a peer may write anything there. `gotMessage` refuses such a message, as
it has no type, and may refuse any. `makeSlice` does not run out of memory.

**`MessageStream`** has neither bytes nor a buffer: messages are written, and delivered whole, once
and in the order in which they were written, until one is refused or the end of the stream is
noticed. Some of them are complete by then; these are still delivered, the others never, and the
reader gives up when none of them is left. In the mapping the end is noticed when `Read` returns its
error, and the messages that are complete are those whose last byte has been received.

**`CallContract`** knows nothing of IDs, tables or goroutines: a call is placed, is answered at most
once, and returns once. It returns its answer; or, unless it was answered with an error, the reason
why the connection ended or a failed send, but only if someone has asked for the end of the
connection; or its context's error, but only if its context can end. A failed send may panic. In the
mapping a call is `"pending"` from the stub's first line to its `return`, and the connection is up
until the first call of `end`.

**In `Serving`** each socket's peer is a fresh `RPCConnection` and numbers its calls from 0. The
goroutine of a method keeps the object its call came in on (the parameter `conn` of `gotMessage`),
and `Answer` writes to the `net.Conn` which that object has by then, or fails, and then ends it. A
reply for an ID that the peer is not waiting for ends the peer's connection, as `Connection` says.
The `end` of a method whose write failed is one step here: the socket was lost or closed before, so
that what other goroutines do between its four steps finds nothing else to deliver to or to lose.
The `end` of read loops, hooks and `Close` is `Lifecycle`'s.

**In `Backoff`** four actions of `Lifecycle` also move a delay: `StartDelay` (873-881, the reset),
`KeepDelay` (`refreshInnerConn`), `GrowDelay` (the timer) and, unchanged, the others. `cc` is the
object that a `dial` has in hand, which need not be the current one. `connectTime` is `"zero"`,
`"recent"` or `"past"`: whether `RetryResetDelay` has passed is decided when `dial` asks. The value
of the jitter is left out, but not the fact that `rand.Int63n(delay / 4)` panics below 4 ns, which
is `DelaysAssumption`.

**In `RPCPair`** both ends are the code. A message is `Pieces` pieces, and each direction of the
stream holds `Capacity` of them. A sender is first in `queued`, waiting for `writeLock`, then in
`writing`. A read loop that meets a call for a protocol nobody serves writes the refusal itself and
does not read meanwhile (`"refusing"`). `got` counts the pieces of an unfinished message; a reader
that loses what was in flight stops at `ReadFails`. `end` is four steps, and `ending[g]` says where
goroutine g is in it: a caller whose `send` failed, a method whose `send` failed, a read loop, the
user in `Close`. All that the others may do in between is there. The read loop's own `end` may find
`connected` cleared by somebody who has not closed the socket yet, and release all slots (`Leave`);
a caller that saw `connected` before then takes its slot, and its write succeeds, as the socket is
open: it is `Stranded`. Who runs `end` a second time on the way out (`send` and then its caller) is
followed once, as in `Connection`. `socket` is the `net.Conn` of an end; after a failed Write it is
`"broken"`, since no later Write succeeds; `link` says that both sockets are open and the network
works. A reply that does not decode is left to `Connection`, as both ends know the types here; and
when `Release` panics, which ends the process, the model goes on as if only that caller had ended.

**`RemoteCall`** has no messages: a method runs at most once, for a placed call of a served
protocol; a call succeeds only after its method has returned, and fails only if its context may end,
its protocol is not served, or the connection has ended. A call that failed may still be run. In the
mapping the connection ends when an end stores its reason (`upOf`), for that is what makes calls
fail which were waiting.

**In `Wire`** a byte is a digit below 2·`Base` with a continuation bit above a group of `Base`
values, and a word is a number below `Rest`·`Base`^`Full`; the code has 2^7, 9 and 2. `Power`,
`Digit` and `Number` are the shifts, masks and ors of the code, as arithmetic. Everything is a
function of a message record, and a run-time panic (an index or slice out of range) is part of its
result. `WriteVarint` makes room for `Full` bytes, as `grow(9)` (447) does, and writes up to `Full +
1`. **`Fields`** has what the generator writes for a field of one of the nine scalar types, which
values it leaves out, and a turn of the loop of `RPCDecode` (`DecodeField`). In **`Messages`** the
pattern that the generator repeats for each type is written once, over a table of fields, with
operators that follow the types recursively. The prover cannot be used on those, so `Fields` also
has the two functions for tables without arrays, maps and structs (`EncodeScalars`,
`DecodeScalars`), over the same steps (`WriteScalarField`, `DecodeField`) but with recursive
functions; that they are the ones of `Messages` there, TLC evaluates (`MCScalars`). The tables in
`SampleSchema` are the generated structs with their IDs, types and the tags their decoders expect. A
value read without copying is a `Slice`, a position in a buffer. In **`Stubs`** the read loop
overwrites that buffer after each message has been handled (`BufferReused`), so that a slice which
outlived it would show. Message IDs, the order in which `range` visits a map, and unknown fields of
a newer version are inputs. In **`Schema`** a schema is what the calls of `AddMethod` and
`AddStruct` that do not panic have built; `Generate` makes of it the methods that `Stubs` calls.

**In `Http`** `encoding/json` and `net/http` are not the repository's: they are modelled from how
the generated code uses them (which values do not marshal, what an empty body decodes to, which
requests the `Transport` repeats) and marked external in `PROJECT.json`. JSON text is the value it
was made from, minus what the text loses. Which values marshal and what their text loses are the
constants `CanMarshal` and `TextOf`: the run takes them from `JSONText`, and the proofs hold for
any. So does what `json.Unmarshal` makes of bytes that a caller or a method passed (`ReadAs`). The
two sides are any versions of one schema in which the fields that both have kept their types
(`Versions`): `HttpAssumption` asks for that, for distinct fields (`NoTwins`) and for statuses that
`WriteHeader` takes, and for nothing else. In particular a method may gain its first field, lose its
last, or become or cease to be a single `[]byte`, which changes the verb of its request or the form
of its body. The handler then answers 405 (282) or 400 (301, 726) or reads the body as something
else, and the properties say what is left: see `SameForm` in section 4. An informational status is
left out, and a redirect without `Location`, which `net/http` makes an error of the call, may happen
as one of the ways in which a call `Breaks`.

**In `SwiftConnection`** everything happens on one run loop. `stack` holds the functions that have
called the application's code and wait for it to return; the application may `connect`, `Disconnect`
and `Call` whenever it is running, and events of the streams come only when the stack is empty. A
message is one unit of header and three of body, a preamble two units; a read takes any number of
units, up to what the reader still needs. The peer is a correct one.

## 4. The runs

| Run (module) | States | Shows |
|---|---|---|
| `ConnPairing` (`MCConnection`) | 5 350 000 | three calls on two IDs, one of them the connect hook's and able to time out, an incoming call, `Close`: until the hook is done only its own requests reach the peer (`HookGoesFirst`); no call gets the reply to another, though IDs wrap and are reused (`RepliesMatch`); only a time-out leaves a slot behind (`LeakOnlyOnTimeout`) |
| `ConnFaults` (`MCConnection`) | 906 000 | two calls, a peer that may err, send one stray message and vanish: no false success, no channel closed twice, no end without a cause, and `ImplementsContract` |
| `ConnLive` (`MCConnection`) | 391 000 | liveness: an ended connection winds down (`ReadLoopExits`); its pending calls return but for four named cases (`PendingCallsReleased`); a call whose context ends returns unless the peer stops reading (`ImpatientCallsReturn`) |
| `Life` (`MCBackoff`) | 162 000 | every combination of options, two dials, two pairs of delays, `Close`, `ErrGiveUp`: one goroutine in charge (`OneInCharge`), on its own socket (`LoopOwnsSocket`), three ways to panic only (`PanicCauses`); each wait is between the delays of the options (`WaitsInRange`) and goes on where the last one stopped (`GrowthKept`); after `Close` all sockets get closed but those lost by recycling (`CloseReaps`); whatever was put to use gets marked ready (`ReadyFires`) |
| `Serving` (`MCServing`) | 214 000 | methods that return late: a reply reaches the call it was made for, and none is written to a nil `net.Conn`, unless an object was recycled (`RepliesComeHome`); every peer is answered or loses its socket (`PeersAreAnswered`) |
| `Framing` (`MCFraming`) | 248 000 | 20 bytes in frames of declared length 3, 5, 6 and 11, cut in every way, into a buffer of 6 bytes that makes room for 3: messages come out intact and in order (`MessagesIntact`), the buffer does not grow for ever (`BufferBounded`), what had arrived before an error is delivered (`NothingLeftBehind`), a complete message waits for nothing (`MessagesGetThrough`), and `ImplementsStream` |
| `Pair` (`MCRPCPair`) | 386 000 | two endpoints, a stream that holds half a message, two calls out of three: one of each end unserved, one served and impatient; `Close` of one end or a network that fails; messages never mix (`WholeMessages`), `ImplementsRemoteCall`; nobody is left with a slot unless somebody is between clearing `connected` and closing the socket (`OnlyTheWindowStrands`); every call returns but for those, and unless both read loops are stuck in a refusal (`CallsReturn`); and the end of one end is the end of everything at both, but for those (`EndsTogether`) |
| `Stubs` (`MCStubs`) | 59 000 | every method of both examples and of every small schema that `verify` accepts, between equal and different versions: `ArgumentsArrive`, `ResultArrives`, only unknown methods are refused (`OnlyUnknownRefused`), writing panics for one kind of number only (`OnlyLongVarintsPanic`). It also evaluates the assumption `ScalarsAreMessages`: on tables of two fields of each pair of scalar types, `EncodeScalars` and `DecodeScalars` give what `RPCEncode` and `RPCDecode` do, for the bytes written, their prefixes, the tables of other versions, and other bytes |
| `Http` (`MCHttp`) | 52 500 | every method of both examples over HTTP, between equal and different versions, one method in all pairings of nine versions whose bodies differ in form, methods whose arguments or results have no JSON, methods that fail in every way, connections that break and requests that are repeated: `ResultIsGenuine`, `RunsOnce`, and `RunsAsCalled`: where both sides give the body the same form (`SameForm`), the method is run on the arguments that arrived, and not refused; between other versions, a GET never runs a method with arguments, nor arguments one without |
| `Swift` (`MCSwift`) | 566 000 | an application that connects, disconnects and calls from any callback: `CallbackOnce`, `NobodyForgotten` and `CleanReads`, save in three named cases |
| `ConnRelease` (`MCConnection`), `LifeClose` (`MCLifecycle`) | | counterexamples: section 8 |

Each property has a mutant in `PROJECT.json`: an operator next to the original (`TakeReturnMutant`:
the slot is found but not deleted) with which TLC must find the property violated. The inductive
invariants (`IInv` and `WakeupOK`, `LInv` and `DInv`, `FInv` and `ErrorsOK`, `PairInv`, `SInv`,
`BInv`, `HttpInv`, `SwiftInv`) and the properties of the proofs that no run names
(`HookBeforeRedial`, `RoomToRead`, `WakesWhoWaits`, `NothingLeftOpen`, `StillOwed`, and `TypeOK` of
`Http` and `SwiftConnection`) can be checked by adding them to the `INVARIANTS` or `PROPERTIES` of a
configuration, where the `MC` module does not reach them after extending the module that defines
them; this is how they were found before they were proved.

Deadlock checking is off everywhere because these systems do stop: when every call has returned and
the connection has ended, nothing is left to do. Where stopping would be an error, a liveness
property says so. That is also why `CallsReturn` and not a deadlock check finds the two read loops
which wait for each other.

Properties with an exception name it as precisely as the code allows (`displaced`, `bornDead`,
`late`, `NobodyReads`, `Stranded`, `InTheWindow`). Each exception is a defect of section 8 that was
met while modelling, and the property says that there is no other.

## 5. Bounds

* `IdSpace` stands for 2^64. With 2 IDs (1 in the smallest runs) the counter wraps and skips IDs
  that are in use after two calls, which 2^64 hides for ever. With every ID taken the code spins,
  holding `slotLock`; the model has no step then. Three calls on two IDs are the least that reuse an
  ID while an older one is still registered.
* Two or three calls: every race in the code is between two parties (a caller and the read loop, two
  callers of `end`); the third is the one that reuses an ID. Calls are not symmetric where they
  differ in patience or belong to the hook; the runs are small enough without symmetry.
* `ConnLive` has two calls on two IDs, in which one call cannot rob another of its slot (section 8).
  `WakesWhoWaits` and `WakeupOK` were checked with TLC where it can: with three calls on one ID and
  a stray message (7.2 million states), and on two IDs (441 000). The proof holds for any.
* `MaxStrays` is 1 where the peer may misbehave: most stray messages end the connection, and an
  ignored one leaves no trace. The proofs hold for any number.
* `MaxDials` is 2: the first connection, an object and its successor or a recycled object, and a
  redial after either. The dialer may fail any number of times. `DInv` and `NothingLeftOpen` were
  also checked with 3 (346 000 states of `Lifecycle` alone). The proofs hold for any number.
* The two pairs of delays are (4, 10), where the delay doubles and is capped, and (9, 4), where the
  first is already above the cap. Nothing depends on their size but the panic of the jitter.
* In `Framing` the first buffer holds 6 bytes instead of 512 and `MinRead` is 3 instead of 256: the
  ratio is the code's, and a frame of 11 makes the buffer grow (to 15). 20 bytes are a frame of 11
  and several others before or after it: compaction in place, growth with something left over, and a
  reset all happen. Lengths 3 (a lie), 5 (the least that is a message), 6 and 11 are below, at and
  above what a buffer holds. The proofs hold for all sizes.
* In `Pair` a message is two pieces and the stream holds one, so that a `Write` always blocks
  half-way unless the peer reads. One end has a call that is served and may time out and one that is
  not; the other has one that is not. Two of the three are placed (`MaxPlaced`): the two that are
  refused, for the deadlock; two of one end, for `writeLock`; a served one and another across it.
  One thing goes wrong from outside (`MaxTroubles`): a `Close` or the network. A failing `send`, a
  refusal and a read loop end the connection besides, so that several goroutines are in `end` at
  once. The theorems hold for any numbers.
* In `Serving` each peer places one call: what matters is the sockets before and after it. The
  theorem has any number.
* In `Stubs` and `Http` words have 15 bits in groups of 7, so the longest varint is 3 bytes, one
  longer than the room `WriteVarint` makes; in the code it is 10 against 9. `Long` is a text whose
  length takes two groups. Numbers of fixed width take 1 and 2 bytes, a UUID 2, and the first buffer
  has room for 9, so that growth happens in the header, inside a field and inside an embedded
  message. Versions: both sides equal; a newer client; a newer server, with fields of every wire
  type before and after the old ones; methods one side does not have. Schemas (`Stubs` only): all of
  one struct and one method, or two methods, over IDs -1, 0 and 1, equal names and names that differ
  in case, and wrong options.
* In `Http` `MaxRuns` is 2: a request is repeated or not.
* In `Swift` there are two calls and one of the peer's, and three connections: one that ends, one
  made inside a callback, and one after it.
* `WillClose`, `MayStall`, `MayGiveUp`, `HasHook` only switch parts of the environment off where a
  run does not need them. In `ConnPairing` nobody stalls or strays, because that run is about
  traffic; the proofs have all of it.

## 6. Fairness

Weak fairness for each goroutine, on its own steps: the Go scheduler runs what can run. In
`Connection` that is the steps of `end`, of `call`, of `readLoop` and of `MarkReady`. In `call` it
includes `ContextEnds`: the context of an impatient call does end (a time-out, or a cancellation the
application keeps its word about), and `select` with one ready case takes it. No fairness is given
to the peer (it need not answer, read or leave), to the start of a call, `Close`, the connect hook
or a method: the application may do nothing. In `Lifecycle` the dialer and the hooks are assumed to
return, for if they do not there is nothing to be said of what follows; but a dial need not ever
succeed, and `Close` need not be called. In `Framing` the read loop goes on when it can; the peer
need not write. `Backoff` uses `Lifecycle`'s fairness, and with it that a timer fires. `Serving`
adds that the read loop gets what was sent and that methods return. In `RPCPair` goroutines run,
each one in `end` too, which includes that a `Write` goes on when there is room, and methods return;
nobody has to place a call, give one up or close, and the network does not have to fail. `Stubs`,
`Http` and `SwiftConnection` have no fairness: their properties are about safety.

Strong fairness is assumed nowhere. `ImpatientCallsReturn` is stated for executions in which the
peer does not stop reading for good; section 8 says what happens otherwise.

## 7. What is proved

All theorems are for arbitrary constants that satisfy the assumptions in the modules: any number of
calls, handlers and IDs, any behaviour of the peer, any number of dials and options.

`ConnectionProofs` rests on `Invariance == Spec => []IInv`. The properties are not inductive by
themselves; what `IInv` adds, and why:

* `DecodingOK`: while `decoding` names a call, its reply is the head of `buf`. Without it the types
  are not inductive.
* `ReasonOK`: whoever clears `connected` has stored a reason before, nobody resets it, and the read
  loop only reaches its cleanup through `end`. This is the order on which `NoFalseSuccess` depends:
  a waiter closed by the cleanup must find `endReason` set.
* `SlotsOK`: a call is in one slot at most, or being decoded, or neither, and its channel is open as
  long as it is in either (`WaiterClosedOnce`).
* `OutcomeOK`: a closed waiter means a decoded reply or an ended connection.
* `AnswersOK`: until its slot is found a call has no answer, and if it returned leaving a slot
  behind its context had ended (`LeakOnlyOnTimeout`).
* `HookOK`: until the hook is done no ordinary call has passed the wait (`HookGoesFirst`).
* `MatchOK`: as long as the peer has sent nothing unasked, each registered call has at most one
  entry among the requests at the peer and the replies on the way, under the same ID, and vice
  versa. This relates the table, `outbox`, `wire` and `buf` and is the reason for `RepliesMatch`: an
  ID cannot be reused while a reply under it is outstanding, *because* a call that times out does
  not give it back. It holds until the cleanup empties the table, after which nothing is decoded any
  more.
* `CauseOK`: nobody is in `end`, or has been, without a cause (`NoSpuriousEnd`). It uses `MatchOK`:
  without strays, the free slot that makes `TakeReturn` fail cannot be met.

`WakesAllWhoWait == Spec => []WakesWhoWaits` is the safety half of `PendingCallsReleased`: when the
read loop has gone, whoever waits has been woken or is `Stranded`. It rests on `IInv` and

* `WakeupOK`: a call that has taken a slot and has not given up waiting has been woken, or is in the
  table, or with the decoder; or its reply was bad; or it was robbed. Only the table needs an
  argument: an entry is removed by its own caller, by the read loop, which then has it in hand or
  wakes it, or by another caller whose ID is the same, which is the robbery. The proof failed at
  this last step as long as `Stranded` had three cases, and so the fourth was found.

The same module proves `Implements == Spec => ImplementsContract`: `StartCall` is `Place`, `Decode`
is `Answer`, `ReturnToCaller` is `Return`, the panicking half of `ReleaseUnsent` is `Panic`, the
first call of `end` is `ConnectionEnds`, all else stutters. It needs `IInv` and one more invariant,
`PendingResults`: what `call` is about to return is justified before the stub returns it.

`LifecycleProofs` rests on `Invariance == Spec => []LInv`:

* `ControlOK`: which control points each kind of goroutine can have.
* `SocketsOK`: sockets are used in order and one object is made for each at most, so that there is
  always one left (which makes `TypeOK` inductive for any `MaxDials`).
* `ObjectsOK`: objects that have not been made have not been touched.
* `OwnerOK`: whoever connects or serves a socket does so with the current object (`LoopOwnsSocket`).
  It rests on `OneInCharge`, as nobody else can replace the object.
* `ChargeOK`: one goroutine in charge at a time and, when the dialer has given up, none
  (`OneInCharge`, and half of `PanicCauses`).
* `MarkersOK`: as long as no object was given a second `net.Conn`, each object has one goroutine at
  most that will close `ready` (a second part of `PanicCauses`).
* `ClosersOK`: unless `Close` was called or an object was given a second `net.Conn`, whoever found a
  `net.Conn` to close still has it when it does (the third part). Only `connect` takes one away,
  when the preamble fails, and then no read loop is in `end` with that object, for `connect` is
  alone in charge; a loop that has found `done` closed (`LeaversOK`) would mean that nobody is
  (`ChargeOK`); and a hook of that object would be a marker of it (`MarkersOK`).

`HookBeforeRedial` follows from `OneInCharge` alone.

What `CloseReaps` and `ReadyFires` say will happen, somebody must have to do. `OwedInvariance ==
Spec => [](LInv /\ DInv)` says who; the parts of `DInv` need each other and `LInv`:

* `HooksOK`: no two goroutines have dialled the same socket, and the hook of a socket has not been
  started while somebody still connects it.
* `InstalledOK`: a live socket that was not displaced is in one object, and only one, or in the
  hands of the goroutine that is about to install it.
* `EndingOK`: whoever clears an object's `connected` goes on to close its socket, unless the socket
  was installed afterwards (`bornDead`).
* `WatchedOK`: an object whose `connected` is set has a read loop on its socket, about to start,
  reading, or on its way to `end`, or the preamble is still to be written.
* `ShutOK`: a read loop that goes on after `done` was closed will be stopped by `Close`, which is
  about to end the current object, or has.
* `ReadyIsOwed`: an object for which a read loop was started is ready, or one of the goroutines that
  mark objects has it in hand.

Hence `SocketsAreReaped` (`NothingLeftOpen`): after `Close`, when nobody has anything to do but to
read, no socket is open but the `bornDead` and `displaced` ones. `ReadyAlwaysOwed` is the last part
by itself. That goroutines go on, the other half, is left to TLC.

`FramingProofs` rests on `Invariance == Spec => []FInv`, for any buffer, any `MinRead` and any
frames:

* `FramesOK`: frames lie in the stream one behind the other.
* `ContentsOK`: the bytes from `off` to `len` are the last ones received, in order. It is what
  compaction and growth must not disturb.
* `NextOK`: the first undelivered frame starts at `off`, so that what `messageFromBytes` takes for a
  length is one.
* `LeftoverOK`: when the loop goes on to read, what is left is less than a message. So the buffer
  grows only below the length of a frame (`BufferBounded`), and when an error is looked at nothing
  complete is left (`NothingLeftBehind`).

`Implements == Spec => ImplementsStream` makes of this a refinement: `WriteFrame` is `MSend`,
`StreamEnds` is `MClose`, the `Read` that returns the error is `MNotice`, `Handle` of a message is
`MDeliver`, `Fail` is `MLost`, and compaction, growth and every other `Read` stutter. It needs
`FInv` and `ErrorsOK`, that an error says that the stream has ended and that nothing is read behind
it. `MDeliver` after an error has to show that the message was among those which had arrived when
the error came (`HandedOverHadArrived`), and `MLost` that all of those were delivered
(`LostIsDrained`); both follow from `NextOK` and `LeftoverOK`.

`ExtensionProofs` has two parts. That about `Serving` rests on `ServingInvariance`: `LInv` goes on
holding although methods end connections, and

* `MethodsAtHome`: the read loop of the socket a call came in on has been started, and the object
  its method keeps either still has that socket, or the socket is `displaced`. It holds since only
  `Install` and `PreambleFails` change an object's `net.Conn` (`ConnsMove`): the first makes the
  socket it replaces a displaced one, and the second takes away a socket no read loop was started
  for, so that it has no methods.

From it follow `RepliesGoHome` (`RepliesComeHome`) and `LifeSurvivesServing`.

The part about `Backoff` first shows that each step is one of `Lifecycle` (`StepOfLife`, and hence
`BackoffIsLife`: `BFairSpec => Spec`), so that `LInv` is free, and adds

* `DelaysOK`: an object's delay is unset or between those of the options.
* `InHandOK`: whoever is past `StartDelay` has an object in hand whose delay is set. This is why no
  wait is 0 (`WaitsInRange`).
* `GrowthOK`: as long as no delay grew in an object that had been replaced, the current object's
  delay is unset or the latest (`grown`), and whoever calls the dialer has the current object in
  hand (`GrowthKept`). It needs `OneInCharge`: nobody else replaces the object or moves a delay
  meanwhile.

`RPCPairProofs` rests on `Invariance == Spec => []PairInv`, for any calls, number of pieces and
capacity:

* `OneWriter`: `writeLock`. `WritersGoOn`: as long as a socket takes writes, the unfinished message
  at the end of its stream (or in the peer's buffer) has its writer, and that writer's next piece is
  the one that is `Due`. With them `WholeMessages` is inductive. It must be said of an open socket:
  a writer that fails leaves a message unfinished, and what keeps others from writing behind it is
  not its `end`, which comes later, but that no Write succeeds after one that failed.
* `OwnStream`, `SentOnce`: a call is sent once, by its caller, and no part of it is in two places.
  So its method starts once.
* `StagesOK`: what is under way says how far its call has come; in particular a result is on its way
  only after the method has returned, a refusal only for a protocol that is not served, and a caller
  that is no longer in the table of an end without a reason to end has an answer.
* `SendersOK`, `EndersOK`: who sends or is in `end`, and not both; each goroutine has one message in
  hand at most, and a read loop is in `end` exactly when it is `"ending"`.
* `EndsOK`: how far an end has come. The reason is stored before `connected` is cleared, and when
  that is cleared the socket is closed or somebody is about to close it (`InTheWindow`); a read loop
  leaves only when `connected` is cleared.

`ImplementsCall == Spec => ImplementsRemoteCall` follows: `Place` is `RPlace` or `RRefuse`; reading
the last piece of a served call is `RStart`; `MethodReturns` is `RFinish`; `Return` is `RSucceed` or
`RFail`; `GiveUp` and `Release` are `RFail`; `Break` and the first `EndStore` are `REnds`; the rest
stutters. `Release` may blame the connection, as whoever returns from `end` leaves it with a reason
(`EndsOK`).

`AlwaysOwed == Spec => []StillOwed` is the safety half of `CallsReturn` and `EndsTogether`. Four
things are in somebody's hands: a call being sent is its sender's message, or its sender is in
`end`; a read loop that refuses has its refusal to write; an end that is not connected has its
socket closed or somebody about to; and a slot that is taken belongs to a caller who will release
it, or to a call that waits and whose read loop has not gone, which will; or else it was left by a
call that timed out, or its call is `Stranded`. `StrandsInTheWindow == Spec => OnlyTheWindowStrands`
says when that happens: a call comes to be stranded by a Write that succeeds or by a read loop that
leaves without it; a read loop that has gone means that `connected` is cleared, and then, by
`EndsOK`, either the socket is closed and no Write succeeds, or somebody stands between 1227 and
1229. So the window is the only cause, for any number of calls and goroutines.

`SwiftProofs` rests on `Invariance == Spec => []SwiftInv`, for any calls and any number of
connections, with the stack as deep as it gets:

* `SlotsOK`: only placed calls are in the table or on the stack, and when `disconnect()` is over the
  table is empty.
* `DebtOK`: how often a call has been called back and will be, counting the loops on the stack that
  still have it and the table, is at most once for each connection; and at most once at all while no
  callback has reconnected (`CallbacksRunOnce`).
* `PendingOK`: a call not placed while `disconnect()` ran has been called back, or is with one of
  those loops, or has its slot on a live connection (`NobodyIsForgotten`).
* `StreamOK`: a connection that began with an empty buffer reads where it stopped, and what arrives
  first is the preamble (`ReadsAreClean`).

`HttpProofs` rests on `Invariance == Spec => []HttpInv`, for any two versions in which the fields of
a method that both have kept their types, any values, and any `CanMarshal`, `TextOf` and `ReadAs`:

* `ClientOK`: the request on its way is the one made of the call's arguments, and a call is through
  exactly if it has a result.
* `RunsOK`: a request with arguments, which is a POST, has not been received before while it is on
  its way (`MethodsRunOnce`).
* `ServedOK`: only a method whose handler accepts the request runs, or has run, and what it is given
  is what the handler decoded.
* `ServerOK`: the response says what the method did last, or that there is no such method, or that
  the handler refused the request, which it does only between different forms.

`Accepts` and `Refuses` are the two lemmas about the handler they rest on: a body of the same form
is decoded to what was sent, in the fields that both versions have; a GET, or a body that should not
be there, is refused. Hence `MethodsRunAsCalled`, and `ResultIsGenuine` is inductive
(`ResultsAreGenuine`).

`CodecProofs` is about functions, not steps: what the primitives of message.go and the fields of
scalar types do, for every buffer, every value and every `Base`, `Full`, `Rest` and width, and so
for the code's, which TLC cannot enumerate. Numbers are recursive functions, and as no induction
theorem can be cited here, induction is by least numbers: `LeastNumber` (a set of naturals that is
not empty has a least element, from the library's facts about finite sets), from it `Induction` over
a set instead of a formula, and from that `Recursion`, which says that a recursive function is what
its equation says. On these rest `PowerFacts`, `NumberFacts` and `NumberOfDigits`: the digits of a
number make up the number.

* What is written is read: `VarintRoundTrip`, `FixedRoundTrip`, `BytesRoundTrip`, wherever it is in
  the buffer, and the reader stops at the first byte behind it. `WrittenIsRead` puts the writers,
  the growth of their buffer and the readers together. `UnknownFieldsAreSkipped`: a field of an
  unknown number is skipped exactly. Buffers are shorter than half of the words where a length is
  read, as the length of a slice is an `int`.
* Nothing escapes: of any bytes whatever, `ReadVarint` reads a word or fails (`ReadVarintIsSafe`:
  its test for overflow lets pass what fits 64 bits and nothing else), `ReadBytesNoCopy` gives a
  part of the buffer (`ReadBytesIsSafe`), skipping never goes back (`SkippingIsSafe`), a scalar
  field is a value of its type or an error (`ReadScalarIsSafe`), and the loop of `RPCDecode` comes
  to its end, as every turn consumes a byte or is the last (`DecodingEnds`). The one way out is
  named: the slice expression panics behind a length that is negative as an `int`, or that added to
  the offset becomes so.
* Writers append: `WriteVarintAppends`, `WriteBytesAppends`. `WriteVarint` panics exactly if the
  word takes `Full + 1` groups and the buffer has room for `Full` after it grew, which is the
  exception of `OnlyLongVarintsPanic`; the length of a byte string, being an `int`, never does this.
* `FieldRoundTrip`: for each of the nine scalar types, a tag and a value that the writer does not
  leave out are read back as that tag and what `ScalarArrives` says (a time loses what its text has
  not), and skipping it ends at the same byte.
* `MessageRoundTrip`: so do whole messages of scalars, between versions. The writer and the reader
  have tables of any length, each with distinct IDs that are not 0, and they `Agree` on the fields
  that both have; the fields may be in another order, and those that only one of them has are
  skipped or zero. It supposes that the encoder did not panic and that the buffer is shorter than
  half of the words; `OnlyLongNumbersPanic` says that it panics only if a tag or a value of type
  `int` takes `Full + 1` groups. The recursions over the fields and over the turns of the loop are
  resolved by `EncodeFacts` and `DecodeFacts`. The argument is one induction: after the first k
  fields of the writer's table some turn of the reader's loop stands at their end, with the values
  they should have given and zero elsewhere. A field that was left out costs no turn, one that was
  written costs one (`NextArrives`), and the turn after the last finds `EOF` where `RPCDecode`
  expects it (`EndIsDecoded`).

Not proved, only model-checked: everything about liveness (`ReadLoopExits`, `PendingCallsReleased`,
`ImpatientCallsReturn`, `CloseReaps`, `ReadyFires`, `MessagesGetThrough`, `CallsReturn`,
`EndsTogether`, `PeersAreAnswered`), which is out of the prover's reach, but for the safety halves
named above; the five invariants of `Stubs`, as `Messages` encodes and decodes arrays, maps and
structs by following the types of a schema recursively, and the prover cannot be used on recursive
operators: the theorems reach the messages whose fields are scalars; that `EncodeScalars` and
`DecodeScalars` are `RPCEncode` and `RPCDecode` of those (`ScalarsAreMessages`); `Schema`, which
follows types too; and the counterexamples. That a text is what `time.Format` made of a time, and
the formats of floating-point numbers, are abstractions of `Fields`.

To check: `tlc -config ConnFaults.cfg MCConnection.tla`, and likewise each `.cfg` with the module
that the table in section 4 names; `tlapm ConnectionProofs.tla`, and likewise `LifecycleProofs`,
`ExtensionProofs`, `FramingProofs`, `RPCPairProofs`, `CodecProofs`, `SwiftProofs` and `HttpProofs`.

## 8. What the code gets wrong

With a run that shows it:

1. **A failed send can panic in the caller** (`ConnRelease`; 1164 against 649). `send` has just
   ended the connection; `readLoop` notices, releases all slots, and `call` then releases its own:
   `attempted to release free call slot`. Nothing recovers in the caller's goroutine. If another
   call has taken the same ID in between, its slot is released instead.
2. **`Close` can leave a connection open for good** (`LifeClose`; 844, 1225 against 1195). When it
   runs between the dialer's return and the assignment of `cc.conn`, it ends an object without a
   `net.Conn`; the one installed next belongs to an object whose `connected` is false, so the `end`
   of `readLoop`, meant for this very window (916), does nothing.

The rest are exceptions that properties name, or were met in the models without a run of their own.

Calls:

* The first error does not win (1225-1227 against 589 and 1222): two goroutines pass the test in
  `end` and the second overwrites `endReason`.
* `CallTimeout` does not bound a call (1184 against 718): `Write` blocks without a deadline while
  the peer does not read, and all other writers wait for `writeLock` behind it. This is why
  `ImpatientCallsReturn` is stated for a peer that goes on reading.
* Two read loops that refuse each other's calls with both streams full wait for each other for ever
  (1037; `NobodyReads`): `gotMessage` writes the refusal itself.
* A reply that cannot be decoded ends the connection, but the slot is out of the table by then and
  its waiter is never closed (1098): a call without a time-out waits for ever (`Stranded`).
* A call may take its slot after `releaseAllCallSlots` has run, if it saw `connected` earlier; when
  its write succeeds, nobody wakes it (`Stranded`). The write can succeed because the peer has left
  and the kernel does not know, or without any fault of the peer: whoever has cleared `connected`
  (1227) has not closed the socket yet (1229), and the `end` of the read loop, which goes on to
  release all slots (932), was a no-op in between. `OnlyTheWindowStrands` says that between two ends
  that run this code there is no other way.
* Such a latecomer may also be robbed: a call whose send failed after `releaseAllCallSlots`, and
  whose ID the latecomer has taken over, releases the latecomer's slot instead of its own (1164;
  `Robbed`). It takes 2^64 calls for an ID to come round.
* The check for an unknown reply (1094) is dead code: `findAndReleaseCallSlot` panics before it can
  return nil, and the connection ends with `GenericError` instead of `ProtocolError`.
* The comment at 583 says that `conn` becomes nil on close; `end` leaves it set.

Life cycle:

* An object can be recycled after use (818 against 861-862). `refreshInnerConn` takes an open
  `ready` to mean unused, but the hook's goroutine closes `ready` last. If the connection dies
  first, the used object (`connected` false for good) gets the next `net.Conn`, and every call on it
  fails while the connection stays up (`displaced`).
* Then `close(ready)` runs once for each `net.Conn` of the object and panics the second time
  (858-866; `PanicCauses`), a method that was still running for the first connection sends its reply
  to the next one's peer, which may be waiting for a call with the same ID (`RepliesComeHome`), and
  if the preamble of the next one fails the method writes to a nil `net.Conn` and the process ends.
* `end` tests `conn.conn` (1228) and reads it again to close it (1229). If a preamble fails in
  between, `connect` has set it to nil (848), and `Close` of a nil `net.Conn` panics in whoever
  called `end`: `Close`, or the hook of an object that was recycled (`PanicCauses`).
* `ErrGiveUp` (886) and `Close` (1196) both close `done`, and whichever is second panics
  (`PanicCauses`). So does a second `Close`, which `Lifecycle` does not make.
* A dead `options.Conn` is never replaced (797 against 676-678). `NewRPCConnection` drops
  `connect`'s result: if the preamble cannot be sent nobody reads, dials, or marks anything ready.
* `end` reads `conn.conn` after clearing `connected` (1229). If the object is recycled between the
  two, a stale `end` closes the fresh `net.Conn`, in spite of the comment at 911-913.
* When `done` is closed before `readLoop` has started, it returns at 921 before its cleanup is
  registered: pending calls are not released (one of the four cases of `Stranded`) and the
  disconnect hook, which an application may balance against the connect hook, is not called.
* Without a dialer nothing closes `done` when the connection is lost (937), so `Wait` blocks, while
  683-684 promise that it returns.

Back-off:

* The jitter panics when a delay is under 4 ns (895), and is added on top of `MaxRetryDelay`. An
  `InitialRetryDelay` above `MaxRetryDelay` is used as it is once, and then the delays shrink.
* After a failed preamble the delay grows in the object that `dial` started with (877), which has
  been replaced (`strayed`).
* `connectTime` is set when an object is made, not when its connection begins to work, is zero for
  the first one, and is old for a recycled one. A server that accepts and closes is redialled
  without any delay, as only failed dials wait.

Codec (`ArgumentsArrive` and `ResultArrives` say what does arrive, in `Arrives` and `AtEnd`):

* Values of maps that are ints, bools or fixed-width numbers are lost: their decoder expects the tag
  of a length-delimited field and skips them. Zero elements of an array are dropped, so that later
  elements move down. Empty maps come back nil, -0.0 as 0, and a time loses its location.
* `grow(9)` (447) before a varint that takes 10 bytes, as every negative int does: an index out of
  range, if the buffer happens to be full (`OnlyLongVarintsPanic`).
* A field numbered 0 of type int or bool is overwritten with zero at the end of each message, and an
  array of them gets one element more, as the end of a message reads as tag 0 and type varint
  (`AtEnd`); `verifyID` lets 0 pass though its own message says "larger than zero"
  (`src/protocol.go:340-343`). IDs of 2^61 and more do not compile.
* A tag whose varint overflows is taken for tag 0, and the result of skipping replaces the error
  (161-162). A message that is cut off inside a field is taken for a complete one (161), as both
  ends are `io.EOF`.
* `ReadBytesNoCopy` (309) slices with a length that a peer can make negative. In a decoder of the
  read loop its `recover` catches the panic.
* `src/protocol.txt:5` says that the length of a frame is a `uint64`; the code uses four bytes.

HTTP (`schema.generated.http.go` of the examples; `ResultIsGenuine` names the cases):

* An ordinary error marshals to `{}`, so its text is lost and the client reports an error of its own
  decoder; the empty bodies of the handler's own 400, 405 and 500 do likewise.
* A schema may change the form of a body and nothing checks it (282). When one side knows a method
  without arguments and the other with some, a client's GET is answered 405 by a handler that wants
  a body, and a client's body 400 by a handler that wants none (an empty one passes). When the
  arguments become or cease to be a single `[]byte`, a JSON text is taken for the bytes, or the
  bytes for a JSON text; likewise for results, where the client returns such bytes as a success.
  These are the versions that `SameForm` excepts.
* An error whose `StatusCode()` is 2xx is taken for success, and the result is the zero value.
* `Content-Type` is set after `WriteHeader`, when it has no effect.
* A method without arguments may be run twice for one call: its request is a GET, which `net/http`
  repeats (`RunsOnce`).

Swift (`src/examples/simpletest/schema.generated.pb.swift`):

* A callback that `disconnect()` runs (561) may `connect()` again and place calls; when it returns,
  `disconnect` drops the whole table, and the new calls with it (`NobodyForgotten`). If the new
  connection ends within the callback, callbacks run twice (`CallbackOnce`).
* `connect()` does not reset the read position (507): after a connection that was lost in the middle
  of a message the preamble is read to the wrong place and refused, or the position is outside the
  buffer (`CleanReads`).
* A method that calls `disconnect()` and then returns writes to a stream that is nil; a method that
  fails ends the connection.

## 9. What is not modelled, and why

* In `call`: the branch for `waitForReply == false`, which no generated code takes, and a failing
  `RPCEncode` of the arguments: the generated encoders only append to a growing buffer.
* The Swift codec: the format is that of `Wire` and `Messages`, its functions keep no state, and in
  `SwiftConnection` a message is an atom.
* The names of types in the generated Go and Swift, and with them the clashes of names between types
  of different protocols.
* The generators: they put text together and keep no state; what the text does is what the other
  modules model. `templates.go` is an archive of `templates/`, and the example programs are users of
  the generated code.
* The values passed to hooks, the context a hook gets, logging.
* `Ready` and `Wait` as goroutines: they wait for `ready` and `done`, whose closing is modelled.
* A second call of `Close`, and calls placed through an `RPCConnection` after it was replaced: the
  application holds one.
* The Go memory model beyond what section 3 says.
* `net/http` and `encoding/json` beyond what the generated code uses; floating-point numbers are
  opaque values of fixed width.
* The value of the jitter, and time as a quantity.

## 10. Plan

What would come next, in this order:

1. The Swift codec, against `Messages`: do the two runtimes understand each other's messages?
2. `Connection` and `RPCPair` over `MessageStream` instead of over streams of their own.
3. `MessageRoundTrip` for arrays, maps and structs: it needs the recursion over types as a recursive
   function, on the depth of a type, and the size of what is nested, which is written before it.

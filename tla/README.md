# msgp: TLA+ models, checks and proofs

msgp is a MessagePack library (`msgp/`) and a code generator (`gen/`). The
library encodes to and decodes from either a `[]byte` or a stream; the generator
writes `EncodeMsg`, `DecodeMsg`, `MarshalMsg`, `UnmarshalMsg` and `Msgsize` methods
that call it. There are no goroutines in the library: what is hard is state kept
across calls on a stream that fails, is cut short or arrives in pieces, two
hand-written implementations of each codec that must agree, variables that are decoded
into twice, and integer limits. In the generator it is the order of Go's maps, types
that refer to each other, and two files written at the same time.

## Inventory

| Component | State | Operations | Interacts with | Hard behaviour | What makes it correct |
|---|---|---|---|---|---|
| Writer (`write.go`, `extension.go`) | `buf`, `wLoc`, the `io.Writer` | `Write*`, `Append`, `Flush`, `Reset`, `Encode` | generated encoders above, `io.Writer` below | partial and short writes, direct writes, a buffer replaced by an extension's body, unchecked indexing | accepted bytes keep their place; nothing is stored behind the buffer; Flush and Encode deliver |
| Wire table (`elsize.go`), `getSize`, `Skip` (`read_bytes.go`) | none | `getSize`, `Skip`, `getType` | both readers, `edit.go`, JSON | one table for all traversals | sizes agree with the format |
| Reader (`read.go`, `extension.go`, `Raw`) | `fwd.Reader`: position, buffer | `Skip`, `CopyNext`, `Raw.DecodeMsg`, `Read*`, `NextType` | generated decoders above, `fwd.Reader` and `io.Reader` below | prefixes cut between reads, truncation, failed reads, resumable errors, blocking on a live connection | exactly one object per call; a defined position after an error; it returns |
| Integer codecs (`integers.go` and the `Int`/`Uint` functions) | none | `WriteInt*`, `AppendInt*`, `ReadInt*`, `ReadInt*Bytes`, unsigned too | everything | limits of every width and sign, two implementations | the number comes back, or an overflow |
| Append/Read on `[]byte` | the slice | `Append*`, `Read*Bytes` | generated Marshal/Unmarshal | what is left after an error | round trip, agreement with the stream side |
| Extensions | registry (filled at init) | `RegisterExtension`, `Append`/`Read`/`WriteExtension` | readers, writers | lengths 0 and 255, type check | round trip, type mismatch reported |
| Edit (`edit.go`) | the slice, edited in place | `Locate`, `Replace`, `CopyReplace`, `Remove`, `HasKey` | `Skip` | aliasing, header growth | agrees with a map |
| JSON (`json.go`, `json_bytes.go`) | reader, output | `WriteToJSON`, `UnmarshalAsJSON` | Reader, `[]byte` readers | errors that consume nothing, end of stream inside an object | terminates; reports truncation |
| Number, GuessSize, `size.go` | none | accessors, sums | generated `Msgsize` | upper bounds | never too small |
| Generator (`gen/`) | type graph, identities | parse, resolve, inline, print | writes files | recursion through identities, map order, two files written concurrently | terminates; all generated methods agree |

`PROJECT.json` lists the components with their status, the hazards line by line,
and for every definition of the models the lines it stands for.

## Modules

`ByteStream` — what a buffered writer promises: a sequence of accepted bytes, of
which the destination has received a prefix, neither ever rewritten until both
start afresh.

`Writer` — the buffer. `buf` and `wLoc` are the fields of the Go struct, `sink` is
what the current `io.Writer` received, `todo` the primitives the running method has
still to do (`push`, `prefix`, `require`, `append`, `write`, `writeString`, `extBody`,
`flush`), `flushed` whether the one at the head has been through its `Flush`.
`calls`, `epoch` and `honest` are history; `honest` says that the current `io.Writer` has
so far returned an error whenever it took less than it was given. One action per path of the code: `FlushNothing`,
`FlushBuffer` (with its four outcomes), `PutIndexed`, `PutCopied`, `PutDirect`,
`ExtBodyInPlace`, `ExtBodyGrow`, `FlushDone`, `Unsupported`, `Reset`. A byte is the
pair (call, place in its encoding), so a lost, repeated or displaced byte is visible
whatever its value. `WriterCalls` gives each exported method, and the `EncodeMsg` the
generator writes for a struct, as a sequence of primitives.

`Wire` — the table `sizes`, `getSize` and the `Skip` on bytes, on real byte values.

`StreamReader` — the Reader. The state is the stream, `pos`, how much is `buffered`
behind it, the buffer's `cap`acity, and the stack `todo` of methods under way. Each
method is a function of the window of buffered bytes that answers: ask for n bytes,
return an error, or consume and go on; `Fill`, `EndOfStream`, `Fails`, `Takes` and
`Drains` carry the answers out. Skip decides between its two paths when it begins,
as the code does. The `fwd.Reader` is a library outside the repository and is modelled
from its use: `Peek` consumes nothing, `Next` all or nothing, `ReadFull` and `Skip`
bytes as they come, a buffer too small for a `Peek` is replaced. Its path for seekable
sources is left out. A caller goes on after success, after an error that is
`Resumable`, and after a failed Read that consumed nothing.

`IntCodec` — every reader and writer of integers, as functions of eight bytes; `Ints`
adds the state machine: `Encode` writes a value with a writer of some side, signedness
and width, `Decode` reads it with any reader.

`Codec` — the other `Append` and `Read...Bytes` functions and the extensions on bytes,
as functions: the value, the number of bytes taken, the error. `Intf` — values of type
`interface{}` and `msgp.Number` on both sides; what a map is written as depends on Go's
order, so a writer has a set of encodings.

`Edit` — `edit.go` over `Codec`. A slice is the backing array `mem` and the length
`len`; `held` is a slice that `Locate` returned and that shares the array, `ref` the
map the edits so far stand for, `known` that no value was taken from bytes an edit had
already moved. One action per exported function; `Replace` has one for a value of its
own and one for a held value.

`Json` — `WriteToJSON` over the methods of `StreamReader`, `UnmarshalAsJSON` over
`Codec`. The recursion is the stack `todo`; one `Step` is one header, leaf, key or
punctuation mark. `out` is what the jsWriter got, `sink` what reached the caller's
`io.Writer`. A bufio.Writer hands on what it holds at any step, which stands for its
being full; `broken` is its error, after which it takes nothing (`Refused`). `Fault` is a
failing jsWriter, `io.Writer` behind the bufio.Writer, `json.Marshal` or final `Flush`.

`Generated` — what the five generated methods do for a tree of types: structs as maps
and tuples, maps, pointers, slices with their capacity, arrays, the primitives,
`interface{}`, extensions, shims and types with methods of their own. `Write` encodes a
value of some version of the type, `Read` decodes the message, whole or cut, with
something behind it or not, into the one variable `target`. `ReadInt64` and the arrays of
bytes differ between the two sides as in the code; `dc.Skip` is the `Skip` on bytes
(what differs, an ext32, is finding 2), and a pointer to a shim of a pointer, for which
`initPtr` makes nothing, is left out.

`Elem` — the trees of `gen/elem.go` and what `parseExpr` makes of a Go type. `Source` —
`newSource`: files are read, links resolved, directives applied and small types inlined;
`phase` is the pass, and where a Go map is ranged over and the order can be seen a step
takes one element of it. Inlining is a stack of calls of `nextInline` that have not been
made. `Run` — `RunData` and `Run`: `main` is the place in Run, `writer[c]` and
`doneErr[c]` the goroutine and the channel of call c, `file` the two files. A process is
the command, which ends when Run returns, or a program that calls Run again. What
newSource does is open there: it goes on for any number of steps, fails, ends the process
or finds any identities and directives. The modes of the command are those its flags
make. `unsized` is history: the identities whose `Msgsize` a directive leaves out.
`Generator` joins `Run` with `Source`: each of its
steps is a step of `Run` together with what `Source` does in it, or a step of `Run` that
leaves the source alone, so that its `Spec` implies `RunSpec` conjunct by conjunct.

`MCWriter`, `MCReader`, `MCInts`, `MCEdit`, `MCJson`, `MCGenerated`, `MCGenerator` — the
instances. `WriterProofs`, `IntsProofs`, `WireProofs`, `ReaderProofs`, `ReaderSafety`,
`EditProofs`, `JsonProofs`, `RunProofs` — the proofs.

How they depend on each other: `Wire` <- `Codec` (with `IntCodec`) <- `Edit`, `Intf`,
`Json`; `Intf` <- `Generated`; `StreamReader` <- `Json`; `Elem` <- `Source` <-
`Generator`; `Run` <- `Generator`; `ByteStream` <- `Writer`. Proofs: `Writer` <-
`WriterProofs`; `Ints` <- `IntsProofs`; `Wire` <- `WireProofs` <- `ReaderProofs` (with
`StreamReader`) <- `ReaderSafety`; `WireProofs` <- `EditProofs` (with `Edit`);
`WireProofs` <- `JsonProofs` (with `Json`); `Run` <- `RunProofs`.

## Runs

Names and bounds are in the `.cfg` files; deadlock is checked for the Writer. The other
specifications stop when their caller has made its calls, or when Run has returned.

| Run | Question | Bounds and why they are enough |
|---|---|---|
| `writer` | `Framing`: does every accepted byte keep its place? `RoomAfterFlush`: can a store leave the buffer? `FlushDelivers`, refinement of `ByteStream`; `AtLeastOnce`: is a byte lost when the `io.Writer` takes too little and says nothing? | buffer of 18 (sz 5 is raised to it), calls of 1 to 43 bytes that fit, straddle, equal and exceed it, 3 calls, 1 fault, an error or a short count: a partial flush, then a retry or a direct write, then a third call |
| `writer_long_name` (violation) | `Complete` for a generated encoder with a field name of 20 bytes | the name is cut, nil is returned |
| `reader` | `Exact`, `NeverPast`, `AgreesWithBytes`, `ResumesAtObject`, `AsksWithin`, and that calls return | 8 streams with every class of prefix but ext32, each cut at every place; pieces of 1, 4 or all bytes; buffer of 16, the library's smallest, so that objects larger than it occur; 2 calls, 1 failing Read, Write or Unmarshal |
| `reader_ext32` (violation) | `AgreesWithBytes` on an ext32 | Skip fails when 5 bytes are buffered |
| `ints` | `RoundTrip`, `StreamNeverWrong`, `WithinMsgsize` | 224 patterns with a byte at a limit, sign or zero above, zeros or ones below: both sides of every limit the code compares with |
| `ints_bytes` (violation) | `BytesNeverWrong` | 2^31 written as uint32, read by `ReadInt64Bytes` |
| `edit` | `AgreesWithMap`: is the slice the encoding of the edited map? `LocateFinds`, `HasKeyFirst`; `KeepsRest`: is anything behind the slice written? | maps of 0 to 3 pairs with headers of 1, 3 and 5 bytes, keys twice, values that hold the keys; every beginning of a message; 0, 1, 3 and 6 bytes of capacity behind it, around each difference in length; 3 operations, so that the result of an edit is located, replaced and removed |
| `json` | `Translates`, `StreamPrefix`; `NothingLost`: has all of the text reached the caller when nil is returned? `NilAtEnd`, `ReturnsWhole` | messages with every type, nested and empty containers, escapes, a registered extension, an extension that has the type of a time and is none; cut at every place, and two of them with an invalid byte at every place; 1 failing write, marshal or flush at any place |
| `json_hang` (violation) | `BytesReturn` | messages cut short |
| `generated` | `RoundTrip`, `Evolves`, `TruncationDetected`, `OneObject`, `WithinMsgsize` | 9 types that together have every kind of element, 1 to 6 messages each from the same type, other versions and types that do not fit; cut at every place; 3 reads into one variable, so that a read finds what a cut one left |
| `generated_uint8` (violation) | `Symmetric`: does each side read what the other wrote, arrays of bytes included? | a `[N]uint8` is refused across the sides |
| `generator` | `SameMeaning`, `InlineEnds`, `TestsHaveMethods`, `NilMeansWritten`, `SendHasRoom`, and that Run and its goroutine end | 9 packages (chains, cycles, two files of directives, every kind of field, recursive types, nothing to do), 4 modes, one of them without `Size` as only a program can ask for, 2 calls; `MaxDepth = 12` pending inlinings stand for the limit of a stack and `MaxUnfold = 5` levels of two types are compared, more than any of the packages has without a cycle |

The bodies of objects in `reader` are the byte 0xc1, which begins no object, so that
reading a body as a prefix shows. Where objects end is computed when the stream is
built, not by `Skip`.

Fairness: `Returns` assumes weak fairness of the Reader's own steps and of the
`io.Reader` delivering bytes or the end of the stream. The methods are sequential code
that runs on; an `io.Reader` that blocks for ever blocks the caller, and `AsksWithin`
is about that case: which methods may wait for bytes behind their object.
`ReturnsWhole` and `BytesReturn` assume that the translators, which wait for nobody, go
on. `RunReturns` and `WriterEnds` assume weak fairness of the caller's thread and of each
goroutine: Go's scheduler runs both, and operations on files return. Nothing is assumed
of the choices: which element of a map comes next, which thread is first, what fails.

Exceptions are part of the properties, and each is needed (TLC finds a counterexample
without it): `honest` and `Buffered` in `Writer`; `EndsInComplex`, `Crossed` (finding 5),
`Understated` and, in `TruncationDetected`, a cut inside a `[N]byte` with which the message
ends, in `Generated`; `OpenCycle` in `Generator`; `left`, and `size` in `TestsHaveMethods`,
in `Run`; `known` in `Edit`; `ForeignTime` in `Json`, and the inputs marked odd in `MCJson`.
They are described under Findings and Observations.

## Findings

1. `Append` cuts what exceeds the buffer and returns nil; generated encoders pass it
   field names of any length (`writer_long_name`).
2. `Reader.Skip` looks at 5 buffered bytes, the prefix of an ext32 has 6
   (`reader_ext32`).
3. `ReadInt64Bytes` reads the prefix of a uint32 as an int32 (`ints_bytes`).
4. `UnmarshalAsJSON` never looks at the error of its loop: a message that is cut short
   or invalid keeps it going for ever (`json_hang`).
5. A `[N]uint8` is a bin for `EncodeMsg` and `DecodeMsg` and an array of numbers for
   `MarshalMsg` and `UnmarshalMsg`, which refuse each other's messages
   (`generated_uint8`).

## Observations

What the models show the code to do and a reader may not expect.

- `HasKey` reads the values as keys: beyond the first pair it is right only by chance.
  `HasKeyFirst` says how far it is right.
- A value that `Locate` returned and that is put in front of its own place by `Replace`
  is overwritten before it is copied.
- `WriteToJSON` rounds a float64 to 32 bits and writes `"type:"` for an extension;
  a line separator behind other text is written twice, in both translators. In
  `UnmarshalAsJSON` an error inside a message is forgotten when a later object is read,
  and so is that of a write when the caller's own jsWriter takes the next one.
  `WriteToJSON` returns nil for a stream that ends inside a value, where the Reader
  answers io.EOF.
- `ReadTime` asks for 15 bytes before it looks at the prefix. At a whole extension that
  has the type of a time and is shorter, and with which the stream ends, it answers io.EOF,
  and `WriteToJSON` returns nil without having written it.
- `NextType` on bytes needs a byte behind an extension: a complex number in an
  `interface{}` at the very end of a slice comes back as a RawExtension.
- `ReadExactBytes` on bytes takes a part of a `[N]byte` for all of it: a message that ends
  with one and is cut inside it is read without an error. A cut anywhere else is noticed.
- Both test templates call `Msgsize`, but a `msgp:size ignore` directive drops neither the
  tests nor `MarshalMsg`, which calls it too (`spec.go:117` speaks of "all of its
  dependents"), and a program can call `Run` with tests and without `Size`. The methods or
  the tests then do not compile. `TestsHaveMethods` says that these are the only ways for
  a test to lack a method.
- `Msgsize` leaves out the headers of arrays inside fixed-size elements and the string of
  a shim in mode convert, though its comment (`size.go:80`) says upper bound.
- Elements of a slice that is decoded into again keep the fields a message lacks, also
  those behind the slice's former length.
- Inlining does not end for a type that refers to two or more small types that contain
  each other: a stack overflow, when the order of the map has it first. The guard is
  only that a type is not put into itself.
- Directives of several files are applied in the order of a map: an ignore and a shim for
  the same name give different results from run to run.
- A field declaration with several names loses its tag and its extension option.
- When the tests file cannot be written Run returns with its goroutine still at work. The
  command exits with the methods file unwritten, empty or in part; in a program that
  calls Run again the goroutine may overwrite the file of the later call.

## Proofs

### Writer

`WriterProofs` proves, for every buffer size, every set of calls, any number of calls
and faults:

- `TypeCorrect`: `Spec => []TypeOK`, from `WriterAssumption` alone. `TypeOK` is not
  inductive: `Busy` adds that a call is running exactly while `todo` is not empty.
- `FramingHolds`: `Spec => []Framing`, if the calls respect the limits that the comments
  of `require` and `Append` state (`CallsFit`). `Framing` speaks of the time in which the
  `io.Writer` has reported what it did not take (`honest`), which only a Reset can begin
  anew (`HonestBefore`). The inductive invariant is `Typed /\ Sized /\
  Framing`: `Sized` says that the primitives still to do fit the buffer as it is now,
  which needs that the buffer never shrinks. Every step either leaves the accepted
  stream alone or extends it by bytes of the running call (`StoreGrows`,
  `DirectGrows`, `FlushKeeps`), or the `io.Writer` has broken its contract in it
  (`ShortFlush`, `ShortDirect`); `StepFrames` turns that into `Framing`.
- `NoOverrun`: `Spec => []RoomAfterFlush`, under `CallsFit` only.
- `Refinement`: `Spec => AbsSpec`, under `CallsFit`, from the same step lemmas. The mapping
  shows the abstract stream what was accepted and sent while `honest`, and afterwards
  nothing until a Reset.
- `FlushIsComplete`: `Spec => []FlushDelivers`, with no assumption on the calls or the
  `io.Writer`. `SameEnd` says that the primitives still to do are the end of the call's
  own list, so that a call whose last primitive is a flush does it last; `Emptied` that
  the buffer is then empty.
- `NothingMissing`: `Spec => []AtLeastOnce`, under `CallsFit`. It is about the calls that
  hand `Write` no body larger than the buffer (`Buffered`): there the count is ignored, a
  hazard without a property. `Present` says that such a call, while it has not failed, has
  stored all it was asked to, and that each of its bytes is in the stream somewhere; a
  Flush that is tried again may put it there twice, and nothing takes it out.
  `BufferedRest` says that what is left of such a call is as small.

`CallsFit` is what finding 1 shows generated code to break; the instance of `writer`
satisfies it (`MCCallsFit`).

### Integers

`IntsProofs` proves `Typing`, `NumbersComeBack` (`RoundTrip`), `StreamReadsTheNumber`
(`StreamNeverWrong`) and `SizesSuffice` (`WithinMsgsize`) for every set of 64-bit
patterns: the 224 of the run are replaced by all 2^64. The inductive invariant says that
the encoding is a writer's for the value and the answer a reader's for the encoding;
what remains are lemmas, one for each form a writer can choose, of what each reader
makes of it. Finding 3 is why there is no such theorem for the readers on bytes.

### Reader

Assumed is that the streams are `WellFormed`: from the place where an object begins, the
object is as long as the table `sizes` says, and the objects announced lie inside it one
behind the other. Bytes may stop anywhere. `MCReader` has TLC evaluate this for the
streams of the runs (`MCStreamsFramed`). Buffer size, pieces, number of calls and faults
are arbitrary. `WireProofs` has what the table says of every byte, and that `Skip` does
in one turn what its loop says; `ReaderProofs` has what every method answers to a
window.

- `Invariance` (`ReaderSafety`): the inductive invariant. Its heart is `Placed`: the
  objects left to the methods under way lie one behind the other from where the Reader
  stands, after the bytes the running method still drains, up to the end of the object
  the outermost call began with. `NeverPast` alone says nothing of where a nested call
  will end. The other parts say that what was consumed held no 0xc1 (`Seen`), what was
  copied (`Copied`), which methods can be on the stack (`Alone`, `Flat`, `Prompt`) and
  where a call that has returned has left the Reader (`Standing`, `Ended`).
- `Typing`, `NothingBehindIsConsumed` (`NeverPast`), `OneObjectIsConsumed` (`Exact`),
  `ResumableMeansAtObject` (`ResumesAtObject`) follow from it.
- `NoWaitBehindObject`: `AsksWithin` for the methods that call no other and look at the
  prefix first (`Patient`: Skip, CopyNext, Raw.DecodeMsg, ReadString, ReadMapKeyPtr,
  ReadInt64, ReadUint64, ReadNil, ReadBool).
- `StreamAgreesWithBytes`: `AgreesWithBytes`. The invariant `Agreed`
  adds that the `Skip` on bytes has, from where the Reader stands and for the number of
  objects that are left, the result it has for the whole object. Where Skip is called
  the streams must hold no ext32 (`NoExt32`, evaluated by `MCStreamsNoExt32`): finding 2.

### Edit

`EditProofs` proves `RestIsKept`: `Spec => KeepsRest`, for any bytes, capacities, keys
and values. The invariant `Fits` says that the slice and the value `Locate` returned lie
in the array. What has to be shown is that `locate` answers with places in order inside
the slice and behind a header that counts at least one pair (`LocateBounds`): otherwise
Remove would write a header over what follows.

It also proves that the edits are edits of a map: `EditsAgree` (`AgreesWithMap`),
`LocateIsRight` (`LocateFinds`) and `HasKeyIsRight` (`HasKeyFirst`), for messages, keys and
values of any size, any spare capacity and any number of edits. Assumed is that a message
given as good is a map of the pairs it is given with (`MessagesHold`) and that what is put
in is one object (`ValsAreObjects`); TLC evaluates both for the instance of the run
(`MCMessagesHold`, `MCValsObjects`).

The inductive invariant is `MapInv`. `AgreesWithMap` compares the results of reading,
which do not say where a pair lies; `MapInv` says that there are marks, one behind every
pair, such that the slice is a header that counts the pairs and then pair for pair its key
and its value (`Laid`), and that what `Locate` returned last is the value of one of them
(`HeldAt`): a `Replace` with it puts in an object, and where it lies decides whether it is
moved before it is copied. The argument has three parts.

- What is read depends on the bytes it takes alone (`SkipMoves`, `KeyMoves`, `PairMoves`),
  so a pair that is moved is the same pair.
- What each path of `replace` leaves is the slice with the value in its place
  (`ShrinkSplices`, `GrowSplices`, `ReplaceSplices`), also for a value in the same array
  unless `Overwritten` says otherwise; what `Remove` leaves is the slice without the pair
  and with a header of the same form that counts one less (`ResizeLess`, `RemoveCuts`).
- Such a slice is laid out as the edited pairs (`PutLaid`, `CutLaid`), and in a slice that
  is laid out `Skip`, `locate`, `HasKey` and `PairsOf` answer what they should
  (`LaidWhole`, `LocateLaid`, `HasLaid`, `PairsLaid`).

### JSON

`JsonProofs` proves, for every set of inputs, registered extensions and any number of
failures:

- `AllHandedOn`: `Spec => []NothingLost`. `UnmarshalAsJSON` overwrites the error of a
  failed write and goes on; it cannot return nil with text lost, because the bufio.Writer
  stays broken until the last call, whose error is the one returned.
- `NilOnlyAtEnd`: `Spec => []NilAtEnd`. Nil stands for io.EOF, and the theorem says where
  each method of the Reader that `rwNext` calls can answer io.EOF: where the bytes that
  are left are less than an object (`Cut`) or are `ForeignTime` (together `Ending`).

The argument goes from the inside out. `Fine` is what a method's answer to a window must
satisfy (`HeaderFine`, `IntFine`, `FloatFine`, `BytesFine`, `KeyFine`, `ExtensionFine`,
`TimeFine`, `PeekFine`, `TypeFine`); `Claim` and, for the bytes side, `Fits` are the same of
an item, which consumes nothing when it ends in io.EOF (`NextClaim`, `KeyClaim`, `DoFits`).
`CutIsShort` turns `Cut` into the answer of `Skip`. The inductive invariant `JsonInv` is
`Placed /\ AtEnd /\ NilIsEOF /\ NothingLost`: `AtEnd` says of the error what `NilAtEnd` says
of the result, because the end is seen one step before it is returned; that no error has
the name "nil" and that `pos` is a number (`Placed`) have to be carried along to tell a
result from an error and to know that `pos` has not moved.

### Run

`RunProofs` proves, of `RunSpec` and so of `Generator`, for every set of modes and any
number of calls, whatever newSource does:

- `NilIsWritten` (`NilMeansWritten`), in every order of Run and its goroutines and
  whichever operation on a file fails.
- `SendNeverWaits` (`SendHasRoom`): a goroutine that nobody receives from can still send.
  This is the safety half of `WriterEnds`.
- `TestsComplete` (`TestsHaveMethods`), from what `printTo` prints for any directives:
  `PrintsMethods` for the methods in the bits of a test generator, `PrintsSize` for
  `Msgsize`, which is printed for every identity that no size directive names.

The inductive invariant `RunInv` is `RunTyped /\ Goroutines /\ Alone /\ Methods /\ Tests`.
`NilMeansWritten` looks at the moment Run returns; `Methods` follows the methods file from
the goroutine's opening it through the nil in the channel to Run's return, `Tests` the
other file while Run waits. `Alone` says that no goroutine of an earlier call is at work
unless `left`, so that nobody else touches the file in between; `Goroutines` that each
call's channel is empty until its goroutine has ended.

### Recursion

`Skip` and `locate` are recursive functions. The library's rules for them take an
operator as parameter, which the provers cannot instantiate. `WireProofs!Induction` is
induction for a set instead, from the existence of a smallest element; with it
`SkipExists` and `FindExists` show that a function as the definition asks for exists
(each turn moves on, so the value at a place rests on the places behind it), and
`SkipTurns` and `FindTurns` that the definition unfolds; `HasExists` and `PairsExist` do
the same for the loops of `HasKey` and `PairsOf`. All are functions of the place whose
values are functions of the count, because the provers know no functions of two
arguments.

### Only model-checked

- Liveness (`Returns`, `ReturnsWhole`, `RunReturns`, `WriterEnds`) and `BytesReturn`: the
  prover has no rules for fairness.
- `AsksWithin` for `ReadIntf` and `ReadMapKey`. For `ReadIntf` it is not true of every
  well-formed stream: an extension of the type of a complex number or a time, but another
  length, is read by a method that waits for the length it wants. The streams of the run
  hold none.
- `Translates` and `StreamPrefix` of `Json`: they compare the text with the one the input
  is given with, and a statement for every message would need a second definition of the
  translation, by induction over nested objects.
- `Generated`, and `SameMeaning` and `InlineEnds` of `Generator`: their trees need RECURSIVE
  operators (as do `Intf`, `Elem` and `Source`), with which the prover has no SMT backend.

## Plan

Everything planned is done: `Writer`, `WriterCalls`, `ByteStream`; `Wire`, `StreamReader`;
`IntCodec`, `Ints`; `Codec`, `Intf`; `Edit`; `Json`; `Generated`; `Elem`, `Source`, `Run`,
`Generator`; and the proofs of `Writer`, `Ints`, `StreamReader`, `Edit`, `Json` and `Run`.
What would come next is a form of the trees of `Generated` and `Source` without RECURSIVE
operators, so that `RoundTrip` and `SameMeaning` could be stated for every type.

Not modelled, and why: the text of the generated code, its variable names and imports,
and the names of the output files (text, without state); the bodies of the generated test
functions (they call the methods `Generated` has); the spelling of numbers and times and
the count `WriteToJSON` returns (formatting); floating-point conversion (numbers are their
bits); flag parsing; the seeking path of the `fwd.Reader`, whose source is not in the
repository; `Reader.Read`, `ReadFull` and `Reset`, which only pass a call on to it; the
readers of a header used alone, which are the first half of methods that are modelled.

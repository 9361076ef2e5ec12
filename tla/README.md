# Verification of go-bindings-winrt

TLA+ models of the runtime under the generated WinRT bindings
(`src/bindings/runtime/winrt`): how native code calls into Go objects, how those
objects live and die, what the collections built on them promise, and how an
asynchronous operation is awaited; and of the generator (`src/internal/codegen`): its
import graph, the building of one package, and a run over an output tree. TLC checks each
model on a small instance; TLAPS proves the main results for every instance.

    cd tla
    tlc -config Dispatch.cfg     MCDispatch      # about 30 s
    tlc -config Delegate.cfg     MCDelegate      # about 5 s
    tlc -config Collections.cfg  MCCollections   # about 80 s
    tlc -config ImportCycles.cfg MCImportCycles  # about 40 s
    tlc -config Inspectable.cfg  MCInspectable   # about 40 s
    tlc -config Await.cfg        MCAwait         # about 3 s
    tlc -config Package.cfg      MCPackage       # about 2 min
    tlc -config Emission.cfg     MCEmission      # about 80 s
    for m in *Proofs.tla; do tlapm $m; done

`CollectionsUnwind.cfg` passes too; the other configurations end in a counterexample: they show a statement of the
documentation that the code does not keep (section "Where documentation and code part").

## The system

The repository generates Go bindings for the Windows Runtime from its metadata.
Two halves share no state: a **generator**, a batch program, and a **runtime**,
which lives in every process that uses the bindings. The concurrency is in the
runtime.

| Component | State | Operations | Talks to |
|---|---|---|---|
| Callback dispatch (`inspectable.go`, `delegate.go`, `panic.go`) | one staging slot and its mutex, the worker and its thread id, the declared inline thread | the trampolines: stage, hand over, run in place, run on a goroutine, collect; `SetInlineThread` | called by native threads; runs the bodies of every other component, which may call native code that calls back |
| Delegates (`delegate.go`) | registry under a mutex, atomic count per delegate | `NewDelegate`, `Release` by the owner; QueryInterface, AddRef, Release, Invoke by native code | count operations on the worker, handlers on goroutines |
| Collections (`collections_core.go`, `collections.go`) | payload, position, count, references on elements | the slots of IIterable, IIterator, IVectorView, IVector; constructors | bodies on the worker; element AddRef and Release call foreign code |
| Objects, implementations, aggregation (`inspectable.go`, `aggregate.go`) | registry of facets, count, destroy hook, aggregated inner | QueryInterface over facets, `NewImplementation`, `Aggregate`, `Close` | methods on the worker; the inner forwards to the outer |
| Await (`async.go`, `emit/winrt/async.go`, template) | a channel per wait | register a handler, wait, read the result | a delegate invoked by an OS thread |
| Activation (`init.go`, `activation.go`, `query.go`) | none of its own; the apartment of each OS thread is the system's | `Initialize`, `ActivateInstance`, `GetActivationFactory` | the OS |
| Strings, GUIDs, out-parameters | none | conversions | everybody |
| Import graph (`pipeline/cycles.go`) | counted references, the search's stack | `ComputeBlockedImports` | the type mapper, which refuses the severed edges |
| Package building (`emit/winrt`) | claimed names, the queue of instantiations, the handlers, imports per file | one pass over the namespace's types, then the queue | the type mapper calls back to request instantiations and handlers |
| Emission (`emit/winrt/generator.go`, `cmd/generate`) | the worklist of namespaces, the paths written, the output tree | `EmitAll`, `writeFile`, `pruneStale` | earlier runs, ingest and developers, through the file system |
| Metadata, naming, diagnostics, commands | files | parse, format, compare | the file system |

What is hard, and what makes each part correct:

- *Dispatch.* One slot serves every caller, nested calls come back on the worker's
  own thread, and a UI thread can be declared to run bodies in place. Correct: a
  caller gets the answer of its own body; bodies of objects run one at a time
  except on the declared thread; every call returns; a panic does not unwind into
  native frames.
- *Delegates.* A lookup and the action on its result are separate steps, and the
  owner's Release bypasses the worker. Correct: never unpinned while held, never
  revived, unpinned in the end; an Invoke through a held reference is served.
- *Collections.* Releasing an element may run a destructor that calls into the same
  collection; codecs fail half-way. Correct: references balance, a destroyed
  element is never handed out, a call that fails leaves the collections as they were and destroys nothing, iteration is exact.
- *Objects and aggregation.* An object and an inner that each route to the other;
  destruction calls out. Correct: one identity, the inner released exactly once.
- *Await.* Completion before, during or after registration. Correct: wakes once,
  always.
- *Import graph.* A loop of searches over a graph that loses edges. Correct: it ends, the
  result is acyclic, nothing but the lightest edge of a circle is severed.
- *Package building.* A worklist that grows while it is consumed, members skipped
  half-way, names claimed early and late, wrappers that restate signatures. Correct: one
  declaration per name, one meaning per mangled name, all that is named is there, all that
  is not emitted is reported.
- *Emission.* A closure over imports, failures anywhere, trees left by other runs.
  Correct: a run that succeeds leaves whole packages, and none removes what it should not.

`PROJECT.json` lists the hazards line by line with the properties aimed at them.

## Modules

| Module | Role |
|---|---|
| `SerialCalls` | abstract: calls that run one body at a time and return its answer, no mutexes or threads |
| `Dispatch` | the trampolines, the worker, the declared thread, the panic barrier |
| `MCDispatch` | nesting relations and panicking kinds for the instances |
| `DispatchProofs` | the handshake, no mixed-up results, the worker's stack, the refinement of `SerialCalls` |
| `ComLifetime` | abstract: an object lives while somebody holds it and then goes for good |
| `Delegate` | registry, count, QueryInterface and Invoke of one delegate |
| `MCDelegate` | the instance |
| `DelegateProofs` | safety of the lifetime and the refinement of `ComLifetime` |
| `Inspectable` | an object with facets as the outer of an aggregated runtime class |
| `InspectableProofs` | one count, one answer per interface, methods only on the living, the inner's life, the refinement of `ComLifetime` |
| `Collections` | vector, view and iterator, and the references on their elements |
| `CollectionsProofs` | iteration, the balance of references, that nothing destroyed comes back and a failed call changes nothing |
| `Await` | the generated Await on one asynchronous operation |
| `AwaitProofs` | what an Await reports |
| `ImportCycles` | which references between namespaces may be imports: search, severing, and what resolved references import |
| `ImportCyclesProofs` | the result is acyclic, only lightest edges of circles are severed |
| `Package` | the package of one namespace: names, instantiations, handlers, skipped members, imports |
| `PackageProofs` | unique names, one meaning per mangled name, every name used is there, nothing is lost silently |
| `Emission` | runs over an output tree: closure, files, failures, pruning |
| `EmissionProofs` | whole packages, and what no run removes |
| `MC*` | the instances of each |

`Dispatch` and `Delegate` are what the others stand on. `Delegate`, `Inspectable` and
`Collections` take from `Dispatch` that operations on the worker come one at a time, and
`Await` also that a Method body keeps the worker until it returns; `Await` takes from
`Delegate` that a handler is registered as long as somebody holds it. `Package` takes the
severed edges of `ImportCycles` as the constant `Severed`, and what it builds is one entry
of `Bodies` and `Imports` in `Emission`.

### Dispatch

`pc[c]` is where call c's trampoline stands. `entered` is the top of
`dispatchInspectable` or `dispatchInvoke`; `lock`, `send`, `recv`, `collect` are its
lines from `inspectableWorkMu.Lock()` to the read of the result; `inline` is a body
run in place; `await` is `<-done`. `pending` is `pendingInspectableWork` with its
result word, `mu` the holder of the mutex, `worker` the worker's loop, `workerTID`
and `inlineTID` the two atomics. `kind` says what a call is for (a body the runtime
supplies, a Method, a Method bound to the UI thread, a handler), `parent` which body
made it. A body is a start (`BeginBody`) and an end (`FinishBody`, `PanicInBody`)
with nested calls between; `NestedKinds` says which kinds of body call what.
`Threads` are native; a thread makes one call at a time and a nested call arrives
on the thread its parent's body runs on. A body bound to the UI thread that runs
elsewhere can only end while that thread pumps messages (`CanEnd`).

### Delegate

A reference is a name from `Refs`; its entry in `ref` is `held`, or shows how far an
AddRef (`checked`) or a Release (`releasing`, `unpinning`) through it has come.
`CheckAddRef` and `CheckRelease` are the lookup under `delegateMu`;
`CompleteAddRef`, `Decrement` and `Unpin` the steps after it. `worker` keeps the
native callers' operations apart; the owner's Release and those on the declared
thread (`InlineRefs`) run beside them. Callers keep COM's rules (`Calls`, `Unused`)
except for late calls after the last Release, which the registry is there to refuse.

### Collections

One action is one body up to its first Release of an element; what it still has to
release is pushed on `bodies`. `ReleaseNext` drops one reference; if it was the
last, the element's destructor is running (`dying`) and may make any call, nested,
until `ReturnFromBody`. The two loops that unwind are bodies too: a GetMany whose slot
does not marshal (`Unwind`) and a ReplaceAll whose slot does not unmarshal
(`ReplaceNothing`) take the references of the slots before it and give them back one by
one (`GiveBack`), with clients and destructors in between, before they answer the error
(`answer`). What a ReplaceAll was handed is `lent` by its caller, who by COM's rule keeps
a reference to it until the call returns. Clients hold references of their own (`held`) and drop them
at any time. `count` is the true number of references: it is changed only where the
code calls AddRef or Release or hands a reference out. `NoOut` are elements whose
MarshalOut fails, `Refused` is an input Unmarshal refuses (a null GUID pointer; for
ReplaceAll, an `ElementCodec` of the caller's). A snapshot is a copy
(`retainAll` allocates), so payloads never share storage. HRESULTs are kept in `hr`;
`AppendWord` is Append. Bodies are serialized, as `Dispatch` shows they are when no
thread is declared inline.

### Inspectable

One object. A reference is a name, as in `Delegate`; `ptr` is which pointer it is (a
facet or an interface of the inner), `want` and `via` what the operation that makes it
asks for and through whom. `Check` is the registry lookup of AddRef and QueryInterface;
`AnswerQuery`, `Forward` and `RefuseQuery` are the three ends of `inspectableQIBody`.
After `Forward` the inner answers (`InnerAnswers`), and its AddRef is a nested call of the
outer. `Decrement`, `Unregister`, `ReleaseInner` are `inspectableReleaseBody` with the
destroy hook; in `innerDies` the inner's destructor may call anything, nested.
`Aggregate` runs on its caller's goroutine beside the rest: check, factory (`FactoryFails`,
`FactoryMakes`, `DefaultInterface`), store. A factory may fail before it has made its inner
or after; Aggregate releases nothing then, so the factory must have taken its inner back, as
COM asks of a call that fails. `Refs` used on the declared thread
(`InlineRefs`) run beside the worker's. The factory, the inner and the callers' discipline
are external: a call goes through a reference its caller holds, or comes after the last
Release or from the inner's destructor.

### Await

`await[a]` is where the code of the template stands: `made` has the handler, `setting` is
inside put_Completed, `waiting` at the channel, `closing` at the deferred Close. `channel`
is its buffer of one. The operation is external: `End`, then `Reference`, `Invoke`, and
`InvokeReturns` and `ReleaseHandler` after the handler's goroutine (`Lookup`, `Send`). A
handler given to an operation that has ended may be invoked inside put_Completed or soon
after; some operations reference a handler before they invoke it, some do not (`style`).
`CountCall` is when such a call of the operation is served: at once when nested in
put_Completed, otherwise when no Method body that awaits has the worker (`OnWorker`).

### Package

`agenda` holds the units in the order the generator visits them: types, enum members,
methods, constructors, queries, statics, factories, an Await, a collection constructor.
The first is under way; `items` are the types it still resolves. Resolving a type is
`ResolveDeclared`, `RequestInstantiation`, or for a delegate `ReuseHandler`,
`BeginHandler` (its Invoke is adapted first) and `BindHandler`; the first type that is not
accepted is `Skip`. With nothing left to resolve the unit finishes: one `Declare...`
action per builder of the code. When the agenda is empty, `BuildInstantiation` takes the
next request off the queue and its methods become the agenda. `claimed` and `typeNames`
are claimedNames and typeNames; `declared`, `methods`, `uses` and `imports` are what the
files will say, as far as the properties look at it: identifiers, what each is meant to
be, and the packages each file imports. An identifier is a sequence of name parts, so that
two namespaces' types of one name, an interface with the name of an instantiation, and an
enum member with the name of a constructor meet as they do in the code. A type of the
namespace is represented if the registry has it (`InRegistry`), which is what the metadata
declares; a class gets a wrapper for a factory or statics interface if that one is declared
here and has an IID (`CanWrap`). An Await needs a delegate for its handler and the IID of
IAsyncInfo, by which it reads the status.

### Emission

`disk` maps each path to the metadata its file was emitted from, or to `Hand` or `Torn`.
`Start` is the command up to EmitAll's loop; `BeginNamespace`, `WriteFile` and
`EndNamespace` are one turn of it, `MissingNamespace` and `WriteFails` its errors,
`EndClosure` and `Prune` what follows. `PruneFails` removes some of the stale files only.
Between runs `Ingest` changes the metadata, and a developer writes or removes a file at any
of `HandPaths` (`EditByHand`), which may be generated files' places as well as names of their
own: a write of the run replaces what is there, as os.WriteFile does, and the sweep looks at
the header. Every
run may be given any set of roots. Orders the code fixes by sorting are left open, but
doc.go is last.

## Runs

| Run | Bounds | Shows |
|---|---|---|
| `dispatch` | 3 calls, 1 thread and the UI thread | `ResultIsOwn`, the inductive invariant `SInv` (handshake and stack), `KeepsPromise` (refines `SerialCalls`), `EveryCallReturns` |
| `delegate` | 4 references: the owner's, two on the worker, one on the declared thread | `PinnedWhileHeld`, `HeldInvokeServed`, `NeverRevived`, `LivesByComRules` (refines `ComLifetime`, with liveness), `IInv` |
| `collections` | a vector, a view, an iterator, 2 elements, payloads up to 2, 2 references each, one nested level | `ReferencesBalance`, `DestroyedStaysDestroyed`, `FailedCallsDestroyNothing`, `IteratesOnce`, `IInv` |
| `objects` | 4 references as in `delegate`, 2 facets, a runtime class with one interface, an interface nobody has | `AccountsForBothHalves`, `InnerOutlivesItsInterfaces`, `MethodsRunOnTheLiving`, `AnswersByInterface`, `NoInnerLeaks`, `AggregateLivesByComRules` (refines `ComLifetime`, with liveness), `IInv` |
| `await` | 3 Awaits of one operation, both styles | `ReportsTheEnd`, `EveryAwaitReturns`, `HandlersAreLetGo`, `IInv` |
| `import_cycles` | every graph of 4 namespaces with plain references; every graph of 3 with none, 1, 1500 references or a default interface between two | `ImportsAcyclic`, `SeversLightest`, `Returns` |
| `package` | an interface with up to 3 of 8 members, 3 classes, 3 sets of enums, an interface named like an instantiation or not | `UniqueNames`, `NoAliases`, `NamesResolve`, `NothingIsLostSilently`, `ReachesFixedPoint`, `IInv` |
| `emission` | 3 namespaces, 3 states of the metadata, every set of roots, a developer at 2 paths, one of them a generated file's | `SucceedsWhole`, `SweepSparesHandWritten`, `FilteredRunIsLocal`, `RemovesLast`, `EveryRunEnds`, `IInv` |

Why the bounds suffice. Three calls give one on the worker, one nested in it and one
contending for the slot. Four references put an operation on the worker, one on the
declared thread and the owner's in the window between one another's lookup and
effect. Two elements and payloads of two let one element be in a payload twice,
fail at the second slot of a GetMany, and be the displaced and the stored element of
one SetAt; one nested level is a destructor calling in while its releaser waits, and
deeper levels only repeat that. `CollectionsUnwind.cfg` checks
`FailedCallsDestroyNothing` once more with payloads of three and without the view: there a
call fails with two references to give back, and something can come between. In `collections` one object at a time has a second
reference (a guard of `AddRefObject`), and clients hold at most `MaxRefs` references
to an element. Deadlock is checked in `dispatch` and `delegate`; in `collections` a system
whose objects are all released may stop, and `import_cycles` ends when the loop returns
(that nothing stops before is `Returns`). Four namespaces have several roots, circles of
every length up to four and circles that share edges; three with weights have the ties
and the orders of severing, and 1500 references outweigh a default interface, as the
code lets them. In `objects` and `await` the same four
references and three callers meet as in `delegate`; the object ends and an operation may
never end, so both may stop. The eight members of `package` were chosen to meet: two
vectors of same-named elements of two namespaces, an event and a parameter with
delegates of the same mangled name, an async operation of a collection, a method skipped
at its parameter after its return type was requested, one that returns a type across a
severed import, one that returns the interface named like an instantiation; three of them at once give every pair of requests in front of a third, and
depth comes from instantiations that request others (operation, vector, view, iterable).
`emission` has namespaces that import each other, one that metadata loses and with it
another's file, and metadata that lacks what is imported; three runs in a row, a failed
one, one with other roots and one that sweeps, are all that a tree remembers of its past.

**Fairness.** `dispatch`: weak fairness of every trampoline step, of the worker's start and
of a body's end. Goroutines that can run do; a body returns once the calls it made
have. No fairness for calls coming in. `CanEnd` keeps a body that needs the UI thread
from ending while that thread waits, so `EveryCallReturns` also says nothing waits for
it in a circle. `sync.Mutex` hands over to waiters (starvation mode), but weak fairness
suffices: the calls of a behaviour are finite. `delegate`: weak fairness of completing
an operation begun; callers need not release. `import_cycles`, `package` and
`emission`: one goroutine runs the loop and nothing in it waits; in `emission` nobody has to
start a run. `objects`: weak fairness of finishing an AddRef, query or Release begun;
nobody has to release, to aggregate or to return from a Method. `await`: weak fairness of
each Await's steps and of the handler's invocation; an operation need not end, for Await has
no timeout.

## Proofs

All for arbitrary constants under `DispatchAssumption`, `DelegateAssumption` and
`ImportAssumption`, and the
assumptions of the same form in the other modules.

`DispatchProofs`: `ResultIsOwn` is not inductive: a result read from the slot is right only
if the slot is still the reader's. `IInv` adds `Handshake` (the mutex holder is exactly the
one call between staging and collecting, what is staged is its own, the worker runs
nothing else) and `BodiesMatch` (each running body has a trampoline waiting for it). One
lemma per action; those that leave the slot alone go together. That the slot is safe with
nested calls, which skip it, needs the shape of what the worker has begun: `WorkerIsAStack`
says its frames are one stack, with the call handed over at the bottom, and it is inductive
with `BodiesBeginOnce` (a call has a runner once its body has begun and an outcome once it
has ended); `SInv` is all of these together. A frame joins the stack on top of the body
that called it, and only the top can end. `ImplementsSerialCalls` maps a call's
trampoline and body to a `Phase`, its runner to a `Lane` and what it returned to
`Answered`: every step of the dispatcher is then a step of `SerialCalls` or leaves these
three alone, and a body begins in the serial lane only when the one below it waits for
it.
Theorems `TypeCorrect`, `HandshakeKept`, `NoMixedResults`,
`AlwaysAStack`, `ImplementsSerialCalls`.

`DelegateProofs`: `PinnedWhileHeld` needs `LastRelease`: at most one Release is left
with the removal, nobody holds the delegate then, and an AddRef between lookup and effect
goes through a reference that is still held. The count is the cardinality of the
references held, so each lemma adds or removes one element of that set. Theorems
`TypeCorrect`, `NeverFreedEarly`, `HeldInvokeIsServed`, `StaysReleased` and
`ImplementsComLifetime`, the safety half of the refinement. The lifetime rests on callers
keeping COM's rules: `CheckAddRef` through a reference nobody holds is not in the model
while the delegate is registered, and with it the theorem would be false, as it is of any
COM object.

`ImportCyclesProofs`: for any registry over any namespaces. `ImportsAcyclic` holds only at
the end, so `IInv` says what the search keeps true: the stack is a path and holds exactly
the namespaces marked inStack (`StackIsPath`), a target already tried is finished or next
on the stack (`TriedAreFinished`), and nothing leads out of the finished namespaces, which
hold no circle (`FinishedAreAcyclic`). When a visit ends all its targets are finished, so
the namespace that joins them is on no circle with them. `Acyclic` is stated with sets,
without paths, and needs no induction there. That the edges of the circle found are on a
circle (`CircleEdgesAreOnCircle`) does: it takes the least place of the circle outside a
set the edges do not leave, and `LeastNatural` finds it through the well-foundedness of
inclusion on finite sets. Theorems `TypeCorrect`, `ReturnsAcyclic`, `OnlyLightestSevered`.

`InspectableProofs`: `AccountsForBothHalves` and `InnerOutlivesItsInterfaces` need three
more facts (`IInv`): the last Release is alone, so nothing is looked up once the count is
zero (`LastReleaseIsAlone`); an operation under way has the reference it goes through
(`OperationsHoldTheirs`), which is what keeps a query forwarded to the inner from outliving
it; and the inner's one reference belongs to the factory, then to the outer
(`InnerIsOwned`). Theorems `AlwaysIInv`, `AlwaysAccountsForBothHalves`,
`InnerAlwaysOutlives`, `AlwaysMethodsRunOnTheLiving`, `AlwaysAnswersByInterface` and
`ImplementsComLifetime`.

`CollectionsProofs`: for any finite set of objects, any elements and bounds. `IteratesOnce`
needs `Unborn`, that a name not yet made has no references, no position and no history;
then an iterator only ever moves along a snapshot that nothing but its last Release
changes. `ReferencesBalance` is inductive on top of that. It counts slots: `Slots` is the size
of the disjoint union of the places an element has in a family of payloads, and
`SlotsSplit` counts one payload apart from the others, so that each action changes one
summand. `OccursInsertAt`, `OccursRemoveAt` and `OccursReplaceAt` say what a mutation does to a
payload's count, `OwedCons` what one body more does to the debts. `DestroyedStaysDestroyed`
follows: an element with count zero is in no payload and no client's hands
(`GoneIsNowhere`), and a body retains only what it was handed or has. Theorems `AlwaysIInv`,
`AlwaysIteratesOnce`, `AlwaysReferencesBalance`, `DestroyedAlwaysStaysDestroyed`,
`FailedCallsAlwaysDestroyNothing`. The last one is about calls that fail half-way: that giving
back destroys nothing needs somebody else's reference to each element given back.
`FailingBodiesBorrow` says who has it: for what a GetMany had marshalled, the payload or, if
that has changed since, a body that still owes it; for what a ReplaceAll had retained, the
caller who lent it. It is inductive on top of `IInv` and `ReferencesBalance`.

`AwaitProofs`: `ReportsTheEnd` needs `TravelsOnce`, that the status is in at most one of
operation, channel and Await, and always that Await's whose handler was assigned.

`PackageProofs`: a name may be claimed long before it is declared (a queued instantiation,
a constructor that waits for its siblings, a type that was pre-claimed), so `UniqueNames`
needs `NamesAreHeld`: whoever is still to declare a name holds it, and nobody else has it.
That overloads end in a free suffix is a pigeonhole argument (`SuffixedIsNew`): of one
more candidate than there are methods, one is not taken. That interface and delegate
names differ, as their prefix makes them, is an assumption.

`NamesResolve` and `NothingIsLostSilently` speak of the end of a run, and say nothing of the
way there. For the first, a name used is either declared or promised: what declares it is on
the agenda or in the queue (`Promised`). `EveryUseIsMet` says so of every use, and of whatever
a unit may come to use out of what it, or an earlier method, has resolved; a step may keep a
promise but not forget one (`PromisesStand`). The IID variable of an interface or an
instantiation is promised with it, so nobody may take that name before (`IIDsAreFree`).
At the end agenda and queue are empty, and what was promised is declared. For the
second, `NothingIsMislaid` says that every unit ever offered is still to come, here or in the
queue, or accounted for: declared, reported, or a member of a class that is not emitted.
That "not emitted" is final needs the class before its constructors and queries on the agenda
(`AgendaIsFormed`). Both rest on how the agenda is made from the metadata, by recursive
flattening that the provers cannot unfold: a class's unit comes before its members', each
interface has its unit, no type is named like an IID variable. `AgendaAssumption` states
these facts for all metadata; TLC evaluates it on the metadata of both package runs.
Theorems `AlwaysIInv`, `AlwaysUniqueNames`, `AlwaysNoAliases`, `AlwaysNamesResolve`,
`AlwaysNothingIsLostSilently`, for any metadata.

`EmissionProofs`: `IInv` bounds the worklist from both sides (`WorklistIsTight`): it holds
the roots and all that is referenced, and lies in every closed set that holds the roots.
The first makes a finished run closed, the second keeps a filtered run inside its closure.
`WrittenIsBegun` relates the paths noted to the files on the disk. Theorems `AlwaysIInv`,
`SucceedsAlwaysWhole`, `SweepAlwaysSparesHandWritten`, `FilteredRunIsAlwaysLocal`,
`AlwaysRemovesLast`, for any namespaces, metadata and tree, and wherever developers write
(`HandPaths` is any set). That a run leaves what they wrote is no theorem: see
`EmissionOverwrite.cfg` below.

Only model-checked is liveness, which is beyond this prover: `EveryCallReturns`, `Returns`,
`EveryAwaitReturns`, `HandlersAreLetGo`, `NoInnerLeaks`, `ReachesFixedPoint`, `EveryRunEnds`,
and the liveness in the two refinements of `ComLifetime`. Every invariant and every action
property of the runs has a theorem.

## Where documentation and code part

| Run or configuration | Statement | What the code does |
|---|---|---|
| `dispatch_inline` | collections_core.go:32-36, docs/collections.md:153: every entry is serialized, one body at a time, no locking needed | a body on the declared thread runs beside the worker's |
| `dispatch_jam` | docs/events-and-delegates.md:85-87: a handler cannot jam the callback machinery | a handler raised from a Method that holds the worker, and calling an object, waits for ever |
| `import_cycles_class` | generator.go:95: generated packages always compile | a class in a signature imports the namespace of its default interface, which is not counted and can close a circle |
| `package_orphans` | pinterfaces.go:3-4, generator.go:69-71: instantiations are of emittable members, skipped members pull nothing in | what a skipped member requested before its bad type is emitted, and nothing names it (`IVectorOfPointerPoint` in ui/xaml/input) |
| `EmissionOverwrite.cfg` | fileasm.go:30-31: the emitter only prunes or overwrites files that carry the header; cmd/generate/bindings.go:20-21: hand-written files are never touched | only pruning looks at the header: WriteGoFile (fileasm.go:124) and writeRawFile (generator.go:390) replace a developer's file under the name of a generated one |
| `DispatchCodecPanic.cfg` | panic.go:7-8, 20: every boundary recovers, a collection's GetAt included | only methods and handlers have the barrier |
| `DispatchHandlerPanic.cfg` | docs/events-and-delegates.md:88: a panicking handler takes the process down | it is answered with E_UNEXPECTED |
| `CollectionsNul.cfg` | collections_core.go:961-962: GetAt answers an index in bounds | E_FAIL for a string with an embedded NUL |
| `ImportCyclesVain.cfg` | cycles.go:13-14: the fewest degradations | an edge stays severed when a later severing breaks its circle too |
| `AwaitOnWorker.cfg` | emit/winrt/async.go:104-107: the completion never contends with the worker, a completed operation cannot deadlock Await | an Await in a Method body keeps the worker; an operation that references its handler before it invokes it waits for the worker, and the Await for the operation |
| `EmissionRoots.cfg` | cmd/generate/bindings.go:19-20: self-cleaning | with the committed roots file every run is filtered and prunes only in its own packages: a namespace that left the roots stays |

Read in the source without a model of their own: a file torn before
its header is never pruned; ingest leaves the metadata of namespaces that are gone;
project.go:324 says emit skips a method without a name, and it emits it; the bindings
command writes the baseline before it checks against it when both flags are given.

## Not modelled, and why

- *Activation and apartments*: every function is one system call behind argument
  conversion and keeps nothing; what could go wrong is between the OS and the caller's
  threads.
- *Strings, GUIDs, out-parameters*: conversions. The stack movement behind the
  out-parameter discipline is below the level of a Go program's steps.
- *Metadata loading and ingestion, diagnostics baseline, commands*: one pass of parsing,
  comparing and file I/O; what ingest leaves is an action of `Emission`.
- *Struct layout and the Go spelling of types*: pure recursion over value types.
- In `Package`: structs, the (outer, inner) pair of composable constructors, the doubled type name
  claimTypeName refuses, malformed GUIDs, factories outside the class's namespace,
  remove_ accessors (they ask for the delegate their add_ asked for), classes in
  signatures (in `ImportCycles`).
- In the runtime modules: `runtime.Goexit` in a body, wrong payload types (`checkElements`),
  scalar masks, spawned class names, GetIids and the other slots that only read.
- *Generated bindings*: src/bindings/winrt is 1583 generated files and nearly all of the
  repository's lines, each method one vtable call. Their content is decided by the code
  in `Package` and `Emission`, which is modelled instead; measured by lines, the models therefore cover little
  of the repository, and about a third of the hand-written program.

---------------------------- MODULE Collections ----------------------------
(***************************************************************************)
(* The Go-implemented WinRT collections                                    *)
(* (bindings/runtime/winrt/collections_core.go): the writable vector, the  *)
(* views and iterators it spawns, and the references they keep on their    *)
(* elements.                                                               *)
(*                                                                         *)
(* One body runs at a time (module Dispatch), so what a body does to the   *)
(* payload is one step.  Its releases are not: dropping the last reference *)
(* to an element runs foreign code, which may call back into any           *)
(* collection on the same thread, inside the body that is still releasing. *)
(* `bodies' is that stack of unfinished bodies, innermost first.  A body   *)
(* that fails half-way is unfinished too, until it has given back what it  *)
(* took.  Native clients Release elements of their own at any time.        *)
(***************************************************************************)
EXTENDS Integers, Sequences, FiniteSets, FiniteSetsExt

CONSTANTS
    Elements,              \* the element objects there are
    Refused,               \* an input word Unmarshal fails on (a null GUID)
    NoOut,                 \* the elements MarshalOut fails on
    Vectors, Views, Iterators,  \* names for the collection objects
    MaxLen, MaxRefs, MaxDepth   \* bounds: elements, references, nested bodies

Sources == Vectors \cup Views
Objects == Sources \cup Iterators

ASSUME CollectionsAssumption ==
    /\ Refused \notin Elements
    /\ NoOut \subseteq Elements
    /\ Vectors \cap Views = {} /\ Iterators \cap Sources = {}
    /\ {MaxLen, MaxRefs, MaxDepth} \subseteq Nat
    /\ IsFiniteSet(Objects)

VARIABLES
    refs,    \* each object's count; 0 before it is made and after its release
    born,    \* the objects that have been made
    items,   \* collection.items of each object
    pos,     \* Iterator.pos
    taken,   \* what each iterator's consumer moved past, in order (a history)
    count,   \* the references there are to each element
    held,    \* those that native clients own
    bodies,  \* the unfinished bodies: what each has left to release, whether a
             \* destructor runs, what it will answer, and what a failing one was lent
    hr       \* the HRESULT the body that took the last step answers, or will

vars == <<refs, born, items, pos, taken, count, held, bodies, hr>>

Seqs == INSTANCE SequencesExt
Lists == Seqs!SeqOf(Elements, MaxLen)

Results == {"S_OK", "E_BOUNDS", "E_FAIL", "E_POINTER"}
Body == [owed : Seq(Elements), dying : BOOLEAN, answer : Results, lent : SUBSET Elements]

TypeOK ==
    /\ refs \in [Objects -> Nat]
    /\ born \subseteq Objects
    /\ items \in [Objects -> Seq(Elements)]
    /\ pos \in [Iterators -> Nat]
    /\ taken \in [Iterators -> Seq(Elements)]
    /\ count \in [Elements -> Int]
    /\ held \in [Elements -> Nat]
    /\ bodies \in Seq(Body)
    /\ hr \in Results

Init ==
    /\ refs = [o \in Objects |-> 0]
    /\ born = {}
    /\ items = [o \in Objects |-> <<>>]
    /\ pos = [i \in Iterators |-> 0]
    /\ taken = [i \in Iterators |-> <<>>]
    /\ count = [e \in Elements |-> 1]
    /\ held = [e \in Elements |-> 1]
    /\ bodies = <<>>
    /\ hr = "S_OK"

-----------------------------------------------------------------------------
Places(e, s) == {k \in DOMAIN s : s[k] = e}
Occurs(e, s) == Cardinality(Places(e, s))

\* The elements a client can pass: it holds a reference to each.
Live == {e \in Elements : held[e] > 0}

\* A call reaches a body when the worker is idle, or from the destructor that an
\* unfinished body's release is running.
CanCall ==
    bodies # <<>> => bodies[1].dying /\ Len(bodies) < MaxDepth

Registered(o) == refs[o] > 0

Serve(o) == CanCall /\ Registered(o)

Answer(result) == hr' = result

\* Codec.UnmarshalWord and UnmarshalSlot, for every element of s: a reference each.
Retain(s) == count' = [e \in Elements |-> count[e] + Occurs(e, s)]

\* The body has the references of s to drop, one by one, before it answers.
OweThen(s, result, lent) ==
    bodies' = IF s = <<>> THEN bodies
              ELSE <<[owed |-> s, dying |-> FALSE, answer |-> result, lent |-> lent]>> \o bodies

\* Codec.Release, for every element of s in turn, before the body returns.
ReleaseEach(s) == OweThen(s, "S_OK", {})

\* The body fails after it took the references of s: it gives each of them back
\* and then answers.
GiveBack(s, result, lent) ==
    /\ Retain(s)
    /\ OweThen(s, result, lent)
    /\ Answer(result)
    /\ UNCHANGED <<refs, born, items, pos, taken, held>>

\* Codec.MarshalOut, for every element of s: the caller owns what it gets.
Marshal(s) ==
    /\ held' = [e \in Elements |-> held[e] + Occurs(e, s)]
    /\ \A e \in Elements : held'[e] <= MaxRefs
    /\ Retain(s)

Fail(result) ==
    /\ Answer(result)
    /\ UNCHANGED <<refs, born, items, pos, taken, count, held, bodies>>

-----------------------------------------------------------------------------
(* The objects.                                                            *)

Make(o, s) ==
    /\ o \notin born
    /\ born' = born \cup {o}
    /\ refs' = [refs EXCEPT ![o] = 1]
    /\ items' = [items EXCEPT ![o] = s]
    /\ Retain(s)
    /\ UNCHANGED <<pos, taken, held, bodies>>

\* NewVectorObject, NewVectorViewObject, NewIterableObject and NewStringIterator, on
\* the Go caller's goroutine.
NewObject(o, s) ==
    /\ \A k \in DOMAIN s : s[k] \in Live
    /\ Make(o, s)
    /\ Answer("S_OK")

\* IVector.GetView: a view with a payload of its own, as the vector's is now.
GetView(o, new) ==
    /\ Serve(o)
    /\ new \in Views
    /\ Make(new, items[o])
    /\ Answer("S_OK")

\* collection.first: an iterator with a payload of its own.
First(o, new) ==
    /\ Serve(o)
    /\ new \in Iterators
    /\ Make(new, items[o])
    /\ Answer("S_OK")

\* (Bound: one object at a time has more than one reference.)
AddRefObject(o) ==
    /\ Serve(o)
    /\ refs[o] < MaxRefs
    /\ \A p \in Objects \ {o} : refs[p] <= 1
    /\ refs' = [refs EXCEPT ![o] = @ + 1]
    /\ Answer("S_OK")
    /\ UNCHANGED <<born, items, pos, taken, count, held, bodies>>

\* Mistake: releaseAll walks the payload and leaves it in place.
ReleaseAllInPlace(o) == ReleaseEach(items[o]) /\ UNCHANGED items

\* collection.releaseAll detaches the payload before it releases the first element.
ReleaseAll(o) ==
    /\ items' = [items EXCEPT ![o] = <<>>]
    /\ ReleaseEach(items[o])

\* inspectableReleaseBody: the last reference unregisters the object and then
\* runs its destroy hook.
ReleaseObject(o) ==
    /\ Serve(o)
    /\ refs' = [refs EXCEPT ![o] = @ - 1]
    /\ IF refs[o] = 1 THEN ReleaseAll(o) ELSE UNCHANGED <<items, bodies>>
    /\ Answer("S_OK")
    /\ UNCHANGED <<born, pos, taken, count, held>>

\* A call that comes after the last Release, or with a null out-pointer.
RefuseCall(o) ==
    /\ CanCall
    /\ o \in born
    /\ \/ ~Registered(o) /\ Fail("E_FAIL")
       \/ Fail("E_POINTER")

-----------------------------------------------------------------------------
(* Reading.                                                                *)

\* get_Size, IndexOf and get_HasCurrent.
Look(o) == Serve(o) /\ Fail("S_OK")

\* collection.getAt, for GetAt and get_Current.
GetAt(o, index) ==
    /\ Serve(o)
    /\ \/ index >= Len(items[o]) /\ Fail("E_BOUNDS")
       \/ index < Len(items[o]) /\ items[o][index + 1] \in NoOut /\ Fail("E_FAIL")
       \/ /\ index < Len(items[o]) /\ items[o][index + 1] \notin NoOut
          /\ Marshal(<<items[o][index + 1]>>)
          /\ Answer("S_OK")
          /\ UNCHANGED <<refs, born, items, pos, taken, bodies>>

\* The elements collection.marshalRange is to write: none at or past the end.
Wanted(o, from, capacity) == SubSeq(items[o], from + 1, Min({from + capacity, Len(items[o])}))

\* MarshalOut fails on a slot: every slot written before it goes through FreeOut.
Unwind(s) ==
    LET failing == Min({k \in DOMAIN s : s[k] \in NoOut})
    IN  GiveBack(SubSeq(s, 1, failing - 1), "E_FAIL", {})

Marshallable(s) == \A k \in DOMAIN s : s[k] \notin NoOut

\* GetMany of vectors and views.
GetMany(o, from, capacity) ==
    /\ Serve(o)
    /\ LET s == Wanted(o, from, capacity)
       IN  \/ ~Marshallable(s) /\ Unwind(s)
           \/ /\ Marshallable(s)
              /\ Marshal(s)
              /\ Answer("S_OK")
              /\ UNCHANGED <<refs, born, items, pos, taken, bodies>>

-----------------------------------------------------------------------------
(* Iterators.                                                              *)

Current(i) == GetAt(i, pos[i])

\* Mistake: an exhausted iterator moves on.
MoveNextUnchecked(i) ==
    /\ Serve(i)
    /\ pos[i] < MaxLen
    /\ pos' = [pos EXCEPT ![i] = @ + 1]
    /\ Answer(IF pos[i] < Len(items[i]) THEN "S_OK" ELSE "E_BOUNDS")
    /\ UNCHANGED <<refs, born, items, taken, count, held, bodies>>

MoveNext(i) ==
    /\ Serve(i)
    /\ \/ pos[i] >= Len(items[i]) /\ Fail("E_BOUNDS")
       \/ /\ pos[i] < Len(items[i])
          /\ pos' = [pos EXCEPT ![i] = @ + 1]
          /\ taken' = [taken EXCEPT ![i] = Append(@, items[i][pos[i] + 1])]
          /\ Answer("S_OK")
          /\ UNCHANGED <<refs, born, items, count, held, bodies>>

\* Mistake: the position advances by the room there was, not by what was written.
AdvanceByCapacity(i, written, capacity) ==
    pos' = [pos EXCEPT ![i] = Min({@ + capacity, MaxLen})]

Advance(i, written, capacity) == pos' = [pos EXCEPT ![i] = @ + Len(written)]

\* IIterator.GetMany: as GetMany, from the current position, and move past it.
NextMany(i, capacity) ==
    /\ Serve(i)
    /\ LET s == Wanted(i, pos[i], capacity)
       IN  \/ ~Marshallable(s) /\ Unwind(s)
           \/ /\ Marshallable(s)
              /\ Marshal(s)
              /\ Advance(i, s, capacity)
              /\ taken' = [taken EXCEPT ![i] = @ \o s]
              /\ Answer("S_OK")
              /\ UNCHANGED <<refs, born, items, bodies>>

-----------------------------------------------------------------------------
(* Mutation, of vectors only.                                              *)

SetAt(o, index, e) ==
    /\ Serve(o)
    /\ \/ index >= Len(items[o]) /\ Fail("E_BOUNDS")
       \/ index < Len(items[o]) /\ e = Refused /\ Fail("E_POINTER")
       \/ /\ index < Len(items[o]) /\ e # Refused
          /\ Retain(<<e>>)
          /\ items' = [items EXCEPT ![o] = Seqs!ReplaceAt(@, index + 1, e)]
          /\ ReleaseEach(<<items[o][index + 1]>>)
          /\ Answer("S_OK")
          /\ UNCHANGED <<refs, born, pos, taken, held>>

InsertAt(o, index, e) ==
    /\ Serve(o)
    /\ \/ index > Len(items[o]) /\ Fail("E_BOUNDS")
       \/ index <= Len(items[o]) /\ e = Refused /\ Fail("E_POINTER")
       \/ /\ index <= Len(items[o]) /\ e # Refused
          /\ Len(items[o]) < MaxLen
          /\ Retain(<<e>>)
          /\ items' = [items EXCEPT ![o] = Seqs!InsertAt(@, index + 1, e)]
          /\ Answer("S_OK")
          /\ UNCHANGED <<refs, born, pos, taken, held, bodies>>

AppendWord(o, e) == InsertAt(o, Len(items[o]), e)

RemoveAt(o, index) ==
    /\ Serve(o)
    /\ \/ index >= Len(items[o]) /\ Fail("E_BOUNDS")
       \/ /\ index < Len(items[o])
          /\ items' = [items EXCEPT ![o] = Seqs!RemoveAt(@, index + 1)]
          /\ ReleaseEach(<<items[o][index + 1]>>)
          /\ Answer("S_OK")
          /\ UNCHANGED <<refs, born, pos, taken, count, held>>

RemoveAtEnd(o) ==
    \/ Serve(o) /\ items[o] = <<>> /\ Fail("E_BOUNDS")
    \/ items[o] # <<>> /\ RemoveAt(o, Len(items[o]) - 1)

Clear(o) ==
    /\ Serve(o)
    /\ ReleaseAll(o)
    /\ Answer("S_OK")
    /\ UNCHANGED <<refs, born, pos, taken, count, held>>

\* The elements unmarshalled before the slot that fails.
Fresh(s) == SubSeq(s, 1, Min({k \in DOMAIN s : s[k] = Refused}) - 1)

\* Mistake: a slot that does not unmarshal leaves the ones before it retained.
ReplacePartly(o, s) ==
    /\ Retain(Fresh(s))
    /\ Answer("E_POINTER")
    /\ UNCHANGED <<refs, born, items, pos, taken, held, bodies>>

\* Mistake: the unwinding loop walks the payload, not what is fresh.
ReleaseThePayload(o, s) ==
    /\ Retain(Fresh(s))
    /\ OweThen(SubSeq(items[o], 1, Min({Len(Fresh(s)), Len(items[o])})), "E_POINTER", {})
    /\ Answer("E_POINTER")
    /\ UNCHANGED <<refs, born, items, pos, taken, held>>

\* UnmarshalSlot fails on a slot: the fresh elements are released again.  They are
\* the caller's, who has lent them until the call returns.
ReplaceNothing(o, s) ==
    GiveBack(Fresh(s), "E_POINTER", {s[k] : k \in DOMAIN s} \ {Refused})

\* ReplaceAll: the old payload is released once the new one is in place.
ReplaceAll(o, s) ==
    /\ Serve(o)
    /\ \/ (\E k \in DOMAIN s : s[k] = Refused) /\ ReplaceNothing(o, s)
       \/ /\ \A k \in DOMAIN s : s[k] # Refused
          /\ Retain(s)
          /\ items' = [items EXCEPT ![o] = s]
          /\ ReleaseEach(items[o])
          /\ Answer("S_OK")
          /\ UNCHANGED <<refs, born, pos, taken, held>>

-----------------------------------------------------------------------------
(* A body's releases, and the clients' own references.                     *)

\* comRelease of the next element.  When that was its last reference its
\* destructor runs before comRelease returns.
ReleaseNext ==
    /\ bodies # <<>>
    /\ bodies[1].owed # <<>>
    /\ LET e == Head(bodies[1].owed)
           rest == Tail(bodies[1].owed)
       IN  /\ count' = [count EXCEPT ![e] = @ - 1]
           /\ bodies' = IF rest = <<>> /\ count[e] # 1 THEN Tail(bodies)
                        ELSE [bodies EXCEPT ![1] = [@ EXCEPT !.owed = rest, !.dying = (count[e] = 1)]]
    /\ Answer(bodies[1].answer)
    /\ UNCHANGED <<refs, born, items, pos, taken, held>>

\* The destructor the last release was running is done and the body returns.
ReturnFromBody ==
    /\ bodies # <<>>
    /\ bodies[1].owed = <<>>
    /\ bodies' = Tail(bodies)
    /\ Answer(bodies[1].answer)
    /\ UNCHANGED <<refs, born, items, pos, taken, count, held>>

\* A client drops a reference of its own, the last one there is included.  COM's
\* rule: who passes an element keeps a reference to it until the call returns.
DropElement(e) ==
    /\ held[e] > 0
    /\ bodies # <<>> /\ e \in bodies[1].lent => held[e] > 1
    /\ held' = [held EXCEPT ![e] = @ - 1]
    /\ count' = [count EXCEPT ![e] = @ - 1]
    /\ Answer("S_OK")
    /\ UNCHANGED <<refs, born, items, pos, taken, bodies>>

-----------------------------------------------------------------------------
Indices == 0..MaxLen
Words == Live \cup {Refused}

\* The slots every object has, and the constructors.
ObjectSlots(o) ==
    \/ \E s \in Lists : NewObject(o, s)
    \/ AddRefObject(o)
    \/ ReleaseObject(o)
    \/ RefuseCall(o)
    \/ Look(o)

\* The slots of IVectorView and of the IIterable facet; IVector has them too.
ViewSlots(o) ==
    \/ \E index \in Indices : GetAt(o, index)
    \/ \E from \in Indices, capacity \in Indices : GetMany(o, from, capacity)
    \/ \E new \in Objects : First(o, new)

VectorSlots(o) ==
    \/ \E new \in Objects : GetView(o, new)
    \/ \E index \in Indices, e \in Words : SetAt(o, index, e)
    \/ \E index \in Indices, e \in Words : InsertAt(o, index, e)
    \/ \E e \in Words : AppendWord(o, e)
    \/ \E index \in Indices : RemoveAt(o, index)
    \/ RemoveAtEnd(o)
    \/ Clear(o)
    \/ \E s \in Seqs!SeqOf(Words, MaxLen) : ReplaceAll(o, s)

IteratorSlots(i) ==
    \/ Current(i)
    \/ MoveNext(i)
    \/ \E capacity \in Indices : NextMany(i, capacity)

Next ==
    \/ \E o \in Objects : ObjectSlots(o)
    \/ \E o \in Sources : ViewSlots(o)
    \/ \E o \in Vectors : VectorSlots(o)
    \/ \E i \in Iterators : IteratorSlots(i)
    \/ ReleaseNext
    \/ ReturnFromBody
    \/ \E e \in Elements : DropElement(e)

Spec == Init /\ [][Next]_vars

-----------------------------------------------------------------------------
(* Properties.                                                             *)

\* The slots that hold e, the index of its payload with each.
Slots(e, payloads) ==
    Cardinality(UNION {{x} \X Places(e, payloads[x]) : x \in DOMAIN payloads})

Payloads == [o \in {p \in Objects : Registered(p)} |-> items[o]]
Debts(unfinished) == [n \in DOMAIN unfinished |-> unfinished[n].owed]

Listed(e) == Slots(e, Payloads)
Owed(e) == Slots(e, Debts(bodies))

\* Every reference there is to an element is accounted for: one per slot of a live
\* payload, those the clients own, and those an unfinished body is about to drop.
\* No path leaks one or drops one twice, calls made by destructors included.
ReferencesBalance ==
    \A e \in Elements : count[e] = held[e] + Listed(e) + Owed(e)

\* An element whose last reference has gone never turns up again: no call that
\* its destructor makes into a collection can still reach it (releaseAll and the
\* mutators detach before they release).
DestroyedStaysDestroyed ==
    [][\A e \in Elements : count[e] = 0 => count'[e] = 0 /\ held'[e] = 0]_vars

\* A call that fails destroys nothing and moves nothing.  From the step it is bound to
\* fail until it returns the payloads and positions stay, and no reference it gives
\* back is an element's last: no destructor runs inside it, so no other call comes
\* between (the unwinding loops of marshalRange and replaceAll).
FailedCallsDestroyNothing ==
    [][hr' # "S_OK"
        => /\ UNCHANGED <<refs, born, items, pos, taken, held>>
           /\ \A e \in Elements : count[e] > 0 => count'[e] > 0]_vars

\* However its consumer mixes GetMany and MoveNext, and whatever happens to the
\* vector meanwhile, a live iterator has moved past exactly the first elements of
\* its snapshot, each once and in order.
IteratesOnce ==
    \A i \in Iterators : Registered(i)
        => pos[i] <= Len(items[i]) /\ taken[i] = SubSeq(items[i], 1, pos[i])

\* What IteratesOnce needs to be inductive: a name that is not yet made stands for no
\* object, so an iterator that First makes starts at its first element.
Unborn ==
    /\ \A o \in Objects \ born : refs[o] = 0
    /\ \A i \in Iterators \ born : pos[i] = 0 /\ taken[i] = <<>>

\* The inductive invariant: an object counts references, and an iterator a position,
\* only once it is made, and from then on the iterator's snapshot stays what it was.
IInv == TypeOK /\ Unborn /\ IteratesOnce

\* As the comments on GetAt have it: an index in bounds is answered.
ReadsInBounds ==
    [][\A o \in Sources, index \in Indices :
        GetAt(o, index) /\ index < Len(items[o]) => hr' = "S_OK"]_vars
=============================================================================

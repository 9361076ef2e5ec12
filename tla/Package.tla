------------------------------ MODULE Package ------------------------------
(***************************************************************************)
(* Building the package of one namespace                                   *)
(* (internal/codegen/emit/winrt: generator.go, types.go, interfaces.go,    *)
(* classes.go, pinterfaces.go, events.go, collections.go, async.go): who   *)
(* gets which Go identifier, which generic instantiations and delegate     *)
(* handlers are made on demand, which members are skipped, and which       *)
(* imports each file has.                                                  *)
(*                                                                         *)
(* The metadata is an agenda of units in the order the generator visits    *)
(* them.  A unit resolves the types of its signature one by one and then   *)
(* finishes, or is skipped at the first type that cannot be represented.   *)
(* When the agenda is done, the instantiations requested on the way are    *)
(* built in turn, and they may request more.                               *)
(*                                                                         *)
(* An identifier is a sequence of name parts.  The text of a declaration   *)
(* is left out; what matters is which identifiers and packages it names.   *)
(***************************************************************************)
EXTENDS Naturals, Sequences, FiniteSets, SequencesExt

CONSTANTS
    Metadata,   \* the namespaces it may be asked to emit
    Refs,       \* the type references that occur
    Opens,      \* the methods of each open generic interface
    Invokes,    \* the parameters of each delegate's Invoke
    Siblings,   \* what a Go-implemented collection needs beside itself
    AsyncOpens, \* the open interfaces that get an Await
    AsyncInfo,  \* IAsyncInfo
    Unguided,   \* the interfaces without a [Guid]
    Severed,    \* the namespaces that must not be imported
    Home,       \* the namespace being emitted
    None

VARIABLES
    meta,       \* the metadata of the namespace
    agenda,     \* the units still to be built, the first of them under way
    scratch,    \* what the unit under way has resolved so far
    binding,    \* the delegate it is adapting
    inner,      \* the parameters of that delegate still to be resolved
    claimed,    \* claimedNames
    typeNames,  \* typeNames: pre-claimed and not yet consumed
    instances,  \* pinstByName
    queue,      \* pinstQueue
    handlers,   \* pdelByName
    declared,   \* the package-level identifiers, what each means and who declares it
    methods,    \* the methods of the generated types
    uses,       \* the identifiers each file names, and what is meant
    imports,    \* the namespaces each file imports
    diags       \* the units a diagnostic was recorded for

vars == <<meta, agenda, scratch, binding, inner, claimed, typeNames, instances,
          queue, handlers, declared, methods, uses, imports, diags>>
workVars == <<agenda, scratch, binding, inner>>
requestVars == <<instances, queue, handlers>>
fileVars == <<methods, uses, imports>>

-----------------------------------------------------------------------------
(* References and names.                                                   *)

\* instantiationName and argumentMangle: the names of the arguments, without their
\* namespaces.
Mangled[r \in Refs] ==
    IF r.args = <<>> THEN r.name
    ELSE r.name \o <<"Of">>
         \o FlattenSeq([i \in DOMAIN r.args |->
                (IF i = 1 THEN <<>> ELSE <<"And">>) \o Mangled[r.args[i]]])

\* InstanceIID and instantiationName succeed: every argument has a signature.
Groundable[r \in Refs] ==
    /\ r.kind \notin {"array", "param"}
    /\ r \notin Unguided
    /\ \A i \in DOMAIN r.args : Groundable[r.args[i]]

\* substituteRef
Ground(ref, args) ==
    LET ground[r \in Refs] ==
            IF r.kind = "param" THEN args[r.index]
            ELSE [r EXCEPT !.args = [i \in DOMAIN r.args |-> ground[r.args[i]]]]
    IN  ground[ref]

IID(r) == <<"IID_">> \o Mangled[r]
Ctor(r) == <<"New">> \o Mangled[r]
HandlerNames(d) == {Mangled[d], IID(d), Ctor(d)}

\* trimInterfacePrefix
Trim(name) == IF Head(name) = "I" THEN Tail(name) ELSE name

-----------------------------------------------------------------------------
(* The agenda.                                                             *)

Unit(kind, file, owner, name, slot, ref, items) ==
    [kind |-> kind, file |-> file, owner |-> owner, name |-> name, slot |-> slot,
     ref |-> ref, items |-> items]

\* A unit, whatever it still has to resolve.
Id(u) == [u EXCEPT !.items = <<>>]

Asks(ref, as) == [ref |-> ref, as |-> as]

EnumUnits(e) ==
    <<Unit("enum", "enums", e.name, e.name, 0, None, <<>>)>>
    \o [i \in DOMAIN e.members |->
            Unit("member", "enums", e.name, e.name \o e.members[i], i, None, <<>>)]

\* A method asks for its return type, then for its parameters; an event accessor
\* for its delegate.  The i-th method has slot i, whatever becomes of the others.
MethodUnits(file, type, ms) ==
    [i \in DOMAIN ms |->
        Unit("method", file, Mangled[type], ms[i].name, i, ms[i].returns,
             (IF ms[i].returns = None THEN <<>> ELSE <<Asks(ms[i].returns, "return")>>)
             \o [p \in DOMAIN ms[i].params |->
                    Asks(ms[i].params[p], IF ms[i].event THEN "event" ELSE "param")])]

InterfaceUnits(d) ==
    <<Unit("interface", "interfaces", d.ref.name, d.ref.name, 0, d.ref, <<>>)>>
    \o MethodUnits("interfaces", d.ref, d.methods)

\* buildClassModels: the type, what belongs to it, the statics, the factories.
ClassUnits(c) ==
    LET Of(kind, name, slot, ref, items) ==
            Unit(kind, "classes", c.name, name, slot, ref, items)
    IN  (IF c.default = None THEN <<>>
         ELSE <<Of("class", c.name, 0, c.default, <<Asks(c.default, "default")>>)>>)
        \o (IF c.direct THEN <<Of("ctor", <<"New">> \o c.name, 0, None, <<>>)>> ELSE <<>>)
        \o [i \in DOMAIN c.interfaces |->
                Of("query", <<>>, i, c.interfaces[i], <<Asks(c.interfaces[i], "query")>>)]
        \o [i \in DOMAIN c.statics |->
                Of("static", Trim(c.statics[i].name), i, c.statics[i],
                   <<Asks(c.statics[i], "static")>>)]
        \o [i \in DOMAIN c.factories |->
                Of("factory", c.factories[i].name, c.factories[i].slot,
                   c.factories[i].interface, <<>>)]

Each(Units(_), s) == FlattenSeq([i \in DOMAIN s |-> Units(s[i])])

Agenda(m) ==
    Each(EnumUnits, m.enums) \o Each(InterfaceUnits, m.interfaces)
    \o Each(ClassUnits, m.classes)

\* The methods of an instantiation, and what is attached to it.
InstanceUnits(r) ==
    LET grounded == [i \in DOMAIN Opens[r.name] |->
            LET m == Opens[r.name][i] IN
            [m EXCEPT !.returns = IF @ = None THEN None ELSE Ground(@, r.args),
                      !.params = [p \in DOMAIN @ |-> Ground(@[p], r.args)]]]
        Of(kind, name, items) == Unit(kind, "pinterfaces", Mangled[r], name, 0, r, items)
    IN  MethodUnits("pinterfaces", r, grounded)
        \o (IF r.name \notin AsyncOpens THEN <<>>
            ELSE <<Of("await", <<"Await">>, <<Asks(AsyncInfo, "param")>>)>>)
        \o (IF r.name \notin DOMAIN Siblings THEN <<>>
            ELSE <<Of("element", Ctor(r), <<Asks(r.args[1], "element")>>)>>)

\* The parameters a delegate's Invoke has under its arguments.
Adapted(d) == [i \in DOMAIN Invokes[d.name] |-> Ground(Invokes[d.name][i], d.args)]

SiblingAsks(r) ==
    [i \in DOMAIN Siblings[r.name] |->
        Asks([r EXCEPT !.name = Siblings[r.name][i]], "sibling")]

Positions == {"return", "param", "event", "default", "query", "static", "element",
              "sibling", "inner"}
Items == {i \in [ref : Refs, as : Positions] : i.as = "sibling" => i.ref.kind = "instance"}
Kinds == {"enum", "member", "interface", "method", "class", "ctor", "query",
          "static", "factory", "await", "element"}
Instances == {r \in Refs : r.kind = "instance"}
Delegates == {r \in Refs : r.kind = "delegate"}
OpenMethods ==
    [name : Seq(STRING), returns : Refs \cup {None}, params : Seq(Refs), event : BOOLEAN]
UnitsOf(kinds) ==
    {u \in [kind : kinds, file : STRING, owner : Seq(STRING), name : Seq(STRING),
            slot : Nat, ref : Refs \cup {None}, items : Seq(Items)] :
        u.kind = "element" => u.ref \in Instances /\ u.ref.name \in DOMAIN Siblings}

\* Refs has whatever is reached from the metadata.  Interface names begin with an I
\* and delegate names do not, so that no handler has the name of an instantiation.
ASSUME PackageAssumption ==
    /\ None \notin Refs
    /\ \A m \in Metadata : Agenda(m) \in Seq(UnitsOf(Kinds))
    /\ \A r \in Instances :
        /\ InstanceUnits(r) \in Seq(UnitsOf(Kinds))
        /\ r.name \in DOMAIN Siblings => SiblingAsks(r) \in Seq(Items)
    /\ \A d \in Delegates : Adapted(d) \in Seq(Refs)
    /\ \A r \in Refs : Mangled[r] \in Seq(STRING)
    /\ \A d \in Delegates, r \in Instances : Mangled[r] \notin HandlerNames(d)
    /\ \A r \in Instances : Opens[r.name] \in Seq(OpenMethods)

-----------------------------------------------------------------------------
\* prepareNamespaceClaims: a class that cannot have a type does not hold its name.
TypeNames(m) ==
    {m.enums[i].name : i \in DOMAIN m.enums}
    \cup {m.interfaces[i].ref.name : i \in DOMAIN m.interfaces}
    \cup {m.classes[i].name : i \in {j \in DOMAIN m.classes : m.classes[j].default # None}}

\* A name that no IID variable can have.
NotAnIID(name) == name # <<>> /\ Head(name) # "IID_"

\* What a unit that names an IID asks for, before it is finished: nothing else.
Target(u) == IF u.kind = "await" THEN AsyncInfo ELSE u.ref
AsksForTarget(u) ==
    u.kind \in {"class", "query", "static", "await"}
        => \E as \in Positions : u.items = <<Asks(Target(u), as)>>

\* How the units of each kind are made.
WellFormed(u) ==
    /\ u.kind \in {"member", "ctor", "static", "factory", "element"} => NotAnIID(u.name)
    /\ u.kind = "interface" =>
        /\ u.ref \in Refs /\ u.ref.kind = "interface" /\ u.ref.ns = Home
        /\ u.name = Mangled[u.ref] /\ u.items = <<>>
    /\ u.kind \in {"class", "query", "static"} =>
        u.file = "classes" /\ u.ref \in Refs /\ u.ref.kind \in {"interface", "instance"}
    /\ u.kind = "factory" => u.ref \in Refs /\ u.ref.kind = "interface"
    /\ u.kind = "await" => u.file = "pinterfaces"

\* The agenda of a namespace has a unit for each of its interfaces, classes come
\* before what belongs to them, and no type's name begins like an IID variable's.
ASSUME AgendaAssumption ==
    /\ AsyncInfo \in Refs /\ AsyncInfo.kind = "interface"
    /\ \A r \in Refs : NotAnIID(Mangled[r])
    /\ \A m \in Metadata :
        /\ \A name \in TypeNames(m) : NotAnIID(name)
        /\ \A i \in DOMAIN Agenda(m) :
            LET u == Agenda(m)[i] IN
            /\ WellFormed(u) /\ AsksForTarget(u) /\ u.kind \notin {"await", "element"}
            /\ u.kind \in {"ctor", "query"} =>
                \A j \in DOMAIN Agenda(m) :
                    Agenda(m)[j].kind = "class" /\ Agenda(m)[j].name = u.owner => j < i
        /\ \A k \in DOMAIN m.interfaces : \E i \in DOMAIN Agenda(m) :
            Agenda(m)[i].kind = "interface" /\ Agenda(m)[i].ref = m.interfaces[k].ref

Init ==
    /\ meta \in Metadata
    /\ agenda = Agenda(meta)
    /\ claimed = TypeNames(meta)
    /\ typeNames = TypeNames(meta)
    /\ binding = None /\ inner = <<>> /\ queue = <<>>
    /\ scratch = {} /\ instances = {} /\ handlers = {} /\ declared = {}
    /\ methods = {} /\ uses = {} /\ imports = {} /\ diags = {}

Current == Head(agenda)

\* The class type exists.
Emitted(class) ==
    \E d \in declared : d.name = class /\ d.by # None /\ d.by.kind = "class"

\* What is to be resolved next, and as what.
Pending ==
    /\ agenda # <<>>
    /\ Current.kind = "query" => Emitted(Current.owner)
    /\ IF binding = None THEN Current.items # <<>> ELSE inner # <<>>
Want == IF binding = None THEN Head(Current.items) ELSE Asks(Head(inner), "inner")

\* The unit under way has resolved all it asks for.
Ready(kind) ==
    /\ agenda # <<>>
    /\ Current.kind = kind /\ Current.items = <<>>

NextUnit ==
    /\ agenda' = Tail(agenda)
    /\ scratch' = {} /\ binding' = None /\ inner' = <<>>

NextItem == agenda' = <<[Current EXCEPT !.items = Tail(@)]>> \o Tail(agenda)

Resolved ==
    /\ IF binding = None THEN NextItem /\ UNCHANGED inner
       ELSE inner' = Tail(inner) /\ UNCHANGED agenda
    /\ scratch' = scratch \cup {Want}
    /\ UNCHANGED binding

\* What the files name, and import, for what has been resolved.
Names(file, items) ==
    {[file |-> file, name |-> Mangled[i.ref], ref |-> i.ref] :
        i \in {j \in items : j.ref.kind # "native"}}
NamesIID(file, ref) == {[file |-> file, name |-> IID(ref), ref |-> ref]}
Imports(file, items) ==
    {[file |-> file, ns |-> i.ref.ns] :
        i \in {j \in items : j.ref.kind = "interface" /\ j.ref.ns # Home}}

-----------------------------------------------------------------------------
(* Resolving a type (typemap.Mapper.GoType and the two request seams).     *)

NameSeen(table, r) == \E e \in table : e[1] = Mangled[r]

\* Mistake: one mangled name is taken for one instantiation.
CanInstantiateByName(r) ==
    /\ Groundable[r]
    /\ NameSeen(instances, r) \/ {Mangled[r], IID(r)} \cap claimed = {}

\* requestInstantiation: the same name must mean the same instantiation, and a new
\* name must be free.
CanInstantiate(r) ==
    /\ Groundable[r]
    /\ IF NameSeen(instances, r) THEN <<Mangled[r], r>> \in instances
       ELSE {Mangled[r], IID(r)} \cap claimed = {}

\* requestEventDelegate
CanHandle(d) ==
    /\ Groundable[d]
    /\ IF NameSeen(handlers, d) THEN <<Mangled[d], d>> \in handlers
       ELSE HandlerNames(d) \cap claimed = {}

\* Registry.Interface: of this namespace the registry has what its metadata declares.
InRegistry(ref) ==
    ref.ns = Home => \E i \in DOMAIN meta.interfaces : meta.interfaces[i].ref = ref

\* The default interface of a class must not be generic; only a parameter or an
\* event may be a delegate.
Accepts(w) ==
    \/ w.ref.kind = "native"
    \/ w.ref.kind = "interface" /\ w.ref.ns \notin Severed /\ InRegistry(w.ref)
    \/ w.ref.kind = "instance" /\ w.as # "default" /\ CanInstantiate(w.ref)
    \/ w.ref.kind = "delegate" /\ w.as \in {"param", "event"} /\ CanHandle(w.ref)

ResolveDeclared ==
    /\ Pending
    /\ Want.ref.kind \in {"native", "interface"} /\ Accepts(Want)
    /\ Resolved
    /\ UNCHANGED <<meta, claimed, typeNames, requestVars, declared, fileVars, diags>>

\* requestInstantiation; a new one is claimed and queued.
RequestInstantiation ==
  LET r == Want.ref IN
    /\ Pending
    /\ r.kind = "instance" /\ Accepts(Want)
    /\ Resolved
    /\ claimed' = claimed \cup {Mangled[r]}
    /\ instances' = instances \cup {<<Mangled[r], r>>}
    /\ queue' = IF NameSeen(instances, r) THEN queue ELSE Append(queue, r)
    /\ UNCHANGED <<meta, typeNames, handlers, declared, fileVars, diags>>

\* A handler that exists is named; for a new one its Invoke is adapted first.
ReuseHandler ==
  LET d == Want.ref IN
    /\ Pending
    /\ d.kind = "delegate" /\ Accepts(Want)
    /\ NameSeen(handlers, d)
    /\ Resolved
    /\ UNCHANGED <<meta, claimed, typeNames, requestVars, declared, fileVars, diags>>

BeginHandler ==
  LET d == Want.ref IN
    /\ Pending
    /\ d.kind = "delegate" /\ Accepts(Want)
    /\ ~NameSeen(handlers, d)
    /\ binding' = d
    /\ inner' = Adapted(d)
    /\ UNCHANGED <<meta, agenda, scratch, claimed, typeNames, requestVars, declared,
                   fileVars, diags>>

\* buildDelegateModel is done: the handler takes its names.
BindHandler ==
    /\ agenda # <<>> /\ binding # None /\ inner = <<>>
    /\ LET adapted == {i \in scratch : i.as = "inner"} IN
       /\ uses' = uses \cup Names("delegates", adapted)
       /\ imports' = imports \cup Imports("delegates", adapted)
       /\ scratch' = (scratch \ adapted) \cup {Head(Current.items)}
    /\ claimed' = claimed \cup HandlerNames(binding)
    /\ declared' = declared \cup
           {[name |-> n, ref |-> binding, by |-> None] : n \in HandlerNames(binding)}
    /\ handlers' = handlers \cup {<<Mangled[binding], binding>>}
    /\ NextItem
    /\ binding' = None
    /\ UNCHANGED <<meta, inner, typeNames, instances, queue, methods, diags>>

\* Mistake: a skipped member leaves no trace.
SkipSilently ==
    /\ Pending /\ ~Accepts(Want)
    /\ NextUnit
    /\ UNCHANGED <<meta, claimed, typeNames, requestVars, declared, fileVars, diags>>

\* The first type that cannot be represented skips the member; what it requested
\* before stays requested.  A missing Await is not reported.
Skip ==
    /\ Pending /\ ~Accepts(Want)
    /\ NextUnit
    /\ diags' = IF Current.kind = "await" THEN diags ELSE diags \cup {Id(Current)}
    /\ UNCHANGED <<meta, claimed, typeNames, requestVars, declared, fileVars>>

-----------------------------------------------------------------------------
(* Finishing a unit.                                                       *)

HasIID(ref) == ref \notin Unguided

Declare(names, ref, by) ==
    declared' = declared \cup {[name |-> n, ref |-> ref, by |-> by] : n \in names}

\* A type that was pre-claimed; metadata has no two of one name.  An interface
\* claims its IID variable too.
DeclareType ==
    /\ Ready("enum") \/ Ready("interface")
    /\ Current.name \in typeNames
    /\ LET iid == IF Current.kind = "interface" /\ HasIID(Current.ref)
                      THEN {IID(Current.ref)} \ claimed ELSE {} IN
       /\ Declare({Current.name} \cup iid, Current.ref, Id(Current))
       /\ claimed' = claimed \cup iid
       /\ diags' = IF Current.kind = "interface" /\ iid = {}
                       THEN diags \cup {Id(Current)} ELSE diags
    /\ typeNames' = typeNames \ {Current.name}
    /\ NextUnit
    /\ UNCHANGED <<meta, requestVars, fileVars>>

\* claimName, for an enum member or a direct constructor.
DeclareValue ==
    /\ Ready("member") \/ (Ready("ctor") /\ Emitted(Current.owner))
    /\ IF Current.name \in claimed
           THEN diags' = diags \cup {Id(Current)} /\ UNCHANGED <<claimed, declared>>
           ELSE /\ Declare({Current.name}, None, Id(Current))
                /\ claimed' = claimed \cup {Current.name}
                /\ UNCHANGED diags
    /\ NextUnit
    /\ UNCHANGED <<meta, typeNames, requestVars, fileVars>>

MethodNames(owner) == {m.name : m \in {n \in methods : n.owner = owner}}

\* Mistake: overloads keep one name.
Unsuffixed(owner, name) == name

\* An underscore for every method that has the name already.
Suffixed(owner, name) ==
    LET With(k) == name \o [i \in 1..k |-> "_"]
    IN  With(Min({k \in 0..Cardinality(methods) : With(k) \notin MethodNames(owner)}))

EmitMethod(name) ==
    /\ methods' = methods \cup
           {[owner |-> Current.owner, name |-> name, by |-> Id(Current), items |-> scratch]}
    /\ imports' = imports \cup Imports(Current.file, scratch)

DeclareMethod ==
    /\ Ready("method")
    /\ EmitMethod(Suffixed(Current.owner, Current.name))
    /\ uses' = uses \cup Names(Current.file, scratch)
    /\ NextUnit
    /\ UNCHANGED <<meta, claimed, typeNames, requestVars, declared, diags>>

\* The default interface is reachable and has an IID.
DeclareClass ==
    /\ Ready("class")
    /\ Current.name \in typeNames
    /\ IF HasIID(Current.ref)
           THEN /\ Declare({Current.name}, None, Id(Current))
                /\ typeNames' = typeNames \ {Current.name}
                /\ uses' = uses \cup Names("classes", scratch) \cup NamesIID("classes", Current.ref)
                /\ imports' = imports \cup Imports("classes", scratch)
                /\ UNCHANGED diags
           ELSE /\ diags' = diags \cup {Id(Current)}
                /\ UNCHANGED <<declared, typeNames, uses, imports>>
    /\ NextUnit
    /\ UNCHANGED <<meta, claimed, requestVars, methods>>

\* What belongs to a class type that is not emitted goes with it.
DropWithClass ==
    /\ agenda # <<>>
    /\ Current.kind \in {"ctor", "query", "factory"} /\ ~Emitted(Current.owner)
    /\ NextUnit
    /\ diags' = IF Current.kind = "factory" THEN diags \cup {Id(Current)} ELSE diags
    /\ UNCHANGED <<meta, claimed, typeNames, requestVars, declared, fileVars>>

\* As<Interface> for an instance interface; for an instantiation its local name.
DeclareQuery ==
    /\ Ready("query") /\ Emitted(Current.owner)
    /\ LET ref == Current.ref
           name == <<"As">> \o Trim(Mangled[ref]) IN
       IF HasIID(ref) /\ name \notin MethodNames(Current.owner)
           THEN /\ EmitMethod(name)
                /\ uses' = uses \cup Names("classes", scratch) \cup NamesIID("classes", ref)
                /\ UNCHANGED diags
           ELSE /\ diags' = diags \cup {Id(Current)}
                /\ UNCHANGED fileVars
    /\ NextUnit
    /\ UNCHANGED <<meta, claimed, typeNames, requestVars, declared>>

\* The accessor of a statics interface needs no class type.
DeclareStatics ==
    /\ Ready("static")
    /\ IF HasIID(Current.ref) /\ Current.name \notin claimed
           THEN /\ Declare({Current.name}, None, Id(Current))
                /\ claimed' = claimed \cup {Current.name}
                /\ uses' = uses \cup Names("classes", scratch) \cup NamesIID("classes", Current.ref)
                /\ imports' = imports \cup Imports("classes", scratch)
                /\ UNCHANGED diags
           ELSE /\ diags' = diags \cup {Id(Current)}
                /\ UNCHANGED <<claimed, declared, uses, imports>>
    /\ NextUnit
    /\ UNCHANGED <<meta, typeNames, requestVars, methods>>

\* The method a factory function wraps, if it was emitted and returns the default
\* interface of the class.
Wrapped(u) ==
    {m \in methods : /\ m.owner = Mangled[u.ref] /\ m.by.kind = "method"
                     /\ m.by.slot = u.slot
                     /\ \E d \in declared : /\ d.name = u.owner /\ d.by # None
                                            /\ d.by.kind = "class" /\ d.by.ref = m.by.ref}

\* The name, then with the class's, then with the ordinal of the factory (here each
\* class has one).
Candidates(u) ==
    LET named == IF IsSuffix(u.owner, u.name) THEN u.name ELSE u.name \o u.owner
    IN  <<u.name, named, named \o <<"1">>>>
Free(u) == {i \in 1..3 : Candidates(u)[i] \notin claimed}
FreeName(u) == Candidates(u)[Min(Free(u))]

\* The factory interface is one of this namespace, with an IID, and has a method to
\* wrap and a name for it.
CanWrap(u) ==
    /\ u.ref.ns = Home /\ InRegistry(u.ref) /\ HasIID(u.ref)
    /\ Wrapped(u) # {} /\ Free(u) # {}

\* Mistake: the function restates a signature without the imports of it.
DeclareFactoryBare ==
    /\ Ready("factory") /\ Emitted(Current.owner)
    /\ IF ~CanWrap(Current)
           THEN diags' = diags \cup {Id(Current)} /\ UNCHANGED <<claimed, declared, uses, imports>>
           ELSE /\ Declare({FreeName(Current)}, None, Id(Current))
                /\ claimed' = claimed \cup {FreeName(Current)}
                /\ uses' = uses \cup NamesIID("classes", Current.ref)
                       \cup UNION {Names("classes", m.items) : m \in Wrapped(Current)}
                /\ UNCHANGED <<diags, imports>>
    /\ NextUnit
    /\ UNCHANGED <<meta, typeNames, requestVars, methods>>

\* A function that wraps a factory's method; it restates the signature and merges
\* the imports recorded for it.
DeclareFactory ==
    /\ Ready("factory") /\ Emitted(Current.owner)
    /\ IF ~CanWrap(Current)
           THEN diags' = diags \cup {Id(Current)} /\ UNCHANGED <<claimed, declared, uses, imports>>
           ELSE /\ Declare({FreeName(Current)}, None, Id(Current))
                /\ claimed' = claimed \cup {FreeName(Current)}
                /\ uses' = uses \cup NamesIID("classes", Current.ref)
                       \cup UNION {Names("classes", m.items) : m \in Wrapped(Current)}
                /\ imports' = imports
                       \cup UNION {Imports("classes", m.items) : m \in Wrapped(Current)}
                /\ UNCHANGED diags
    /\ NextUnit
    /\ UNCHANGED <<meta, typeNames, requestVars, methods>>

-----------------------------------------------------------------------------
(* Instantiations.                                                         *)

\* Mistake: what only another instantiation requests is not built.
BuildInstantiationOfMembers ==
    /\ agenda = <<>> /\ queue # <<>>
    /\ \E u \in uses : u.ref = Head(queue) /\ u.file # "pinterfaces"
    /\ LET r == Head(queue)
           iid == {IID(r)} \ claimed IN
       /\ Declare({Mangled[r]} \cup iid, r, None)
       /\ claimed' = claimed \cup iid
       /\ agenda' = InstanceUnits(r)
    /\ queue' = Tail(queue)
    /\ UNCHANGED <<meta, scratch, binding, inner, typeNames, instances, handlers,
                   fileVars, diags>>

\* buildPinterfaceModels takes the next one off the queue.
BuildInstantiation ==
    /\ agenda = <<>> /\ queue # <<>>
    /\ LET r == Head(queue)
           iid == {IID(r)} \ claimed IN
       /\ Declare({Mangled[r]} \cup iid, r, None)
       /\ claimed' = claimed \cup iid
       /\ agenda' = InstanceUnits(r)
    /\ queue' = Tail(queue)
    /\ UNCHANGED <<meta, scratch, binding, inner, typeNames, instances, handlers,
                   fileVars, diags>>

\* The handler SetCompleted takes.
CompletedHandlers(owner) ==
    {i.ref : i \in {j \in UNION {m.items : m \in
        {n \in methods : n.owner = owner /\ n.name = <<"SetCompleted">>}} :
            j.ref.kind = "delegate"}}

\* attachAwait, if the methods it calls are there and the name is free.
AttachAwait ==
    /\ Ready("await")
    /\ IF /\ {<<"SetCompleted">>, <<"GetResults">>} \subseteq MethodNames(Current.owner)
          /\ CompletedHandlers(Current.owner) # {}
          /\ <<"Await">> \notin MethodNames(Current.owner)
          /\ HasIID(AsyncInfo)
           THEN /\ EmitMethod(<<"Await">>)
                /\ uses' = uses \cup Names("pinterfaces", scratch)
                       \cup NamesIID("pinterfaces", AsyncInfo)
                       \cup {[file |-> "pinterfaces", name |-> Ctor(d), ref |-> d] :
                                d \in CompletedHandlers(Current.owner)}
           ELSE UNCHANGED fileVars
    /\ NextUnit
    /\ UNCHANGED <<meta, claimed, typeNames, requestVars, declared, diags>>

\* attachCollectionCtor: the element has a codec, the constructor's name is
\* claimed, and then its siblings are requested.
ClaimCollectionCtor ==
    /\ Ready("element")
    /\ IF Current.name \in claimed \/ ~\E d \in declared : d.name = IID(Current.ref)
           THEN diags' = diags \cup {Id(Current)} /\ UNCHANGED claimed /\ NextUnit
           ELSE /\ claimed' = claimed \cup {Current.name}
                /\ agenda' = <<[Current EXCEPT !.kind = "siblings",
                                         !.items = SiblingAsks(Current.ref)]>>
                             \o Tail(agenda)
                /\ UNCHANGED <<scratch, binding, inner, diags>>
    /\ UNCHANGED <<meta, typeNames, requestVars, declared, fileVars>>

\* The constructor wires the IIDs of the siblings.
DeclareCollectionCtor ==
    /\ Ready("siblings")
    /\ Declare({Current.name}, None, Id(Current))
    /\ uses' = uses \cup NamesIID("pinterfaces", Current.ref)
           \cup Names("pinterfaces", {j \in scratch : j.as = "element"})
           \cup UNION {NamesIID("pinterfaces", i.ref) : i \in {j \in scratch : j.as = "sibling"}}
    /\ imports' = imports \cup Imports("pinterfaces", scratch)
    /\ NextUnit
    /\ UNCHANGED <<meta, claimed, typeNames, requestVars, methods, diags>>

-----------------------------------------------------------------------------
Finish ==
    \/ DeclareType \/ DeclareValue \/ DeclareMethod \/ DeclareClass \/ DropWithClass
    \/ DeclareQuery \/ DeclareStatics \/ DeclareFactory \/ BuildInstantiation
    \/ AttachAwait \/ ClaimCollectionCtor \/ DeclareCollectionCtor

Next ==
    \/ ResolveDeclared \/ RequestInstantiation \/ ReuseHandler \/ BeginHandler
    \/ BindHandler \/ Skip
    \/ Finish

\* One run of the generator; nothing else can stop it.
Fairness == WF_vars(Next)

Spec == Init /\ [][Next]_vars /\ Fairness

Done == agenda = <<>> /\ queue = <<>>

-----------------------------------------------------------------------------
(* Properties.                                                             *)

TypeOK ==
    /\ agenda \in Seq(UnitsOf(Kinds \cup {"siblings"}))
    /\ scratch \subseteq Items
    /\ binding \in Delegates \cup {None}
    /\ inner \in Seq(Refs)
    /\ typeNames \subseteq claimed
    /\ \A e \in instances : e[2] \in Instances /\ e = <<Mangled[e[2]], e[2]>>
    /\ queue \in Seq(Instances)
    /\ \A e \in handlers : e[2] \in Delegates /\ e = <<Mangled[e[2]], e[2]>>
    /\ IsFiniteSet(methods)

\* No identifier is declared twice in the package, and no method twice on a type:
\* types, IID variables, enum members, constructors, accessors, handlers and
\* instantiations all draw on one set of names, and some claim late.
UniqueNames ==
    /\ \A d, e \in declared : d.name = e.name => d = e
    /\ \A m, n \in methods : m.owner = n.owner /\ m.name = n.name => m = n

\* A mangled name means one type, although the namespaces of the arguments are not
\* in it: whoever names an instantiation or a handler means the one that has the
\* name (pinterfaces.go, requestInstantiation; events.go, requestEventDelegate).
NoAliases ==
    /\ \A e, f \in instances : e[1] = f[1] => e = f
    /\ \A e, f \in handlers : e[1] = f[1] => e = f
    /\ \A i \in scratch :
        /\ i.ref.kind = "instance" => <<Mangled[i.ref], i.ref>> \in instances
        /\ i.ref.kind = "delegate" => <<Mangled[i.ref], i.ref>> \in handlers

\* The generated package compiles: when it is complete, every identifier a file
\* names is declared with the meaning the file has in mind, and every package it
\* names is imported by that file, also where a wrapper restates a signature.
NamesResolve ==
    Done => \A u \in uses :
        IF u.ref.kind = "interface" /\ u.ref.ns # Home
            THEN [file |-> u.file, ns |-> u.ref.ns] \in imports
            ELSE \E d \in declared : d.name = u.name /\ d.ref = u.ref

\* What there is to generate: the metadata's units, and those of each instantiation.
Offered == ToSet(Agenda(meta)) \cup UNION {ToSet(InstanceUnits(e[2])) : e \in instances}

\* Whatever the metadata offers is generated, or a diagnostic says it was not: each
\* slot of each interface and instantiation, each member, function and class.
NothingIsLostSilently ==
    Done => \A u \in Offered :
        \/ u.kind \in {"await", "element"}
        \/ Id(u) \in diags \cup {d.by : d \in declared} \cup {m.by : m \in methods}
        \/ u.kind \in {"ctor", "query"} /\ ~Emitted(u.owner)

\* The queue is drained in the end, whatever each instantiation requests.
ReachesFixedPoint == <>Done

\* What makes UniqueNames inductive: whoever is still to declare a name holds it
\* already, and nobody else declares it in the meantime.
NamesAreHeld ==
    /\ \A d \in declared : d.name \in claimed \ typeNames
    /\ \A e \in instances : e[1] \in claimed \ typeNames
    /\ \A e \in handlers : e[1] \in claimed
    /\ \A i \in DOMAIN queue :
        /\ <<Mangled[queue[i]], queue[i]>> \in instances
        /\ \A d \in declared : d.name # Mangled[queue[i]]
        /\ \A j \in DOMAIN queue : Mangled[queue[i]] = Mangled[queue[j]] => i = j
    /\ binding # None => /\ HandlerNames(binding) \cap claimed = {}
                         /\ agenda # <<>> /\ Current.items # <<>>
                         /\ Head(Current.items).ref = binding
    /\ \A i \in 2..Len(agenda) : agenda[i].kind # "siblings"
    /\ agenda # <<>> /\ Current.kind = "siblings" =>
        /\ Current.name \in claimed \ typeNames
        /\ \A d \in declared : d.name # Current.name
        /\ \A e \in instances : e[1] # Current.name

IInv == TypeOK /\ UniqueNames /\ NoAliases /\ NamesAreHeld

\* The names an interface, an instantiation or a handler is known by.
NamesOf(ref) ==
    IF ref.kind = "delegate" THEN HandlerNames(ref)
    ELSE {Mangled[ref]} \cup (IF ref.kind = "instance" \/ HasIID(ref) THEN {IID(ref)} ELSE {})
IsExternal(ref) == ref.kind = "interface" /\ ref.ns # Home

\* A name has its meaning already, or what will declare it is on the agenda or in the
\* queue.
Upcoming == {u \in ToSet(agenda) : u.kind = "interface"}
Promised(name, ref) ==
    \/ \E d \in declared : d.name = name /\ d.ref = ref
    \/ name \in NamesOf(ref) /\ ref \in ToSet(queue) \cup {u.ref : u \in Upcoming}
Usable(ref) ==
    ref.kind = "native" \/ IsExternal(ref) \/ \A name \in NamesOf(ref) : Promised(name, ref)

UseIsMet(u) ==
    IF IsExternal(u.ref) THEN [file |-> u.file, ns |-> u.ref.ns] \in imports
    ELSE Promised(u.name, u.ref)

\* What makes NamesResolve inductive: what a file names is promised, and so is
\* whatever a unit may come to name from what it, or a method, has resolved.
EveryUseIsMet ==
    /\ \A u \in uses : UseIsMet(u)
    /\ \A i \in scratch : Usable(i.ref)
    /\ \A m \in methods : \A i \in m.items : Usable(i.ref)
    /\ \A e \in instances \cup handlers : Usable(e[2])
    /\ \A i \in DOMAIN meta.interfaces : Usable(meta.interfaces[i].ref)
    /\ \A u \in ToSet(agenda) :
        u.kind \in {"element", "siblings"} => u.ref.kind = "instance" /\ Usable(u.ref)

\* Nobody takes the IID variable of a type or an instantiation that is still to come.
IIDsAreFree ==
    /\ \A r \in ToSet(queue) : IID(r) \notin claimed
    /\ \A u \in Upcoming : u.name \in typeNames => IID(u.ref) \notin claimed

\* The units on the agenda are as they were made, but for what the first has resolved.
AgendaIsFormed ==
    /\ \A i \in DOMAIN agenda : WellFormed(agenda[i])
    /\ \A i \in 2..Len(agenda) : AsksForTarget(agenda[i])
    /\ agenda # <<>> =>
        \/ AsksForTarget(Current)
        \/ Current.items = <<>> /\ \E i \in scratch : i.ref = Target(Current)
    /\ \A i \in DOMAIN agenda : agenda[i].kind \in {"ctor", "query"} =>
        \A j \in DOMAIN agenda :
            agenda[j].kind = "class" /\ agenda[j].name = agenda[i].owner => j < i

\* Every unit that was offered is still to come, or has left its trace: what makes
\* NothingIsLostSilently inductive.
ToCome(u) ==
    \/ \E v \in ToSet(agenda) : Id(v) = Id(u)
    \/ \E r \in ToSet(queue) : u \in ToSet(InstanceUnits(r))
Accounted(u) ==
    \/ u.kind \in {"await", "element"}
    \/ Id(u) \in diags \cup {d.by : d \in declared} \cup {m.by : m \in methods}
    \/ /\ u.kind \in {"ctor", "query"} /\ ~Emitted(u.owner)
       /\ \A v \in ToSet(agenda) : ~(v.kind = "class" /\ v.name = u.owner)
NothingIsMislaid == \A u \in Offered : ToCome(u) \/ Accounted(u)

\* Only emitted members pull anything into the package: an instantiation is
\* "referenced by an otherwise-emittable member" (pinterfaces.go:3), and "skipped
\* members never pull a namespace in" (generator.go:69).
SkippedMembersPullNothing ==
    Done => \A e \in instances : \E u \in uses : u.ref = e[2]
=============================================================================

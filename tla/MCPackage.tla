----------------------------- MODULE MCPackage -----------------------------
(***************************************************************************)
(* Finite instances of Package: a namespace App that chooses its members,  *)
(* its classes and an enum from a few that meet in names, in instantiations *)
(* and in imports.                                                         *)
(***************************************************************************)
EXTENDS Package

CONSTANT MembersBound  \* how many of the members below IWidget has at most

Ref(kind, ns, name, args) ==
    [kind |-> kind, ns |-> ns, name |-> name, args |-> args, index |-> 0]

String == Ref("native", "", <<"String">>, <<>>)
Array == Ref("array", "", <<"Array">>, <<>>)
Param(i) == [Ref("param", "", <<"T">>, <<>>) EXCEPT !.index = i]
Interface(ns, name) == Ref("interface", ns, <<"I", name>>, <<>>)

Widget == Interface("App", "Widget")
WidgetElsewhere == Interface("Parts", "Widget")
Far == Interface("Far", "Thing")          \* across a severed import
Plain == Interface("Parts", "Plain")      \* without a [Guid]
Info == Interface("Foundation", "AsyncInfo")
WidgetFactory == Interface("App", "WidgetFactory")
WidgetStatics == Interface("App", "WidgetStatics")
Named == Ref("interface", "App", <<"I", "Vector", "Of", "String">>, <<>>)

Elements == {String, Widget, WidgetElsewhere, Far, Plain}

Open(name, args) == Ref("instance", "Collections", <<"I", name>>, args)
Vector(e) == Open("Vector", <<e>>)
View(e) == Open("View", <<e>>)
Iterator(e) == Open("Iterator", <<e>>)
Operation(e) == Open("Operation", <<e>>)

Completed(e) == Ref("delegate", "Foundation", <<"Completed">>, <<e>>)
Changed(e) == Ref("delegate", "Foundation", <<"Changed">>, <<e>>)
Filled == Ref("delegate", "App", <<"Filled">>, <<>>)

Method(name, returns, params) ==
    [name |-> <<name>>, returns |-> returns, params |-> params, event |-> FALSE]
AddEvent(name, delegate) ==
    [name |-> <<"Add", name>>, returns |-> None, params |-> <<delegate>>, event |-> TRUE]

T == Param(1)
MCOpens ==
    [n \in {<<"I", "Vector">>, <<"I", "View">>, <<"I", "Iterator">>, <<"I", "Operation">>} |->
        CASE n[2] = "Vector" -> <<Method("GetAt", T, <<>>), Method("GetView", View(T), <<>>)>>
          [] n[2] = "View" -> <<Method("GetAt", T, <<>>), Method("Split", None, <<View(T)>>)>>
          [] n[2] = "Iterator" -> <<Method("Current", T, <<>>)>>
          [] n[2] = "Operation" -> <<Method("SetCompleted", None, <<Completed(T)>>),
                                     Method("GetCompleted", Completed(T), <<>>),
                                     Method("GetResults", T, <<>>)>>]

MCInvokes ==
    [n \in {<<"Completed">>, <<"Changed">>, <<"Filled">>} |->
        CASE n = <<"Completed">> -> <<Operation(T)>>
          [] n = <<"Changed">> -> <<T>>
          [] n = <<"Filled">> -> <<Vector(String), Array>>]

MCSiblings ==
    [n \in {<<"I", "Vector">>, <<"I", "View">>} |->
        IF n[2] = "Vector" THEN <<<<"I", "Iterator">>, <<"I", "View">>>>
        ELSE <<<<"I", "Iterator">>>>]

MCRefs ==
    LET leaves == Elements \cup {Array, T, Info, WidgetFactory, WidgetStatics, Named, Filled}
        generic == {Vector(e) : e \in leaves} \cup {View(e) : e \in leaves}
            \cup {Iterator(e) : e \in leaves} \cup {Operation(e) : e \in leaves}
            \cup {Completed(e) : e \in leaves} \cup {Changed(e) : e \in leaves}
    IN  leaves \cup generic \cup {Operation(Vector(String)), Completed(Vector(String))}

MCAsyncOpens == {<<"I", "Operation">>}
MCUnguided == {Plain}

-----------------------------------------------------------------------------
\* The members IWidget may have.
Members == <<
    Method("Parts", Vector(Widget), <<>>),
    Method("Parts", Vector(WidgetElsewhere), <<>>),
    Method("Names", Vector(String), <<Array>>),
    Method("Load", Operation(Vector(String)), <<>>),
    AddEvent("Changed", Changed(WidgetElsewhere)),
    Method("OnChanged", Far, <<Changed(Widget)>>),
    AddEvent("Filled", Filled),
    Method("Named", Named, <<>>)>>

Declared(ref, ms) == [ref |-> ref, methods |-> ms]

Class(name, default, interfaces, factories) ==
    [name |-> <<name>>, default |-> default, direct |-> TRUE, interfaces |-> interfaces,
     statics |-> <<>>, factories |-> factories]

StaticsOnly ==
    [name |-> <<"WidgetStatics">>, default |-> None, direct |-> FALSE, interfaces |-> <<>>,
     statics |-> <<WidgetStatics, Plain>>, factories |-> <<>>]

FactoryMethods == <<
    Method("Create", Widget, <<WidgetElsewhere, Changed(WidgetElsewhere)>>),
    Method("Create", Widget, <<Vector(WidgetElsewhere)>>),
    Method("Other", WidgetElsewhere, <<>>)>>

Factory(slot) ==
    [interface |-> WidgetFactory, name |-> FactoryMethods[slot].name, slot |-> slot]

WidgetClasses == {
    Class("Widget", Widget, <<Plain, View(String), View(WidgetElsewhere)>>,
          <<Factory(1), Factory(2), Factory(3)>>),
    Class("Widget", Far, <<View(String)>>, <<Factory(1)>>),
    Class("Widget", Plain, <<>>, <<>>)}

Enums == {
    <<>>,
    <<[name |-> <<"Create">>, members |-> <<<<"Widget">>, <<"Widget", "1">>>>]>>,
    <<[name |-> <<"New">>, members |-> <<<<"Widget">>>>]>>}

Choose(chosen, s) ==
    LET RECURSIVE Pick(_)
        Pick(i) == IF i > Len(s) THEN <<>>
                   ELSE (IF i \in chosen THEN <<s[i]>> ELSE <<>>) \o Pick(i + 1)
    IN  Pick(1)

MCMetadata ==
    {[enums |-> e,
      interfaces |->
          (IF named THEN <<Declared(Named, <<>>)>> ELSE <<>>)
          \o <<Declared(Widget, Choose(chosen, Members)),
               Declared(WidgetFactory, FactoryMethods),
               Declared(WidgetStatics, <<>>)>>,
      classes |-> <<c, StaticsOnly>>] :
        e \in Enums, named \in BOOLEAN, c \in WidgetClasses,
        chosen \in {x \in SUBSET DOMAIN Members : Cardinality(x) <= MembersBound}}
=============================================================================

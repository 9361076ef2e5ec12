------------------------------- MODULE Await -------------------------------
(***************************************************************************)
(* The generated Await of an asynchronous operation                        *)
(* (internal/codegen/emit/winrt/render/templates/interfaces.tmpl, with     *)
(* bindings/runtime/winrt/async.go and query.go): it assigns a Completed   *)
(* handler that sends the terminal status on a channel of its own, waits   *)
(* for it, and asks for the results or for the error code.                 *)
(*                                                                         *)
(* The operation is the operating system's.  It takes one handler, ever,   *)
(* and invokes it once: on a thread of its own when it ends, or, if it has *)
(* ended already, during the assignment on the assigning thread or soon    *)
(* after on its own.  What it does to the handler's count goes through the *)
(* dispatcher's worker (module Dispatch), which is taken while an Await is *)
(* made by a Method body.  A handler is registered as long as somebody     *)
(* holds it (module Delegate).                                             *)
(***************************************************************************)
EXTENDS FiniteSets

CONSTANTS
    Awaits,     \* the calls of Await on the operation
    OnWorker,   \* those made by a Method body, on the worker
    Styles,     \* whether the operation references a handler before invoking it
    None

Ends == {"Completed", "Canceled", "Error"}
Outcomes == {"refused", "results", "error"}

ASSUME AwaitAssumption ==
    /\ OnWorker \subseteq Awaits
    /\ Styles \subseteq BOOLEAN
    /\ None \notin Awaits \cup Ends \cup Outcomes

VARIABLES
    await,       \* where each Await stands
    channel,     \* what its channel's buffer holds
    received,    \* the status it received
    outcome,     \* what it returns
    held,        \* who holds its handler
    status,      \* the operation's AsyncStatus
    assigned,    \* the Await whose handler the operation was given
    firing,      \* how far the operation has come with invoking it
    style        \* whether the operation references the handler first

vars == <<await, channel, received, outcome, held, status, assigned, firing, style>>
operationVars == <<status, assigned, firing, style>>

TypeOK ==
    /\ await \in [Awaits -> {"unused", "made", "setting", "waiting", "woken",
                             "closing", "returned"}]
    /\ channel \in [Awaits -> Ends \cup {None}]
    /\ received \in [Awaits -> Ends \cup {None}]
    /\ outcome \in [Awaits -> Outcomes \cup {None}]
    /\ held \in [Awaits -> SUBSET {"owner", "operation", "invoker"}]
    /\ status \in Ends \cup {"Started"}
    /\ assigned \in Awaits \cup {None}
    /\ firing \in {"no", "referenced", "invoked", "running", "sent", "done"}
    /\ style \in BOOLEAN

Init ==
    /\ await = [a \in Awaits |-> "unused"]
    /\ channel = [a \in Awaits |-> None]
    /\ received = [a \in Awaits |-> None]
    /\ outcome = [a \in Awaits |-> None]
    /\ held = [a \in Awaits |-> {}]
    /\ status = "Started"
    /\ assigned = None
    /\ firing = "no"
    /\ style \in Styles

Registered(a) == held[a] # {}

\* A body that awaits keeps the worker until Await returns.
WorkerFree == \A a \in OnWorker : await[a] \in {"unused", "returned"}

Moves(a, from, to) == await[a] = from /\ await' = [await EXCEPT ![a] = to]

-----------------------------------------------------------------------------
(* Await.                                                                  *)

\* make(chan AsyncStatus, 1) and the handler, with its owner's reference.  A body
\* that is to await has the worker to itself.
Make(a) ==
    /\ a \in OnWorker => WorkerFree
    /\ Moves(a, "unused", "made")
    /\ held' = [held EXCEPT ![a] = {"owner"}]
    /\ UNCHANGED <<channel, received, outcome, operationVars>>

\* put_Completed accepts a single assignment.
SetCompletedRefused(a) ==
    /\ assigned # None
    /\ Moves(a, "made", "closing")
    /\ outcome' = [outcome EXCEPT ![a] = "refused"]
    /\ UNCHANGED <<channel, received, held, operationVars>>

\* put_Completed keeps a reference, made on the calling thread.  The handler of an
\* operation that has ended may be invoked before it returns.
SetCompleted(a) ==
    /\ assigned = None
    /\ a \in OnWorker \/ WorkerFree
    /\ \/ Moves(a, "made", "waiting")
       \/ status # "Started" /\ Moves(a, "made", "setting")
    /\ assigned' = a
    /\ held' = [held EXCEPT ![a] = @ \cup {"operation"}]
    /\ UNCHANGED <<channel, received, outcome, status, firing, style>>

SetCompletedReturns(a) ==
    /\ firing = "done"
    /\ Moves(a, "setting", "waiting")
    /\ UNCHANGED <<channel, received, outcome, held, operationVars>>

\* status := <-completion
Receive(a) ==
    /\ channel[a] # None
    /\ Moves(a, "waiting", "woken")
    /\ received' = [received EXCEPT ![a] = channel[a]]
    /\ channel' = [channel EXCEPT ![a] = None]
    /\ UNCHANGED <<outcome, held, operationVars>>

\* Mistake: the results are asked for whatever the status.
ConcludeBlindly(a) ==
    /\ Moves(a, "woken", "closing")
    /\ outcome' = [outcome EXCEPT ![a] = "results"]
    /\ UNCHANGED <<channel, received, held, operationVars>>

\* GetResults, or the error code through IAsyncInfo, or the error of that query.
Conclude(a) ==
    /\ Moves(a, "woken", "closing")
    /\ outcome' = [outcome EXCEPT ![a] =
                      IF received[a] = "Completed" THEN "results" ELSE "error"]
    /\ UNCHANGED <<channel, received, held, operationVars>>

\* Mistake: only an Await that was woken closes its handler.
CloseIfWoken(a) ==
    /\ Moves(a, "closing", "returned")
    /\ held' = [held EXCEPT ![a] = IF received[a] = None THEN @ ELSE @ \ {"owner"}]
    /\ UNCHANGED <<channel, received, outcome, operationVars>>

\* defer handler.Close(), on every path: the owner's Release bypasses the worker.
Close(a) ==
    /\ Moves(a, "closing", "returned")
    /\ held' = [held EXCEPT ![a] = @ \ {"owner"}]
    /\ UNCHANGED <<channel, received, outcome, operationVars>>

-----------------------------------------------------------------------------
(* The operation, and the handler it invokes.                              *)

End(s) ==
    /\ status = "Started"
    /\ status' = s
    /\ UNCHANGED <<await, channel, received, outcome, held, assigned, firing, style>>

Due == assigned # None /\ status # "Started"

\* A call the operation makes on the handler's count: nested in put_Completed it
\* arrives on the thread that awaits, otherwise it has to wait for the worker.
CountCall == await[assigned] = "setting" \/ WorkerFree

Reference ==
    /\ Due /\ firing = "no" /\ style
    /\ CountCall
    /\ held' = [held EXCEPT ![assigned] = @ \cup {"invoker"}]
    /\ firing' = "referenced"
    /\ UNCHANGED <<await, channel, received, outcome, status, assigned, style>>

Invoke ==
    /\ Due /\ firing = IF style THEN "referenced" ELSE "no"
    /\ firing' = "invoked"
    /\ UNCHANGED <<await, channel, received, outcome, held, status, assigned, style>>

\* The lookup on the handler's goroutine: E_FAIL, or the body.
Lookup ==
    /\ firing = "invoked"
    /\ firing' = IF Registered(assigned) THEN "running" ELSE "sent"
    /\ UNCHANGED <<await, channel, received, outcome, held, status, assigned, style>>

\* Mistake: the channel has no buffer, so that sender and receiver meet.
SendUnbuffered ==
    /\ firing = "running"
    /\ await[assigned] = "waiting"
    /\ channel' = [channel EXCEPT ![assigned] = status]
    /\ firing' = "sent"
    /\ UNCHANGED <<await, received, outcome, held, status, assigned, style>>

\* completion <- asyncStatus
Send ==
    /\ firing = "running"
    /\ channel[assigned] = None
    /\ channel' = [channel EXCEPT ![assigned] = status]
    /\ firing' = "sent"
    /\ UNCHANGED <<await, received, outcome, held, status, assigned, style>>

\* Invoke has returned; the reference made for it and the one kept are released,
\* and put_Completed returns without waiting for that.
InvokeReturns ==
    /\ firing = "sent"
    /\ firing' = "done"
    /\ UNCHANGED <<await, channel, received, outcome, held, status, assigned, style>>

ReleaseHandler ==
    /\ firing = "done"
    /\ held[assigned] \cap {"operation", "invoker"} # {}
    /\ CountCall
    /\ held' = [held EXCEPT ![assigned] = @ \ {"operation", "invoker"}]
    /\ UNCHANGED <<await, channel, received, outcome, operationVars>>

-----------------------------------------------------------------------------
AwaitStep(a) ==
    \/ SetCompletedRefused(a) \/ SetCompleted(a) \/ SetCompletedReturns(a)
    \/ Receive(a) \/ Conclude(a) \/ Close(a)

FireStep == Reference \/ Invoke \/ Lookup \/ Send \/ InvokeReturns \/ ReleaseHandler

Next ==
    \/ \E a \in Awaits : Make(a) \/ AwaitStep(a)
    \/ \E s \in Ends : End(s)
    \/ FireStep

\* An Await that has begun goes on, and so does the invocation of the handler.  An
\* operation need not end: Await has no timeout.
Fairness == WF_vars(FireStep) /\ \A a \in Awaits : WF_vars(AwaitStep(a))

Spec == Init /\ [][Next]_vars /\ Fairness

-----------------------------------------------------------------------------
(* Properties.                                                             *)

\* What Await returns is what became of the operation: results only of a completed
\* one, an error code only of one that was not, and a refusal if another Await has
\* the handler; nobody is woken without the operation having ended.
ReportsTheEnd ==
    \A a \in Awaits :
        /\ received[a] # None => received[a] = status /\ assigned = a
        /\ outcome[a] = "results" => status = "Completed" /\ assigned = a
        /\ outcome[a] = "error" => status \in {"Canceled", "Error"} /\ assigned = a
        /\ outcome[a] = "refused" => assigned \notin {a, None}

\* A completed operation cannot deadlock Await (async.go:104): once the operation
\* has ended, whether before, during or after the assignment, every Await returns.
EveryAwaitReturns ==
    \A a \in Awaits : await[a] # "unused" /\ status # "Started" ~> await[a] = "returned"

\* No handler stays in the registry for good: not that of a refused Await, nor that
\* of one that returned while the operation was still inside Invoke.
HandlersAreLetGo ==
    \A a \in Awaits : await[a] = "closing" ~> held[a] = {}

\* What makes ReportsTheEnd inductive: the status travels once, from the operation
\* through the channel of the one Await whose handler it was given.
TravelsOnce ==
    /\ assigned = None => firing = "no"
    /\ firing # "no" => status # "Started"
    /\ \A a \in Awaits :
        /\ assigned = a => await[a] \in {"setting", "waiting", "woken", "closing", "returned"}
        /\ await[a] \in {"setting", "waiting", "woken"} => assigned = a
        /\ channel[a] # None => /\ assigned = a /\ channel[a] = status
                                /\ received[a] = None /\ firing \in {"sent", "done"}
        /\ received[a] # None => firing \in {"sent", "done"}
        /\ await[a] \in {"unused", "made", "setting", "waiting"}
            => received[a] = None /\ outcome[a] = None
        /\ await[a] = "woken" => received[a] # None /\ outcome[a] = None
        /\ assigned # a => channel[a] = None /\ received[a] = None

\* The handler is there whenever the operation invokes it, whoever else let it go.
HandlerAwaitsInvoke ==
    /\ assigned # None /\ firing # "done" => "operation" \in held[assigned]
    /\ \A a \in Awaits : "owner" \in held[a] <=> await[a] \notin {"unused", "returned"}

IInv == TypeOK /\ ReportsTheEnd /\ TravelsOnce /\ HandlerAwaitsInvoke
=============================================================================

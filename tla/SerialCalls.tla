---------------------------- MODULE SerialCalls ----------------------------
(***************************************************************************)
(* What the dispatcher of Go-implemented objects promises, with no word of *)
(* mutexes, channels or threads: every call runs its body once and returns *)
(* what its own body answered, and the bodies of the serial lane run one   *)
(* at a time, a body being suspended while it waits for a call it made.    *)
(* The free lane is for event handlers, which get a goroutine each, and    *)
(* for bodies on the one thread the program has declared inline.           *)
(***************************************************************************)
EXTENDS FiniteSets

CONSTANTS Call,     \* the calls native code ever makes
          Answer,   \* what a body can answer
          NoCall    \* the caller of a call made by no body

VARIABLES phase,    \* how far each call has come
          lane,     \* the lane its body runs in
          caller,   \* the call whose body made it
          answered  \* what its caller got back, a pair of a body and its answer

vars == <<phase, lane, caller, answered>>

Waiting(c) == \E d \in Call : caller[d] = c /\ phase[d] \in {"asked", "runs", "ended"}

\* A body that is executing Go code of its own, not waiting for a call it made.
Executes(c) == phase[c] = "runs" /\ ~Waiting(c)

Init ==
    /\ phase = [c \in Call |-> "idle"]
    /\ lane = [c \in Call |-> "none"]
    /\ caller = [c \in Call |-> NoCall]
    /\ answered = [c \in Call |-> {}]

Ask(c) ==
    /\ phase[c] = "idle"
    /\ phase' = [phase EXCEPT ![c] = "asked"]
    /\ \E p \in {d \in Call : Executes(d)} \cup {NoCall} :
            caller' = [caller EXCEPT ![c] = p]
    /\ UNCHANGED <<lane, answered>>

Begin(c, l) ==
    /\ phase[c] = "asked"
    /\ l = "serial" => ~\E d \in Call : lane[d] = "serial" /\ Executes(d)
    /\ phase' = [phase EXCEPT ![c] = "runs"]
    /\ lane' = [lane EXCEPT ![c] = l]
    /\ UNCHANGED <<caller, answered>>

\* The body ends; its caller gets the answer in the same step or a later one.
End(c) ==
    /\ Executes(c)
    /\ \/ phase' = [phase EXCEPT ![c] = "ended"] /\ UNCHANGED answered
       \/ /\ phase' = [phase EXCEPT ![c] = "returned"]
          /\ \E a \in Answer : answered' = [answered EXCEPT ![c] = {<<c, a>>}]
    /\ UNCHANGED <<lane, caller>>

Return(c) ==
    /\ phase[c] = "ended"
    /\ phase' = [phase EXCEPT ![c] = "returned"]
    /\ \E a \in Answer : answered' = [answered EXCEPT ![c] = {<<c, a>>}]
    /\ UNCHANGED <<lane, caller>>

Next ==
    \E c \in Call :
        \/ Ask(c)
        \/ Begin(c, "serial") \/ Begin(c, "free")
        \/ End(c)
        \/ Return(c)

Spec == Init /\ [][Next]_vars
=============================================================================

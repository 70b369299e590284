------------------------------ MODULE EventLoop ------------------------------
(***************************************************************************)
(* What the message queue promises to its users: a loop that is open or    *)
(* closed, runs the tasks it accepted one at a time and in the order of    *)
(* their acceptance, drops tasks only as a whole batch, and is opened      *)
(* again only when nothing of the previous session is left.                *)
(***************************************************************************)
EXTENDS Naturals, Sequences

VARIABLES open, next, pending, busy, executed, dropped

loopVars == <<open, next, pending, busy, executed, dropped>>

Init ==
    /\ open = FALSE /\ next = 1 /\ pending = <<>> /\ busy = 0
    /\ executed = {} /\ dropped = {}

Open ==
    /\ ~open /\ pending = <<>> /\ busy = 0
    /\ open' = TRUE
    /\ UNCHANGED <<next, pending, busy, executed, dropped>>

Enqueue == pending' = Append(pending, next) /\ next' = next + 1

Accept ==
    /\ open
    /\ Enqueue
    /\ UNCHANGED <<open, busy, executed, dropped>>

Begin ==
    /\ busy = 0 /\ pending # <<>>
    /\ busy' = Head(pending) /\ pending' = Tail(pending)
    /\ UNCHANGED <<open, next, executed, dropped>>

\* A task that was begun is finished, whether or not the loop was closed.
End ==
    /\ busy # 0
    /\ executed' = executed \cup {busy} /\ busy' = 0
    /\ UNCHANGED <<open, next, pending, dropped>>

\* Closing may leave one last task behind everything that was accepted.
Close ==
    /\ open /\ open' = FALSE
    /\ \/ Enqueue
       \/ UNCHANGED <<pending, next>>
    /\ UNCHANGED <<busy, executed, dropped>>

DropAll ==
    /\ pending' = <<>>
    /\ dropped' = dropped \cup {pending[i] : i \in 1..Len(pending)}
    /\ UNCHANGED <<open, next, busy, executed>>

Next == Open \/ Accept \/ Begin \/ End \/ Close \/ DropAll

Spec == Init /\ [][Next]_loopVars
=============================================================================

---------------------------- MODULE PollDispatch ----------------------------
(***************************************************************************)
(* What the poll section of the library promises an application: at most   *)
(* MaxFds descriptors are registered, each with one handler; a round of    *)
(* the event loop collects registered handlers that have events and then   *)
(* runs each of them once, and only handlers that are still registered.    *)
(* How the list is kept, and in which order handlers run, is left open.    *)
(***************************************************************************)
EXTENDS Naturals, FiniteSets

CONSTANTS Fd,         \* descriptors
          Ctx,        \* callbacks with their contexts
          MaxFds,
          NoHandler

Handler == [fd : Fd, ctx : Ctx]

VARIABLES handlers,   \* the registered handlers
          due,        \* collected in this round and not yet run
          serving     \* the handler that runs, or NoHandler

vars == <<handlers, due, serving>>

Init == handlers = {} /\ due = {} /\ serving = NoHandler

Register(h) ==
    /\ \A g \in handlers : g.fd # h.fd
    /\ Cardinality(handlers) < MaxFds
    /\ handlers' = handlers \cup {h}
    /\ UNCHANGED <<due, serving>>

(* While a round is under way only the running handler retires, itself.    *)
Unregister(h) ==
    /\ h \in handlers
    /\ h.fd = serving.fd \/ (due = {} /\ serving = NoHandler)
    /\ handlers' = handlers \ {h}
    /\ UNCHANGED <<due, serving>>

Collect ==
    /\ due = {} /\ serving = NoHandler
    /\ due' \in (SUBSET handlers) \ {{}}
    /\ UNCHANGED <<handlers, serving>>

Serve(h) ==
    /\ serving = NoHandler
    /\ h \in due \cap handlers
    /\ due' = due \ {h}
    /\ serving' = h
    /\ UNCHANGED handlers

Return ==
    /\ serving # NoHandler
    /\ serving' = NoHandler
    /\ UNCHANGED <<handlers, due>>

Next ==
    \/ \E h \in Handler : Register(h) \/ Unregister(h) \/ Serve(h)
    \/ Collect
    \/ Return

Spec == Init /\ [][Next]_vars
             /\ WF_vars(\E h \in Handler : Serve(h)) /\ WF_vars(Return)
=============================================================================

----------------------------- MODULE HttpService -----------------------------
(***************************************************************************)
(* What Engine promises to a client of one connection, before any bytes:   *)
(* routes are registered, then each request gets one answer, in order, of  *)
(* the handler registered last for its method and path, or 404.            *)
(***************************************************************************)
EXTENDS Naturals, Sequences

CONSTANTS
    Requests,     \* the requests a client may send
    Handlers,     \* the handlers an application may register
    Key(_),       \* the method and path of a request
    Keys,         \* the methods and paths that may be registered
    NotFound,     \* the handler of all other requests
    MaxRequests   \* a client sends at most so many

VARIABLES
    routes,   \* the registered handlers, a function on some of the keys
    running,  \* the engine runs
    sent,     \* the requests the client has sent
    answers   \* the handlers whose answers it has read

vars == <<routes, running, sent, answers>>

Init ==
    /\ routes = [k \in {} |-> CHOOSE h \in Handlers : TRUE]
    /\ running = FALSE
    /\ sent = <<>>
    /\ answers = <<>>

Register(k, h) ==
    /\ ~ running
    /\ routes' = [j \in DOMAIN routes \cup {k} |-> IF j = k THEN h ELSE routes[j]]
    /\ UNCHANGED <<running, sent, answers>>

Run ==
    /\ ~ running
    /\ running' = TRUE
    /\ UNCHANGED <<routes, sent, answers>>

(* The client waits for an answer before it sends the next request. *)
Ask(r) ==
    /\ running
    /\ Len(sent) = Len(answers)
    /\ Len(sent) < MaxRequests
    /\ sent' = Append(sent, r)
    /\ UNCHANGED <<routes, running, answers>>

Reply ==
    /\ Len(answers) < Len(sent)
    /\ LET k == Key(sent[Len(answers) + 1])
       IN  answers' = Append(answers, IF k \in DOMAIN routes THEN routes[k]
                                                            ELSE NotFound)
    /\ UNCHANGED <<routes, running, sent>>

Next ==
    \/ \E k \in Keys, h \in Handlers : Register(k, h)
    \/ Run
    \/ \E r \in Requests : Ask(r)
    \/ Reply

Spec == Init /\ [][Next]_vars /\ WF_vars(Reply)
=============================================================================

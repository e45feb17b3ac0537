---------------------------- MODULE ControlServer ----------------------------
(***************************************************************************)
(* The HTTP control server both node loops service once per pass: the       *)
(* listener and its cap, requests that arrive in pieces, the slow-client    *)
(* timeout, the dispatch to the node's hooks, and the statistics feed.      *)
(* Paths and bodies are reduced to the kind of request they make; a request *)
(* arrives in two pieces.  Clients act between any two passes.              *)
(***************************************************************************)
EXTENDS Integers, FiniteSets

CONSTANTS
    Clients,      \* each makes one request
    MaxConns,     \* kMaxConns
    TimeoutMs,    \* kRequestTimeoutMs, in passes of the loop
    MaxPasses

ASSUME ControlAssumption ==
    /\ IsFiniteSet(Clients)
    /\ MaxConns \in Nat \ {0} /\ TimeoutMs \in Nat /\ MaxPasses \in Nat

Reads == {"read", "absent_read", "unknown"}

Writes == {"write", "absent_write", "bad_body", "mistyped", "bad_method"}

Requests == Reads \cup Writes \cup {"stream", "malformed", "huge"}

VARIABLES
    client,   \* of each client: where its socket is, its request, pieces sent, what it was told
    conns,    \* conns_: of each connection, streaming, opened_ms and pieces read
    applied,  \* how often a hook changed the node for a client
    passes,   \* the loop's clock
    serving   \* no exception has unwound the loop

csVars == <<client, conns, applied, passes, serving>>

CSInit ==
    /\ client \in [Clients -> [at : {"idle"}, asks : Requests, sent : {0}, told : {"nothing"}]]
    /\ conns = << >>
    /\ applied = [c \in Clients |-> 0]
    /\ passes = 0
    /\ serving = TRUE

Conns == DOMAIN conns

-----------------------------------------------------------------------------
(* The clients and the socket layer *)

ClientConnects(c) ==
    /\ client[c].at = "idle"
    /\ client' = [client EXCEPT ![c].at = "backlog"]
    /\ UNCHANGED <<conns, applied, passes, serving>>

ClientSends(c) ==
    /\ client[c].at \in {"backlog", "open"} /\ client[c].sent < 2
    /\ client' = [client EXCEPT ![c].sent = @ + 1]
    /\ UNCHANGED <<conns, applied, passes, serving>>

ClientHangsUp(c) ==
    /\ client[c].at = "open"
    /\ client' = [client EXCEPT ![c].at = "gone"]
    /\ UNCHANGED <<conns, applied, passes, serving>>

-----------------------------------------------------------------------------
(* dispatch *)

\* The GET half: a hook's body, or 503, 409, 404.
ReadAnswer(asks) ==
    IF asks = "read" THEN {[says |-> "ok", applies |-> 0], [says |-> "refused", applies |-> 0]}
                     ELSE {[says |-> "refused", applies |-> 0]}

\* The POST half: 405, 400 for a body that does not parse, 409 without a hook;
\* a hook accepts or refuses.  A field read with value() throws when its type
\* is wrong, one that is type-checked first answers 400.
WriteAnswer(asks) ==
    CASE asks = "write" -> {[says |-> "ok", applies |-> 1], [says |-> "refused", applies |-> 0]}
      [] asks = "mistyped" -> {[says |-> "refused", applies |-> 0], [says |-> "throws", applies |-> 0]}
      [] OTHER -> {[says |-> "refused", applies |-> 0]}

Answers(asks) ==
    CASE asks \in Reads -> ReadAnswer(asks)
      [] asks \in Writes -> WriteAnswer(asks)
      [] asks = "stream" -> {[says |-> "stream", applies |-> 0]}
      [] OTHER -> {[says |-> "refused", applies |-> 0]}

-----------------------------------------------------------------------------
(* service *)

\* A plausible slip: the body is not waited for.
WholeHead(c) == client[c].sent >= 1

\* The whole request is in: service_conn waits for headers, then for the body.
\* A request too large is refused when the excess arrives.
Whole(c) == client[c].sent = 2

\* What poll reports: unread data, or a peer that is gone.
Ready(c) == client[c].sent > conns[c].read \/ client[c].at = "gone"

\* recv returns data first, 0 only when none is left.
PeerClosed(c) == Ready(c) /\ client[c].sent = conns[c].read

\* service_conn gets as far as dispatch (or its own 400).
Dispatched(c) == Ready(c) /\ ~PeerClosed(c) /\ ~conns[c].streaming /\ Whole(c)

\* A plausible slip: the time-out also ends the statistics feeds.
TooSlowAny(c) == ~Ready(c) /\ passes - conns[c].opened > TimeoutMs

TooSlow(c) == ~Ready(c) /\ ~conns[c].streaming /\ passes - conns[c].opened > TimeoutMs

\* accept_new: as many of the pending as fit, the others are closed.
Accepts(taken, shed) ==
    /\ taken \cup shed = {c \in Clients : client[c].at = "backlog"}
    /\ taken \cap shed = {}
    /\ Cardinality(Conns) + Cardinality(taken) <= MaxConns
    /\ shed # {} => Cardinality(Conns) + Cardinality(taken) = MaxConns

\* The connections answered, those that become feeds, and those closed in a pass.
Answered(ans) == DOMAIN ans
Feeds(ans) == {c \in Answered(ans) : ans[c].says = "stream"}
Closed(ans) ==
    {c \in Conns : PeerClosed(c) \/ TooSlow(c)} \cup (Answered(ans) \ Feeds(ans))

\* A client after the pass; a reply may be cut by a full socket buffer.
ClientAfter(c, taken, shed, ans, cut) ==
    LET k == client[c]
    IN IF c \in shed \/ (c \in Conns /\ TooSlow(c))
       THEN [k EXCEPT !.at = "closed", !.told = IF k.told = "nothing" THEN "closed" ELSE k.told]
       ELSE IF c \in taken THEN [k EXCEPT !.at = "open"]
       ELSE IF c \in Feeds(ans) THEN [k EXCEPT !.told = "stream"]
       ELSE IF c \in Answered(ans)
       THEN [k EXCEPT !.at = "closed",
                      !.told = IF c \in cut /\ ans[c].says # "throws" THEN "cut" ELSE ans[c].says]
       ELSE k

ConnAfter(c, taken, ans) ==
    IF c \in taken THEN [streaming |-> FALSE, opened |-> passes, read |-> 0]
    ELSE [conns[c] EXCEPT !.streaming = conns[c].streaming \/ c \in Feeds(ans),
                          !.read = client[c].sent]

\* One pass: poll, accept, then every connection that was there at the poll; a
\* socket is closed after its reply.
Serves(taken, shed, ans, cut) ==
    /\ \A c \in Answered(ans) : ans[c] \in Answers(client[c].asks)
    /\ client' = [c \in Clients |-> ClientAfter(c, taken, shed, ans, cut)]
    /\ conns' = [c \in (Conns \ Closed(ans)) \cup taken |-> ConnAfter(c, taken, ans)]
    /\ applied' = [c \in Clients |->
          applied[c] + (IF c \in Answered(ans) THEN ans[c].applies ELSE 0)]
    /\ serving' = (\A c \in Answered(ans) : ans[c].says # "throws")

Service ==
    /\ serving /\ passes < MaxPasses
    /\ \E taken, shed \in SUBSET Clients :
       /\ Accepts(taken, shed)
       /\ \E ans \in [{c \in Conns : Dispatched(c)} ->
                         [says : {"ok", "refused", "stream", "throws"}, applies : {0, 1}]],
             cut \in SUBSET {c \in Conns : Dispatched(c) /\ client[c].asks # "stream"} :
             Serves(taken, shed, ans, cut)
    /\ passes' = passes + 1

\* publish_stats: a feed whose peer is gone fails its send and is released.
Publish ==
    /\ serving
    /\ \E dead \in SUBSET {c \in Conns : conns[c].streaming /\ client[c].at = "gone"} :
        /\ dead # {}
        /\ conns' = [c \in Conns \ dead |-> conns[c]]
    /\ UNCHANGED <<client, applied, passes, serving>>

CSNext ==
    \/ \E c \in Clients : ClientConnects(c) \/ ClientSends(c) \/ ClientHangsUp(c)
    \/ Service
    \/ Publish

CSSpec == CSInit /\ [][CSNext]_csVars

-----------------------------------------------------------------------------
\* A hook runs at most once for a request and only for a whole one; a client
\* told ok had its change made, and one told no, or closed without an answer
\* (shed or timed out), had none (service_conn, dispatch, reply).
AnswersTrue ==
    \A c \in Clients :
        /\ applied[c] <= 1
        /\ applied[c] = 1 => client[c].sent = 2 /\ client[c].told \in {"ok", "cut"}
        /\ client[c].told = "ok" /\ client[c].asks = "write" => applied[c] = 1

\* No more than kMaxConns slots are taken; a connection that is not a feed keeps
\* its slot at most one read beyond the timeout; a feed keeps it until its
\* client is gone.
SlotsSound ==
    /\ Cardinality(Conns) <= MaxConns
    /\ \A c \in Conns : ~conns[c].streaming => passes - conns[c].opened <= TimeoutMs + 2
    /\ \A c \in Clients : client[c].told = "stream" =>
        /\ client[c].at # "closed"
        /\ client[c].at = "open" => c \in Conns

\* The control server keeps its promises to clients and to the loop.
ServerSound == AnswersTrue /\ SlotsSound
=============================================================================

---------------------------- MODULE CommandProofs ----------------------------
(***************************************************************************)
(* The operator's way to the craft: what the control server promises its    *)
(* clients, and what a command campaign promises the operator.              *)
(***************************************************************************)
EXTENDS ControlServer, VehicleCmd, FiniteSetTheorems, SequenceTheorems, TLAPS

-----------------------------------------------------------------------------
(* The control server *)

Told == {"nothing", "ok", "refused", "stream", "throws", "cut", "closed"}
Peers == [at : {"idle", "backlog", "open", "gone", "closed"}, asks : Requests, sent : 0..2,
          told : Told]
Slots == [streaming : BOOLEAN, opened : Nat, read : 0..2]

CSTypeOK ==
    /\ client \in [Clients -> Peers] /\ Conns \subseteq Clients /\ conns \in [Conns -> Slots]
    /\ applied \in [Clients -> Nat] /\ passes \in Nat /\ Cardinality(Conns) <= MaxConns

\* One client k, what hooks did for it, and its connection x if it has one, at pass P.  A
\* connection that is no feed has not been answered, and stays one read beyond the timeout.
ToldTrue(k, a) ==
    /\ a \in {0, 1}
    /\ a = 1 => k.sent = 2 /\ k.told \in {"ok", "cut"}
    /\ k.told = "ok" /\ k.asks = "write" => a = 1
    /\ k.told = "stream" => k.at # "closed"
Waiting(k, a, x, P) ==
    /\ k.at \in {"open", "gone"} /\ x.read <= k.sent /\ a = 0
    /\ IF x.streaming THEN k.told = "stream"
       ELSE k.told = "nothing" /\ x.read < 2 /\ P - x.opened <= TimeoutMs + 1 + x.read

ClientsSound ==
    \A c \in Clients :
        /\ ToldTrue(client[c], applied[c])
        /\ client[c].at \in {"idle", "backlog"} =>
              client[c].told = "nothing" /\ applied[c] = 0 /\ c \notin Conns
        /\ client[c].at = "open" => c \in Conns
        /\ c \in Conns => Waiting(client[c], applied[c], conns[c], passes)

CSInv == CSTypeOK /\ ClientsSound

\* What may be answered: a hook runs only for a write that is then told ok.
LEMMA AnswerFacts ==
  ASSUME NEW asks \in Requests, NEW r \in Answers(asks)
  PROVE  /\ r.applies \in {0, 1} /\ r.says \in {"ok", "refused", "stream", "throws"}
         /\ r.applies = 1 => r.says = "ok"
         /\ r.says = "ok" /\ asks = "write" => r.applies = 1
<1>1. asks \in Reads \/ asks \in Writes \/ asks \in {"stream", "malformed", "huge"}
  BY DEF Requests
<1>2. CASE asks \in Reads
  <2>1. Answers(asks) = ReadAnswer(asks) BY <1>2 DEF Answers, Reads, Writes
  <2>2. asks # "write" BY <1>2 DEF Reads
  <2> QED BY <2>1, <2>2 DEF ReadAnswer
<1>3. CASE asks \in Writes
  <2>1. Answers(asks) = WriteAnswer(asks) BY <1>3 DEF Answers, Reads, Writes
  <2>2. CASE asks = "write"
    <3>1. WriteAnswer(asks) = {[says |-> "ok", applies |-> 1], [says |-> "refused", applies |-> 0]}
      BY <2>2 DEF WriteAnswer
    <3> QED BY <2>1, <2>2, <3>1
  <2>3. CASE asks = "mistyped"
    <3>1. WriteAnswer(asks) = {[says |-> "refused", applies |-> 0], [says |-> "throws", applies |-> 0]}
      BY <2>3 DEF WriteAnswer
    <3> QED BY <2>1, <2>3, <3>1
  <2>4. CASE asks \notin {"write", "mistyped"}
    <3>1. WriteAnswer(asks) = {[says |-> "refused", applies |-> 0]} BY <2>4 DEF WriteAnswer
    <3> QED BY <2>1, <2>4, <3>1
  <2> QED BY <2>2, <2>3, <2>4
<1>4. CASE asks = "stream"
  <2>1. Answers(asks) = {[says |-> "stream", applies |-> 0]} BY <1>4 DEF Answers, Reads, Writes
  <2> QED BY <1>4, <2>1
<1>5. CASE asks \in {"malformed", "huge"}
  <2>1. Answers(asks) = {[says |-> "refused", applies |-> 0]} BY <1>5 DEF Answers, Reads, Writes
  <2> QED BY <1>5, <2>1
<1> QED BY <1>1, <1>2, <1>3, <1>4, <1>5

\* Slots that were taken by clients can be counted.
LEMMA SlotsCounted ==
  ASSUME NEW S \in SUBSET Clients, NEW T \in SUBSET S
  PROVE  IsFiniteSet(S) /\ Cardinality(S) \in Nat /\ Cardinality(T) <= Cardinality(S)
         /\ Cardinality(T) \in Nat
<1>1. IsFiniteSet(S) BY ControlAssumption, FS_Subset
<1>2. IsFiniteSet(T) /\ Cardinality(T) <= Cardinality(S) BY <1>1, FS_Subset
<1> QED BY <1>1, <1>2, FS_CardinalityType

\* The clients between two passes.
LEMMA ClientMovesKeep ==
  ASSUME CSInv, NEW c \in Clients, ClientConnects(c) \/ ClientSends(c) \/ ClientHangsUp(c)
  PROVE  CSInv'
<1>1. UNCHANGED <<conns, applied, passes>> BY DEF ClientConnects, ClientSends, ClientHangsUp
<1>2. /\ client \in [Clients -> Peers] /\ Conns \subseteq Clients /\ conns \in [Conns -> Slots]
  BY DEF CSInv, CSTypeOK
<1>3. client[c] \in Peers BY <1>2
<1>4. /\ ToldTrue(client[c], applied[c])
      /\ client[c].at \in {"idle", "backlog"} =>
            client[c].told = "nothing" /\ applied[c] = 0 /\ c \notin Conns
      /\ client[c].at = "open" => c \in Conns
      /\ c \in Conns => Waiting(client[c], applied[c], conns[c], passes)
  BY DEF CSInv, ClientsSound
<1>5. PICK k \in Peers :
         /\ client' = [client EXCEPT ![c] = k]
         /\ ToldTrue(k, applied[c])
         /\ k.at \in {"idle", "backlog"} => k.told = "nothing" /\ applied[c] = 0 /\ c \notin Conns
         /\ k.at = "open" => c \in Conns
         /\ c \in Conns => Waiting(k, applied[c], conns[c], passes)
  <2>1. CASE ClientConnects(c)
    <3> DEFINE k == [client[c] EXCEPT !.at = "backlog"]
    <3>1. client' = [client EXCEPT ![c] = k] /\ client[c].at = "idle" BY <2>1 DEF ClientConnects
    <3>2. /\ k \in Peers /\ k.at = "backlog" /\ k.sent = client[c].sent /\ k.told = client[c].told
          /\ k.asks = client[c].asks
      BY <1>3 DEF Peers
    <3> HIDE DEF k
    <3>3. ToldTrue(k, applied[c]) BY <1>4, <3>2 DEF ToldTrue
    <3> QED BY <1>4, <3>1, <3>2, <3>3
  <2>2. CASE ClientSends(c)
    <3> DEFINE k == [client[c] EXCEPT !.sent = client[c].sent + 1]
    <3>1. client' = [client EXCEPT ![c] = k] /\ client[c].sent < 2 BY <2>2 DEF ClientSends
    <3>2. client[c].sent \in 0..2 BY <1>3 DEF Peers
    <3>3. client[c].sent + 1 \in 0..2 BY <3>1, <3>2
    <3>4. /\ k \in Peers /\ k.at = client[c].at /\ k.sent = client[c].sent + 1
          /\ k.told = client[c].told /\ k.asks = client[c].asks
      BY <1>3, <3>3 DEF Peers
    <3> HIDE DEF k
    <3>5. ToldTrue(k, applied[c]) BY <1>4, <3>1, <3>2, <3>4 DEF ToldTrue
    <3>6. ASSUME c \in Conns PROVE Waiting(k, applied[c], conns[c], passes)
      <4>1. conns[c].read \in 0..2 BY <1>2, <3>6 DEF Slots
      <4>2. Waiting(client[c], applied[c], conns[c], passes) BY <1>4, <3>6
      <4>3. conns[c].read <= k.sent BY <3>2, <3>4, <4>1, <4>2 DEF Waiting
      <4> QED BY <3>4, <4>2, <4>3 DEF Waiting
    <3> QED BY <1>4, <3>1, <3>4, <3>5, <3>6
  <2>3. CASE ClientHangsUp(c)
    <3> DEFINE k == [client[c] EXCEPT !.at = "gone"]
    <3>1. client' = [client EXCEPT ![c] = k] /\ client[c].at = "open" BY <2>3 DEF ClientHangsUp
    <3>2. /\ k \in Peers /\ k.at = "gone" /\ k.sent = client[c].sent /\ k.told = client[c].told
          /\ k.asks = client[c].asks
      BY <1>3 DEF Peers
    <3> HIDE DEF k
    <3>3. ToldTrue(k, applied[c]) BY <1>4, <3>2 DEF ToldTrue
    <3>4. c \in Conns => Waiting(k, applied[c], conns[c], passes) BY <1>4, <3>2 DEF Waiting
    <3> QED BY <1>4, <3>1, <3>2, <3>3, <3>4
  <2> QED BY <2>1, <2>2, <2>3
<1>6. Conns' = Conns BY <1>1 DEF Conns
<1>7. CSTypeOK' BY <1>1, <1>2, <1>5, <1>6 DEF CSInv, CSTypeOK
<1>8. ClientsSound'
  <2> SUFFICES ASSUME NEW d \in Clients
               PROVE  /\ ToldTrue(client'[d], applied[d])
                      /\ client'[d].at \in {"idle", "backlog"} =>
                            client'[d].told = "nothing" /\ applied[d] = 0 /\ d \notin Conns
                      /\ client'[d].at = "open" => d \in Conns
                      /\ d \in Conns => Waiting(client'[d], applied[d], conns[d], passes)
    BY <1>1, <1>6 DEF ClientsSound
  <2>1. CASE d = c
    <3>1. client'[d] = k BY <1>2, <1>5, <2>1
    <3> QED BY <1>5, <2>1, <3>1
  <2>2. CASE d # c
    <3>1. client'[d] = client[d] BY <1>2, <1>5, <2>2
    <3> QED BY <3>1 DEF CSInv, ClientsSound
  <2> QED BY <2>1, <2>2
<1> QED BY <1>7, <1>8 DEF CSInv

\* A feed that fails its send is of a client that is gone.
LEMMA PublishKeeps == CSInv /\ Publish => CSInv'
<1> SUFFICES ASSUME CSInv, Publish PROVE CSInv' OBVIOUS
<1>1. PICK dead \in SUBSET {c \in Conns : conns[c].streaming /\ client[c].at = "gone"} :
         conns' = [c \in Conns \ dead |-> conns[c]]
  BY DEF Publish
<1>2. UNCHANGED <<client, applied, passes>> BY DEF Publish
<1>3. /\ client \in [Clients -> Peers] /\ Conns \subseteq Clients /\ conns \in [Conns -> Slots]
      /\ applied \in [Clients -> Nat] /\ passes \in Nat /\ Cardinality(Conns) <= MaxConns
  BY DEF CSInv, CSTypeOK
<1>4. Conns' = Conns \ dead /\ \A c \in Conns' : conns'[c] = conns[c] BY <1>1 DEF Conns
<1>5. conns' \in [Conns' -> Slots] BY <1>1, <1>3, <1>4
<1>6. Cardinality(Conns') <= MaxConns
  <2>1. Conns' \in SUBSET Conns BY <1>4
  <2>2. Cardinality(Conns') \in Nat /\ Cardinality(Conns) \in Nat
        /\ Cardinality(Conns') <= Cardinality(Conns)
    BY <1>3, <2>1, SlotsCounted
  <2> QED BY <1>3, <2>2, ControlAssumption
<1>7. CSTypeOK' BY <1>2, <1>3, <1>4, <1>5, <1>6 DEF CSTypeOK
<1>8. \A c \in Conns : client[c].at = "open" => c \in Conns' BY <1>1, <1>4
<1>9. ClientsSound' BY <1>2, <1>3, <1>4, <1>8 DEF CSInv, ClientsSound
<1> QED BY <1>7, <1>9 DEF CSInv

\* One client through a pass: shed, timed out, accepted, answered, made a feed, or left.
LEMMA ClientServed ==
  ASSUME CSInv, NEW taken \in SUBSET Clients, NEW shed \in SUBSET Clients,
         NEW D, D = {c \in Conns : Dispatched(c)},
         NEW ans \in [D -> [says : {"ok", "refused", "stream", "throws"}, applies : {0, 1}]],
         NEW cut, Accepts(taken, shed), Serves(taken, shed, ans, cut), passes' = passes + 1,
         NEW c \in Clients
  PROVE  /\ client'[c] \in Peers /\ applied'[c] \in Nat
         /\ c \in Conns' => conns'[c] \in Slots
         /\ ToldTrue(client'[c], applied'[c])
         /\ client'[c].at \in {"idle", "backlog"} =>
               client'[c].told = "nothing" /\ applied'[c] = 0 /\ c \notin Conns'
         /\ client'[c].at = "open" => c \in Conns'
         /\ c \in Conns' => Waiting(client'[c], applied'[c], conns'[c], passes')
<1> DEFINE k == client[c]
           n == client'[c]
           slow == c \in Conns /\ TooSlow(c)
           fed == c \in D /\ ans[c].says = "stream"
           stays == c \in Conns /\ ~PeerClosed(c) /\ ~TooSlow(c) /\ (c \in D => fed)
<1>1. DOMAIN ans = D /\ Answered(ans) = D BY DEF Answered
<1>2. /\ n = ClientAfter(c, taken, shed, ans, cut)
      /\ applied'[c] = applied[c] + (IF c \in D THEN ans[c].applies ELSE 0)
      /\ c \in Conns' <=> c \in Conns \ Closed(ans) \/ c \in taken
      /\ c \in Conns' => conns'[c] = ConnAfter(c, taken, ans)
      /\ c \in D => ans[c] \in Answers(k.asks)
  BY <1>1 DEF Serves, Conns
<1>3. c \in Feeds(ans) <=> fed BY <1>1 DEF Feeds
<1>4. c \in Conns \ Closed(ans) <=> stays BY <1>1, <1>3 DEF Closed
<1>5. /\ k \in Peers /\ applied[c] \in Nat /\ passes \in Nat
      /\ c \in Conns => conns[c] \in Slots
  BY DEF CSInv, CSTypeOK
<1>6. /\ ToldTrue(k, applied[c])
      /\ k.at \in {"idle", "backlog"} => k.told = "nothing" /\ applied[c] = 0 /\ c \notin Conns
      /\ k.at = "open" => c \in Conns
      /\ c \in Conns => Waiting(k, applied[c], conns[c], passes)
  BY DEF CSInv, ClientsSound
<1>7. /\ c \in taken \cup shed => k.at = "backlog" /\ c \notin Conns
      /\ ~(c \in taken /\ c \in shed)
  BY <1>6 DEF Accepts
<1>8. c \in D => c \in Conns /\ Dispatched(c) OBVIOUS
<1>9. c \in Conns /\ Dispatched(c) => c \in D OBVIOUS
<1>10. k.sent \in 0..2 /\ k.at \in {"idle", "backlog", "open", "gone", "closed"}
       /\ k.asks \in Requests /\ k.told \in Told
  BY <1>5 DEF Peers
<1>11. ASSUME c \in Conns
       PROVE  /\ conns[c].read \in 0..2 /\ conns[c].opened \in Nat /\ conns[c].streaming \in BOOLEAN
              /\ conns[c].read <= k.sent /\ applied[c] = 0 /\ k.at \in {"open", "gone"}
              /\ conns[c].streaming => k.told = "stream"
              /\ ~conns[c].streaming => k.told = "nothing" /\ conns[c].read < 2
                     /\ passes - conns[c].opened <= TimeoutMs + 1 + conns[c].read
  <2>1. conns[c] \in Slots BY <1>5, <1>11
  <2>2. Waiting(k, applied[c], conns[c], passes) BY <1>6, <1>11
  <2>3. conns[c].read \in 0..2 /\ conns[c].opened \in Nat /\ conns[c].streaming \in BOOLEAN
    BY <2>1 DEF Slots
  <2> HIDE DEF k
  <2> QED BY <2>2, <2>3, Zenon DEF Waiting
<1>12. c \in Conns =>
          /\ TooSlow(c) => ~conns[c].streaming /\ c \notin D
          /\ PeerClosed(c) => k.at = "gone" /\ ~TooSlow(c) /\ c \notin D
          /\ c \in D => ~conns[c].streaming /\ k.sent = 2
          /\ ~TooSlow(c) /\ ~PeerClosed(c) /\ c \notin D /\ ~conns[c].streaming =>
                \/ k.sent = 1 /\ conns[c].read = 0
                \/ k.sent = conns[c].read /\ passes - conns[c].opened <= TimeoutMs
  <2> SUFFICES ASSUME c \in Conns
               PROVE  /\ TooSlow(c) => ~conns[c].streaming /\ c \notin D
                      /\ PeerClosed(c) => k.at = "gone" /\ ~TooSlow(c) /\ c \notin D
                      /\ c \in D => ~conns[c].streaming /\ k.sent = 2
                      /\ ~TooSlow(c) /\ ~PeerClosed(c) /\ c \notin D /\ ~conns[c].streaming =>
                            \/ k.sent = 1 /\ conns[c].read = 0
                            \/ k.sent = conns[c].read /\ passes - conns[c].opened <= TimeoutMs
    OBVIOUS
  <2>1. TooSlow(c) => ~conns[c].streaming /\ c \notin D BY <1>8 DEF TooSlow, Dispatched
  <2>2. c \in D => ~conns[c].streaming /\ k.sent = 2 BY <1>8 DEF Dispatched, Whole
  <2>3. PeerClosed(c) => k.at = "gone" /\ ~TooSlow(c) /\ c \notin D
    <3>1. k.sent = conns[c].read => ~(k.sent > conns[c].read) BY <1>10, <1>11
    <3> QED BY <1>8, <3>1 DEF PeerClosed, Ready, TooSlow, Dispatched
  <2>4. ASSUME ~TooSlow(c), ~PeerClosed(c), c \notin D, ~conns[c].streaming
        PROVE  \/ k.sent = 1 /\ conns[c].read = 0
               \/ k.sent = conns[c].read /\ passes - conns[c].opened <= TimeoutMs
    <3>1. ~Dispatched(c) BY <1>9, <2>4
    <3>2. CASE Ready(c)
      <4>1. k.sent # conns[c].read /\ k.sent # 2
        BY <2>4, <3>1, <3>2 DEF PeerClosed, Dispatched, Whole
      <4> QED BY <1>10, <1>11, <4>1
    <3>3. CASE ~Ready(c)
      <4>1. ~(k.sent > conns[c].read) BY <3>3 DEF Ready
      <4>2. ~(passes - conns[c].opened > TimeoutMs) BY <2>4, <3>3 DEF TooSlow
      <4> QED BY <1>5, <1>10, <1>11, <4>1, <4>2, ControlAssumption
    <3> QED BY <3>2, <3>3
  <2> QED BY <2>1, <2>2, <2>3, <2>4
<1>13. c \in D => /\ ans[c].applies \in {0, 1} /\ ans[c].says \in {"ok", "refused", "stream", "throws"}
                  /\ ans[c].applies = 1 => ans[c].says = "ok"
                  /\ ans[c].says = "ok" /\ k.asks = "write" => ans[c].applies = 1
  BY <1>2, <1>10, AnswerFacts
<1>14. CASE c \in shed \/ slow
  <2> DEFINE m == [k EXCEPT !.at = "closed", !.told = "closed"]
  <2>1. k.told = "nothing" /\ applied[c] = 0 /\ c \notin D /\ c \notin taken
    BY <1>6, <1>7, <1>8, <1>11, <1>12, <1>14
  <2>2. n = m BY <1>2, <1>14, <2>1 DEF ClientAfter
  <2>3. /\ m \in Peers /\ m.at = "closed" /\ m.told = "closed"
    BY <1>5 DEF Peers, Told
  <2>4. applied'[c] = 0 BY <1>2, <2>1
  <2>5. c \notin Conns' BY <1>2, <1>4, <1>7, <1>14, <2>1
  <2> HIDE DEF m, n
  <2>6. ToldTrue(n, 0) BY <2>2, <2>3 DEF ToldTrue
  <2> QED BY <2>2, <2>3, <2>4, <2>5, <2>6 DEF n
<1>15. CASE c \in taken
  <2> DEFINE m == [k EXCEPT !.at = "open"]
             x == [streaming |-> FALSE, opened |-> passes, read |-> 0]
  <2>1. k.told = "nothing" /\ applied[c] = 0 /\ c \notin D /\ c \notin shed /\ ~slow
    BY <1>6, <1>7, <1>8, <1>15
  <2>2. n = m BY <1>2, <1>15, <2>1 DEF ClientAfter
  <2>3. /\ m \in Peers /\ m.at = "open" /\ m.told = "nothing" /\ m.sent = k.sent
    BY <1>5, <2>1 DEF Peers, Told
  <2>4. applied'[c] = 0 BY <1>2, <2>1
  <2>5. c \in Conns' /\ conns'[c] = x BY <1>2, <1>15 DEF ConnAfter
  <2>6. x \in Slots /\ x.streaming = FALSE /\ x.opened = passes /\ x.read = 0
    BY <1>5 DEF Slots
  <2> HIDE DEF m, n, x
  <2>7. ToldTrue(n, 0) BY <2>2, <2>3 DEF ToldTrue
  <2>8. (passes + 1) - passes <= TimeoutMs + 1 + 0 BY <1>5, ControlAssumption
  <2>9. 0 <= k.sent BY <1>10
  <2>10. Waiting(n, 0, x, passes + 1) BY <2>2, <2>3, <2>6, <2>8, <2>9 DEF Waiting
  <2> QED BY <2>2, <2>3, <2>4, <2>5, <2>6, <2>7, <2>10 DEF n
<1>16. CASE fed
  <2> DEFINE m == [k EXCEPT !.told = "stream"]
             x == [conns[c] EXCEPT !.streaming = TRUE, !.read = k.sent]
  <2>1. /\ c \in Conns /\ c \notin shed /\ c \notin taken /\ ~slow /\ stays /\ k.sent = 2
        /\ applied[c] = 0 /\ ans[c].applies = 0 /\ k.at \in {"open", "gone"}
    <3>1. c \in D /\ ans[c].says = "stream" BY <1>16
    <3>2. ans[c].applies = 0
      <4>1. ans[c].applies \in {0, 1} /\ (ans[c].applies = 1 => ans[c].says = "ok")
        BY <1>13, <3>1, Zenon
      <4> QED BY <3>1, <4>1
    <3>3. c \in Conns BY <1>8, <3>1
    <3>4. c \notin shed /\ c \notin taken BY <1>7, <3>3
    <3>5. ~TooSlow(c) /\ ~PeerClosed(c) /\ k.sent = 2 BY <1>12, <3>1, <3>3
    <3>6. applied[c] = 0 /\ k.at \in {"open", "gone"} BY <1>11, <3>3
    <3> QED BY <1>16, <3>1, <3>2, <3>3, <3>4, <3>5, <3>6
  <2>2. n = m BY <1>2, <1>3, <1>16, <2>1 DEF ClientAfter
  <2>3. /\ m \in Peers /\ m.at = k.at /\ m.told = "stream" /\ m.sent = k.sent
    BY <1>5 DEF Peers, Told
  <2>4. applied'[c] = 0 BY <1>2, <1>16, <2>1
  <2>5. c \in Conns' BY <1>2, <1>4, <2>1
  <2>6. conns'[c] = x
    <3>1. conns'[c] = [conns[c] EXCEPT !.streaming = conns[c].streaming \/ c \in Feeds(ans),
                                       !.read = client[c].sent]
      BY <1>2, <2>1, <2>5 DEF ConnAfter
    <3>2. (conns[c].streaming \/ c \in Feeds(ans)) = TRUE BY <1>3, <1>16
    <3> QED BY <3>1, <3>2
  <2>7. conns[c] \in Slots /\ k.sent \in 0..2 BY <1>5, <1>10, <2>1
  <2>8. x \in Slots /\ x.streaming = TRUE /\ x.read = k.sent
    BY <2>7 DEF Slots
  <2> HIDE DEF m, n, x
  <2>9. ToldTrue(n, 0) BY <2>1, <2>2, <2>3 DEF ToldTrue
  <2>10. Waiting(n, 0, x, passes + 1) BY <1>10, <2>1, <2>2, <2>3, <2>8 DEF Waiting
  <2> QED BY <2>1, <2>2, <2>3, <2>4, <2>5, <2>6, <2>8, <2>9, <2>10 DEF n
<1>17. CASE c \in D /\ ~fed
  <2> DEFINE t == IF c \in cut /\ ans[c].says # "throws" THEN "cut" ELSE ans[c].says
             m == [k EXCEPT !.at = "closed", !.told = t]
  <2>1. /\ c \in Conns /\ c \notin shed /\ c \notin taken /\ ~slow /\ k.sent = 2
        /\ applied[c] = 0
    BY <1>7, <1>8, <1>11, <1>12, <1>17
  <2>2. n = m BY <1>1, <1>2, <1>3, <1>17, <2>1 DEF ClientAfter
  <2>3. /\ t \in Told \ {"stream"} /\ (ans[c].applies = 1 => t \in {"ok", "cut"})
        /\ (t = "ok" => ans[c].says = "ok")
    <3>1. /\ ans[c].says \in {"ok", "refused", "throws"}
          /\ ans[c].applies = 1 => ans[c].says = "ok"
      BY <1>13, <1>17
    <3>2. CASE c \in cut /\ ans[c].says # "throws"
      <4>1. t = "cut" BY <3>2
      <4> QED BY <4>1 DEF Told
    <3>3. CASE ~(c \in cut /\ ans[c].says # "throws")
      <4>1. t = ans[c].says BY <3>3
      <4> HIDE DEF t
      <4> QED BY <3>1, <4>1 DEF Told
    <3> QED BY <3>2, <3>3
  <2> HIDE DEF t
  <2>4. /\ m \in Peers /\ m.at = "closed" /\ m.told = t /\ m.sent = 2 /\ m.asks = k.asks
    BY <1>5, <2>1, <2>3 DEF Peers
  <2>5. applied'[c] = ans[c].applies BY <1>2, <1>13, <1>17, <2>1
  <2>6. c \notin Conns' BY <1>2, <1>4, <1>17, <2>1
  <2> HIDE DEF m, n
  <2>7. ToldTrue(n, ans[c].applies)
    <3>1. n.sent = 2 /\ n.told = t /\ n.asks = k.asks BY <2>2, <2>4
    <3>2. ans[c].applies \in {0, 1}
          /\ (ans[c].says = "ok" /\ k.asks = "write" => ans[c].applies = 1)
      BY <1>13, <1>17, Zenon
    <3>3. t # "stream" BY <2>3
    <3> HIDE DEF k
    <3> QED BY <2>3, <3>1, <3>2, <3>3 DEF ToldTrue
  <2>8. n \in Peers /\ n.at = "closed" BY <2>2, <2>4
  <2>9. ans[c].applies \in Nat BY <1>13, <1>17
  <2> QED BY <2>5, <2>6, <2>7, <2>8, <2>9 DEF n
<1>18. CASE c \notin shed /\ ~slow /\ c \notin taken /\ c \notin D
  <2>1. n = k BY <1>1, <1>2, <1>3, <1>18 DEF ClientAfter
  <2>2. applied'[c] = applied[c] BY <1>2, <1>5, <1>18
  <2>3. c \in Conns' <=> c \in Conns /\ ~PeerClosed(c) BY <1>2, <1>4, <1>18
  <2>4. k.at = "open" => c \in Conns' BY <1>6, <1>12, <2>3
  <2>5. ASSUME c \in Conns'
        PROVE  conns'[c] \in Slots /\ Waiting(k, applied[c], conns'[c], passes + 1)
    <3> DEFINE x == [conns[c] EXCEPT !.read = k.sent]
    <3>1. c \in Conns /\ ~PeerClosed(c) /\ ~TooSlow(c) BY <1>18, <2>3, <2>5
    <3>2. conns[c] \in Slots BY <1>5, <3>1
    <3>3. conns'[c] = x
      <4>1. conns'[c] = [conns[c] EXCEPT !.streaming = conns[c].streaming \/ c \in Feeds(ans),
                                         !.read = client[c].sent]
        BY <1>2, <1>18, <2>5 DEF ConnAfter
      <4>2. (conns[c].streaming \/ c \in Feeds(ans)) = conns[c].streaming
        BY <1>3, <1>11, <1>18, <3>1
      <4>3. [conns[c] EXCEPT !.streaming = conns[c].streaming, !.read = client[c].sent] = x
        BY <3>2 DEF Slots
      <4> QED BY <4>1, <4>2, <4>3
    <3>4. x \in Slots /\ x.read = k.sent /\ x.opened = conns[c].opened
          /\ x.streaming = conns[c].streaming
      BY <1>10, <3>2 DEF Slots
    <3> HIDE DEF x
    <3>5. CASE conns[c].streaming
      BY <1>10, <1>11, <3>1, <3>3, <3>4, <3>5 DEF Waiting
    <3>6. CASE ~conns[c].streaming
      <4>1. \/ k.sent = 1 /\ conns[c].read = 0
            \/ k.sent = conns[c].read /\ passes - conns[c].opened <= TimeoutMs
        BY <1>12, <1>18, <3>1, <3>6
      <4>2. passes - conns[c].opened <= TimeoutMs + 1 + conns[c].read /\ conns[c].read < 2
        BY <1>11, <3>1, <3>6
      <4>3. (passes + 1) - x.opened <= TimeoutMs + 1 + x.read /\ x.read < 2
        BY <1>5, <1>10, <1>11, <3>1, <3>4, <4>1, <4>2, ControlAssumption
      <4>4. x.read <= k.sent BY <1>10, <3>4
      <4>5. k.at \in {"open", "gone"} /\ applied[c] = 0 /\ k.told = "nothing" /\ ~x.streaming
        BY <1>11, <3>1, <3>4, <3>6
      <4> QED BY <3>3, <3>4, <4>3, <4>4, <4>5 DEF Waiting
    <3> QED BY <3>5, <3>6
  <2> HIDE DEF n, k
  <2>6. k.at \in {"idle", "backlog"} =>
           k.told = "nothing" /\ applied[c] = 0 /\ c \notin Conns'
    BY <1>6, <2>3
  <2>7. n \in Peers /\ ToldTrue(n, applied'[c]) /\ applied'[c] \in Nat
    BY <1>5, <1>6, <2>1, <2>2
  <2>8. c \in Conns' => conns'[c] \in Slots /\ Waiting(n, applied'[c], conns'[c], passes')
    BY <2>1, <2>2, <2>5
  <2> QED BY <2>1, <2>2, <2>4, <2>6, <2>7, <2>8 DEF n
<1> QED BY <1>8, <1>14, <1>15, <1>16, <1>17, <1>18

\* A pass of the loop.
LEMMA ServiceKeeps == CSInv /\ Service => CSInv'
<1> SUFFICES ASSUME CSInv, Service PROVE CSInv' OBVIOUS
<1>1. PICK taken \in SUBSET Clients, shed \in SUBSET Clients :
         /\ Accepts(taken, shed)
         /\ \E ans \in [{c \in Conns : Dispatched(c)} ->
                          [says : {"ok", "refused", "stream", "throws"}, applies : {0, 1}]],
               cut \in SUBSET {c \in Conns : Dispatched(c) /\ client[c].asks # "stream"} :
               Serves(taken, shed, ans, cut)
  BY DEF Service
<1>2. PICK ans \in [{c \in Conns : Dispatched(c)} ->
                      [says : {"ok", "refused", "stream", "throws"}, applies : {0, 1}]],
           cut \in SUBSET {c \in Conns : Dispatched(c) /\ client[c].asks # "stream"} :
           Serves(taken, shed, ans, cut)
  BY <1>1
<1>3. passes' = passes + 1 BY DEF Service
<1>4. \A c \in Clients :
         /\ client'[c] \in Peers /\ applied'[c] \in Nat
         /\ c \in Conns' => conns'[c] \in Slots
         /\ ToldTrue(client'[c], applied'[c])
         /\ client'[c].at \in {"idle", "backlog"} =>
               client'[c].told = "nothing" /\ applied'[c] = 0 /\ c \notin Conns'
         /\ client'[c].at = "open" => c \in Conns'
         /\ c \in Conns' => Waiting(client'[c], applied'[c], conns'[c], passes')
  BY <1>1, <1>2, <1>3, ClientServed
<1>5. ClientsSound' BY <1>4 DEF ClientsSound
<1>6. /\ client' = [c \in Clients |-> ClientAfter(c, taken, shed, ans, cut)]
      /\ conns' = [c \in (Conns \ Closed(ans)) \cup taken |-> ConnAfter(c, taken, ans)]
      /\ applied' = [c \in Clients |->
            applied[c] + (IF c \in Answered(ans) THEN ans[c].applies ELSE 0)]
  BY <1>2 DEF Serves
<1>7. Conns' = (Conns \ Closed(ans)) \cup taken BY <1>6 DEF Conns
<1>8. Conns \subseteq Clients /\ passes \in Nat BY DEF CSInv, CSTypeOK
<1>9. Conns' \subseteq Clients BY <1>7, <1>8
<1>10. client' \in [Clients -> Peers] /\ applied' \in [Clients -> Nat] /\ conns' \in [Conns' -> Slots]
  <2>1. client' = [c \in Clients |-> client'[c]] /\ applied' = [c \in Clients |-> applied'[c]]
        /\ conns' = [c \in Conns' |-> conns'[c]]
    BY <1>6, <1>7
  <2> QED BY <1>4, <1>9, <2>1
<1>11. Cardinality(Conns') <= MaxConns
  <2> DEFINE S == Conns \ Closed(ans)
  <2>1. S \in SUBSET Conns /\ Conns \in SUBSET Clients /\ taken \in SUBSET taken
    BY <1>8
  <2>2. Cardinality(S) \in Nat /\ Cardinality(Conns) \in Nat
        /\ Cardinality(S) <= Cardinality(Conns)
    BY <2>1, SlotsCounted
  <2>3. IsFiniteSet(S) /\ IsFiniteSet(taken) BY <2>1, <1>8, ControlAssumption, FS_Subset
  <2>4. /\ Cardinality(S \cup taken) =
             Cardinality(S) + Cardinality(taken) - Cardinality(S \cap taken)
    BY <2>3, FS_Union
  <2>5. Cardinality(taken) \in Nat /\ Cardinality(S \cap taken) \in Nat
    <3>1. IsFiniteSet(S \cap taken) BY <2>3, FS_Intersection
    <3> QED BY <2>3, <3>1, FS_CardinalityType
  <2>6. Cardinality(Conns) + Cardinality(taken) <= MaxConns BY <1>1 DEF Accepts
  <2> HIDE DEF S
  <2>7. Cardinality(S \cup taken) <= MaxConns
    BY <2>2, <2>4, <2>5, <2>6, ControlAssumption
  <2> QED BY <1>7, <2>7 DEF S
<1>12. passes' \in Nat BY <1>3, <1>8
<1>13. CSTypeOK' BY <1>9, <1>10, <1>11, <1>12 DEF CSTypeOK
<1> QED BY <1>5, <1>13 DEF CSInv

\* Whatever clients send, in whatever pieces, and whenever they hang up: no hook runs twice
\* for a request or for half of one, nobody is told what did not happen, and a slot is
\* given back in time.
THEOREM ServerAlwaysSound == CSSpec => []ServerSound
<1>1. CSInit => CSInv
  <2> SUFFICES ASSUME CSInit PROVE CSInv OBVIOUS
  <2>1. /\ client \in [Clients -> [at : {"idle"}, asks : Requests, sent : {0}, told : {"nothing"}]]
        /\ conns = << >> /\ applied = [c \in Clients |-> 0] /\ passes = 0
    BY DEF CSInit
  <2>2. Conns = {} BY <2>1 DEF Conns
  <2>3. conns \in [Conns -> Slots] BY <2>1, <2>2
  <2>4. Cardinality(Conns) <= MaxConns BY <2>2, FS_EmptySet, ControlAssumption
  <2>5. \A c \in Clients : client[c] \in Peers /\ client[c].at = "idle"
                           /\ client[c].told = "nothing" /\ client[c].sent = 0
    BY <2>1 DEF Peers, Told
  <2>6. CSTypeOK BY <2>1, <2>2, <2>3, <2>4, <2>5 DEF CSTypeOK
  <2>7. ClientsSound BY <2>1, <2>2, <2>5 DEF ClientsSound, ToldTrue
  <2> QED BY <2>6, <2>7 DEF CSInv
<1>2. CSInv /\ [CSNext]_csVars => CSInv'
  <2> SUFFICES ASSUME CSInv, [CSNext]_csVars PROVE CSInv' OBVIOUS
  <2>1. CASE UNCHANGED csVars
    BY <2>1 DEF csVars, CSInv, CSTypeOK, ClientsSound, Conns
  <2> QED BY <2>1, ClientMovesKeep, PublishKeeps, ServiceKeeps DEF CSNext
<1>3. CSInv => ServerSound
  <2> SUFFICES ASSUME CSInv PROVE ServerSound OBVIOUS
  <2>1. AnswersTrue
    <3> SUFFICES ASSUME NEW c \in Clients
                 PROVE  /\ applied[c] <= 1
                        /\ applied[c] = 1 => client[c].sent = 2 /\ client[c].told \in {"ok", "cut"}
                        /\ client[c].told = "ok" /\ client[c].asks = "write" => applied[c] = 1
      BY DEF AnswersTrue
    <3>1. ToldTrue(client[c], applied[c]) BY DEF CSInv, ClientsSound
    <3> QED BY <3>1 DEF ToldTrue
  <2>2. ASSUME NEW c \in Conns, ~conns[c].streaming
        PROVE  passes - conns[c].opened <= TimeoutMs + 2
    <3>1. c \in Clients /\ conns[c] \in Slots /\ passes \in Nat BY DEF CSInv, CSTypeOK
    <3>2. conns[c].read < 2 /\ passes - conns[c].opened <= TimeoutMs + 1 + conns[c].read
      BY <2>2, <3>1 DEF CSInv, ClientsSound, Waiting
    <3>3. conns[c].read \in 0..2 /\ conns[c].opened \in Nat BY <3>1 DEF Slots
    <3> QED BY <3>1, <3>2, <3>3, ControlAssumption
  <2>3. SlotsSound BY <2>2 DEF SlotsSound, CSInv, CSTypeOK, ClientsSound, ToldTrue
  <2> QED BY <2>1, <2>3 DEF ServerSound
<1> QED BY <1>1, <1>2, <1>3, PTL DEF CSSpec

-----------------------------------------------------------------------------
(* The command campaign *)

Nonces(b) == Seeds[b] .. Seeds[b] + MaxStarts - 1
Outcomes == [nonce : Nat, cmd : Cmds, rejected : BOOLEAN]
Applications == {h \in [key : Nat, boot : Boots, out : Outcomes, at : Nat] : h.out.nonce \in Nonces(h.boot)}
Asked == {m \in [boot : Boots, key : Nat, nonce : Nat, cmd : Cmds] : m.nonce \in Nonces(m.boot)}
Echoed == {[key |-> h.key, echo |-> h.out] : h \in hOutcomes}

VTypeOK ==
    /\ setup \in Setup /\ cmdNow \in Nat /\ gNext \in Nat
    /\ cKey \in Nat /\ cEchoesLeft \in Nat /\ cLast \in [Boots -> Outcomes \cup {NoOutcome}]
    /\ gBoot \in Boots /\ gKey \in Nat
    /\ gState \in {"idle", "sending", "awaitecho", "acked", "rejected", "timeout"}
    /\ gNextNonce \in Seeds[gBoot] .. Seeds[gBoot] + MaxStarts
    /\ gState # "idle" => gTmpl \in [nonce : Nonces(gBoot), cmd : Cmds]
    /\ gLastStart \in Nat /\ gNextCopy \in Nat /\ gEchoDeadline \in Nat
    /\ gCopiesLeft \in Nat /\ gCampaignsLeft \in Nat
    /\ hOutcomes \subseteq Applications
    /\ up \in Seq(Asked) /\ down \in Seq(Echoed)

\* What the craft remembers of the running epoch is what it did, and nothing it did is newer:
\* the last outcome of each session, and the outcome a burst repeats.
Done(o) == \E h \in hOutcomes : h.key = cKey /\ h.out = o
Remembered ==
    /\ \A h \in hOutcomes : h.key <= cKey /\ (h.key = cKey => h.out.nonce <= cLast[h.boot].nonce)
    /\ \A b \in Boots : cLast[b] # NoOutcome => Done(cLast[b])
    /\ cEchoesLeft > 0 => Done(cEcho)

\* Where a campaign may be: so many rounds and copies behind it, each as late as it can be.
LongCopy == CopyInterval + setup.stall + 1
LongRound == Copies * LongCopy + AckTimeout + setup.stall + 1
RoundFrom == gLastStart + (RetryCap - gCampaignsLeft) * LongRound
Paced ==
    /\ cmdNow <= gNext
    /\ gState = "sending" =>
          /\ gCampaignsLeft \in 1 .. RetryCap /\ gCopiesLeft \in 1 .. Copies
          /\ gNextCopy <= RoundFrom + (Copies - gCopiesLeft) * LongCopy
          /\ gNext <= gNextCopy + 1 + setup.stall
    /\ gState = "awaitecho" =>
          /\ gCampaignsLeft \in 1 .. RetryCap
          /\ gEchoDeadline <= RoundFrom + (Copies - 1) * LongCopy + 1 + setup.stall + AckTimeout
          /\ gNext <= gEchoDeadline + 1 + setup.stall

VInv == VTypeOK /\ Remembered /\ AppliedOnce /\ OutcomeTrue /\ Paced

\* A queue of S is a queue of anything larger.
LEMMA QueueWidens ==
  ASSUME NEW S, NEW T, S \subseteq T, NEW q \in Seq(S)
  PROVE  q \in Seq(T)
<1>1. Len(q) \in Nat /\ q \in [1 .. Len(q) -> S] OBVIOUS
<1>2. q \in [1 .. Len(q) -> T] BY <1>1
<1> QED BY <1>1, <1>2, SeqDef

\* A receive queue takes one frame more, or drops it when it is full.
LEMMA OfferStays ==
  ASSUME NEW S, NEW q \in Seq(S), NEW m \in S
  PROVE  Offer(q, m) \in Seq(S)
BY DEF Offer

\* The craft's steps never touch the campaign, and a verdict the ground has stays true.
LEMMA CraftLeavesGround ==
  ASSUME VInv, GroundIdle, hOutcomes \subseteq hOutcomes'
  PROVE  OutcomeTrue' /\ Paced'
<1>1. UNCHANGED <<setup, cmdNow, groundVars, gNext>> BY DEF GroundIdle
<1>2. Paced' BY <1>1 DEF VInv, Paced, RoundFrom, LongRound, LongCopy, groundVars
<1>3. OutcomeTrue' BY <1>1 DEF VInv, OutcomeTrue, groundVars
<1> QED BY <1>2, <1>3

\* The craft's half of the types.
LEMMA CraftTypes ==
  ASSUME VInv, GroundIdle, hOutcomes' \subseteq Applications, hOutcomes \subseteq hOutcomes',
         cKey' \in Nat, cEchoesLeft' \in Nat, cLast' \in [Boots -> Outcomes \cup {NoOutcome}],
         up' \in Seq(Asked), down' \in Seq(Echoed')
  PROVE  VTypeOK'
<1>1. UNCHANGED <<setup, cmdNow, groundVars, gNext>> BY DEF GroundIdle
<1> QED BY <1>1, Zenon DEF VInv, VTypeOK, groundVars

\* A fresh nonce is applied and becomes the newest; a repeated one only starts a burst.
LEMMA CraftHearsKeeps == VInv /\ CraftHears => VInv'
<1> SUFFICES ASSUME VInv, CraftHears PROVE VInv' OBVIOUS
<1> DEFINE m == Head(up)
           o == [nonce |-> m.nonce, cmd |-> m.cmd, rejected |-> m.cmd \notin Applicable]
           a == [key |-> cKey, boot |-> m.boot, out |-> o, at |-> cmdNow]
<1>1. /\ up # << >> /\ up' = Tail(up) /\ GroundIdle /\ UNCHANGED <<cNext, down, losses>>
      /\ Accept(m) \/ ReEcho(m) \/ Drop(m)
  BY DEF CraftHears
<1>2. /\ up \in Seq(Asked) /\ down \in Seq(Echoed) /\ hOutcomes \subseteq Applications
      /\ cKey \in Nat /\ cEchoesLeft \in Nat /\ cLast \in [Boots -> Outcomes \cup {NoOutcome}]
      /\ cmdNow \in Nat
  BY DEF VInv, VTypeOK
<1>3. m \in Asked /\ up' \in Seq(Asked) BY <1>1, <1>2
<1>4. /\ m.boot \in Boots /\ m.nonce \in Nat /\ m.cmd \in Cmds /\ m.nonce \in Nonces(m.boot)
  BY <1>3 DEF Asked
<1>5. /\ \A h \in hOutcomes : h.key <= cKey /\ (h.key = cKey => h.out.nonce <= cLast[h.boot].nonce)
      /\ \A b \in Boots : cLast[b] # NoOutcome => Done(cLast[b])
      /\ cEchoesLeft > 0 => Done(cEcho)
  BY DEF VInv, Remembered
<1>6. AppliedOnce BY DEF VInv
<1>7. EchoCopies \in Nat BY VcmdConstants
<1>8. CASE Accept(m)
  <2>1. /\ ~Consumed(m) /\ cLast' = [cLast EXCEPT ![m.boot] = o]
        /\ hOutcomes' = hOutcomes \cup {a} /\ QueueEcho(o) /\ cKey' = cKey
    BY <1>8 DEF Accept
  <2>2. o \in Outcomes /\ o.nonce = m.nonce BY <1>4 DEF Outcomes
  <2>3. a \in Applications /\ a.key = cKey /\ a.out = o /\ a.boot = m.boot
    BY <1>2, <1>4, <2>2 DEF Applications
  <2>4. cLast'[m.boot] = o /\ \A b \in Boots : b # m.boot => cLast'[b] = cLast[b]
    BY <1>2, <1>4, <2>1
  <2>5. ~(m.nonce <= cLast[m.boot].nonce) BY <2>1 DEF Consumed
  <2> HIDE DEF o, a, m
  <2>6. \A h \in hOutcomes : h.boot \in Boots /\ h.out.nonce \in Nat BY <1>2 DEF Applications, Outcomes
  <2>7. cLast[m.boot].nonce \in Int
    <3>1. cLast[m.boot] \in Outcomes \/ cLast[m.boot] = NoOutcome BY <1>2, <1>4
    <3> QED BY <3>1 DEF Outcomes, NoOutcome
  <2>8. \A h \in hOutcomes : h.key = cKey /\ h.boot = m.boot => h.out.nonce < o.nonce
    BY <1>4, <1>5, <2>2, <2>5, <2>6, <2>7
  <2>9. AppliedOnce'
    <3>1. \A h \in hOutcomes : h.key = cKey /\ h.boot = m.boot => h.out.nonce # o.nonce
      BY <1>4, <2>2, <2>6, <2>8
    <3> SUFFICES ASSUME NEW x \in hOutcomes', NEW y \in hOutcomes',
                        x.key = y.key, x.boot = y.boot, x.out.nonce = y.out.nonce
                 PROVE  x = y
      BY DEF AppliedOnce
    <3>2. CASE x \in hOutcomes /\ y \in hOutcomes BY <1>6, <3>2 DEF AppliedOnce
    <3>3. CASE x = a \/ y = a BY <2>1, <2>3, <3>1, <3>3
    <3> QED BY <2>1, <3>2, <3>3
  <2>10. \A h \in hOutcomes' : h.key <= cKey' /\ (h.key = cKey' => h.out.nonce <= cLast'[h.boot].nonce)
    <3> SUFFICES ASSUME NEW h \in hOutcomes'
                 PROVE  h.key <= cKey /\ (h.key = cKey => h.out.nonce <= cLast'[h.boot].nonce)
      BY <2>1
    <3>1. CASE h = a BY <1>2, <1>4, <2>2, <2>3, <2>4, <3>1
    <3>2. CASE h \in hOutcomes /\ h.boot = m.boot
      BY <1>4, <1>5, <2>2, <2>4, <2>6, <2>8, <3>2
    <3>3. CASE h \in hOutcomes /\ h.boot # m.boot BY <1>5, <2>4, <2>6, <3>3
    <3> QED BY <2>1, <3>1, <3>2, <3>3
  <2>11. ASSUME NEW b \in Boots, cLast'[b] # NoOutcome
         PROVE  \E h \in hOutcomes' : h.key = cKey' /\ h.out = cLast'[b]
    <3>1. CASE b = m.boot BY <2>1, <2>3, <2>4, <3>1
    <3>2. CASE b # m.boot BY <1>5, <2>1, <2>4, <2>11, <3>2 DEF Done
    <3> QED BY <3>1, <3>2
  <2>12. ASSUME cEchoesLeft' > 0
         PROVE  \E h \in hOutcomes' : h.key = cKey' /\ h.out = cEcho'
    <3>1. CASE cEcho' = o BY <2>1, <2>3, <3>1
    <3>2. CASE UNCHANGED <<cEcho, cEchoesLeft>> BY <1>5, <2>1, <2>12, <3>2 DEF Done
    <3> QED BY <2>1, <3>1, <3>2 DEF QueueEcho
  <2>13. Remembered' BY <2>10, <2>11, <2>12 DEF Remembered, Done
  <2>14. cEchoesLeft' \in Nat BY <1>2, <1>7, <2>1 DEF QueueEcho
  <2>15. cLast' \in [Boots -> Outcomes \cup {NoOutcome}] BY <1>2, <2>1, <2>2
  <2>16. hOutcomes \subseteq hOutcomes' /\ hOutcomes' \subseteq Applications BY <1>2, <2>1, <2>3
  <2>17. Echoed \subseteq Echoed' BY <2>16 DEF Echoed
  <2>18. down' \in Seq(Echoed') BY <1>1, <1>2, <2>17, QueueWidens
  <2>19. VTypeOK' BY <1>1, <1>2, <1>3, <2>1, <2>14, <2>15, <2>16, <2>18, CraftTypes
  <2> QED BY <1>1, <2>9, <2>13, <2>16, <2>19, CraftLeavesGround DEF VInv
<1>9. CASE ReEcho(m) \/ Drop(m)
  <2>1. UNCHANGED <<hOutcomes, cKey, cLast>> BY <1>9 DEF ReEcho, Drop, craftVars
  <2>2. (cEchoesLeft' > 0 => Done(cEcho')) /\ cEchoesLeft' \in Nat
    <3>1. CASE Drop(m)
      <4>1. UNCHANGED <<cEcho, cEchoesLeft>> BY <3>1 DEF Drop, craftVars
      <4> QED BY <1>2, <1>5, <4>1
    <3>2. CASE ReEcho(m)
      <4>1. m.nonce = cLast[m.boot].nonce /\ QueueEcho(cLast[m.boot])
        BY <3>2 DEF ReEcho, Retried
      <4>2. cLast[m.boot] # NoOutcome BY <1>4, <4>1 DEF NoOutcome
      <4>3. Done(cLast[m.boot]) BY <1>4, <1>5, <4>2
      <4> QED BY <1>2, <1>5, <1>7, <4>1, <4>3 DEF QueueEcho
    <3> QED BY <1>9, <3>1, <3>2
  <2>3. Remembered' BY <1>5, <2>1, <2>2 DEF Remembered, Done
  <2>4. Echoed' = Echoed BY <2>1 DEF Echoed
  <2>5. VTypeOK' BY <1>1, <1>2, <1>3, <2>1, <2>2, <2>4, CraftTypes
  <2>6. AppliedOnce' BY <1>6, <2>1 DEF AppliedOnce
  <2> QED BY <1>1, <2>1, <2>3, <2>5, <2>6, CraftLeavesGround DEF VInv
<1> QED BY <1>1, <1>8, <1>9

\* The burst goes on with what was done under the key it is stamped with.
LEMMA CraftTickKeeps == VInv /\ CraftTick => VInv'
<1> SUFFICES ASSUME VInv, CraftTick PROVE VInv' OBVIOUS
<1>1. /\ UNCHANGED <<cKey, cLast, cEcho, up, hOutcomes>> /\ GroundIdle
      /\ \/ /\ cEchoesLeft > 0 /\ cEchoesLeft' = cEchoesLeft - 1
            /\ down' = Offer(down, [key |-> cKey, echo |-> cEcho]) \/ down' = down
         \/ UNCHANGED <<cEchoesLeft, down>>
  BY DEF CraftTick
<1>2. /\ up \in Seq(Asked) /\ down \in Seq(Echoed) /\ hOutcomes \subseteq Applications
      /\ cKey \in Nat /\ cEchoesLeft \in Nat /\ cLast \in [Boots -> Outcomes \cup {NoOutcome}]
  BY DEF VInv, VTypeOK
<1>3. Remembered /\ AppliedOnce BY DEF VInv
<1>4. cEchoesLeft' \in Nat /\ (cEchoesLeft' > 0 => cEchoesLeft > 0) BY <1>1, <1>2
<1>5. down' \in Seq(Echoed)
  <2>1. cEchoesLeft > 0 => [key |-> cKey, echo |-> cEcho] \in Echoed
    BY <1>3 DEF Remembered, Done, Echoed
  <2> QED BY <1>1, <1>2, <2>1, OfferStays
<1>6. Echoed' = Echoed BY <1>1 DEF Echoed
<1>7. VTypeOK' BY <1>1, <1>2, <1>4, <1>5, <1>6, CraftTypes
<1>8. Remembered' BY <1>1, <1>3, <1>4 DEF Remembered, Done
<1>9. AppliedOnce' BY <1>1, <1>3 DEF AppliedOnce
<1> QED BY <1>1, <1>7, <1>8, <1>9, CraftLeavesGround DEF VInv

\* A new epoch starts with nothing done in it; the binding is no memory of outcomes.
LEMMA CraftPairingKeeps == VInv /\ (CraftRekey \/ CraftBinding) => VInv'
<1> SUFFICES ASSUME VInv, CraftRekey \/ CraftBinding PROVE VInv' OBVIOUS
<1>1. /\ UNCHANGED <<up, down, hOutcomes>> /\ GroundIdle
  BY DEF CraftRekey, CraftBinding
<1>2. /\ up \in Seq(Asked) /\ down \in Seq(Echoed) /\ hOutcomes \subseteq Applications
      /\ cKey \in Nat /\ cEchoesLeft \in Nat /\ cLast \in [Boots -> Outcomes \cup {NoOutcome}]
  BY DEF VInv, VTypeOK
<1>3. Remembered /\ AppliedOnce BY DEF VInv
<1>4. Echoed' = Echoed BY <1>1 DEF Echoed
<1>5. AppliedOnce' BY <1>1, <1>3 DEF AppliedOnce
<1>6. CASE CraftRekey
  <2>1. cKey' = cKey + 1 /\ cLast' = [b \in Boots |-> NoOutcome] /\ cEchoesLeft' = 0
    BY <1>6 DEF CraftRekey
  <2>2. VTypeOK' BY <1>1, <1>2, <1>4, <2>1, CraftTypes
  <2>3. \A h \in hOutcomes : h.key \in Nat /\ h.key <= cKey
    BY <1>2, <1>3 DEF Applications, Remembered
  <2>4. \A h \in hOutcomes : h.key <= cKey' /\ h.key # cKey' BY <1>2, <2>1, <2>3
  <2>5. Remembered' BY <1>1, <2>1, <2>4 DEF Remembered
  <2> QED BY <1>1, <1>5, <2>2, <2>5, CraftLeavesGround DEF VInv
<1>7. CASE CraftBinding
  <2>1. UNCHANGED <<cKey, cLast, cEcho, cEchoesLeft>> BY <1>7 DEF CraftBinding
  <2>2. VTypeOK' BY <1>1, <1>2, <1>4, <2>1, CraftTypes
  <2>3. Remembered' BY <1>1, <1>3, <2>1 DEF Remembered, Done
  <2> QED BY <1>1, <1>5, <2>2, <2>3, CraftLeavesGround DEF VInv
<1> QED BY <1>6, <1>7

\* A ground step never touches what the craft did or remembers.
LEMMA GroundLeavesCraft ==
  ASSUME VInv, CraftIdle
  PROVE  Remembered' /\ AppliedOnce' /\ Echoed' = Echoed
<1>1. UNCHANGED <<craftVars, hOutcomes>> BY DEF CraftIdle
<1>2. Remembered /\ AppliedOnce BY DEF VInv
<1> QED BY <1>1, <1>2 DEF Remembered, Done, AppliedOnce, Echoed, craftVars

\* The ground's half of the types.
LEMMA GroundTypes ==
  ASSUME VInv, CraftIdle, gNext' \in Nat, gBoot' \in Boots, gKey' \in Nat,
         gState' \in {"idle", "sending", "awaitecho", "acked", "rejected", "timeout"},
         gNextNonce' \in Seeds[gBoot'] .. Seeds[gBoot'] + MaxStarts,
         gState' # "idle" => gTmpl' \in [nonce : Nonces(gBoot'), cmd : Cmds],
         gLastStart' \in Nat, gNextCopy' \in Nat, gEchoDeadline' \in Nat,
         gCopiesLeft' \in Nat, gCampaignsLeft' \in Nat,
         up' \in Seq(Asked), down' \in Seq(Echoed)
  PROVE  VTypeOK'
<1>1. UNCHANGED <<setup, cmdNow, craftVars, hOutcomes>> BY DEF CraftIdle
<1>2. Echoed' = Echoed BY GroundLeavesCraft
<1> QED BY <1>1, <1>2, Zenon DEF VInv, VTypeOK, craftVars

\* What the ground's steps may rely on.
LEMMA GroundFacts ==
  ASSUME VInv
  PROVE  /\ setup.stall \in Nat /\ setup.starts \in 0 .. MaxStarts
         /\ cmdNow \in Nat /\ gNext \in Nat /\ gBoot \in Boots /\ gKey \in Nat /\ cKey \in Nat
         /\ gState \in {"idle", "sending", "awaitecho", "acked", "rejected", "timeout"}
         /\ gNextNonce \in Seeds[gBoot] .. Seeds[gBoot] + MaxStarts
         /\ gState # "idle" => gTmpl \in [nonce : Nonces(gBoot), cmd : Cmds]
         /\ gLastStart \in Nat /\ gNextCopy \in Nat /\ gEchoDeadline \in Nat
         /\ gCopiesLeft \in Nat /\ gCampaignsLeft \in Nat
         /\ up \in Seq(Asked) /\ down \in Seq(Echoed)
         /\ \A b \in Boots : Seeds[b] \in Nat
         /\ {Copies, RetryCap, CopyInterval} \subseteq Nat \ {0}
         /\ AckTimeout \in Nat /\ MaxStarts \in Nat
<1>1. setup \in Setup BY DEF VInv, VTypeOK
<1>2. setup.stall \in Nat /\ setup.starts \in 0 .. MaxStarts BY <1>1 DEF Setup
<1>3. \A b \in Boots : Seeds[b] \in Nat BY VcmdConstants DEF Boots
<1> QED BY <1>2, <1>3, VcmdConstants DEF VInv, VTypeOK

\* Two boots never give out the same nonce.
LEMMA BootOfNonce ==
  ASSUME NEW a \in Boots, NEW b \in Boots, NEW n \in Nonces(a), n \in Nonces(b)
  PROVE  a = b
<1>1. Seeds[a] \in Nat /\ Seeds[b] \in Nat /\ MaxStarts \in Nat
      /\ (a # b => Seeds[a] + MaxStarts <= Seeds[b] \/ Seeds[b] + MaxStarts <= Seeds[a])
  BY VcmdConstants DEF Boots
<1>2. /\ n \in Int /\ Seeds[a] <= n /\ n <= Seeds[a] + MaxStarts - 1
      /\ Seeds[b] <= n /\ n <= Seeds[b] + MaxStarts - 1
  BY <1>1 DEF Nonces
<1> QED BY <1>1, <1>2

\* The longest copy and the longest round.
LEMMA RoundFacts ==
  ASSUME VInv
  PROVE  /\ LongCopy \in Nat /\ LongRound \in Nat /\ setup.stall + 1 <= LongCopy
         /\ \A j \in 1 .. Copies :
               /\ (Copies - j) * LongCopy \in Nat
               /\ (Copies - j) * LongCopy + LongCopy = (Copies - (j - 1)) * LongCopy
               /\ (Copies - j) * LongCopy <= (Copies - 1) * LongCopy
         /\ (Copies - 1) * LongCopy \in Nat
         /\ (Copies - 1) * LongCopy + LongCopy + AckTimeout + setup.stall + 1 = LongRound
         /\ \A i \in 1 .. RetryCap :
               /\ (RetryCap - i) * LongRound \in Nat
               /\ (RetryCap - i) * LongRound + LongRound = (RetryCap - (i - 1)) * LongRound
               /\ (RetryCap - i) * LongRound + LongRound <= RetryCap * LongRound
         /\ 0 * LongRound = 0 /\ 0 * LongCopy = 0
<1>1. /\ setup.stall \in Nat /\ Copies \in Nat \ {0} /\ RetryCap \in Nat \ {0}
      /\ CopyInterval \in Nat \ {0} /\ AckTimeout \in Nat
  BY GroundFacts
<1>2. LongCopy \in Nat /\ setup.stall + 1 <= LongCopy BY <1>1 DEF LongCopy
<1>3. \A x, y \in Nat : x * y \in Nat OBVIOUS
<1>4. \A x, y, z \in Nat : x <= y => x * z <= y * z
  <2> SUFFICES ASSUME NEW x \in Nat, NEW y \in Nat, NEW z \in Nat, x <= y
               PROVE  x * z <= y * z
    OBVIOUS
  <2>1. y - x \in Nat BY SMT
  <2>2. (y - x) * z \in Nat BY <2>1, <1>3
  <2>3. y * z = x * z + (y - x) * z OBVIOUS
  <2>4. x * z \in Nat /\ y * z \in Nat BY <1>3
  <2> QED BY <2>2, <2>3, <2>4
<1>5. \A x \in Int, z \in Nat : x * z + z = (x + 1) * z OBVIOUS
<1>6. LongRound \in Nat
  <2>1. Copies * LongCopy \in Nat BY <1>1, <1>2, <1>3
  <2> QED BY <1>1, <2>1 DEF LongRound
<1>7. (Copies - 1) * LongCopy + LongCopy + AckTimeout + setup.stall + 1 = LongRound
  <2>1. (Copies - 1) * LongCopy + LongCopy = (Copies - 1 + 1) * LongCopy BY <1>1, <1>2, <1>5
  <2>2. Copies - 1 + 1 = Copies BY <1>1
  <2> QED BY <2>1, <2>2 DEF LongRound
<1> HIDE DEF LongCopy, LongRound
<1>8. ASSUME NEW c \in Nat \ {0}, NEW l \in Nat, NEW j \in 1 .. c
      PROVE  /\ (c - j) * l \in Nat /\ (c - j) * l + l = (c - (j - 1)) * l
             /\ (c - j) * l <= (c - 1) * l /\ (c - 1) * l \in Nat
             /\ (c - j) * l + l <= c * l
  <2>1. c - j \in Nat /\ c - 1 \in Nat /\ c - j <= c - 1 /\ c - j + 1 <= c
        /\ c - j + 1 = c - (j - 1) /\ c - j + 1 \in Nat
    OBVIOUS
  <2>2. (c - j) * l \in Nat /\ (c - 1) * l \in Nat BY <2>1, <1>3
  <2>3. (c - j) * l <= (c - 1) * l BY <2>1, <1>4
  <2>4. (c - j) * l + l = (c - j + 1) * l BY <2>1, <1>5
  <2>5. (c - j + 1) * l <= c * l BY <2>1, <1>4
  <2> QED BY <2>1, <2>2, <2>3, <2>4, <2>5
<1>9. 1 \in 1 .. Copies BY <1>1
<1>10. 0 * LongRound = 0 /\ 0 * LongCopy = 0 BY <1>2, <1>6
<1>11. \A j \in 1 .. Copies :
          /\ (Copies - j) * LongCopy \in Nat
          /\ (Copies - j) * LongCopy + LongCopy = (Copies - (j - 1)) * LongCopy
          /\ (Copies - j) * LongCopy <= (Copies - 1) * LongCopy
          /\ (Copies - 1) * LongCopy \in Nat
  BY <1>1, <1>2, <1>8, Zenon
<1>12. \A i \in 1 .. RetryCap :
          /\ (RetryCap - i) * LongRound \in Nat
          /\ (RetryCap - i) * LongRound + LongRound = (RetryCap - (i - 1)) * LongRound
          /\ (RetryCap - i) * LongRound + LongRound <= RetryCap * LongRound
  BY <1>1, <1>6, <1>8, Zenon
<1> QED BY <1>2, <1>6, <1>7, <1>9, <1>10, <1>11, <1>12, Zenon

\* A campaign begins at its first copy with every round before it.
LEMMA GroundStartKeeps ==
  ASSUME VInv, NEW cmd \in Cmds, GroundStart(cmd)
  PROVE  VInv'
<1>0. /\ setup.stall \in Nat /\ setup.starts \in 0 .. MaxStarts /\ cmdNow \in Nat /\ gNext \in Nat
      /\ gBoot \in Boots /\ gLastStart \in Nat /\ gNextCopy \in Nat /\ gEchoDeadline \in Nat
      /\ gCopiesLeft \in Nat /\ gCampaignsLeft \in Nat /\ Seeds[gBoot] \in Nat
      /\ gNextNonce \in Seeds[gBoot] .. Seeds[gBoot] + MaxStarts
      /\ Copies \in Nat \ {0} /\ RetryCap \in Nat \ {0} /\ CopyInterval \in Nat \ {0}
      /\ AckTimeout \in Nat /\ MaxStarts \in Nat /\ up \in Seq(Asked) /\ down \in Seq(Echoed)
  BY GroundFacts
<1>1. /\ gNext <= cmdNow /\ gNextNonce < Seeds[gBoot] + setup.starts /\ gKey' \in {gKey, cKey}
      /\ gLastStart' = cmdNow /\ gTmpl' = [nonce |-> gNextNonce, cmd |-> cmd]
      /\ gNextNonce' = gNextNonce + 1 /\ gCopiesLeft' = Copies /\ gCampaignsLeft' = RetryCap
      /\ gNextCopy' = cmdNow /\ gState' = "sending" /\ CraftIdle
      /\ UNCHANGED <<gBoot, gEchoDeadline, gNext, up, down, losses>>
  BY DEF GroundStart, GroundRuns
<1>2. UNCHANGED <<setup, cmdNow>> BY <1>1 DEF CraftIdle
<1>3. gNextNonce \in Nonces(gBoot) /\ gNextNonce + 1 \in Seeds[gBoot] .. Seeds[gBoot] + MaxStarts
  BY <1>1, <1>0 DEF Nonces
<1>4. gTmpl' \in [nonce : Nonces(gBoot'), cmd : Cmds] BY <1>1, <1>3
<1>5. VTypeOK' BY <1>1, <1>3, <1>4, GroundFacts, GroundTypes
<1>6. OutcomeTrue' BY <1>1 DEF OutcomeTrue
<1>7. Paced'
  <2>1. cmdNow <= gNext BY DEF VInv, Paced
  <2>2. LongRound' = LongRound /\ LongCopy' = LongCopy BY <1>2 DEF LongRound, LongCopy
  <2>3. RetryCap - gCampaignsLeft' = 0 /\ Copies - gCopiesLeft' = 0 BY <1>1, <1>0
  <2>4. RoundFrom' = cmdNow + 0 * LongRound BY <1>1, <2>2, <2>3 DEF RoundFrom
  <2>5. RoundFrom' + (Copies - gCopiesLeft') * LongCopy' = cmdNow
    BY <2>2, <2>3, <2>4, RoundFacts, <1>0
  <2>6. RetryCap \in 1 .. RetryCap /\ Copies \in 1 .. Copies BY <1>0
  <2>7. gNext' <= gNextCopy' + 1 + setup'.stall BY <1>1, <1>2, <1>0
  <2>8. gNextCopy' <= RoundFrom' + (Copies - gCopiesLeft') * LongCopy' BY <1>1, <2>5, <1>0
  <2> QED BY <1>1, <1>2, <2>1, <2>6, <2>7, <2>8 DEF Paced
<1> QED BY <1>1, <1>5, <1>6, <1>7, GroundLeavesCraft DEF VInv

\* An echo that matches was made by this very command under this key.
LEMMA GroundHearsKeeps == VInv /\ GroundHears => VInv'
<1> SUFFICES ASSUME VInv, GroundHears PROVE VInv' OBVIOUS
<1> DEFINE e == Head(down)
<1>0. /\ setup.stall \in Nat /\ setup.starts \in 0 .. MaxStarts /\ cmdNow \in Nat /\ gNext \in Nat
      /\ gBoot \in Boots /\ gLastStart \in Nat /\ gNextCopy \in Nat /\ gEchoDeadline \in Nat
      /\ gCopiesLeft \in Nat /\ gCampaignsLeft \in Nat /\ Seeds[gBoot] \in Nat
      /\ gNextNonce \in Seeds[gBoot] .. Seeds[gBoot] + MaxStarts
      /\ Copies \in Nat \ {0} /\ RetryCap \in Nat \ {0} /\ CopyInterval \in Nat \ {0}
      /\ AckTimeout \in Nat /\ MaxStarts \in Nat /\ up \in Seq(Asked) /\ down \in Seq(Echoed)
  BY GroundFacts
<1>1. /\ down # << >> /\ down' = Tail(down)
      /\ gState' = IF Pending /\ Matches(e) THEN IF e.echo.rejected THEN "rejected" ELSE "acked"
                   ELSE gState
      /\ CraftIdle
      /\ UNCHANGED <<gBoot, gKey, gNextNonce, gLastStart, gTmpl, gCopiesLeft, gCampaignsLeft,
                     gNextCopy, gEchoDeadline, gNext, up>>
  BY DEF GroundHears
<1>2. UNCHANGED <<setup, cmdNow, hOutcomes>> BY <1>1 DEF CraftIdle
<1>3. e \in Echoed /\ down' \in Seq(Echoed) BY <1>1, <1>0
<1>4. PICK h \in hOutcomes : e = [key |-> h.key, echo |-> h.out] BY <1>3 DEF Echoed
<1>5. e.key = h.key /\ e.echo = h.out BY <1>4
<1>6. /\ h.boot \in Boots /\ h.out \in Outcomes /\ h.out.nonce \in Nonces(h.boot)
  BY DEF VInv, VTypeOK, Applications
<1> HIDE DEF e
<1>7. CASE Pending /\ Matches(e)
  <2>1. e.key = gKey /\ e.echo.nonce = gTmpl.nonce /\ e.echo.cmd = gTmpl.cmd BY <1>7 DEF Matches
  <2>2. gState # "idle" BY <1>7 DEF Pending
  <2>3. gTmpl \in [nonce : Nonces(gBoot), cmd : Cmds] BY <2>2, GroundFacts
  <2>4. gBoot \in Boots BY <1>0
  <2>5. h.boot = gBoot
    <3>1. h.out.nonce \in Nonces(gBoot) BY <1>5, <2>1, <2>3
    <3> QED BY <1>6, <2>4, <3>1, BootOfNonce
  <2>6. e.echo.rejected \in BOOLEAN BY <1>5, <1>6 DEF Outcomes
  <2>7. gState' \in {"rejected", "acked"} /\ (gState' = "rejected") = e.echo.rejected
    BY <1>1, <1>7, <2>6
  <2>8. h.out = [nonce |-> gTmpl.nonce, cmd |-> gTmpl.cmd, rejected |-> e.echo.rejected]
    BY <1>5, <1>6, <2>1 DEF Outcomes
  <2>9. OutcomeTrue' BY <1>1, <1>2, <1>5, <2>1, <2>5, <2>7, <2>8 DEF OutcomeTrue
  <2>10. VTypeOK' BY <1>1, <1>3, <2>3, <2>7, GroundFacts, GroundTypes
  <2>11. Paced' BY <1>1, <1>2, <2>7 DEF VInv, Paced
  <2> QED BY <1>1, <2>9, <2>10, <2>11, GroundLeavesCraft DEF VInv
<1>8. CASE ~(Pending /\ Matches(e))
  <2>1. gState' = gState BY <1>1, <1>8
  <2>2. OutcomeTrue' BY <1>1, <1>2, <2>1 DEF VInv, OutcomeTrue
  <2>3. VTypeOK' BY <1>1, <1>3, <2>1, GroundFacts, GroundTypes
  <2>4. Paced' BY <1>1, <1>2, <2>1 DEF VInv, Paced, RoundFrom, LongRound, LongCopy
  <2> QED BY <1>1, <2>2, <2>3, <2>4, GroundLeavesCraft DEF VInv
<1> QED BY <1>7, <1>8

\* A copy goes out no later than the loop may be late, and the last one arms the echo timer.
LEMMA GroundSendKeeps == VInv /\ GroundSend => VInv'
<1> SUFFICES ASSUME VInv, GroundSend PROVE VInv' OBVIOUS
<1> DEFINE m == [boot |-> gBoot, key |-> gKey, nonce |-> gTmpl.nonce, cmd |-> gTmpl.cmd]
           X == (Copies - gCopiesLeft) * LongCopy
<1>0. /\ setup.stall \in Nat /\ setup.starts \in 0 .. MaxStarts /\ cmdNow \in Nat /\ gNext \in Nat
      /\ gBoot \in Boots /\ gLastStart \in Nat /\ gNextCopy \in Nat /\ gEchoDeadline \in Nat
      /\ gCopiesLeft \in Nat /\ gCampaignsLeft \in Nat /\ Seeds[gBoot] \in Nat
      /\ gNextNonce \in Seeds[gBoot] .. Seeds[gBoot] + MaxStarts
      /\ Copies \in Nat \ {0} /\ RetryCap \in Nat \ {0} /\ CopyInterval \in Nat \ {0}
      /\ AckTimeout \in Nat /\ MaxStarts \in Nat /\ up \in Seq(Asked) /\ down \in Seq(Echoed)
  BY GroundFacts
<1>1. /\ gNext <= cmdNow /\ gState = "sending"
      /\ up' = Offer(up, m) \/ up' = up
      /\ gNextCopy' = cmdNow + CopyInterval /\ gCopiesLeft' = gCopiesLeft - 1
      /\ gState' = IF gCopiesLeft = 1 THEN "awaitecho" ELSE "sending"
      /\ gEchoDeadline' = IF gCopiesLeft = 1 THEN cmdNow + AckTimeout ELSE gEchoDeadline
      /\ gNext' \in cmdNow + 1 .. cmdNow + 1 + setup.stall
      /\ CraftIdle
      /\ UNCHANGED <<gBoot, gKey, gNextNonce, gLastStart, gTmpl, gCampaignsLeft, down>>
  BY DEF GroundSend, GroundReady, GroundRuns
<1>2. UNCHANGED <<setup, cmdNow>> BY <1>1 DEF CraftIdle
<1>3. /\ cmdNow <= gNext /\ gCampaignsLeft \in 1 .. RetryCap /\ gCopiesLeft \in 1 .. Copies
      /\ gNextCopy <= RoundFrom + X /\ gNext <= gNextCopy + 1 + setup.stall
  BY <1>1 DEF VInv, Paced
<1>4. gTmpl \in [nonce : Nonces(gBoot), cmd : Cmds]
  <2>1. gState # "idle" BY <1>1
  <2> QED BY <2>1, GroundFacts
<1>5. m \in Asked
  <2>1. gTmpl.nonce \in Nonces(gBoot) /\ gTmpl.cmd \in Cmds BY <1>4
  <2>2. gTmpl.nonce \in Nat BY <2>1, <1>0 DEF Nonces
  <2>3. gKey \in Nat BY GroundFacts
  <2> QED BY <1>0, <2>1, <2>2, <2>3 DEF Asked
<1>6. up' \in Seq(Asked) BY <1>1, <1>5, OfferStays, <1>0
<1>7. /\ gNext' \in Nat /\ cmdNow <= gNext' /\ gNext' <= cmdNow + 1 + setup.stall
      /\ gNextCopy' \in Nat /\ gCopiesLeft' \in Nat /\ gEchoDeadline' \in Nat
  BY <1>1, <1>3, <1>0
<1>8. gState' # "idle" /\ gState' \in {"sending", "awaitecho"} BY <1>1
<1>9. VTypeOK' BY <1>1, <1>4, <1>6, <1>7, <1>8, GroundFacts, GroundTypes
<1>10. OutcomeTrue' BY <1>8 DEF OutcomeTrue
<1>11. RoundFrom' = RoundFrom /\ LongCopy' = LongCopy BY <1>1, <1>2 DEF RoundFrom, LongRound, LongCopy
<1>12. RoundFrom \in Nat
  <2>1. (RetryCap - gCampaignsLeft) * LongRound \in Nat BY <1>3, RoundFacts
  <2> QED BY <1>0, <2>1 DEF RoundFrom
<1>13. /\ X \in Nat /\ X + LongCopy = (Copies - (gCopiesLeft - 1)) * LongCopy
       /\ (gCopiesLeft = 1 => X = (Copies - 1) * LongCopy)
  BY <1>3, RoundFacts
<1> HIDE DEF X
<1>14. cmdNow <= RoundFrom + X + 1 + setup.stall BY <1>3, <1>12, <1>13, <1>0
<1>15. CASE gCopiesLeft = 1
  <2>1. gState' = "awaitecho" /\ gEchoDeadline' = cmdNow + AckTimeout BY <1>1, <1>15
  <2>2. gEchoDeadline' <= RoundFrom + X + 1 + setup.stall + AckTimeout
    BY <1>12, <1>13, <1>14, <2>1, <1>0
  <2>3. gNext' <= gEchoDeadline' + 1 + setup.stall BY <1>7, <2>1, <1>0
  <2>4. Paced' BY <1>1, <1>2, <1>3, <1>7, <1>11, <1>13, <1>15, <2>1, <2>2, <2>3 DEF Paced
  <2> QED BY <1>1, <1>9, <1>10, <2>4, GroundLeavesCraft DEF VInv
<1>16. CASE gCopiesLeft # 1
  <2>1. gState' = "sending" /\ gCopiesLeft' \in 1 .. Copies BY <1>1, <1>3, <1>16, <1>0
  <2>2. gNextCopy' <= RoundFrom + X + LongCopy
    <3>1. LongCopy = CopyInterval + setup.stall + 1 BY DEF LongCopy
    <3>2. gNextCopy' = cmdNow + CopyInterval BY <1>1
    <3> HIDE DEF LongCopy
    <3>3. X \in Nat BY <1>13
    <3> QED BY <1>0, <1>12, <1>14, <3>1, <3>2, <3>3
  <2>3. gNextCopy' <= RoundFrom + (Copies - gCopiesLeft') * LongCopy
    BY <1>1, <1>12, <1>13, <2>2, RoundFacts, <1>0
  <2>4. gNext' <= gNextCopy' + 1 + setup.stall BY <1>1, <1>7, <1>0
  <2>5. Paced' BY <1>1, <1>2, <1>3, <1>7, <1>11, <2>1, <2>3, <2>4 DEF Paced
  <2> QED BY <1>1, <1>9, <1>10, <2>5, GroundLeavesCraft DEF VInv
<1> QED BY <1>15, <1>16

\* A round that hears nothing starts the next one, or was the last.
LEMMA GroundRetryKeeps == VInv /\ GroundRetry => VInv'
<1> SUFFICES ASSUME VInv, GroundRetry PROVE VInv' OBVIOUS
<1> DEFINE Y == (Copies - 1) * LongCopy
           Z == (RetryCap - gCampaignsLeft) * LongRound
<1>0. /\ setup.stall \in Nat /\ cmdNow \in Nat /\ gLastStart \in Nat
      /\ gNextCopy \in Nat /\ gEchoDeadline \in Nat /\ gCopiesLeft \in Nat
      /\ Copies \in Nat \ {0} /\ RetryCap \in Nat \ {0} /\ AckTimeout \in Nat
  BY GroundFacts
<1>1. /\ gNext <= cmdNow /\ gState = "awaitecho" /\ gCampaignsLeft' = gCampaignsLeft - 1
      /\ \/ LastRound /\ gState' = "timeout" /\ UNCHANGED <<gCopiesLeft, gNextCopy>>
         \/ ~LastRound /\ gState' = "sending" /\ gCopiesLeft' = Copies /\ gNextCopy' = cmdNow
      /\ gNext' \in cmdNow + 1 .. cmdNow + 1 + setup.stall
      /\ CraftIdle
      /\ UNCHANGED <<gBoot, gKey, gNextNonce, gLastStart, gTmpl, gEchoDeadline, up, down>>
  BY DEF GroundRetry, GroundReady, GroundRuns
<1>2. UNCHANGED <<setup, cmdNow>> BY <1>1 DEF CraftIdle
<1>3. /\ cmdNow <= gNext /\ gCampaignsLeft \in 1 .. RetryCap
      /\ gEchoDeadline <= RoundFrom + Y + 1 + setup.stall + AckTimeout
      /\ gNext <= gEchoDeadline + 1 + setup.stall
  BY <1>1 DEF VInv, Paced
<1>4. gState # "idle" /\ gState' # "idle" /\ gState' \in {"timeout", "sending"} BY <1>1
<1>5. gTmpl' \in [nonce : Nonces(gBoot'), cmd : Cmds] BY <1>1, <1>4, GroundFacts
<1>6. /\ gNext' \in Nat /\ cmdNow <= gNext' /\ gNext' <= cmdNow + 1 + setup.stall
      /\ gNextCopy' \in Nat /\ gCopiesLeft' \in Nat /\ gCampaignsLeft' \in Nat
  BY <1>0, <1>1, <1>3
<1>7. VTypeOK' BY <1>1, <1>4, <1>5, <1>6, GroundFacts, GroundTypes
<1>8. OutcomeTrue' BY <1>4 DEF OutcomeTrue
<1>9. LongRound' = LongRound /\ LongCopy' = LongCopy BY <1>2 DEF LongRound, LongCopy
<1>10. /\ Z \in Nat /\ Y \in Nat /\ LongCopy \in Nat /\ LongRound \in Nat
       /\ setup.stall + 1 <= LongCopy
       /\ Y + LongCopy + AckTimeout + setup.stall + 1 = LongRound
       /\ Z + LongRound = (RetryCap - (gCampaignsLeft - 1)) * LongRound
  BY <1>3, RoundFacts
<1>11. RoundFrom = gLastStart + Z BY DEF RoundFrom
<1>12. RoundFrom' = gLastStart + (Z + LongRound) BY <1>1, <1>9, <1>10 DEF RoundFrom
<1> HIDE DEF Y, Z
<1>13. cmdNow <= gLastStart + (Z + LongRound)
  <2>1. /\ Z \in Nat /\ Y \in Nat /\ LongCopy \in Nat /\ setup.stall + 1 <= LongCopy
        /\ Y + LongCopy + AckTimeout + setup.stall + 1 = LongRound
    BY <1>10
  <2>2. gNext \in Nat BY GroundFacts
  <2> QED BY <1>0, <1>3, <1>11, <2>1, <2>2
<1>14. Paced'
  <2>1. CASE gState' = "timeout" BY <1>2, <1>6, <2>1 DEF Paced
  <2>2. CASE gState' = "sending"
    <3>1. ~LastRound /\ gCopiesLeft' = Copies /\ gNextCopy' = cmdNow BY <1>1, <2>2
    <3>2. gCampaignsLeft' \in 1 .. RetryCap BY <1>0, <1>1, <1>3, <3>1 DEF LastRound
    <3>3. (Copies - gCopiesLeft') * LongCopy' = 0
      <4>1. Copies - gCopiesLeft' = 0 BY <1>0, <3>1
      <4> QED BY <1>9, <4>1, RoundFacts
    <3>4. RoundFrom' \in Nat BY <1>0, <1>10, <1>12
    <3>5. gNextCopy' <= RoundFrom' + (Copies - gCopiesLeft') * LongCopy'
      BY <1>12, <1>13, <3>1, <3>3, <3>4
    <3>6. gCopiesLeft' \in 1 .. Copies BY <1>0, <3>1
    <3> QED BY <1>2, <1>6, <2>2, <3>1, <3>2, <3>5, <3>6 DEF Paced
  <2> QED BY <1>4, <2>1, <2>2
<1> QED BY <1>1, <1>7, <1>8, <1>14, GroundLeavesCraft DEF VInv

\* A pass with nothing due ends before what is due next, as late as the loop may be.
LEMMA GroundQuietKeeps == VInv /\ GroundQuiet => VInv'
<1> SUFFICES ASSUME VInv, GroundQuiet PROVE VInv' OBVIOUS
<1>0. /\ setup.stall \in Nat /\ cmdNow \in Nat /\ gNextCopy \in Nat /\ gEchoDeadline \in Nat
      /\ gNext \in Nat
  BY GroundFacts
<1>1. /\ gState = "sending" => cmdNow < gNextCopy
      /\ gState = "awaitecho" => cmdNow < gEchoDeadline
      /\ gNext' \in cmdNow + 1 .. cmdNow + 1 + setup.stall
      /\ CraftIdle /\ UNCHANGED <<groundVars, up, down, losses>>
  BY DEF GroundQuiet
<1>2. UNCHANGED <<setup, cmdNow, hOutcomes>> BY <1>1 DEF CraftIdle
<1>3. UNCHANGED <<gBoot, gKey, gState, gNextNonce, gLastStart, gTmpl, gCopiesLeft, gCampaignsLeft,
                  gNextCopy, gEchoDeadline>>
  BY <1>1 DEF groundVars
<1>4. /\ gNext' \in Nat /\ cmdNow <= gNext'
      /\ gState = "sending" => gNext' <= gNextCopy + 1 + setup.stall
      /\ gState = "awaitecho" => gNext' <= gEchoDeadline + 1 + setup.stall
  BY <1>0, <1>1
<1>5. VTypeOK' BY <1>1, <1>3, <1>4, GroundFacts, GroundTypes
<1>6. OutcomeTrue' BY <1>2, <1>3 DEF VInv, OutcomeTrue
<1>7. RoundFrom' = RoundFrom /\ LongCopy' = LongCopy BY <1>2, <1>3 DEF RoundFrom, LongRound, LongCopy
<1>8. Paced' BY <1>2, <1>3, <1>4, <1>7, Zenon DEF VInv, Paced
<1> QED BY <1>1, <1>5, <1>6, <1>8, GroundLeavesCraft DEF VInv

\* A restarted ground has no campaign, and its nonces are of its own session.
LEMMA GroundRebootKeeps == VInv /\ GroundReboot => VInv'
<1> SUFFICES ASSUME VInv, GroundReboot PROVE VInv' OBVIOUS
<1>0. gBoot \in Boots /\ cmdNow \in Nat /\ MaxStarts \in Nat /\ \A b \in Boots : Seeds[b] \in Nat
  BY GroundFacts
<1>1. /\ gBoot < Len(Seeds) /\ gBoot' = gBoot + 1 /\ gState' = "idle"
      /\ gNextNonce' = Seeds[gBoot + 1] /\ gLastStart' = 0 /\ gCopiesLeft' = 0
      /\ gCampaignsLeft' = 0 /\ gNextCopy' = 0 /\ gEchoDeadline' = 0 /\ gNext' = cmdNow + 1
      /\ CraftIdle /\ UNCHANGED <<gKey, up, down, losses>>
  BY DEF GroundReboot
<1>2. UNCHANGED <<setup, cmdNow>> BY <1>1 DEF CraftIdle
<1>3. gBoot' \in Boots BY <1>0, <1>1, VcmdConstants DEF Boots
<1>4. gNextNonce' \in Seeds[gBoot'] .. Seeds[gBoot'] + MaxStarts BY <1>0, <1>1, <1>3
<1>5. gNext' \in Nat /\ cmdNow <= gNext' BY <1>0, <1>1
<1>6. VTypeOK' BY <1>1, <1>3, <1>4, <1>5, GroundFacts, GroundTypes
<1>7. OutcomeTrue' /\ Paced' BY <1>1, <1>2, <1>5 DEF OutcomeTrue, Paced
<1> QED BY <1>1, <1>6, <1>7, GroundLeavesCraft DEF VInv

\* The clock waits for the loops; nothing else moves with it.
LEMMA ClockKeeps == VInv /\ (AdvanceClock \/ UNCHANGED vars) => VInv'
<1> SUFFICES ASSUME VInv, AdvanceClock \/ UNCHANGED vars PROVE VInv' OBVIOUS
<1>1. /\ UNCHANGED <<setup, craftVars, groundVars, gNext, up, down, hOutcomes>>
      /\ cmdNow' = cmdNow \/ (gNext > cmdNow /\ cmdNow' = cmdNow + 1)
  BY DEF AdvanceClock, vars
<1>2. UNCHANGED <<setup, gNext, up, down, hOutcomes, cKey, cLast, cEcho, cEchoesLeft, gBoot, gKey,
                  gState, gNextNonce, gLastStart, gTmpl, gCopiesLeft, gCampaignsLeft, gNextCopy,
                  gEchoDeadline>>
  BY <1>1 DEF craftVars, groundVars
<1>3. cmdNow \in Nat /\ gNext \in Nat /\ cmdNow <= gNext BY DEF VInv, VTypeOK, Paced
<1>4. cmdNow' \in Nat /\ cmdNow' <= gNext BY <1>1, <1>3
<1>5. Echoed' = Echoed BY <1>2 DEF Echoed
<1>6. VTypeOK' BY <1>2, <1>4, <1>5, Zenon DEF VInv, VTypeOK
<1>7. Remembered' BY <1>2 DEF VInv, Remembered, Done
<1>8. AppliedOnce' /\ OutcomeTrue' BY <1>2 DEF VInv, AppliedOnce, OutcomeTrue
<1>9. RoundFrom' = RoundFrom /\ LongCopy' = LongCopy BY <1>2 DEF RoundFrom, LongRound, LongCopy
<1>10. Paced' BY <1>2, <1>4, <1>9, Zenon DEF VInv, Paced
<1> QED BY <1>6, <1>7, <1>8, <1>10 DEF VInv

\* What the craft remembers, what the ground concludes and where a campaign may be, at every step.
LEMMA CommandsInductive == Spec => []VInv
<1>1. Init => VInv
  <2> SUFFICES ASSUME Init PROVE VInv OBVIOUS
  <2>1. /\ setup \in Setup /\ Seeds \in Seq(Nat) /\ Len(Seeds) > 0 /\ MaxStarts \in Nat
    BY VcmdConstants DEF Init
  <2>2. 1 \in Boots /\ Seeds[1] \in Nat BY <2>1 DEF Boots
  <2>3. Seeds[1] \in Seeds[1] .. Seeds[1] + MaxStarts BY <2>1, <2>2
  <2>4. VTypeOK BY <2>1, <2>2, <2>3 DEF Init, VTypeOK
  <2>5. Remembered BY DEF Init, Remembered, Done
  <2>6. AppliedOnce /\ OutcomeTrue /\ Paced BY DEF Init, AppliedOnce, OutcomeTrue, Paced
  <2> QED BY <2>4, <2>5, <2>6 DEF VInv
<1>2. VInv /\ [Next]_vars => VInv'
  <2> SUFFICES ASSUME VInv, [Next]_vars PROVE VInv' OBVIOUS
  <2>1. CASE AdvanceClock \/ Halt \/ UNCHANGED vars BY <2>1, ClockKeeps DEF Halt
  <2>2. CASE CraftHears \/ CraftTick \/ CraftRekey \/ CraftBinding
    BY <2>2, CraftHearsKeeps, CraftTickKeeps, CraftPairingKeeps
  <2>3. CASE \E c \in Cmds : GroundStart(c) BY <2>3, GroundStartKeeps
  <2>4. CASE GroundHears \/ GroundSend \/ GroundRetry \/ GroundQuiet \/ GroundReboot
    BY <2>4, GroundHearsKeeps, GroundSendKeeps, GroundRetryKeeps, GroundQuietKeeps, GroundRebootKeeps
  <2> QED BY <2>1, <2>2, <2>3, <2>4 DEF Next
<1> QED BY <1>1, <1>2, PTL DEF Spec

\* However the air loses and repeats, whenever either end restarts, re-keys or is rebound: the
\* craft carries out a command at most once, the ground's verdict is what the craft did with this
\* very command, and every campaign is over within its retries.
THEOREM CommandsAlwaysTrue == Spec => [](AppliedOnce /\ OutcomeTrue /\ CampaignEnds)
<1>1. VInv => AppliedOnce /\ OutcomeTrue /\ CampaignEnds
  <2> SUFFICES ASSUME VInv, Pending PROVE cmdNow <= gLastStart + Span BY DEF VInv, CampaignEnds
  <2> DEFINE Z == (RetryCap - gCampaignsLeft) * LongRound
             Y == (Copies - 1) * LongCopy
             X == (Copies - gCopiesLeft) * LongCopy
  <2>1. /\ setup.stall \in Nat /\ cmdNow \in Nat /\ gLastStart \in Nat /\ gNext \in Nat
        /\ gNextCopy \in Nat /\ gEchoDeadline \in Nat /\ RetryCap \in Nat \ {0} /\ AckTimeout \in Nat
    BY GroundFacts
  <2>2. cmdNow <= gNext /\ gCampaignsLeft \in 1 .. RetryCap BY DEF VInv, Paced, Pending
  <2>3. /\ Z \in Nat /\ Y \in Nat /\ LongCopy \in Nat /\ LongRound \in Nat
        /\ setup.stall + 1 <= LongCopy
        /\ Y + LongCopy + AckTimeout + setup.stall + 1 = LongRound
        /\ Z + LongRound <= RetryCap * LongRound
    BY <2>2, RoundFacts
  <2>4. Span = RetryCap * LongRound BY DEF Span, LongRound, LongCopy
  <2>5. RoundFrom = gLastStart + Z BY DEF RoundFrom
  <2>6. cmdNow <= gLastStart + Z + LongRound
    <3>1. CASE gState = "sending"
      <4>1. /\ gCopiesLeft \in 1 .. Copies /\ gNextCopy <= RoundFrom + X
            /\ gNext <= gNextCopy + 1 + setup.stall
        BY <3>1 DEF VInv, Paced
      <4>2. X \in Nat /\ X <= Y BY <4>1, RoundFacts
      <4> HIDE DEF X, Y, Z
      <4> QED BY <2>1, <2>2, <2>3, <2>5, <4>1, <4>2
    <3>2. CASE gState = "awaitecho"
      <4>1. /\ gEchoDeadline <= RoundFrom + Y + 1 + setup.stall + AckTimeout
            /\ gNext <= gEchoDeadline + 1 + setup.stall
        BY <3>2 DEF VInv, Paced
      <4> HIDE DEF X, Y, Z
      <4> QED BY <2>1, <2>2, <2>3, <2>5, <4>1
    <3> QED BY <3>1, <3>2 DEF Pending
  <2>7. RetryCap * LongRound \in Nat BY <2>1, <2>3
  <2> HIDE DEF Z
  <2> QED BY <2>1, <2>3, <2>4, <2>6, <2>7
<1> QED BY <1>1, CommandsInductive, PTL

-----------------------------------------------------------------------------
(* What a timeout costs the air *)

\* The echo timer covers a fair round: a copy heard one late iteration after it left, the whole
\* burst of echoes it starts, the end of the accept limit and of the holddown; and a receive
\* queue holds what one late iteration lets in.  As shipped: 1000 ms for 2 echoes 20 ms apart
\* and a limit of 250 ms.
AckCovers ==
    \A s \in Setups : ~s.moves =>
      /\ QueueCap >= s.stall + 2
      /\ AckTimeout > 1 + s.stall + (EchoCopies - 1) * (CopyInterval + s.stall)
      /\ AckTimeout >= CmdMinInterval + 1 + s.stall

\* A pair that stays paired and bound.
Steady == setup \in Setups /\ (~setup.moves => gBoot = 1 /\ gKey = 1 /\ cKey = 1 /\ cBound = TRUE)

\* The craft's clock: its iterations, and the echoes of a burst.
EchoBy == cLastEchoStart + (EchoCopies - cEchoesLeft) * (CopyInterval + setup.stall)
CraftPaced ==
    /\ cNext \in Nat /\ cNextEcho \in Nat /\ cLastEchoStart \in Nat /\ cLastAccept \in Nat
    /\ cmdNow <= cNext /\ cNext <= cmdNow + 1 + setup.stall
    /\ gNext <= cmdNow + 1 + setup.stall
    /\ cLastEchoStart <= cmdNow /\ cLastAccept <= cmdNow /\ cEchoesLeft <= EchoCopies
    /\ cEchoesLeft > 0 => cNext <= EchoBy
    /\ cEchoesLeft = EchoCopies => cNextEcho <= cmdNow
    /\ cEchoesLeft \in 1 .. EchoCopies - 1 => cNextEcho <= EchoBy - setup.stall

\* The queues have room for what an iteration may add: n frames, a writer and a reader that run
\* next at w and r, s the lateness of either, t the time.
RoomFor(n, w, r, t, s) == n + (IF w <= t THEN 1 ELSE 0) <= t - r + s + 2
Room ==
    /\ RoomFor(Len(up), gNext, cNext, cmdNow, setup.stall)
    /\ RoomFor(Len(down), cNext, gNext, cmdNow, setup.stall)

\* The current round: when its latest copy left, and what that bounds.
LastSent == gNextCopy - CopyInterval
Underway == gState = "awaitecho" \/ (gState = "sending" /\ gCopiesLeft < Copies)
InTime ==
    /\ gState = "sending" => gLastStart <= gNextCopy
    /\ Underway => gLastStart <= LastSent
    /\ Underway /\ up # << >> => cNext <= LastSent + 1 + setup.stall
    /\ Underway /\ cEchoedOnce = TRUE /\ cLastEchoNonce = gTmpl.nonce =>
         cLastEchoStart <= LastSent + 1 + setup.stall
    /\ gState = "awaitecho" => gEchoDeadline = LastSent + AckTimeout

\* What the craft remembers and hears of this ground, against the command it is asked now.
Taken == cLast[gBoot].nonce
Current(m) == m.nonce = gTmpl.nonce
CopyMeant(m) ==
    /\ m.boot = gBoot /\ m.key = gKey
    /\ m.nonce <= Taken \/ (Pending /\ Current(m))
    /\ Current(m) => m.cmd = gTmpl.cmd
Meant ==
    /\ cEchoedOnce \in BOOLEAN /\ Taken < gNextNonce
    /\ gState = "idle" => /\ gNextNonce = Seeds[gBoot] /\ up = << >>
                          /\ cLastAccept = 0 /\ cEchoedOnce = FALSE
    /\ gState # "idle" => /\ gNextNonce = gTmpl.nonce + 1
                          /\ Taken = gTmpl.nonce => cLast[gBoot].cmd = gTmpl.cmd
    /\ \A i \in 1 .. Len(up) : CopyMeant(up[i])
    /\ cEchoedOnce = TRUE => cLastEchoNonce <= Taken /\ cLastEchoNonce \in Nat
    /\ Pending /\ Taken # gTmpl.nonce => cLastAccept <= gLastStart

\* What the air owes for the rounds behind, and what became of the one at hand: its echo is
\* queued, the craft answers it, or the craft would and every copy so far was lost.
Fewest == IF Copies < EchoCopies THEN Copies ELSE EchoCopies
Behind == RetryCap - gCampaignsLeft
Lost == losses - hLossesAtStart
Owed == (Behind - Spared) * Fewest
CopiesOut == IF gState = "sending" THEN Copies - gCopiesLeft ELSE Copies
HeldDown == /\ cEchoedOnce = TRUE /\ cLastEchoNonce = gTmpl.nonce
            /\ cEchoesLeft > 0 \/ cmdNow - cLastEchoStart < CmdMinInterval
Informed == \E i \in 1 .. Len(down) : Matches(down[i])
Answering ==
    /\ cEchoedOnce = TRUE /\ cLastEchoNonce = gTmpl.nonce /\ Taken = gTmpl.nonce
    /\ cEcho.nonce = gTmpl.nonce /\ cEcho.cmd = gTmpl.cmd
    /\ Lost >= Owed + EchoCopies - cEchoesLeft
Open == ~HeldDown /\ (Taken = gTmpl.nonce \/ ~CmdRateLimited)
Reaching == \E i \in 1 .. Len(up) : Current(up[i])
Listening == Open /\ (Reaching \/ Lost >= Owed + CopiesOut)
RoundPaid == Lost >= Owed /\ (Informed \/ Answering \/ Listening)
Accounted ==
    /\ losses \in Nat /\ hLossesAtStart \in Nat /\ hLossesAtStart <= losses
    /\ Pending /\ Behind >= Spared => RoundPaid
    /\ TimeoutJustified

PaidInv == Steady /\ (~setup.moves => CraftPaced /\ Room /\ InTime /\ Meant /\ Accounted)

\* A pair at rest in its pairing, and a timer that covers the round.
Calm == VInv /\ PaidInv /\ AckCovers /\ ~setup.moves

\* What the steps of such a pair may rely on.
LEMMA CalmFacts ==
  ASSUME Calm
  PROVE  /\ setup.stall \in Nat /\ cmdNow \in Nat /\ gNext \in Nat /\ cmdNow <= gNext
         /\ gBoot = 1 /\ gBoot \in Boots /\ gKey = 1 /\ cKey = 1 /\ cBound = TRUE
         /\ CraftPaced /\ Room /\ InTime /\ Meant /\ Accounted
         /\ cEchoesLeft \in Nat /\ gNextNonce \in Nat /\ Taken \in Int
         /\ gState # "idle" => gTmpl.nonce \in Nat /\ gTmpl.nonce >= Seeds[gBoot]
         /\ gNextCopy \in Nat /\ gLastStart \in Nat /\ gEchoDeadline \in Nat
         /\ gCopiesLeft \in Nat /\ gCampaignsLeft \in Nat /\ Seeds[gBoot] \in Nat
         /\ gState = "sending" => gCopiesLeft \in 1 .. Copies
         /\ Pending => gCampaignsLeft \in 1 .. RetryCap
         /\ up \in Seq(Asked) /\ down \in Seq(Echoed)
         /\ Copies \in Nat \ {0} /\ EchoCopies \in Nat \ {0} /\ RetryCap \in Nat \ {0}
         /\ CopyInterval \in Nat \ {0} /\ AckTimeout \in Nat /\ CmdMinInterval \in Nat
         /\ QueueCap \in Nat /\ QueueCap >= setup.stall + 2
         /\ AckTimeout > 1 + setup.stall + (EchoCopies - 1) * (CopyInterval + setup.stall)
         /\ AckTimeout >= CmdMinInterval + 1 + setup.stall
<1>1. VInv /\ PaidInv /\ AckCovers /\ ~setup.moves BY DEF Calm
<1>2. Steady /\ CraftPaced /\ Room /\ InTime /\ Meant /\ Accounted BY <1>1 DEF PaidInv
<1>3. setup \in Setups /\ gBoot = 1 /\ gKey = 1 /\ cKey = 1 /\ cBound = TRUE
  BY <1>1, <1>2, Zenon DEF Steady
<1>4. /\ QueueCap >= setup.stall + 2
      /\ AckTimeout > 1 + setup.stall + (EchoCopies - 1) * (CopyInterval + setup.stall)
      /\ AckTimeout >= CmdMinInterval + 1 + setup.stall
  BY <1>1, <1>3 DEF AckCovers
<1>5. cEchoesLeft \in Nat /\ cLast \in [Boots -> Outcomes \cup {NoOutcome}]
  BY <1>1 DEF VInv, VTypeOK
<1>6. Taken \in Int
  <2>1. cLast[gBoot] \in Outcomes \/ cLast[gBoot] = NoOutcome BY <1>1, <1>5, GroundFacts
  <2> QED BY <2>1 DEF Taken, Outcomes, NoOutcome
<1>7. gState # "idle" => gTmpl.nonce \in Nat /\ gTmpl.nonce >= Seeds[gBoot]
  <2> SUFFICES ASSUME gState # "idle" PROVE gTmpl.nonce \in Nat /\ gTmpl.nonce >= Seeds[gBoot] OBVIOUS
  <2>1. gTmpl \in [nonce : Nonces(gBoot), cmd : Cmds] /\ Seeds[gBoot] \in Nat /\ MaxStarts \in Nat
    BY <1>1, GroundFacts
  <2> QED BY <2>1 DEF Nonces
<1>8. /\ cmdNow <= gNext /\ (gState = "sending" => gCopiesLeft \in 1 .. Copies)
      /\ (Pending => gCampaignsLeft \in 1 .. RetryCap)
  BY <1>1 DEF VInv, Paced, Pending
<1>9. /\ EchoCopies \in Nat \ {0} /\ CmdMinInterval \in Nat /\ QueueCap \in Nat
  BY VcmdConstants
<1>10. gNextNonce \in Nat
  <2>1. gNextNonce \in Seeds[gBoot] .. Seeds[gBoot] + MaxStarts /\ Seeds[gBoot] \in Nat /\ MaxStarts \in Nat
    BY <1>1, GroundFacts
  <2> QED BY <2>1
<1> QED BY <1>1, <1>2, <1>3, <1>4, <1>5, <1>6, <1>7, <1>8, <1>9, <1>10, GroundFacts

\* A frame offered to a queue with room is in it, behind what was there.
LEMMA OfferTaken ==
  ASSUME NEW S, NEW q \in Seq(S), NEW m \in S, Len(q) < QueueCap
  PROVE  /\ Len(Offer(q, m)) = Len(q) + 1 /\ Offer(q, m)[Len(q) + 1] = m
         /\ \A i \in 1 .. Len(q) : Offer(q, m)[i] = q[i]
<1>1. Offer(q, m) = Append(q, m) BY DEF Offer
<1> QED BY <1>1, AppendProperties

\* What keeps the room of a queue: time that passes for both, a frame read, an iteration of the
\* reader that found it empty, and one of the writer that added a frame at most.
LEMMA RoomSteps ==
  ASSUME NEW n \in Nat, NEW w \in Nat, NEW r \in Nat, NEW t \in Nat, NEW s \in Nat,
         t <= w, t <= r, RoomFor(n, w, r, t, s)
  PROVE  /\ w <= t => n < s + 2
         /\ t < w /\ t < r => RoomFor(n, w, r, t + 1, s)
         /\ n > 0 => RoomFor(n - 1, w, r, t, s)
         /\ \A x \in Nat : n = 0 /\ x <= t + 1 + s => RoomFor(n, w, x, t, s)
         /\ \A x, m \in Nat : w <= t /\ t < x /\ m <= n + 1 => RoomFor(m, x, r, t, s)
<1>1. n + (IF w <= t THEN 1 ELSE 0) <= t - r + s + 2 BY DEF RoomFor
<1>2. w <= t => n < s + 2 BY <1>1
<1>3. t < w /\ t < r => RoomFor(n, w, r, t + 1, s)
  <2> SUFFICES ASSUME t < w, t < r PROVE n + (IF w <= t + 1 THEN 1 ELSE 0) <= t + 1 - r + s + 2
    BY DEF RoomFor
  <2>1. n <= t - r + s + 2 BY <1>1
  <2> QED BY <2>1
<1>4. n > 0 => RoomFor(n - 1, w, r, t, s) BY <1>1 DEF RoomFor
<1>5. ASSUME NEW x \in Nat, n = 0, x <= t + 1 + s PROVE RoomFor(n, w, x, t, s) BY <1>5 DEF RoomFor
<1>6. ASSUME NEW x \in Nat, NEW m \in Nat, w <= t, t < x, m <= n + 1 PROVE RoomFor(m, x, r, t, s)
  BY <1>1, <1>6 DEF RoomFor
<1> QED BY <1>2, <1>3, <1>4, <1>5, <1>6

\* Both queues, and what their readers and writers may rely on.
LEMMA RoomFacts ==
  ASSUME Calm
  PROVE  /\ Len(up) \in Nat /\ Len(down) \in Nat /\ cmdNow \in Nat /\ setup.stall \in Nat
         /\ cNext \in Nat /\ gNext \in Nat /\ cmdNow <= cNext /\ cmdNow <= gNext
         /\ RoomFor(Len(up), gNext, cNext, cmdNow, setup.stall)
         /\ RoomFor(Len(down), cNext, gNext, cmdNow, setup.stall)
<1>1. up \in Seq(Asked) /\ down \in Seq(Echoed) BY CalmFacts
<1>2. Len(up) \in Nat /\ Len(down) \in Nat BY <1>1, LenProperties
<1> QED BY <1>2, CalmFacts DEF CraftPaced, Room

\* The air's queues hold what an iteration adds: nothing is dropped at a queue.
LEMMA QueuesHaveRoom ==
  ASSUME Calm
  PROVE  /\ GroundRuns => Len(up) < QueueCap
         /\ CraftRuns => Len(down) < QueueCap
<1>1. QueueCap \in Nat /\ QueueCap >= setup.stall + 2 /\ setup.stall \in Nat BY CalmFacts
<1>2. /\ gNext <= cmdNow => Len(up) < setup.stall + 2
      /\ cNext <= cmdNow => Len(down) < setup.stall + 2
  BY RoomFacts, RoomSteps
<1>3. Len(up) \in Nat /\ Len(down) \in Nat BY RoomFacts
<1>4. \A n \in Nat : n < setup.stall + 2 => n < QueueCap BY <1>1
<1> QED BY <1>2, <1>3, <1>4 DEF GroundRuns, CraftRuns

\* What the craft makes of a copy: the newest command yet, the last one again, or neither.
TakesNew(m) ==
    /\ m.nonce > Taken /\ ~CmdRateLimited /\ cLastAccept' = cmdNow
Repeats(m) ==
    /\ m.nonce = Taken /\ m.cmd = cLast[gBoot].cmd /\ UNCHANGED <<cLast, cLastAccept>>
Responds(m) ==
    /\ TakesNew(m) \/ Repeats(m)
    /\ Taken' = m.nonce /\ cLast'[gBoot].cmd = m.cmd /\ QueueEcho(cLast'[gBoot])
Ignores(m) ==
    /\ UNCHANGED craftVars
    /\ m.nonce <= Taken \/ CmdRateLimited
    /\ ~(m.nonce = Taken /\ m.cmd = cLast[gBoot].cmd)

\* on_cmd for a craft that stays paired and bound.
LEMMA CopyHeard ==
  ASSUME Calm, CraftHears
  PROVE  /\ up # << >> /\ up' = Tail(up) /\ CraftRuns /\ cNext = cmdNow
         /\ UNCHANGED <<setup, cmdNow, groundVars, gNext, cNext, down, losses, cKey, cBound>>
         /\ Head(up) \in Asked /\ Head(up) = up[1] /\ CopyMeant(Head(up))
         /\ Responds(Head(up)) \/ Ignores(Head(up))
<1> DEFINE m == Head(up)
           o == [nonce |-> m.nonce, cmd |-> m.cmd, rejected |-> m.cmd \notin Applicable]
<1>1. /\ up # << >> /\ up' = Tail(up) /\ CraftRuns /\ GroundIdle /\ UNCHANGED <<cNext, down, losses>>
      /\ Accept(m) \/ ReEcho(m) \/ Drop(m)
  BY DEF CraftHears
<1>2. UNCHANGED <<setup, cmdNow, groundVars, gNext>> BY <1>1 DEF GroundIdle
<1>3. up \in Seq(Asked) /\ gBoot \in Boots /\ gKey = 1 /\ cKey = 1 /\ cBound = TRUE /\ Meant
  BY CalmFacts
<1>4. m \in Asked /\ m = up[1] /\ 1 \in 1 .. Len(up)
  BY <1>1, <1>3
<1>5. CopyMeant(m) BY <1>3, <1>4 DEF Meant
<1>6. m.boot = gBoot /\ m.key = cKey /\ Heard(m)
  BY <1>3, <1>5, Zenon DEF CopyMeant, Heard
<1>7. m.nonce \in Nat BY <1>4 DEF Asked
<1>8. UNCHANGED <<cKey, cBound>> BY <1>1 DEF Accept, ReEcho, Drop, craftVars
<1>9. gBoot' = gBoot BY <1>2 DEF groundVars
<1>10. cNext = cmdNow
  <2>1. cNext \in Nat /\ cmdNow \in Nat /\ cmdNow <= cNext BY CalmFacts DEF CraftPaced
  <2> QED BY <1>1, <2>1 DEF CraftRuns
<1>11. Taken \in Int /\ cLast \in [Boots -> Outcomes \cup {NoOutcome}]
  BY CalmFacts DEF Calm, VInv, VTypeOK
<1>12. CASE Accept(m)
  <2>1. /\ ~(m.nonce <= Taken) /\ ~CmdRateLimited /\ cLastAccept' = cmdNow
        /\ cLast' = [cLast EXCEPT ![gBoot] = o] /\ QueueEcho(o)
    BY <1>6, <1>12 DEF Accept, Consumed, Taken
  <2>2. cLast'[gBoot] = o BY <1>3, <1>11, <2>1
  <2>3. o.nonce = m.nonce /\ o.cmd = m.cmd OBVIOUS
  <2> HIDE DEF o, m
  <2>4. Taken' = m.nonce /\ cLast'[gBoot].cmd = m.cmd /\ QueueEcho(cLast'[gBoot])
    BY <1>9, <2>1, <2>2, <2>3, Zenon DEF Taken
  <2>5. m.nonce > Taken BY <1>7, <1>11, <2>1
  <2>6. TakesNew(m) BY <2>1, <2>5, Zenon DEF TakesNew
  <2>7. Responds(m) BY <2>4, <2>6, Zenon DEF Responds
  <2> QED BY <1>1, <1>2, <1>4, <1>5, <1>8, <1>10, <2>7 DEF m
<1>13. CASE ReEcho(m)
  <2>1. /\ m.nonce = Taken /\ m.cmd = cLast[gBoot].cmd /\ UNCHANGED <<cLast, cLastAccept>>
        /\ QueueEcho(cLast[gBoot])
    BY <1>6, <1>13 DEF ReEcho, Retried, Taken
  <2> HIDE DEF m
  <2>2. Taken' = m.nonce /\ cLast'[gBoot].cmd = m.cmd /\ QueueEcho(cLast'[gBoot])
    BY <1>9, <2>1, Zenon DEF Taken
  <2>3. Repeats(m) BY <2>1, Zenon DEF Repeats
  <2>4. Responds(m) BY <2>2, <2>3, Zenon DEF Responds
  <2> QED BY <1>1, <1>2, <1>4, <1>5, <1>8, <1>10, <2>4 DEF m
<1>14. CASE Drop(m)
  <2>1. /\ UNCHANGED craftVars
        /\ \/ Consumed(m) /\ ~Retried(m)
           \/ ~Consumed(m) /\ CmdRateLimited
    BY <1>6, <1>14, Zenon DEF Drop
  <2>2. /\ Consumed(m) <=> m.nonce <= Taken
        /\ Retried(m) <=> m.nonce = Taken /\ m.cmd = cLast[gBoot].cmd
    BY <1>6 DEF Consumed, Retried, Taken
  <2> HIDE DEF m
  <2>3. m.nonce = Taken => m.nonce <= Taken BY <1>7, <1>11
  <2>4. Ignores(m) BY <2>1, <2>2, <2>3, Zenon DEF Ignores
  <2> QED BY <1>1, <1>2, <1>4, <1>5, <1>8, <1>10, <2>4 DEF m
<1> QED BY <1>1, <1>12, <1>13, <1>14

\* A step of the ground ends its iteration, or leaves it running at the same instant.
GroundMoves == /\ CraftIdle /\ gNext' \in Nat
               /\ gNext' = gNext \/ (cmdNow < gNext' /\ gNext' <= cmdNow + 1 + setup.stall)

\* The steps of the ground, seen from the craft.
LEMMA GroundStepsMove ==
  ASSUME Calm,
         (\E c \in Cmds : GroundStart(c)) \/ GroundHears \/ GroundSend \/ GroundRetry \/ GroundQuiet
  PROVE  GroundMoves /\ GroundRuns
<1>1. cmdNow \in Nat /\ gNext \in Nat /\ setup.stall \in Nat BY CalmFacts
<1>2. CraftIdle /\ GroundRuns
  BY DEF GroundStart, GroundHears, GroundSend, GroundRetry, GroundQuiet, GroundReady
<1>3. gNext' = gNext \/ gNext' \in cmdNow + 1 .. cmdNow + 1 + setup.stall
  BY DEF GroundStart, GroundHears, GroundSend, GroundRetry, GroundQuiet
<1> QED BY <1>1, <1>2, <1>3 DEF GroundMoves

\* The craft's iterations and its bursts keep their pace.
LEMMA CraftPacedKeeps ==
  ASSUME Calm,
         AdvanceClock \/ UNCHANGED vars \/ CraftHears \/ CraftTick \/ GroundMoves
  PROVE  CraftPaced'
<1> DEFINE S == setup.stall
           C == CopyInterval + S
           E(n) == cLastEchoStart + (EchoCopies - n) * C
<1>1. /\ S \in Nat /\ cmdNow \in Nat /\ gNext \in Nat /\ cmdNow <= gNext
      /\ cEchoesLeft \in Nat /\ EchoCopies \in Nat \ {0} /\ CopyInterval \in Nat \ {0}
  BY CalmFacts
<1>2. /\ cNext \in Nat /\ cNextEcho \in Nat /\ cLastEchoStart \in Nat /\ cLastAccept \in Nat
      /\ cmdNow <= cNext /\ cNext <= cmdNow + 1 + S
      /\ gNext <= cmdNow + 1 + S
      /\ cLastEchoStart <= cmdNow /\ cLastAccept <= cmdNow /\ cEchoesLeft <= EchoCopies
      /\ cEchoesLeft > 0 => cNext <= EchoBy
      /\ cEchoesLeft = EchoCopies => cNextEcho <= cmdNow
      /\ cEchoesLeft \in 1 .. EchoCopies - 1 => cNextEcho <= EchoBy - S
  BY CalmFacts DEF CraftPaced
<1>3. C \in Nat /\ C >= 1 + S /\ EchoBy = E(cEchoesLeft) /\ EchoBy \in Int BY <1>1, <1>2 DEF EchoBy
<1>4. CASE AdvanceClock \/ UNCHANGED vars \/ GroundMoves
  <2>1. /\ UNCHANGED <<setup, cNext, cNextEcho, cLastEchoStart, cLastAccept, cEchoesLeft>>
        /\ \/ /\ cmdNow' = cmdNow /\ gNext' \in Nat
              /\ gNext' = gNext \/ gNext' <= cmdNow + 1 + S
           \/ cmdNow' = cmdNow + 1 /\ cNext > cmdNow /\ gNext' = gNext
    BY <1>1, <1>4 DEF AdvanceClock, vars, GroundMoves, CraftIdle, craftVars
  <2>2. EchoBy' = EchoBy /\ setup'.stall = S BY <2>1 DEF EchoBy
  <2>3. cmdNow' \in Nat /\ cmdNow <= cmdNow' /\ cmdNow' <= cNext BY <1>1, <1>2, <2>1
  <2>4. cNext <= cmdNow' + 1 + S /\ gNext' <= cmdNow' + 1 + S
    <3>1. gNext' \in Nat /\ (gNext' = gNext \/ gNext' <= cmdNow + 1 + S) BY <1>1, <2>1
    <3>2. gNext <= cmdNow + 1 + S /\ cNext <= cmdNow + 1 + S /\ cNext \in Nat BY <1>2
    <3>3. S \in Nat /\ cmdNow \in Nat BY <1>1
    <3>4. gNext' <= cmdNow + 1 + S BY <3>1, <3>2
    <3> QED BY <2>3, <3>1, <3>2, <3>3, <3>4
  <2> HIDE DEF C, E, S
  <2>5. cLastEchoStart <= cmdNow' /\ cLastAccept <= cmdNow' BY <1>1, <1>2, <2>3
  <2>6. cEchoesLeft = EchoCopies => cNextEcho <= cmdNow' BY <1>1, <1>2, <2>3
  <2>7. UNCHANGED <<cNext, cNextEcho, cLastEchoStart, cLastAccept, cEchoesLeft>> BY <2>1
  <2> QED BY <1>2, <2>2, <2>3, <2>4, <2>5, <2>6, <2>7, Zenon DEF CraftPaced
<1>5. CASE CraftHears
  <2>1. /\ UNCHANGED <<setup, cmdNow, gNext, cNext>> /\ cNext = cmdNow
        /\ Responds(Head(up)) \/ Ignores(Head(up))
    BY <1>5, CopyHeard
  <2>2. CASE UNCHANGED craftVars
    <3>1. UNCHANGED <<cNextEcho, cLastEchoStart, cLastAccept, cEchoesLeft>> BY <2>2 DEF craftVars
    <3>2. EchoBy' = EchoBy /\ setup'.stall = S BY <2>1, <3>1 DEF EchoBy
    <3> HIDE DEF C, E, S
    <3>3. UNCHANGED <<cmdNow, gNext, cNext>> BY <2>1
    <3> QED BY <1>2, <3>1, <3>2, <3>3, Zenon DEF CraftPaced
  <2>3. CASE Responds(Head(up))
    <3>1. cLastAccept' = cmdNow \/ cLastAccept' = cLastAccept
      BY <2>3 DEF Responds, TakesNew, Repeats
    <3>2. \/ UNCHANGED <<cNextEcho, cLastEchoStart, cEchoesLeft>>
          \/ cEchoesLeft' = EchoCopies /\ cNextEcho' = cmdNow /\ cLastEchoStart' = cmdNow
      BY <2>3 DEF Responds, QueueEcho
    <3>3. CASE UNCHANGED <<cNextEcho, cLastEchoStart, cEchoesLeft>>
      <4>1. EchoBy' = EchoBy /\ setup'.stall = S BY <2>1, <3>3 DEF EchoBy
      <4> HIDE DEF C, E, S
      <4>2. UNCHANGED <<cmdNow, gNext, cNext>> BY <2>1
      <4>3. cLastAccept' \in Nat /\ cLastAccept' <= cmdNow BY <1>1, <1>2, <3>1
      <4> QED BY <1>2, <3>3, <4>1, <4>2, <4>3, Zenon DEF CraftPaced
    <3>4. CASE cEchoesLeft' = EchoCopies /\ cNextEcho' = cmdNow /\ cLastEchoStart' = cmdNow
      <4>1. EchoBy' = cmdNow + 0 * C BY <1>1, <2>1, <3>4 DEF EchoBy
      <4>2. 0 * C = 0 /\ setup'.stall = S BY <1>3, <2>1
      <4> HIDE DEF C, E, S
      <4>3. UNCHANGED <<cmdNow, gNext, cNext>> /\ cNext = cmdNow BY <2>1
      <4>4. cLastAccept' \in Nat /\ cLastAccept' <= cmdNow BY <1>1, <1>2, <3>1
      <4>5. EchoBy' = cmdNow /\ cmdNow <= cmdNow /\ cEchoesLeft' \notin 1 .. EchoCopies - 1
            /\ cEchoesLeft' <= EchoCopies
        BY <1>1, <3>4, <4>1, <4>2
      <4> QED BY <1>1, <1>2, <3>4, <4>2, <4>3, <4>4, <4>5, Zenon DEF CraftPaced
    <3> QED BY <3>2, <3>3, <3>4
  <2> QED BY <2>1, <2>2, <2>3 DEF Ignores
<1>6. CASE CraftTick
  <2>1. /\ UNCHANGED <<setup, cmdNow, gNext, cLastEchoStart, cLastAccept>> /\ cNext <= cmdNow
        /\ cNext' \in cmdNow + 1 .. cmdNow + 1 + S
    BY <1>6 DEF CraftTick, CraftRuns, GroundIdle
  <2>2. cNext' \in Nat /\ cmdNow <= cNext' /\ cNext' <= cmdNow + 1 + S BY <1>1, <2>1
  <2>3. CASE cEchoesLeft > 0 /\ cmdNow >= cNextEcho
    <3>1. cEchoesLeft' = cEchoesLeft - 1 /\ cNextEcho' = cmdNow + CopyInterval
      BY <1>6, <2>3 DEF CraftTick
    <3>2. E(cEchoesLeft - 1) = E(cEchoesLeft) + C
      <4>1. \A x, y \in Int : (x + 1) * y = x * y + y OBVIOUS
      <4>2. EchoCopies - (cEchoesLeft - 1) = (EchoCopies - cEchoesLeft) + 1 BY <1>1
      <4>3. (EchoCopies - (cEchoesLeft - 1)) * C = (EchoCopies - cEchoesLeft) * C + C
        BY <1>1, <1>3, <4>1, <4>2
      <4> DEFINE P == (EchoCopies - cEchoesLeft) * C
      <4>4. P \in Int BY <1>1, <1>3
      <4> HIDE DEF C, P
      <4> QED BY <1>2, <1>3, <4>3, <4>4 DEF P
    <3>3. EchoBy' = EchoBy + CopyInterval + S
      <4>1. EchoBy' = E(cEchoesLeft - 1) BY <2>1, <3>1 DEF EchoBy
      <4> HIDE DEF E
      <4> QED BY <1>1, <1>3, <3>2, <4>1
    <3> HIDE DEF C, E
    <3> QED BY <1>1, <1>2, <1>3, <2>1, <2>2, <2>3, <3>1, <3>3 DEF CraftPaced
  <2>4. CASE ~(cEchoesLeft > 0 /\ cmdNow >= cNextEcho)
    <3>1. UNCHANGED <<cEchoesLeft, cNextEcho>> BY <1>6, <2>4 DEF CraftTick
    <3>2. EchoBy' = EchoBy BY <2>1, <3>1 DEF EchoBy
    <3> HIDE DEF C, E
    <3> QED BY <1>1, <1>2, <1>3, <2>1, <2>2, <2>4, <3>1, <3>2 DEF CraftPaced
  <2> QED BY <2>3, <2>4
<1> QED BY <1>4, <1>5, <1>6

\* A queue never fills beyond what one late iteration of its reader lets in.
LEMMA RoomKeeps ==
  ASSUME Calm, [Next]_vars
  PROVE  Room'
<1> DEFINE S == setup.stall
           u == Len(up)
           d == Len(down)
<1>1. /\ u \in Nat /\ d \in Nat /\ cmdNow \in Nat /\ S \in Nat
      /\ cNext \in Nat /\ gNext \in Nat /\ cmdNow <= cNext /\ cmdNow <= gNext
      /\ RoomFor(u, gNext, cNext, cmdNow, S) /\ RoomFor(d, cNext, gNext, cmdNow, S)
  BY RoomFacts
<1>2. up \in Seq(Asked) /\ down \in Seq(Echoed) /\ ~setup.moves BY CalmFacts DEF Calm
<1>3. CASE AdvanceClock \/ UNCHANGED vars \/ Halt
  <2>1. /\ UNCHANGED <<setup, up, down, cNext, gNext>>
        /\ cmdNow' = cmdNow \/ (cmdNow' = cmdNow + 1 /\ cNext > cmdNow /\ gNext > cmdNow)
    BY <1>3 DEF AdvanceClock, Halt, vars
  <2>2. u' = u /\ d' = d /\ S' = S BY <2>1
  <2> HIDE DEF S, u, d
  <2>3. RoomFor(u, gNext, cNext, cmdNow', S) /\ RoomFor(d, cNext, gNext, cmdNow', S)
    <3>1. CASE cmdNow' = cmdNow BY <1>1, <3>1
    <3>2. CASE cmdNow' = cmdNow + 1 /\ cmdNow < cNext /\ cmdNow < gNext BY <1>1, <3>2, RoomSteps
    <3> QED BY <1>1, <2>1, <3>1, <3>2
  <2> QED BY <2>1, <2>2, <2>3 DEF Room, S, u, d
<1>4. CASE CraftHears
  <2>1. UNCHANGED <<setup, cmdNow, gNext, cNext, down>> /\ up # << >> /\ up' = Tail(up)
    BY <1>4, CopyHeard
  <2>2. u' = u - 1 /\ u > 0 /\ d' = d /\ S' = S BY <1>2, <2>1, HeadTailProperties
  <2> HIDE DEF S, u, d
  <2>3. RoomFor(u - 1, gNext, cNext, cmdNow, S) BY <1>1, <2>2, RoomSteps
  <2> QED BY <1>1, <2>1, <2>2, <2>3 DEF Room, S, u, d
<1>5. CASE CraftTick
  <2>1. /\ UNCHANGED <<setup, cmdNow, gNext, up>> /\ up = << >> /\ cNext <= cmdNow
        /\ cNext' \in cmdNow + 1 .. cmdNow + 1 + S
        /\ down' = down \/ down' = Offer(down, [key |-> cKey, echo |-> cEcho])
    BY <1>5 DEF CraftTick, CraftRuns, GroundIdle
  <2>2. u = 0 /\ u' = u /\ S' = S BY <2>1
  <2>3. d' \in Nat /\ d' <= d + 1
    <3>1. \A e : Len(Append(down, e)) = d + 1 BY <1>2
    <3> QED BY <1>1, <2>1, <3>1 DEF Offer
  <2> HIDE DEF S, u, d
  <2>4. cNext' \in Nat /\ cmdNow < cNext' /\ cNext' <= cmdNow + 1 + S BY <1>1, <2>1
  <2>5. RoomFor(u, gNext, cNext', cmdNow, S) BY <1>1, <2>2, <2>4, RoomSteps
  <2>6. RoomFor(d', cNext', gNext, cmdNow, S) BY <1>1, <2>1, <2>3, <2>4, RoomSteps
  <2> QED BY <2>1, <2>2, <2>5, <2>6 DEF Room, S, u, d
<1>6. CASE \E c \in Cmds : GroundStart(c)
  <2>1. UNCHANGED <<setup, cmdNow, gNext, cNext, up, down>> BY <1>6 DEF GroundStart, CraftIdle
  <2> QED BY <1>1, <2>1 DEF Room
<1>7. CASE GroundHears
  <2>1. UNCHANGED <<setup, cmdNow, gNext, cNext, up>> /\ down # << >> /\ down' = Tail(down)
    BY <1>7 DEF GroundHears, CraftIdle
  <2>2. d' = d - 1 /\ d > 0 /\ u' = u /\ S' = S BY <1>2, <2>1, HeadTailProperties
  <2> HIDE DEF S, u, d
  <2>3. RoomFor(d - 1, cNext, gNext, cmdNow, S) BY <1>1, <2>2, RoomSteps
  <2> QED BY <1>1, <2>1, <2>2, <2>3 DEF Room, S, u, d
<1>8. CASE GroundSend \/ GroundRetry \/ GroundQuiet
  <2>1. /\ UNCHANGED <<setup, cmdNow, cNext, down>> /\ down = << >> /\ gNext <= cmdNow
        /\ gNext' \in cmdNow + 1 .. cmdNow + 1 + S
        /\ up' = up \/ up' = Offer(up, [boot |-> gBoot, key |-> gKey,
                                        nonce |-> gTmpl.nonce, cmd |-> gTmpl.cmd])
    BY <1>8 DEF GroundSend, GroundRetry, GroundQuiet, GroundReady, GroundRuns, CraftIdle
  <2>2. d = 0 /\ d' = d /\ S' = S BY <2>1
  <2>3. u' \in Nat /\ u' <= u + 1
    <3>1. \A e : Len(Append(up, e)) = u + 1 BY <1>2
    <3> QED BY <1>1, <2>1, <3>1 DEF Offer
  <2> HIDE DEF S, u, d
  <2>4. gNext' \in Nat /\ cmdNow < gNext' /\ gNext' <= cmdNow + 1 + S BY <1>1, <2>1
  <2>5. RoomFor(d, cNext, gNext', cmdNow, S) BY <1>1, <2>2, <2>4, RoomSteps
  <2>6. RoomFor(u', gNext', cNext, cmdNow, S) BY <1>1, <2>1, <2>3, <2>4, RoomSteps
  <2> QED BY <2>1, <2>2, <2>5, <2>6 DEF Room, S, u, d
<1>9. ~(CraftRekey \/ CraftBinding \/ GroundReboot)
  BY <1>2 DEF CraftRekey, CraftBinding, GroundReboot
<1> QED BY <1>3, <1>4, <1>5, <1>6, <1>7, <1>8, <1>9 DEF Next

\* At the echo timer's end the round is over: no copy is left unheard, and no echo of it unsent.
LEMMA RoundOver ==
  ASSUME Calm, gState = "awaitecho", cmdNow >= gEchoDeadline
  PROVE  /\ up = << >> /\ Open
         /\ Answering => Lost >= Owed + Fewest
         /\ gLastStart <= cmdNow
<1> DEFINE S == setup.stall
           C == CopyInterval + S
<1>1. /\ S \in Nat /\ cmdNow \in Nat /\ gNextCopy \in Nat /\ cEchoesLeft \in Nat
      /\ EchoCopies \in Nat \ {0} /\ CopyInterval \in Nat \ {0} /\ AckTimeout \in Nat
      /\ Copies \in Nat \ {0} /\ CmdMinInterval \in Nat /\ gLastStart \in Nat /\ Meant
      /\ AckTimeout >= CmdMinInterval + 1 + S
      /\ AckTimeout > 1 + S + (EchoCopies - 1) * C
  BY CalmFacts
<1>2. /\ cNext \in Nat /\ cmdNow <= cNext /\ cLastEchoStart \in Nat /\ cLastAccept \in Nat
      /\ cEchoesLeft <= EchoCopies /\ (cEchoesLeft > 0 => cNext <= EchoBy)
  BY CalmFacts DEF CraftPaced
<1>3. /\ gLastStart <= LastSent /\ gEchoDeadline = LastSent + AckTimeout
      /\ up # << >> => cNext <= LastSent + 1 + S
      /\ cEchoedOnce = TRUE /\ cLastEchoNonce = gTmpl.nonce => cLastEchoStart <= LastSent + 1 + S
  BY CalmFacts DEF InTime, Underway
<1>4. LastSent \in Int /\ C \in Nat BY <1>1 DEF LastSent
<1>5. (EchoCopies - 1) * C \in Nat BY <1>1, <1>4
<1>6. cEchoesLeft > 0 => EchoBy <= cLastEchoStart + (EchoCopies - 1) * C
  <2> SUFFICES ASSUME cEchoesLeft > 0 PROVE EchoBy <= cLastEchoStart + (EchoCopies - 1) * C OBVIOUS
  <2>1. \A x, y, z \in Nat : x <= y => x * z <= y * z
    <3> SUFFICES ASSUME NEW x \in Nat, NEW y \in Nat, NEW z \in Nat, x <= y PROVE x * z <= y * z OBVIOUS
    <3>1. y - x \in Nat /\ (y - x) * z \in Nat OBVIOUS
    <3>2. y * z = x * z + (y - x) * z OBVIOUS
    <3> QED BY <3>1, <3>2
  <2>2. EchoCopies - cEchoesLeft \in Nat /\ EchoCopies - 1 \in Nat
        /\ EchoCopies - cEchoesLeft <= EchoCopies - 1
    BY <1>1, <1>2
  <2>3. (EchoCopies - cEchoesLeft) * C <= (EchoCopies - 1) * C BY <1>4, <2>1, <2>2
  <2>4. EchoBy = cLastEchoStart + (EchoCopies - cEchoesLeft) * C BY DEF EchoBy
  <2>5. (EchoCopies - cEchoesLeft) * C \in Nat BY <1>4, <2>2
  <2> DEFINE X == (EchoCopies - cEchoesLeft) * C
             Y == (EchoCopies - 1) * C
  <2> HIDE DEF X, Y, C
  <2> QED BY <1>2, <1>5, <2>3, <2>4, <2>5 DEF X, Y
<1> DEFINE Y == (EchoCopies - 1) * C
<1>7. Y \in Nat /\ AckTimeout > 1 + S + Y /\ (cEchoesLeft > 0 => EchoBy <= cLastEchoStart + Y)
  BY <1>1, <1>5, <1>6
<1>8. EchoBy \in Int BY <1>1, <1>2, <1>4 DEF EchoBy
<1> HIDE DEF C, Y
<1>9. up = << >>
  <2> SUFFICES ASSUME up # << >> PROVE FALSE OBVIOUS
  <2>1. cNext <= LastSent + 1 + S BY <1>3
  <2> QED BY <1>1, <1>2, <1>3, <1>4, <1>7, <2>1
<1>10. cEchoedOnce = TRUE /\ cLastEchoNonce = gTmpl.nonce =>
         cEchoesLeft = 0 /\ ~(cmdNow - cLastEchoStart < CmdMinInterval)
  <2> SUFFICES ASSUME cEchoedOnce = TRUE /\ cLastEchoNonce = gTmpl.nonce
               PROVE  cEchoesLeft = 0 /\ ~(cmdNow - cLastEchoStart < CmdMinInterval)
    OBVIOUS
  <2>1. cLastEchoStart <= LastSent + 1 + S BY <1>3
  <2> QED BY <1>1, <1>2, <1>3, <1>4, <1>7, <1>8, <2>1
<1>11. Open
  <2>1. ~HeldDown
    <3>1. cEchoesLeft = 0 => ~(cEchoesLeft > 0) OBVIOUS
    <3> QED BY <1>10, <3>1 DEF HeldDown
  <2>2. Taken # gTmpl.nonce => ~CmdRateLimited
    <3> SUFFICES ASSUME Taken # gTmpl.nonce PROVE ~CmdRateLimited OBVIOUS
    <3>1. cLastAccept <= gLastStart BY <1>1 DEF Meant, Pending
    <3> QED BY <1>1, <1>2, <1>3, <1>4, <3>1 DEF CmdRateLimited
  <2> QED BY <2>1, <2>2 DEF Open
<1>12. Answering => Lost >= Owed + Fewest
  <2> SUFFICES ASSUME Answering PROVE Lost >= Owed + Fewest OBVIOUS
  <2>1. cEchoesLeft = 0 /\ Lost >= Owed + EchoCopies - cEchoesLeft BY <1>10 DEF Answering
  <2>2. Lost \in Int /\ Owed \in Int /\ Fewest \in Nat /\ Fewest <= EchoCopies
    <3>1. losses \in Nat /\ hLossesAtStart \in Nat BY CalmFacts DEF Accounted
    <3>2. Fewest \in Nat /\ Fewest <= EchoCopies BY <1>1 DEF Fewest
    <3>3. gCampaignsLeft \in Nat /\ RetryCap \in Nat BY CalmFacts
    <3>4. Behind \in Int /\ Spared \in Int BY <3>3 DEF Behind, Spared
    <3>5. Behind - Spared \in Int BY <3>4
    <3>6. Lost \in Int BY <3>1 DEF Lost
    <3>7. Owed \in Int BY <3>2, <3>5 DEF Owed
    <3> QED BY <3>2, <3>6, <3>7
  <2> QED BY <1>1, <2>1, <2>2
<1> QED BY <1>1, <1>3, <1>4, <1>9, <1>11, <1>12

\* A round's copies are heard, and its burst starts, within one late iteration.
LEMMA InTimeKeeps ==
  ASSUME Calm, [Next]_vars
  PROVE  InTime'
<1> DEFINE S == setup.stall
<1>1. /\ S \in Nat /\ cmdNow \in Nat /\ gNextCopy \in Nat /\ gLastStart \in Nat /\ gEchoDeadline \in Nat
      /\ CopyInterval \in Nat \ {0} /\ AckTimeout \in Nat /\ gCopiesLeft \in Nat
      /\ gState = "sending" => gCopiesLeft \in 1 .. Copies
      /\ Copies \in Nat \ {0}
  BY CalmFacts
<1>2. /\ cNext \in Nat /\ cmdNow <= cNext /\ cNext <= cmdNow + 1 + S
      /\ cLastEchoStart \in Nat /\ cLastEchoStart <= cmdNow
  BY CalmFacts DEF CraftPaced
<1>3. InTime BY CalmFacts
<1>4. ~setup.moves BY DEF Calm
<1>5. CASE AdvanceClock \/ UNCHANGED vars \/ Halt \/ GroundQuiet
  <2>1. UNCHANGED <<setup, up, cNext, cEchoedOnce, cLastEchoNonce, cLastEchoStart, gState, gLastStart,
                    gNextCopy, gCopiesLeft, gTmpl, gEchoDeadline>>
    BY <1>5 DEF AdvanceClock, Halt, vars, GroundQuiet, CraftIdle, craftVars, groundVars
  <2> QED BY <1>3, <2>1 DEF InTime, Underway, LastSent
<1>6. CASE CraftHears
  <2>1. /\ up # << >> /\ cNext = cmdNow
        /\ UNCHANGED <<setup, cmdNow, groundVars, cNext>>
        /\ Responds(Head(up)) \/ Ignores(Head(up))
    BY <1>6, CopyHeard
  <2>2. UNCHANGED <<gState, gLastStart, gNextCopy, gCopiesLeft, gTmpl, gEchoDeadline>>
    BY <2>1 DEF groundVars
  <2>3. \/ UNCHANGED <<cEchoedOnce, cLastEchoNonce, cLastEchoStart>>
        \/ cLastEchoStart' = cmdNow
    BY <2>1 DEF Responds, Ignores, QueueEcho, craftVars
  <2>4. /\ LastSent' = LastSent /\ LastSent \in Int
        /\ Underway' => Underway
    BY <1>1, <2>2 DEF LastSent, Underway
  <2> QED BY <1>1, <1>2, <1>3, <2>1, <2>2, <2>3, <2>4 DEF InTime
<1>7. CASE CraftTick
  <2>1. /\ UNCHANGED <<setup, up, cEchoedOnce, cLastEchoNonce, cLastEchoStart, groundVars>> /\ up = << >>
    BY <1>7 DEF CraftTick, GroundIdle
  <2>2. UNCHANGED <<gState, gLastStart, gNextCopy, gCopiesLeft, gTmpl, gEchoDeadline>>
    BY <2>1 DEF groundVars
  <2> QED BY <1>3, <2>1, <2>2 DEF InTime, Underway, LastSent
<1>8. CASE \E c \in Cmds : GroundStart(c)
  <2>1. gState' = "sending" /\ gCopiesLeft' = Copies /\ gLastStart' = cmdNow /\ gNextCopy' = cmdNow
    BY <1>8 DEF GroundStart
  <2>2. ~Underway' BY <1>1, <2>1 DEF Underway
  <2> QED BY <1>1, <2>1, <2>2 DEF InTime
<1>9. CASE GroundHears
  <2>1. /\ UNCHANGED <<setup, up, cNext, craftVars, gLastStart, gNextCopy, gCopiesLeft, gTmpl, gEchoDeadline>>
        /\ gState' = gState \/ gState' \in {"acked", "rejected"}
    BY <1>9 DEF GroundHears, CraftIdle
  <2>2. UNCHANGED <<cEchoedOnce, cLastEchoNonce, cLastEchoStart>> BY <2>1 DEF craftVars
  <2> QED BY <1>3, <2>1, <2>2 DEF InTime, Underway, LastSent
<1>10. CASE GroundSend
  <2>1. /\ UNCHANGED <<setup, cmdNow, cNext, craftVars, gLastStart, gTmpl>>
        /\ gState = "sending" /\ cmdNow >= gNextCopy
        /\ gNextCopy' = cmdNow + CopyInterval /\ gCopiesLeft' = gCopiesLeft - 1
        /\ gState' = IF gCopiesLeft = 1 THEN "awaitecho" ELSE "sending"
        /\ gEchoDeadline' = IF gCopiesLeft = 1 THEN cmdNow + AckTimeout ELSE gEchoDeadline
    BY <1>10 DEF GroundSend, CraftIdle
  <2>2. UNCHANGED <<cEchoedOnce, cLastEchoNonce, cLastEchoStart>> BY <2>1 DEF craftVars
  <2>3. LastSent' = cmdNow BY <1>1, <2>1 DEF LastSent
  <2>4. gLastStart <= gNextCopy BY <1>3, <2>1 DEF InTime
  <2>5. gLastStart' <= cmdNow /\ cmdNow <= gNextCopy' BY <1>1, <2>1, <2>4
  <2>6. gState' = "awaitecho" => gEchoDeadline' = cmdNow + AckTimeout BY <2>1
  <2> QED BY <1>1, <1>2, <2>1, <2>2, <2>3, <2>5, <2>6 DEF InTime
<1>11. CASE GroundRetry
  <2>1. /\ gState = "awaitecho" /\ cmdNow >= gEchoDeadline /\ gLastStart' = gLastStart
        /\ \/ gState' = "timeout"
           \/ gState' = "sending" /\ gCopiesLeft' = Copies /\ gNextCopy' = cmdNow
    BY <1>11 DEF GroundRetry
  <2>2. gLastStart <= cmdNow BY <2>1, RoundOver
  <2>3. ~Underway' BY <1>1, <2>1 DEF Underway
  <2> QED BY <1>1, <2>1, <2>2, <2>3 DEF InTime
<1>12. ~(CraftRekey \/ CraftBinding \/ GroundReboot)
  BY <1>4 DEF CraftRekey, CraftBinding, GroundReboot
<1> QED BY <1>5, <1>6, <1>7, <1>8, <1>9, <1>10, <1>11, <1>12 DEF Next

\* The craft never has more, and never hears other, than what this ground asked.
LEMMA MeantKeeps ==
  ASSUME Calm, VInv', [Next]_vars
  PROVE  Meant'
<1>1. /\ cmdNow \in Nat /\ gBoot \in Boots /\ gKey = 1 /\ cKey = 1 /\ gNextNonce \in Nat /\ Taken \in Int
      /\ gState # "idle" => gTmpl.nonce \in Nat /\ gTmpl.nonce >= Seeds[gBoot]
      /\ gLastStart \in Nat /\ up \in Seq(Asked)
  BY CalmFacts
<1>2. /\ cEchoedOnce \in BOOLEAN /\ Taken < gNextNonce
      /\ gState = "idle" => /\ gNextNonce = Seeds[gBoot] /\ up = << >>
                            /\ cLastAccept = 0 /\ cEchoedOnce = FALSE
      /\ gState # "idle" => /\ gNextNonce = gTmpl.nonce + 1
                            /\ Taken = gTmpl.nonce => cLast[gBoot].cmd = gTmpl.cmd
      /\ \A i \in 1 .. Len(up) : CopyMeant(up[i])
      /\ cEchoedOnce = TRUE => cLastEchoNonce <= Taken /\ cLastEchoNonce \in Nat
      /\ Pending /\ Taken # gTmpl.nonce => cLastAccept <= gLastStart
  BY CalmFacts DEF Meant
<1>3. ~setup.moves BY DEF Calm
<1>4. \A i \in 1 .. Len(up) : up[i] \in Asked /\ up[i].nonce \in Nat
  BY <1>1, ElementOfSeq DEF Asked
<1>5. CASE AdvanceClock \/ UNCHANGED vars \/ Halt \/ GroundQuiet \/ CraftTick
  <2>1. UNCHANGED <<up, cLast, cEchoedOnce, cLastEchoNonce, cLastAccept, groundVars>>
    BY <1>5 DEF AdvanceClock, Halt, vars, GroundQuiet, CraftIdle, CraftTick, GroundIdle, craftVars
  <2>2. UNCHANGED <<gBoot, gKey, gState, gNextNonce, gLastStart, gTmpl>> BY <2>1 DEF groundVars
  <2>3. Taken' = Taken /\ Pending' = Pending BY <2>1, <2>2 DEF Taken, Pending
  <2>4. \A m : CopyMeant(m)' = CopyMeant(m) BY <2>2, <2>3 DEF CopyMeant, Current
  <2> QED BY <1>2, <2>1, <2>2, <2>3, <2>4, Zenon DEF Meant
<1>6. CASE CraftHears
  <2> DEFINE m == Head(up)
  <2>1. /\ up # << >> /\ up' = Tail(up) /\ UNCHANGED groundVars /\ m \in Asked /\ CopyMeant(m)
        /\ Responds(m) \/ Ignores(m)
    BY <1>6, CopyHeard
  <2>2. UNCHANGED <<gBoot, gKey, gState, gNextNonce, gLastStart, gTmpl>> /\ gState # "idle"
        /\ Pending' = Pending
    BY <1>2, <2>1 DEF groundVars, Pending
  <2>3. m.nonce \in Nat BY <2>1 DEF Asked
  <2>4. /\ m.nonce <= Taken \/ (Pending /\ m.nonce = gTmpl.nonce)
        /\ m.nonce = gTmpl.nonce => m.cmd = gTmpl.cmd
    BY <2>1 DEF CopyMeant, Current
  <2>5. \A i \in 1 .. Len(up') : i + 1 \in 1 .. Len(up) /\ up'[i] = up[i + 1]
    BY <1>1, <2>1, HeadTailProperties
  <2>6. CASE Ignores(m)
    <3>1. UNCHANGED <<cLast, cEchoedOnce, cLastEchoNonce, cLastAccept>>
      BY <2>6 DEF Ignores, craftVars
    <3>2. Taken' = Taken BY <2>2, <3>1 DEF Taken
    <3>4. \A i \in 1 .. Len(up') : CopyMeant(up[i])'
      <4> SUFFICES ASSUME NEW i \in 1 .. Len(up') PROVE CopyMeant(up[i])' OBVIOUS
      <4>1. CopyMeant(up[i + 1]) /\ up'[i] = up[i + 1] BY <1>2, <2>5
      <4> QED BY <2>2, <3>2, <4>1, Zenon DEF CopyMeant, Current
    <3> HIDE DEF m
    <3> QED BY <1>2, <2>2, <3>1, <3>2, <3>4, Zenon DEF Meant
  <2>7. CASE Responds(m)
    <3> HIDE DEF m
    <3>1. /\ TakesNew(m) \/ Repeats(m)
          /\ Taken' = m.nonce /\ cLast'[gBoot].cmd = m.cmd /\ QueueEcho(cLast'[gBoot])
      BY <2>7 DEF Responds
    <3>2. Taken <= Taken' /\ (TakesNew(m) => Taken' = gTmpl.nonce)
      BY <1>1, <2>3, <2>4, <3>1 DEF TakesNew, Repeats
    <3>3. Taken' < gNextNonce'
      <4>1. CASE TakesNew(m) BY <1>1, <1>2, <2>2, <3>2, <4>1
      <4>2. CASE Repeats(m) BY <1>2, <2>2, <3>1, <4>2 DEF Repeats
      <4> QED BY <3>1, <4>1, <4>2
    <3>4. cLast'[gBoot].nonce = Taken' BY <2>2 DEF Taken
    <3>5. \/ UNCHANGED <<cEchoedOnce, cLastEchoNonce>>
          \/ cEchoedOnce' = TRUE /\ cLastEchoNonce' = Taken'
      BY <3>1, <3>4 DEF QueueEcho
    <3>6. cEchoedOnce' \in BOOLEAN BY <1>2, <3>5, Zenon
    <3>7. cEchoedOnce' = TRUE => cLastEchoNonce' <= Taken' /\ cLastEchoNonce' \in Nat
      <4>1. CASE UNCHANGED <<cEchoedOnce, cLastEchoNonce>>
        <5>1. cEchoedOnce = TRUE => cLastEchoNonce <= Taken /\ cLastEchoNonce \in Nat BY <1>2
        <5>2. Taken' \in Nat BY <2>3, <3>1
        <5>3. cLastEchoNonce <= Taken /\ cLastEchoNonce \in Nat => cLastEchoNonce <= Taken'
          BY <1>1, <3>2, <5>2
        <5> QED BY <4>1, <5>1, <5>3
      <4>2. CASE cLastEchoNonce' = Taken' BY <2>3, <3>1, <4>2
      <4> QED BY <3>5, <4>1, <4>2
    <3>8. Taken' = gTmpl'.nonce => cLast'[gBoot'].cmd = gTmpl'.cmd BY <2>2, <2>4, <3>1
    <3>9. \A i \in 1 .. Len(up') : CopyMeant(up[i])'
      <4> SUFFICES ASSUME NEW i \in 1 .. Len(up') PROVE CopyMeant(up[i])' OBVIOUS
      <4>1. CopyMeant(up[i + 1]) /\ up[i + 1].nonce \in Nat /\ up'[i] = up[i + 1] BY <1>2, <1>4, <2>5
      <4>2. up[i + 1].nonce <= Taken => up[i + 1].nonce <= Taken' BY <1>1, <2>3, <3>1, <3>2, <4>1
      <4> QED BY <2>2, <4>1, <4>2, Zenon DEF CopyMeant, Current
    <3>10. Pending' /\ Taken' # gTmpl'.nonce => cLastAccept' <= gLastStart'
      <4>1. CASE TakesNew(m) BY <2>2, <3>2, <4>1
      <4>2. CASE Repeats(m) BY <1>2, <2>2, <3>1, <4>2 DEF Repeats
      <4> QED BY <3>1, <4>1, <4>2
    <3> QED BY <1>2, <2>2, <3>3, <3>6, <3>7, <3>8, <3>9, <3>10, Zenon DEF Meant
  <2> QED BY <2>1, <2>6, <2>7
<1>7. CASE \E c \in Cmds : GroundStart(c)
  <2>1. PICK c \in Cmds : GroundStart(c) BY <1>7
  <2>2. /\ ~Pending /\ gKey' \in {gKey, cKey} /\ gLastStart' = cmdNow
        /\ gTmpl' = [nonce |-> gNextNonce, cmd |-> c] /\ gNextNonce' = gNextNonce + 1
        /\ gState' = "sending" /\ gBoot' = gBoot /\ up' = up
        /\ UNCHANGED craftVars
    BY <2>1 DEF GroundStart, CraftIdle
  <2>3. UNCHANGED <<cLast, cEchoedOnce, cLastEchoNonce, cLastAccept>> BY <2>2 DEF craftVars
  <2>4. Taken' = Taken /\ gTmpl'.nonce = gNextNonce /\ gKey' = gKey BY <1>1, <2>2, <2>3 DEF Taken
  <2>5. Taken' < gNextNonce' /\ Taken' # gTmpl'.nonce BY <1>1, <1>2, <2>2, <2>4
  <2>6. cLastAccept <= cmdNow BY CalmFacts DEF CraftPaced
  <2>7. \A i \in 1 .. Len(up) : CopyMeant(up[i])'
    <3> SUFFICES ASSUME NEW i \in 1 .. Len(up) PROVE CopyMeant(up[i])' OBVIOUS
    <3>1. /\ up[i].boot = gBoot /\ up[i].key = gKey /\ up[i].nonce <= Taken /\ up[i].nonce \in Nat
      BY <1>2, <1>4, <2>2 DEF CopyMeant
    <3>2. up[i].nonce # gTmpl'.nonce BY <1>1, <1>2, <2>4, <3>1
    <3>3. ~Current(up[i])' BY <2>2, <3>2 DEF Current
    <3> QED BY <2>2, <2>4, <3>1, <3>3 DEF CopyMeant
  <2>8. gNextNonce' = gTmpl'.nonce + 1 /\ cLastAccept' <= gLastStart' BY <2>2, <2>3, <2>4, <2>6
  <2> QED BY <1>2, <2>2, <2>3, <2>4, <2>5, <2>7, <2>8, Zenon DEF Meant
<1>8. CASE GroundHears
  <2>1. /\ UNCHANGED <<craftVars, gBoot, gKey, gNextNonce, gLastStart, gTmpl, up>>
        /\ gState' = gState \/ (Pending /\ gState' \in {"acked", "rejected"})
    BY <1>8 DEF GroundHears, CraftIdle
  <2>2. UNCHANGED <<cKey, cLast, cEchoedOnce, cLastEchoNonce, cLastAccept>> BY <2>1 DEF craftVars
  <2>3. Taken' = Taken BY <2>1, <2>2 DEF Taken
  <2>4. CASE gState' = gState
    <3>1. Pending' = Pending BY <2>4 DEF Pending
    <3>2. \A m : CopyMeant(m)' = CopyMeant(m) BY <2>1, <2>3, <3>1 DEF CopyMeant, Current
    <3> QED BY <1>2, <2>1, <2>2, <2>3, <2>4, <3>1, <3>2, Zenon DEF Meant
  <2>5. CASE Pending /\ gState' \in {"acked", "rejected"}
    <3>1. gState # "idle" /\ gState' # "idle" /\ ~Pending' BY <2>5 DEF Pending
    <3>2. gTmpl'.nonce <= Taken'
      <4>1. PICK h \in hOutcomes' :
              /\ h.key = gKey' /\ h.boot = gBoot'
              /\ h.out = [nonce |-> gTmpl'.nonce, cmd |-> gTmpl'.cmd, rejected |-> gState' = "rejected"]
        BY <2>5 DEF VInv, OutcomeTrue
      <4>2. h.out.nonce <= cLast'[h.boot].nonce
        <5>1. cKey' = gKey' BY <1>1, <2>1, <2>2
        <5> QED BY <4>1, <5>1 DEF VInv, Remembered
      <4>3. h.out.nonce = gTmpl'.nonce BY <4>1
      <4> QED BY <4>1, <4>2, <4>3 DEF Taken
    <3>3. \A i \in 1 .. Len(up) : CopyMeant(up[i])'
      <4> SUFFICES ASSUME NEW i \in 1 .. Len(up) PROVE CopyMeant(up[i])' OBVIOUS
      <4>1. CopyMeant(up[i]) /\ up[i].nonce \in Nat BY <1>2, <1>4
      <4> QED BY <2>1, <2>3, <3>2, <4>1 DEF CopyMeant, Current
    <3> QED BY <1>2, <2>1, <2>2, <2>3, <3>1, <3>3, Zenon DEF Meant
  <2> QED BY <2>1, <2>4, <2>5
<1>9. CASE GroundSend
  <2> DEFINE f == [boot |-> gBoot, key |-> gKey, nonce |-> gTmpl.nonce, cmd |-> gTmpl.cmd]
  <2>1. /\ UNCHANGED <<craftVars, gBoot, gKey, gNextNonce, gLastStart, gTmpl>>
        /\ gState = "sending" /\ gState' \in {"sending", "awaitecho"}
        /\ up' = up \/ up' = Offer(up, f)
    BY <1>9 DEF GroundSend, CraftIdle
  <2>2. UNCHANGED <<cLast, cEchoedOnce, cLastEchoNonce, cLastAccept>> BY <2>1 DEF craftVars
  <2>3. Taken' = Taken /\ Pending /\ Pending' /\ gState # "idle" /\ gState' # "idle"
    BY <2>1, <2>2 DEF Taken, Pending
  <2>5. \A i \in 1 .. Len(up') : CopyMeant(up'[i])
    <3>1. CopyMeant(f) BY <2>3 DEF CopyMeant, Current
    <3>2. up' = up \/ up' = Append(up, f) BY <2>1 DEF Offer
    <3> HIDE DEF f
    <3>3. CASE up' = Append(up, f)
      <4>1. /\ Len(up') = Len(up) + 1 /\ up'[Len(up) + 1] = f
            /\ \A i \in 1 .. Len(up) : up'[i] = up[i]
        BY <1>1, <3>3
      <4>2. Len(up) \in Nat BY <1>1, LenProperties
      <4>3. \A i \in 1 .. Len(up') : i \in 1 .. Len(up) \/ i = Len(up) + 1 BY <4>1, <4>2
      <4> QED BY <1>2, <3>1, <4>1, <4>3, Zenon
    <3> QED BY <1>2, <3>2, <3>3
  <2>6. \A i \in 1 .. Len(up') : CopyMeant(up[i])'
    BY <2>1, <2>3, <2>5, Zenon DEF CopyMeant, Current
  <2> QED BY <1>2, <2>1, <2>2, <2>3, <2>6, Zenon DEF Meant
<1>10. CASE GroundRetry
  <2>1. /\ UNCHANGED <<craftVars, gBoot, gKey, gNextNonce, gLastStart, gTmpl, up>>
        /\ gState = "awaitecho" /\ cmdNow >= gEchoDeadline /\ gState' \in {"sending", "timeout"}
    BY <1>10 DEF GroundRetry, CraftIdle
  <2>2. UNCHANGED <<cLast, cEchoedOnce, cLastEchoNonce, cLastAccept>> BY <2>1 DEF craftVars
  <2>3. Taken' = Taken /\ Pending /\ gState # "idle" /\ gState' # "idle"
    BY <2>1, <2>2 DEF Taken, Pending
  <2>4. up = << >> BY <2>1, RoundOver
  <2>5. \A i \in 1 .. Len(up') : CopyMeant(up[i])'
    <3>1. Len(up') = 0 BY <2>1, <2>4
    <3> QED BY <3>1
  <2> QED BY <1>2, <2>1, <2>2, <2>3, <2>5, Zenon DEF Meant
<1>11. ~(CraftRekey \/ CraftBinding \/ GroundReboot)
  BY <1>3 DEF CraftRekey, CraftBinding, GroundReboot
<1> QED BY <1>5, <1>6, <1>7, <1>8, <1>9, <1>10, <1>11 DEF Next

\* The account is in whole numbers, and a round adds its fewest frames to it.
LEMMA AccountFacts ==
  ASSUME Calm
  PROVE  /\ losses \in Nat /\ hLossesAtStart \in Nat /\ hLossesAtStart <= losses
         /\ Lost \in Nat /\ Owed \in Int /\ Spared \in {0, 1} /\ Behind \in Int
         /\ Fewest \in Nat /\ Fewest <= Copies /\ Fewest <= EchoCopies
         /\ (Behind + 1 - Spared) * Fewest = Owed + Fewest
         /\ Behind + 1 = Spared => (Behind + 1 - Spared) * Fewest = 0
<1>1. losses \in Nat /\ hLossesAtStart \in Nat /\ hLossesAtStart <= losses BY CalmFacts DEF Accounted
<1>2. gCampaignsLeft \in Nat /\ Copies \in Nat \ {0} /\ EchoCopies \in Nat \ {0} /\ RetryCap \in Nat \ {0}
  BY CalmFacts
<1>3. Lost \in Nat BY <1>1 DEF Lost
<1>4. Spared \in {0, 1} /\ Behind \in Int BY <1>2 DEF Spared, Behind
<1>5. Fewest \in Nat /\ Fewest <= Copies /\ Fewest <= EchoCopies BY <1>2 DEF Fewest
<1> DEFINE k == Behind - Spared
<1>6. k \in Int /\ Behind + 1 - Spared = k + 1 /\ (Behind + 1 = Spared => k + 1 = 0) BY <1>4
<1>7. Owed = k * Fewest BY DEF Owed
<1>8. (k + 1) * Fewest = k * Fewest + Fewest /\ k * Fewest \in Int /\ 0 * Fewest = 0 BY <1>5, <1>6
<1> HIDE DEF k
<1> QED BY <1>1, <1>3, <1>4, <1>5, <1>6, <1>7, <1>8

\* A verdict of timeout stays paid for: the losses it counts only grow.
LEMMA TimeoutStays ==
  ASSUME Calm, UNCHANGED <<setup, gBoot, gTmpl, hLossesAtStart>>,
         gState' = "timeout" => gState = "timeout",
         losses' = losses \/ losses' = losses + 1
  PROVE  TimeoutJustified' /\ losses' \in Nat /\ hLossesAtStart' \in Nat /\ hLossesAtStart' <= losses'
<1> DEFINE W == (RetryCap - Spared) * (IF Copies < EchoCopies THEN Copies ELSE EchoCopies)
<1>1. losses \in Nat /\ hLossesAtStart \in Nat /\ hLossesAtStart <= losses
      /\ Spared \in {0, 1} /\ Fewest \in Nat
  BY AccountFacts
<1>2. RetryCap \in Nat /\ W = (RetryCap - Spared) * Fewest
  <2>1. RetryCap \in Nat BY CalmFacts
  <2>2. W = (RetryCap - Spared) * Fewest BY DEF Fewest
  <2> QED BY <2>1, <2>2
<1>3. RetryCap - Spared \in Int BY <1>1, <1>2
<1>4. W \in Int BY <1>1, <1>2, <1>3
<1>5. Spared' = Spared BY DEF Spared
<1>6. W' = W BY <1>5
<1>7. gState = "timeout" /\ ~setup.moves => losses - hLossesAtStart >= W
  <2>1. TimeoutJustified BY CalmFacts DEF Accounted
  <2> QED BY <2>1 DEF TimeoutJustified
<1>8. TimeoutJustified' <=> (gState' = "timeout" /\ ~setup'.moves => losses' - hLossesAtStart' >= W')
  BY DEF TimeoutJustified
<1> HIDE DEF W
<1>9. gState = "timeout" /\ ~setup.moves => losses' - hLossesAtStart' >= W BY <1>1, <1>4, <1>7
<1>10. ~setup'.moves => ~setup.moves OBVIOUS
<1>11. TimeoutJustified' BY <1>6, <1>8, <1>9, <1>10
<1> QED BY <1>1, <1>11

\* The round at hand, when the step leaves it the round at hand.
LEMMA SameRound ==
  ASSUME Calm, UNCHANGED <<gBoot, gTmpl, gCampaignsLeft, hLossesAtStart>>,
         losses' = losses \/ losses' = losses + 1,
         Pending, Behind >= Spared
  PROVE  /\ Owed' = Owed /\ Behind' = Behind /\ Spared' = Spared
         /\ Lost' = Lost + (losses' - losses) /\ Lost' >= Lost /\ Lost' \in Nat
         /\ RoundPaid /\ Lost' >= Owed'
<1>1. Behind' = Behind /\ Spared' = Spared BY DEF Behind, Spared
<1>2. Owed' = Owed BY <1>1 DEF Owed
<1>3. RoundPaid BY CalmFacts DEF Accounted
<1>4. Lost >= Owed BY <1>3 DEF RoundPaid
<1>5. losses \in Nat /\ hLossesAtStart \in Nat /\ Lost \in Nat /\ Owed \in Int BY AccountFacts
<1>6. Lost' = Lost + (losses' - losses) BY <1>5 DEF Lost
<1> QED BY <1>1, <1>2, <1>3, <1>4, <1>5, <1>6

\* Time only opens the craft's ears.
LEMMA OpenStays ==
  ASSUME Calm, UNCHANGED <<cLast, cLastAccept, cEchoedOnce, cLastEchoNonce, cLastEchoStart, gBoot, gTmpl>>,
         cmdNow' = cmdNow \/ cmdNow' = cmdNow + 1,
         cEchoesLeft' \in Nat, cEchoesLeft' <= cEchoesLeft,
         Open
  PROVE  Open'
<1>1. /\ cmdNow \in Nat /\ cEchoesLeft \in Nat /\ CmdMinInterval \in Nat BY CalmFacts
<1>2. cLastEchoStart \in Nat /\ cLastAccept \in Nat BY CalmFacts DEF CraftPaced
<1>3. Taken' = Taken BY DEF Taken
<1>4. /\ cEchoesLeft' > 0 => cEchoesLeft > 0
      /\ cmdNow' - cLastEchoStart < CmdMinInterval => cmdNow - cLastEchoStart < CmdMinInterval
  BY <1>1, <1>2
<1>5. HeldDown' => HeldDown BY <1>4 DEF HeldDown
<1>6. CmdRateLimited' => CmdRateLimited BY <1>1, <1>2 DEF CmdRateLimited
<1> QED BY <1>3, <1>5, <1>6 DEF Open

\* The clock, and an iteration of the ground with nothing to do.
LEMMA RestAccounted ==
  ASSUME Calm, AdvanceClock \/ UNCHANGED vars \/ Halt \/ GroundQuiet
  PROVE  Accounted'
<1>1. /\ UNCHANGED <<setup, craftVars, groundVars, up, down, losses>>
      /\ cmdNow' = cmdNow \/ cmdNow' = cmdNow + 1
  BY DEF AdvanceClock, Halt, vars, GroundQuiet, CraftIdle
<1>2. UNCHANGED <<cLast, cLastAccept, cEcho, cEchoesLeft, cLastEchoNonce, cLastEchoStart, cEchoedOnce>>
  BY <1>1 DEF craftVars
<1>3. UNCHANGED <<gBoot, gKey, gState, gTmpl, gCopiesLeft, gCampaignsLeft, hLossesAtStart>>
  BY <1>1 DEF groundVars
<1>4. TimeoutJustified' /\ losses' \in Nat /\ hLossesAtStart' \in Nat /\ hLossesAtStart' <= losses'
  BY <1>1, <1>3, TimeoutStays
<1>5. ASSUME Pending', (Behind >= Spared)' PROVE RoundPaid'
  <2>1. Pending /\ Behind >= Spared BY <1>3, <1>5 DEF Pending, Behind, Spared
  <2>2. /\ Owed' = Owed /\ Lost' = Lost /\ RoundPaid /\ Lost' >= Owed'
    <3>1. losses \in Nat BY AccountFacts
    <3> QED BY <1>1, <1>3, <2>1, <3>1, SameRound DEF Lost
  <2>3. Taken' = Taken /\ CopiesOut' = CopiesOut BY <1>2, <1>3 DEF Taken, CopiesOut
  <2>4. Informed => Informed' BY <1>1, <1>3 DEF Informed, Matches
  <2>5. Answering => Answering' BY <1>2, <1>3, <2>2, <2>3 DEF Answering
  <2>6. Listening => Listening'
    <3> SUFFICES ASSUME Listening PROVE Listening' OBVIOUS
    <3>1. cEchoesLeft' \in Nat /\ cEchoesLeft' <= cEchoesLeft BY <1>2, CalmFacts
    <3>2. Open' BY <1>1, <1>2, <1>3, <3>1, OpenStays DEF Listening
    <3>3. Reaching' = Reaching BY <1>1, <1>3 DEF Reaching, Current
    <3> QED BY <2>2, <2>3, <3>2, <3>3 DEF Listening
  <2> QED BY <2>2, <2>4, <2>5, <2>6 DEF RoundPaid
<1> QED BY <1>4, <1>5 DEF Accounted

\* An operator's command: the first ever finds the craft open, and owes nothing yet.
LEMMA StartAccounted ==
  ASSUME Calm, NEW c \in Cmds, GroundStart(c)
  PROVE  Accounted'
<1>1. /\ gTmpl' = [nonce |-> gNextNonce, cmd |-> c] /\ gCopiesLeft' = Copies
      /\ gCampaignsLeft' = RetryCap /\ gState' = "sending" /\ hLossesAtStart' = losses
      /\ losses' = losses /\ gBoot' = gBoot /\ cmdNow' = cmdNow /\ UNCHANGED craftVars
  BY DEF GroundStart, CraftIdle
<1>2. UNCHANGED <<cLastAccept, cEchoedOnce>> BY <1>1 DEF craftVars
<1>3. losses \in Nat BY AccountFacts
<1>4. /\ RetryCap \in Nat \ {0} /\ Copies \in Nat \ {0} /\ Meant /\ Seeds[gBoot] \in Nat
      /\ gState # "idle" => gTmpl.nonce \in Nat /\ gTmpl.nonce >= Seeds[gBoot]
  BY CalmFacts
<1>5. TimeoutJustified' BY <1>1 DEF TimeoutJustified
<1>6. Lost' = 0 /\ Behind' = 0 /\ CopiesOut' = 0 BY <1>1, <1>3, <1>4 DEF Lost, Behind, CopiesOut
<1>7. ASSUME (Behind >= Spared)' PROVE RoundPaid'
  <2>1. gNextNonce = Seeds[gBoot] /\ Spared' = 0
    BY <1>1, <1>6, <1>7 DEF Spared
  <2>2. gState = "idle" BY <1>4, <2>1 DEF Meant
  <2>3. cLastAccept = 0 /\ cEchoedOnce = FALSE BY <1>4, <2>2 DEF Meant
  <2>4. Open' BY <1>2, <2>3 DEF Open, HeldDown, CmdRateLimited
  <2>5. Owed' = 0
    <3>1. Fewest' \in Nat BY AccountFacts DEF Fewest
    <3> QED BY <1>6, <2>1, <3>1 DEF Owed
  <2>6. Listening' BY <1>6, <2>4, <2>5 DEF Listening
  <2> QED BY <1>6, <2>5, <2>6 DEF RoundPaid
<1> QED BY <1>1, <1>3, <1>5, <1>7 DEF Accounted

\* A copy the craft hears: the current one is answered, and an older one closes nothing.
LEMMA HearingAccounted ==
  ASSUME Calm, CraftHears
  PROVE  Accounted'
<1> DEFINE m == Head(up)
<1>1. /\ up # << >> /\ up' = Tail(up) /\ m = up[1] /\ m \in Asked /\ CopyMeant(m)
      /\ UNCHANGED <<setup, cmdNow, groundVars, down, losses>>
      /\ Responds(m) \/ Ignores(m)
  BY CopyHeard
<1>2. UNCHANGED <<gBoot, gKey, gState, gTmpl, gCopiesLeft, gCampaignsLeft, hLossesAtStart>>
  BY <1>1 DEF groundVars
<1>3. TimeoutJustified' /\ losses' \in Nat /\ hLossesAtStart' \in Nat /\ hLossesAtStart' <= losses'
  BY <1>1, <1>2, TimeoutStays
<1>4. ASSUME Pending', (Behind >= Spared)' PROVE RoundPaid'
  <2>1. Pending /\ Behind >= Spared BY <1>2, <1>4 DEF Pending, Behind, Spared
  <2>2. /\ Owed' = Owed /\ Lost' = Lost /\ RoundPaid /\ Lost' >= Owed' /\ Lost \in Nat /\ Owed \in Int
        /\ losses \in Nat
    <3>1. losses \in Nat /\ Lost \in Nat /\ Owed \in Int BY AccountFacts
    <3> QED BY <1>1, <1>2, <2>1, <3>1, SameRound DEF Lost
  <2>3. CopiesOut' = CopiesOut BY <1>2 DEF CopiesOut
  <2>4. Informed => Informed' BY <1>1, <1>2 DEF Informed, Matches
  <2>5. m.nonce \in Nat /\ Taken \in Int /\ gTmpl.nonce \in Nat /\ Taken <= gTmpl.nonce
    <3>1. gState # "idle" BY <2>1 DEF Pending
    <3>2. Taken < gTmpl.nonce + 1 BY <3>1, CalmFacts DEF Meant
    <3>3. Taken \in Int /\ gTmpl.nonce \in Nat BY <3>1, CalmFacts
    <3>4. m.nonce \in Nat BY <1>1 DEF Asked
    <3> QED BY <3>2, <3>3, <3>4
  <2>6. /\ m.nonce <= Taken \/ m.nonce = gTmpl.nonce
        /\ m.nonce = gTmpl.nonce => m.cmd = gTmpl.cmd
        /\ Taken = gTmpl.nonce => cLast[gBoot].cmd = gTmpl.cmd
    BY <1>1, <2>1, CalmFacts DEF CopyMeant, Current, Meant, Pending
  <2>7. EchoCopies \in Nat \ {0} BY CalmFacts
  \* a burst for the current command answers it
  <2>8. ASSUME Responds(m), m.nonce = gTmpl.nonce, ~HeldDown PROVE Answering'
    <3> HIDE DEF m
    <3>1. Taken' = m.nonce /\ cLast'[gBoot].cmd = m.cmd /\ QueueEcho(cLast'[gBoot])
      BY <2>8, Zenon DEF Responds
    <3>2. cLast'[gBoot].nonce = gTmpl.nonce BY <1>2, <2>8, <3>1 DEF Taken
    <3>3. ~Holddown(cLast'[gBoot]) BY <2>8, <3>2, Zenon DEF Holddown, HeldDown
    <3>4. /\ cEcho' = cLast'[gBoot] /\ cEchoesLeft' = EchoCopies
          /\ cLastEchoNonce' = cLast'[gBoot].nonce /\ cEchoedOnce' = TRUE
      BY <3>1, <3>3, Zenon DEF QueueEcho
    <3>5. cEcho'.nonce = gTmpl'.nonce /\ cEcho'.cmd = gTmpl'.cmd /\ cLastEchoNonce' = gTmpl'.nonce
      BY <1>2, <2>6, <2>8, <3>1, <3>2, <3>4, Zenon
    <3>6. Lost' >= Owed' + EchoCopies - cEchoesLeft' BY <2>2, <2>7, <3>4
    <3>7. Taken' = gTmpl'.nonce BY <1>2, <2>8, <3>1
    <3> QED BY <3>4, <3>5, <3>6, <3>7, Zenon DEF Answering
  <2>9. CASE Answering
    <3>1. /\ cEchoedOnce = TRUE /\ cLastEchoNonce = gTmpl.nonce /\ Taken = gTmpl.nonce
          /\ cEcho.nonce = gTmpl.nonce /\ cEcho.cmd = gTmpl.cmd
          /\ Lost >= Owed + EchoCopies - cEchoesLeft
      BY <2>9, Zenon DEF Answering
    <3> HIDE DEF m
    <3>2. CASE Ignores(m)
      <4>1. UNCHANGED <<cLast, cEcho, cEchoesLeft, cLastEchoNonce, cEchoedOnce>>
        BY <3>2 DEF Ignores, craftVars
      <4>2. Taken' = Taken BY <1>2, <4>1 DEF Taken
      <4>3. Answering' BY <1>2, <2>2, <3>1, <4>1, <4>2, Zenon DEF Answering
      <4> QED BY <2>2, <4>3, Zenon DEF RoundPaid
    <3>3. CASE Responds(m)
      <4>1. m.nonce = gTmpl.nonce
        BY <2>5, <2>6, <3>1, <3>3 DEF Responds, TakesNew, Repeats
      <4>2. CASE ~HeldDown BY <2>2, <2>8, <3>3, <4>1, <4>2, Zenon DEF RoundPaid
      <4>3. CASE HeldDown
        <5>1. Taken' = m.nonce /\ cLast'[gBoot].cmd = m.cmd /\ QueueEcho(cLast'[gBoot])
          BY <3>3, Zenon DEF Responds
        <5>2. cLast'[gBoot].nonce = gTmpl.nonce BY <1>2, <4>1, <5>1 DEF Taken
        <5>3. Holddown(cLast'[gBoot]) BY <3>1, <4>3, <5>2, Zenon DEF Holddown, HeldDown
        <5>4. UNCHANGED <<cEcho, cEchoesLeft, cLastEchoNonce, cEchoedOnce>>
          BY <5>1, <5>3 DEF QueueEcho
        <5>5. Taken' = gTmpl.nonce BY <4>1, <5>1
        <5>6. Answering' BY <1>2, <2>2, <3>1, <5>4, <5>5, Zenon DEF Answering
        <5> QED BY <2>2, <5>6, Zenon DEF RoundPaid
      <4> QED BY <4>2, <4>3
    <3> QED BY <1>1, <3>2, <3>3
  <2>10. CASE Listening
    <3>1. Open /\ ~HeldDown /\ (Taken = gTmpl.nonce \/ ~CmdRateLimited)
          /\ (Reaching \/ Lost >= Owed + CopiesOut)
      BY <2>10, Zenon DEF Listening, Open
    <3>2. CASE m.nonce = gTmpl.nonce
      <4>1. Responds(m)
        <5> HIDE DEF m
        <5> SUFFICES ASSUME Ignores(m) PROVE FALSE BY <1>1
        <5>1. /\ m.nonce <= Taken \/ CmdRateLimited
              /\ ~(m.nonce = Taken /\ m.cmd = cLast[gBoot].cmd)
          BY DEF Ignores
        <5>2. Taken # gTmpl.nonce BY <2>6, <3>2, <5>1
        <5>3. ~(m.nonce <= Taken) BY <2>5, <3>2, <5>2
        <5> QED BY <3>1, <5>1, <5>2, <5>3
      <4> QED BY <2>2, <2>8, <3>1, <3>2, <4>1, Zenon DEF RoundPaid
    <3>3. CASE m.nonce # gTmpl.nonce
      <4>1. Reaching => Reaching'
        <5> SUFFICES ASSUME Reaching PROVE Reaching' OBVIOUS
        <5>1. PICK i \in 1 .. Len(up) : up[i].nonce = gTmpl.nonce BY DEF Reaching, Current
        <5>2. up \in Seq(Asked) BY CalmFacts
        <5>3. i # 1 BY <1>1, <3>3, <5>1
        <5>4. i - 1 \in 1 .. Len(up') /\ up'[i - 1] = up[i]
          BY <1>1, <5>2, <5>3, HeadTailProperties
        <5> QED BY <1>2, <5>1, <5>4 DEF Reaching, Current
      <4> HIDE DEF m
      <4>2. CASE Ignores(m)
        <5>1. UNCHANGED <<cLast, cLastAccept, cEchoesLeft, cLastEchoNonce, cLastEchoStart, cEchoedOnce>>
          BY <4>2 DEF Ignores, craftVars
        <5>2. cEchoesLeft' \in Nat /\ cEchoesLeft' <= cEchoesLeft BY <5>1, CalmFacts
        <5>3. Open' BY <1>1, <1>2, <3>1, <5>1, <5>2, OpenStays
        <5>4. Listening' BY <2>2, <2>3, <3>1, <4>1, <5>3, Zenon DEF Listening
        <5> QED BY <2>2, <5>4, Zenon DEF RoundPaid
      <4>3. CASE Responds(m)
        <5>1. m.nonce <= Taken BY <2>6, <3>3
        <5>2. ~TakesNew(m) BY <2>5, <5>1 DEF TakesNew
        <5>3. /\ m.nonce = Taken /\ UNCHANGED <<cLast, cLastAccept>> /\ QueueEcho(cLast'[gBoot])
              /\ Taken' = m.nonce
          BY <4>3, <5>2 DEF Responds, Repeats
        <5>4. Taken' # gTmpl.nonce /\ cLast'[gBoot].nonce = Taken' BY <1>2, <3>3, <5>3 DEF Taken
        <5>5. \/ UNCHANGED <<cEchoesLeft, cLastEchoNonce, cLastEchoStart, cEchoedOnce>>
              \/ cLastEchoNonce' # gTmpl.nonce
          BY <5>3, <5>4 DEF QueueEcho
        <5>6. ~HeldDown' BY <1>1, <1>2, <3>1, <5>5 DEF HeldDown
        <5>7. ~CmdRateLimited' BY <1>1, <3>1, <3>3, <5>3 DEF CmdRateLimited
        <5>8. Open' BY <5>6, <5>7, Zenon DEF Open
        <5>9. Listening' BY <2>2, <2>3, <3>1, <4>1, <5>8, Zenon DEF Listening
        <5> QED BY <2>2, <5>9, Zenon DEF RoundPaid
      <4> QED BY <1>1, <4>2, <4>3
    <3> QED BY <3>2, <3>3
  <2>11. CASE Informed BY <2>2, <2>4, <2>11, Zenon DEF RoundPaid
  <2> QED BY <2>2, <2>9, <2>10, <2>11, Zenon DEF RoundPaid
<1> QED BY <1>3, <1>4 DEF Accounted

\* An echo of the burst: it reaches the ground's queue, or the air pays for it.
LEMMA EchoAccounted ==
  ASSUME Calm, CraftTick
  PROVE  Accounted'
<1> DEFINE e == [key |-> cKey, echo |-> cEcho]
           sends == cEchoesLeft > 0 /\ cmdNow >= cNextEcho
<1>1. /\ CraftRuns /\ up = << >> /\ UNCHANGED <<setup, cmdNow, groundVars, up, cLast, cLastAccept, cEcho,
                    cLastEchoNonce, cLastEchoStart, cEchoedOnce>>
      /\ sends => /\ cEchoesLeft' = cEchoesLeft - 1
                  /\ \/ down' = Offer(down, e) /\ losses' = losses
                     \/ losses' = losses + 1 /\ down' = down
      /\ ~sends => UNCHANGED <<cEchoesLeft, down, losses>>
  BY DEF CraftTick, GroundIdle, Lose
<1>2. UNCHANGED <<gBoot, gKey, gState, gTmpl, gCopiesLeft, gCampaignsLeft, hLossesAtStart>>
  BY <1>1 DEF groundVars
<1>3. losses' = losses \/ losses' = losses + 1 BY <1>1
<1>4. TimeoutJustified' /\ losses' \in Nat /\ hLossesAtStart' \in Nat /\ hLossesAtStart' <= losses'
  BY <1>1, <1>2, <1>3, TimeoutStays
<1>5. ASSUME Pending', (Behind >= Spared)' PROVE RoundPaid'
  <2>1. Pending /\ Behind >= Spared BY <1>2, <1>5 DEF Pending, Behind, Spared
  <2>2. /\ Owed' = Owed /\ Lost' = Lost + (losses' - losses) /\ RoundPaid /\ Lost' >= Owed'
        /\ Lost' >= Lost /\ Lost \in Nat /\ Lost' \in Nat /\ Owed \in Int /\ losses \in Nat
    BY <1>2, <1>3, <2>1, SameRound, AccountFacts
  <2>3. CopiesOut' = CopiesOut /\ Taken' = Taken BY <1>1, <1>2 DEF CopiesOut, Taken
  <2>4. /\ cEchoesLeft \in Nat /\ EchoCopies \in Nat \ {0} /\ gKey = cKey
        /\ down \in Seq(Echoed) /\ Len(down) < QueueCap
    BY <1>1, CalmFacts, QueuesHaveRoom
  <2>5. sends /\ down' = Offer(down, e) => /\ Len(down') = Len(down) + 1 /\ down'[Len(down) + 1] = e
                                           /\ \A i \in 1 .. Len(down) : down'[i] = down[i]
    <3>1. cEchoesLeft > 0 => e \in Echoed
      BY DEF Calm, VInv, Remembered, Done, Echoed
    <3> QED BY <2>4, <3>1, OfferTaken
  <2>6. Len(down) \in Nat BY <2>4, LenProperties
  <2>7. cEchoesLeft' \in Nat /\ cEchoesLeft' <= cEchoesLeft BY <1>1, <2>4
  <2>8. CASE Informed
    <3>1. PICK i \in 1 .. Len(down) : Matches(down[i]) BY <2>8 DEF Informed
    <3>2. i \in 1 .. Len(down') /\ down'[i] = down[i] BY <1>1, <2>5, <2>6
    <3>3. Matches(down[i])' BY <1>2, <3>1, <3>2 DEF Matches
    <3>4. Informed' BY <3>2, <3>3 DEF Informed
    <3> QED BY <2>2, <3>4, Zenon DEF RoundPaid
  <2>9. CASE Answering
    <3>1. /\ cEchoedOnce = TRUE /\ cLastEchoNonce = gTmpl.nonce /\ Taken = gTmpl.nonce
          /\ cEcho.nonce = gTmpl.nonce /\ cEcho.cmd = gTmpl.cmd
          /\ Lost >= Owed + EchoCopies - cEchoesLeft
      BY <2>9, Zenon DEF Answering
    <3>2. CASE sends /\ down' = Offer(down, e)
      <4>1. Matches(e) BY <2>4, <3>1 DEF Matches
      <4>2. down'[Len(down) + 1] = e /\ Len(down) + 1 \in 1 .. Len(down') BY <2>5, <2>6, <3>2
      <4>3. PICK n \in 1 .. Len(down') : down'[n] = e BY <4>2
      <4> HIDE DEF e
      <4>4. Matches(down[n])' BY <1>2, <4>1, <4>3 DEF Matches
      <4>5. Informed' BY <4>4 DEF Informed
      <4> QED BY <2>2, <4>5, Zenon DEF RoundPaid
    <3>3. CASE ~(sends /\ down' = Offer(down, e))
      <4>1. \/ cEchoesLeft' = cEchoesLeft - 1 /\ losses' = losses + 1
            \/ cEchoesLeft' = cEchoesLeft /\ losses' = losses
        BY <1>1, <3>3
      <4>2. Lost' >= Owed' + EchoCopies - cEchoesLeft' BY <2>2, <2>4, <3>1, <4>1
      <4>3. Answering' BY <1>1, <1>2, <2>3, <3>1, <4>2, Zenon DEF Answering
      <4> QED BY <2>2, <4>3, Zenon DEF RoundPaid
    <3> QED BY <3>2, <3>3
  <2>10. CASE Listening
    <3>1. Open' BY <1>1, <1>2, <2>7, <2>10, OpenStays DEF Listening
    <3>2. ~Reaching
      <4>1. Len(up) = 0 BY <1>1
      <4> QED BY <4>1 DEF Reaching
    <3>3. Lost >= Owed + CopiesOut BY <2>10, <3>2 DEF Listening
    <3>4. CopiesOut \in Int
      <4>1. Copies \in Nat /\ gCopiesLeft \in Nat BY CalmFacts
      <4> QED BY <4>1 DEF CopiesOut
    <3>5. Lost' >= Owed' + CopiesOut' BY <2>2, <2>3, <3>3, <3>4
    <3>6. Listening' BY <3>1, <3>5, Zenon DEF Listening
    <3> QED BY <2>2, <3>6, Zenon DEF RoundPaid
  <2> QED BY <2>2, <2>8, <2>9, <2>10, Zenon DEF RoundPaid
<1> QED BY <1>4, <1>5 DEF Accounted

\* An echo the ground hears ends the campaign, or was not of this command.
LEMMA EchoHeardAccounted ==
  ASSUME Calm, GroundHears
  PROVE  Accounted'
<1>1. /\ down # << >> /\ down' = Tail(down)
      /\ UNCHANGED <<setup, cmdNow, craftVars, up, losses, gBoot, gKey, gTmpl, gCopiesLeft, gCampaignsLeft,
                     hLossesAtStart>>
      /\ \/ Pending /\ Matches(Head(down)) /\ gState' \in {"acked", "rejected"}
         \/ ~(Pending /\ Matches(Head(down))) /\ gState' = gState
  BY DEF GroundHears, CraftIdle
<1>2. UNCHANGED <<cLast, cLastAccept, cEcho, cEchoesLeft, cLastEchoNonce, cLastEchoStart, cEchoedOnce>>
  BY <1>1 DEF craftVars
<1>3. TimeoutJustified' /\ losses' \in Nat /\ hLossesAtStart' \in Nat /\ hLossesAtStart' <= losses'
  BY <1>1, TimeoutStays
<1>4. ASSUME Pending', (Behind >= Spared)' PROVE RoundPaid'
  <2>1. gState' = gState /\ Pending /\ ~Matches(Head(down)) BY <1>1, <1>4 DEF Pending
  <2>2. Behind >= Spared BY <1>1, <1>4 DEF Behind, Spared
  <2>3. /\ Owed' = Owed /\ Lost' = Lost /\ RoundPaid /\ Lost' >= Owed'
    <3>1. losses \in Nat BY AccountFacts
    <3> QED BY <1>1, <2>1, <2>2, <3>1, SameRound DEF Lost
  <2>4. Taken' = Taken /\ CopiesOut' = CopiesOut BY <1>1, <1>2, <2>1 DEF Taken, CopiesOut
  <2>5. Informed => Informed'
    <3> SUFFICES ASSUME Informed PROVE Informed' OBVIOUS
    <3>1. PICK i \in 1 .. Len(down) : Matches(down[i]) BY DEF Informed
    <3>2. down \in Seq(Echoed) BY CalmFacts
    <3>3. Head(down) = down[1] BY <1>1, <3>2, HeadTailProperties
    <3>4. i # 1 BY <2>1, <3>1, <3>3
    <3>5. i - 1 \in 1 .. Len(down') /\ down'[i - 1] = down[i]
      BY <1>1, <3>2, <3>4, HeadTailProperties
    <3>6. Matches(down[i - 1])' BY <1>1, <3>1, <3>5 DEF Matches
    <3> QED BY <3>5, <3>6 DEF Informed
  <2>6. Answering => Answering' BY <1>1, <1>2, <2>3, <2>4 DEF Answering
  <2>7. Listening => Listening'
    <3> SUFFICES ASSUME Listening PROVE Listening' OBVIOUS
    <3>1. cEchoesLeft' \in Nat /\ cEchoesLeft' <= cEchoesLeft BY <1>2, CalmFacts
    <3>2. Open' BY <1>1, <1>2, <3>1, OpenStays DEF Listening
    <3>3. Reaching' = Reaching BY <1>1 DEF Reaching, Current
    <3> QED BY <2>3, <2>4, <3>2, <3>3 DEF Listening
  <2> QED BY <2>3, <2>5, <2>6, <2>7 DEF RoundPaid
<1> QED BY <1>3, <1>4 DEF Accounted

\* A copy more: it is on its way to the craft, or the air pays for it.
LEMMA SendAccounted ==
  ASSUME Calm, GroundSend
  PROVE  Accounted'
<1> DEFINE f == [boot |-> gBoot, key |-> gKey, nonce |-> gTmpl.nonce, cmd |-> gTmpl.cmd]
<1>1. /\ GroundRuns /\ down = << >> /\ gState = "sending"
      /\ UNCHANGED <<setup, cmdNow, craftVars, gBoot, gKey, gTmpl, gCampaignsLeft, hLossesAtStart>>
      /\ gCopiesLeft' = gCopiesLeft - 1
      /\ gState' = IF gCopiesLeft = 1 THEN "awaitecho" ELSE "sending"
      /\ \/ losses' = losses /\ up' = Offer(up, f)
         \/ losses' = losses + 1 /\ up' = up
  BY DEF GroundSend, GroundReady, CraftIdle, Lose
<1>2. UNCHANGED <<cLast, cLastAccept, cEcho, cEchoesLeft, cLastEchoNonce, cLastEchoStart, cEchoedOnce>>
  BY <1>1 DEF craftVars
<1>3. losses' = losses \/ losses' = losses + 1 BY <1>1
<1>4. gState' # "timeout" BY <1>1
<1>5. TimeoutJustified' /\ losses' \in Nat /\ hLossesAtStart' \in Nat /\ hLossesAtStart' <= losses'
  BY <1>1, <1>3, <1>4, TimeoutStays
<1>6. ASSUME (Behind >= Spared)' PROVE RoundPaid'
  <2>1. Pending /\ Behind >= Spared BY <1>1, <1>6 DEF Pending, Behind, Spared
  <2>2. /\ Owed' = Owed /\ Lost' = Lost + (losses' - losses) /\ RoundPaid /\ Lost' >= Owed'
        /\ Lost' >= Lost /\ Lost \in Nat /\ Lost' \in Nat /\ Owed \in Int /\ losses \in Nat
    BY <1>1, <1>3, <2>1, SameRound, AccountFacts
  <2>3. Taken' = Taken BY <1>1, <1>2 DEF Taken
  <2>4. Copies \in Nat /\ gCopiesLeft \in 1 .. Copies BY <1>1, CalmFacts
  <2>5. CopiesOut \in Int /\ CopiesOut' = CopiesOut + 1 BY <1>1, <2>4 DEF CopiesOut
  <2>6. ~Informed
    <3>1. Len(down) = 0 BY <1>1
    <3> QED BY <3>1 DEF Informed
  <2>7. CASE Answering
    <3>1. Lost >= Owed + EchoCopies - cEchoesLeft BY <2>7 DEF Answering
    <3>2. EchoCopies \in Nat /\ cEchoesLeft \in Nat BY CalmFacts
    <3>3. Lost' >= Owed' + EchoCopies - cEchoesLeft' BY <1>2, <2>2, <3>1, <3>2
    <3>4. Answering' BY <1>1, <1>2, <2>3, <2>7, <3>3, Zenon DEF Answering
    <3> QED BY <2>2, <3>4, Zenon DEF RoundPaid
  <2>8. CASE Listening
    <3>1. cEchoesLeft' \in Nat /\ cEchoesLeft' <= cEchoesLeft BY <1>2, CalmFacts
    <3>2. Open' BY <1>1, <1>2, <2>8, <3>1, OpenStays DEF Listening
    <3>3. up \in Seq(Asked) /\ Len(up) < QueueCap /\ Len(up) \in Nat
      BY <1>1, CalmFacts, QueuesHaveRoom, LenProperties
    <3>4. CASE up' = Offer(up, f)
      <4>1. f.nonce = gTmpl.nonce OBVIOUS
      <4>2. up' = Append(up, f) BY <3>3, <3>4 DEF Offer
      <4> HIDE DEF f
      <4>3. up'[Len(up) + 1] = f /\ Len(up) + 1 \in 1 .. Len(up') BY <3>3, <4>2
      <4>4. Reaching' BY <1>1, <4>1, <4>3 DEF Reaching, Current
      <4>5. Listening' BY <3>2, <4>4, Zenon DEF Listening
      <4> QED BY <2>2, <4>5, Zenon DEF RoundPaid
    <3>5. CASE losses' = losses + 1 /\ up' = up
      <4>1. Reaching' = Reaching BY <1>1, <3>5 DEF Reaching, Current
      <4>2. Lost' = Lost + 1 BY <2>2, <3>5
      <4>3. Lost >= Owed + CopiesOut => Lost' >= Owed' + CopiesOut' BY <2>2, <2>5, <4>2
      <4>4. Listening' BY <2>8, <3>2, <4>1, <4>3, Zenon DEF Listening
      <4> QED BY <2>2, <4>4, Zenon DEF RoundPaid
    <3> QED BY <1>1, <3>4, <3>5
  <2> QED BY <2>2, <2>6, <2>7, <2>8, Zenon DEF RoundPaid
<1> QED BY <1>5, <1>6 DEF Accounted

\* The echo timer: a round that ended in silence was paid for, and the next finds the craft open.
LEMMA RetryAccounted ==
  ASSUME Calm, GroundRetry
  PROVE  Accounted'
<1>1. /\ down = << >> /\ gState = "awaitecho" /\ cmdNow >= gEchoDeadline
      /\ UNCHANGED <<setup, cmdNow, craftVars, up, losses, gBoot, gTmpl, hLossesAtStart>>
      /\ gCampaignsLeft' = gCampaignsLeft - 1
      /\ \/ gCampaignsLeft = 1 /\ gState' = "timeout"
         \/ gCampaignsLeft # 1 /\ gState' = "sending" /\ gCopiesLeft' = Copies
  BY DEF GroundRetry, GroundReady, CraftIdle, LastRound
<1>2. UNCHANGED <<cLast, cLastAccept, cEcho, cEchoesLeft, cLastEchoNonce, cLastEchoStart, cEchoedOnce>>
  BY <1>1 DEF craftVars
<1>3. /\ losses \in Nat /\ hLossesAtStart \in Nat /\ hLossesAtStart <= losses
      /\ Lost \in Nat /\ Owed \in Int /\ Spared \in {0, 1} /\ Behind \in Int
      /\ Fewest \in Nat /\ Fewest <= Copies /\ Fewest <= EchoCopies
      /\ (Behind + 1 - Spared) * Fewest = Owed + Fewest
      /\ Behind + 1 = Spared => (Behind + 1 - Spared) * Fewest = 0
  BY AccountFacts
<1>4. /\ RetryCap \in Nat \ {0} /\ gCampaignsLeft \in 1 .. RetryCap /\ Copies \in Nat \ {0}
  BY <1>1, CalmFacts DEF Pending
<1>5. up = << >> /\ Open /\ (Answering => Lost >= Owed + Fewest) BY <1>1, RoundOver
<1>6. Lost >= (Behind + 1 - Spared) * Fewest
  <2>1. CASE Behind >= Spared
    <3>1. RoundPaid BY <1>1, <2>1, CalmFacts DEF Accounted, Pending
    <3>2. ~Informed
      <4>1. Len(down) = 0 BY <1>1
      <4> QED BY <4>1 DEF Informed
    <3>3. Listening => Lost >= Owed + Copies
      <4>1. ~Reaching
        <5>1. Len(up) = 0 BY <1>5
        <5> QED BY <5>1 DEF Reaching
      <4> QED BY <1>1, <4>1 DEF Listening, CopiesOut
    <3>4. Lost >= Owed + Fewest
      <4>1. Answering \/ Listening BY <3>1, <3>2, Zenon DEF RoundPaid
      <4> QED BY <1>3, <1>4, <1>5, <3>3, <4>1
    <3> QED BY <1>3, <3>4
  <2>2. CASE ~(Behind >= Spared)
    <3>1. Behind >= 0 BY <1>4 DEF Behind
    <3>2. Behind + 1 = Spared BY <1>3, <2>2, <3>1
    <3> QED BY <1>3, <3>2
  <2> QED BY <2>1, <2>2
<1>7. Behind' = Behind + 1 /\ Spared' = Spared /\ Lost' = Lost
  BY <1>1, <1>4 DEF Behind, Spared, Lost
<1>8. Owed' = (Behind + 1 - Spared) * Fewest
  <2>1. Behind' - Spared' = Behind + 1 - Spared /\ Fewest' = Fewest BY <1>3, <1>7 DEF Fewest
  <2>2. Owed' = (Behind' - Spared') * Fewest' BY DEF Owed
  <2> QED BY <2>1, <2>2, Zenon
<1>9. CASE gCampaignsLeft = 1 /\ gState' = "timeout"
  <2>1. Behind + 1 = RetryCap BY <1>4, <1>9 DEF Behind
  <2>2. Lost' >= (RetryCap - Spared') * Fewest
    <3>1. Behind + 1 - Spared = RetryCap - Spared' BY <1>3, <1>4, <1>7, <2>1
    <3>2. (Behind + 1 - Spared) * Fewest = (RetryCap - Spared') * Fewest BY <3>1
    <3> QED BY <1>6, <1>7, <3>2
  <2>3. TimeoutJustified' BY <2>2 DEF TimeoutJustified, Lost, Fewest
  <2>4. ~Pending' BY <1>9 DEF Pending
  <2> QED BY <1>1, <1>3, <2>3, <2>4 DEF Accounted
<1>10. CASE gState' = "sending" /\ gCopiesLeft' = Copies
  <2>1. CopiesOut' = 0 BY <1>4, <1>10 DEF CopiesOut
  <2>2. cEchoesLeft' \in Nat /\ cEchoesLeft' <= cEchoesLeft BY <1>2, CalmFacts
  <2>3. Open' BY <1>1, <1>2, <1>5, <2>2, OpenStays
  <2>4. Lost' >= Owed' BY <1>6, <1>7, <1>8
  <2>5. Owed' \in Int BY <1>3, <1>8
  <2>6. Lost' >= Owed' + CopiesOut' BY <2>1, <2>4, <2>5
  <2>7. Listening' BY <2>3, <2>6, Zenon DEF Listening
  <2>8. RoundPaid' BY <2>4, <2>7, Zenon DEF RoundPaid
  <2>9. TimeoutJustified' BY <1>10 DEF TimeoutJustified
  <2> QED BY <1>1, <1>3, <2>8, <2>9 DEF Accounted
<1> QED BY <1>1, <1>9, <1>10

\* Who is paired with whom does not change by itself.
LEMMA SteadyKeeps ==
  ASSUME Steady, [Next]_vars
  PROVE  Steady' /\ setup' = setup
<1>1. setup' = setup
  BY DEF Next, vars, AdvanceClock, Halt, CraftHears, CraftTick, CraftRekey, CraftBinding, GroundStart,
         GroundHears, GroundSend, GroundRetry, GroundQuiet, GroundReboot, GroundIdle, CraftIdle
<1>2. CASE setup.moves BY <1>1, <1>2 DEF Steady
<1>3. CASE ~setup.moves
  <2>1. gBoot = 1 /\ gKey = 1 /\ cKey = 1 /\ cBound = TRUE BY <1>3, Zenon DEF Steady
  <2>2. UNCHANGED <<cKey, cBound>>
    BY <1>3 DEF Next, vars, AdvanceClock, Halt, CraftHears, Accept, ReEcho, Drop, CraftTick, CraftRekey,
                CraftBinding, GroundStart, GroundHears, GroundSend, GroundRetry, GroundQuiet,
                GroundReboot, CraftIdle, craftVars
  <2>3. gBoot' = gBoot /\ gKey' \in {gKey, cKey}
    BY <1>3 DEF Next, vars, AdvanceClock, Halt, CraftHears, CraftTick, CraftRekey,
                CraftBinding, GroundStart, GroundHears, GroundSend, GroundRetry, GroundQuiet,
                GroundReboot, GroundIdle, groundVars
  <2>4. gKey' = 1 BY <2>1, <2>3
  <2>5. cBound' = TRUE BY <2>1, <2>2, Zenon
  <2> QED BY <1>1, <1>3, <2>1, <2>2, <2>3, <2>4, <2>5, Zenon DEF Steady
<1> QED BY <1>1, <1>2, <1>3

\* Every step keeps the account.
LEMMA PaidInductive ==
  ASSUME AckCovers, VInv, VInv', PaidInv, [Next]_vars
  PROVE  PaidInv'
<1>1. Steady' /\ setup' = setup BY SteadyKeeps DEF PaidInv
<1> SUFFICES ASSUME ~setup.moves PROVE CraftPaced' /\ Room' /\ InTime' /\ Meant' /\ Accounted'
  BY <1>1 DEF PaidInv
<1>2. Calm BY DEF Calm
<1>3. Room' /\ InTime' /\ Meant' BY <1>2, RoomKeeps, InTimeKeeps, MeantKeeps
<1>4. ~(CraftRekey \/ CraftBinding \/ GroundReboot) BY DEF CraftRekey, CraftBinding, GroundReboot
<1>5. CASE AdvanceClock \/ UNCHANGED vars \/ Halt
  <2>1. CraftPaced' BY <1>2, <1>5, CraftPacedKeeps DEF Halt
  <2> QED BY <1>2, <1>3, <1>5, <2>1, RestAccounted
<1>6. CASE CraftHears BY <1>2, <1>3, <1>6, CraftPacedKeeps, HearingAccounted
<1>7. CASE CraftTick BY <1>2, <1>3, <1>7, CraftPacedKeeps, EchoAccounted
<1>8. CASE (\E c \in Cmds : GroundStart(c)) \/ GroundHears \/ GroundSend \/ GroundRetry \/ GroundQuiet
  <2>1. CraftPaced' BY <1>2, <1>8, GroundStepsMove, CraftPacedKeeps
  <2>2. Accounted'
    BY <1>2, <1>8, StartAccounted, EchoHeardAccounted, SendAccounted, RetryAccounted, RestAccounted
  <2> QED BY <1>3, <2>1, <2>2
<1> QED BY <1>4, <1>5, <1>6, <1>7, <1>8 DEF Next

\* A command is applied at most once, a verdict is the craft's own, a campaign ends within its
\* retries, and one that ends in silence was failed by the air in every round but the one the
\* accept limit may cost: for every number of copies, echoes and retries and every timing the
\* echo timer covers.
THEOREM CommandAlwaysSound == Spec /\ AckCovers => []CommandSound
<1>1. Init /\ AckCovers => PaidInv
  <2> SUFFICES ASSUME Init PROVE PaidInv OBVIOUS
  <2>1. /\ setup.stall \in Nat /\ 1 \in Boots /\ Seeds[1] \in Nat /\ setup \in Setups
    <3>1. setup \in Setup /\ Seeds \in Seq(Nat) /\ Len(Seeds) > 0 /\ setup \in Setups
      BY VcmdConstants DEF Init
    <3>2. setup.stall \in Nat BY <3>1 DEF Setup
    <3> QED BY <3>1, <3>2 DEF Boots
  <2>2. EchoCopies \in Nat \ {0} BY VcmdConstants
  <2>3. Steady BY <2>1, Zenon DEF Init, Steady
  <2>4. CraftPaced BY <2>1, <2>2 DEF Init, CraftPaced
  <2>5. Room BY <2>1 DEF Init, Room, RoomFor
  <2>6. InTime /\ Accounted BY DEF Init, InTime, Underway, Accounted, Pending, TimeoutJustified
  <2>7. Meant
    <3>1. cLast[gBoot] = NoOutcome /\ gBoot = 1 /\ gNextNonce = Seeds[1] BY <2>1 DEF Init
    <3>2. Taken = -1 BY <3>1 DEF Taken, NoOutcome
    <3>3. Taken < gNextNonce BY <2>1, <3>1, <3>2
    <3>4. cEchoedOnce \in BOOLEAN /\ cEchoedOnce = FALSE /\ cEchoedOnce # TRUE BY Zenon DEF Init
    <3>5. gState = "idle" /\ cLastAccept = 0 /\ up = << >> BY DEF Init
    <3>6. \A i \in 1 .. Len(up) : FALSE
      <4>1. Len(up) = 0 BY <3>5
      <4> QED BY <4>1
    <3>7. ~Pending BY <3>5 DEF Pending
    <3> QED BY <3>1, <3>3, <3>4, <3>5, <3>6, <3>7, Zenon DEF Meant
  <2> QED BY <2>3, <2>4, <2>5, <2>6, <2>7 DEF PaidInv
<1>2. AckCovers /\ VInv /\ VInv' /\ PaidInv /\ [Next]_vars => PaidInv' BY PaidInductive
<1>3. AckCovers => AckCovers' BY DEF AckCovers
<1>4. VInv /\ PaidInv => AppliedOnce /\ OutcomeTrue /\ TimeoutJustified
  <2> SUFFICES ASSUME VInv, PaidInv PROVE TimeoutJustified BY DEF VInv
  <2>1. CASE setup.moves BY <2>1 DEF TimeoutJustified
  <2>2. CASE ~setup.moves BY <2>2 DEF PaidInv, Accounted
  <2> QED BY <2>1, <2>2
<1>5. AppliedOnce /\ OutcomeTrue /\ TimeoutJustified /\ CampaignEnds => CommandSound BY DEF CommandSound
<1> QED BY <1>1, <1>2, <1>3, <1>4, <1>5, CommandsInductive, CommandsAlwaysTrue, PTL DEF Spec
=============================================================================

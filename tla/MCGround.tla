------------------------------ MODULE MCGround ------------------------------
(***************************************************************************)
(* The ground node's parts around the receive engine: block repair from the *)
(* caches, spatial repair, cache assignment, tuning, the runtime control of *)
(* the embedding, the return lane, the report and the word it carries,      *)
(* recovery requests, probe evidence, and the radio backend's adapter        *)
(* binding and receive threads.  The components share no state in the model, *)
(* so a behaviour exercises one of them (part) while the others rest in an  *)
(* initial state.                                                           *)
(***************************************************************************)
EXTENDS GroundRepair, SpatialRepair, CacheAssign, GroundTuning, RxControl, ReturnLane,
        RxLink, LatchRecovery, ProbeEvidence, AdapterBind, RadioRx

VARIABLE part

-----------------------------------------------------------------------------
MCShapes == {{0, 1}, {0, 1, 2}}

\* The stanza arrays: none, one receiver, two transmitters (refused), every single
\* transmitter, and every pair of one transmitter and one receiver.
Stanza == [mac : {0, 1, 3}, bus : {0, 1, 3}, tx : BOOLEAN]
MCStanzas ==
    {<< >>, <<RxStanza>>, <<[RxStanza EXCEPT !.tx = TRUE], [RxStanza EXCEPT !.tx = TRUE]>>}
    \union {<<a>> : a \in {x \in Stanza : x.tx}}
    \union {s \in {<<a, b>> : a, b \in Stanza} :
              s[1].tx # s[2].tx /\ (s[1].mac = 0 \/ s[1].mac # s[2].mac)}

\* Benches: at most one device fails, or all fail alike; at most one hides its identity.
OneOdd(f) == Cardinality({d \in Devices : f[d] # "ok"}) <= 1
MCBenches ==
    {[d \in Devices |-> [fate |-> f[d], rank |-> r[d], known |-> k[d]]] :
       f \in {g \in [Devices -> {"ok", "noopen", "busy", "throws"}] :
                OneOdd(g) \/ \A d \in Devices : g[d] = g[1]},
       r \in [Devices -> {0, 1}],
       k \in {g \in [Devices -> BOOLEAN] : Cardinality({d \in Devices : ~g[d]}) <= 1}}
Plainest == [d \in Devices |-> [fate |-> "ok", rank |-> 0, known |-> TRUE]]

\* The descriptors: one of each device in another order, or two of one device.
MCFdLists == {<<3, 1, 2>>, <<2, 1, 2>>}

\* The settings: an uplink with and without a channel that exists, and no uplink with and
\* without an option that needs one.
MCOptions ==
    {[rxOnly |-> FALSE, knob |-> TRUE,  chanOk |-> TRUE,  keyed |-> TRUE],
     [rxOnly |-> FALSE, knob |-> FALSE, chanOk |-> FALSE, keyed |-> TRUE],
     [rxOnly |-> TRUE,  knob |-> FALSE, chanOk |-> TRUE,  keyed |-> FALSE],
     [rxOnly |-> TRUE,  knob |-> TRUE,  chanOk |-> TRUE,  keyed |-> TRUE]}

-----------------------------------------------------------------------------
MCInit ==
    /\ part \in {"repair", "spatial", "assign", "tuning", "control", "return", "link",
                 "recovery", "probe", "bind", "radio"}
    /\ GRInit /\ SRInit /\ CAInit /\ RCInit /\ XLInit /\ LRInit /\ RRInit
    /\ part # "tuning" => spectator = FALSE /\ at = [f \in Flyers |-> HomeChan]
    /\ GTInit
    /\ part # "return" => paced = TRUE
    /\ RLInit
    /\ part # "probe" => sender = [seq |-> 1, profile |-> 1, pin |-> Top, probes |-> TRUE,
                                   session |-> 1]
    /\ PEInit
    /\ part # "bind" => /\ conf = [auto |-> FALSE, stanzas |-> << >>, fds |-> << >>,
                                   keyed |-> TRUE, rxOnly |-> FALSE, knob |-> TRUE,
                                   chanOk |-> TRUE, cap |-> 0]
                        /\ dev = Plainest
    /\ ABInit

Repair == /\ part = "repair" /\ GRNext
          /\ UNCHANGED <<part, srVars, caVars, gtVars, rcVars, rlVars, xlVars, lrVars,
                         peVars, abVars, rrVars>>
Spatial == /\ part = "spatial" /\ SRNext
           /\ UNCHANGED <<part, grVars, caVars, gtVars, rcVars, rlVars, xlVars, lrVars,
                          peVars, abVars, rrVars>>
Assign == /\ part = "assign" /\ CANext
          /\ UNCHANGED <<part, grVars, srVars, gtVars, rcVars, rlVars, xlVars, lrVars,
                         peVars, abVars, rrVars>>
Tuning == /\ part = "tuning" /\ GTNext
          /\ UNCHANGED <<part, grVars, srVars, caVars, rcVars, rlVars, xlVars, lrVars,
                         peVars, abVars, rrVars>>
Runtime == /\ part = "control" /\ RCNext
           /\ UNCHANGED <<part, grVars, srVars, caVars, gtVars, rlVars, xlVars, lrVars,
                          peVars, abVars, rrVars>>
Return == /\ part = "return" /\ RLNext
          /\ UNCHANGED <<part, grVars, srVars, caVars, gtVars, rcVars, xlVars, lrVars,
                         peVars, abVars, rrVars>>
Link == /\ part = "link" /\ XLNext
        /\ UNCHANGED <<part, grVars, srVars, caVars, gtVars, rcVars, rlVars, lrVars,
                       peVars, abVars, rrVars>>
Recovery == /\ part = "recovery" /\ LRNext
            /\ UNCHANGED <<part, grVars, srVars, caVars, gtVars, rcVars, rlVars, xlVars,
                           peVars, abVars, rrVars>>
ProbeWindow == /\ part = "probe" /\ PENext
               /\ UNCHANGED <<part, grVars, srVars, caVars, gtVars, rcVars, rlVars, xlVars,
                              lrVars, abVars, rrVars>>
Bind == /\ part = "bind" /\ ABNext
        /\ UNCHANGED <<part, grVars, srVars, caVars, gtVars, rcVars, rlVars, xlVars,
                       lrVars, peVars, rrVars>>
Radio == /\ part = "radio" /\ RRNext
         /\ UNCHANGED <<part, grVars, srVars, caVars, gtVars, rcVars, rlVars, xlVars,
                        lrVars, peVars, abVars>>

MCNext == \/ Repair \/ Spatial \/ Assign \/ Tuning \/ Runtime \/ Return \/ Link
          \/ Recovery \/ ProbeWindow \/ Bind \/ Radio

MCSpec == MCInit /\ [][MCNext]_<<part, grVars, srVars, caVars, gtVars, rcVars, rlVars,
                                  xlVars, lrVars, peVars, abVars, rrVars>>
=============================================================================

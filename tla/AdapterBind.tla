---------------------------- MODULE AdapterBind ----------------------------
(***************************************************************************)
(* Bring-up of the radio backend: RadioAir::create (io/src/air_radio.cpp)  *)
(* with the election of io/src/adapter_elect.cpp and the write-back of     *)
(* AirBackend::create (node/include/wblink/node/air_backend.h).            *)
(*                                                                         *)
(* A node configures its radios either as an array of stanzas, each with   *)
(* optional mac and bus pins, or as the auto form, which takes the device  *)
(* set as it is found and elects the uplink.  Stanzas claim devices one    *)
(* after the other; a unit's identity and die are only known after it has  *)
(* been brought up, so the array form re-binds its stanzas afterwards and  *)
(* the auto form elects only then.  Devices are numbered in enumeration    *)
(* order; a device's number also names its port and, when its die answers, *)
(* its identity.  The array form is modelled over enumerated devices, auto *)
(* over either device source (the caller's descriptors or enumeration).    *)
(***************************************************************************)
EXTENDS Naturals, Sequences, FiniteSets

CONSTANTS Devices,     \* plugged radios, 1..n in enumeration order
          Benches,     \* what the devices are and do: device -> [fate, rank, known]
          Stanzas,     \* the stanza arrays of the array form
          FdLists,     \* the device behind each descriptor a caller may hand over
          Options,     \* the other settings: [rxOnly, knob, chanOk, keyed]
          Caps         \* values of adapters.auto.max_adapters, 0 for none

\* A configuration with the same mac in two stanzas is refused when it is parsed
\* (config.cpp parse_config), so no array has one.
ASSUME AdapterBindAssumption ==
    /\ IsFiniteSet(Devices) /\ Devices = 1..Cardinality(Devices)
    /\ FdLists \subseteq Seq(Devices)
    /\ Stanzas \subseteq Seq([mac : Nat, bus : Nat, tx : BOOLEAN])
    /\ \A s \in Stanzas : \A i, j \in DOMAIN s : s[i].mac # 0 /\ s[i].mac = s[j].mac => i = j
    /\ Benches \subseteq [Devices -> [fate : {"ok", "noopen", "busy", "throws"},
                                      rank : Nat, known : BOOLEAN]]
    /\ Options \subseteq [rxOnly : BOOLEAN, knob : BOOLEAN, chanOk : BOOLEAN, keyed : BOOLEAN]
    /\ Caps \subseteq Nat

VARIABLES conf,      \* the configuration as authored
          dev,       \* device -> [fate, rank, known]: known means the die tells its identity
          units,     \* im.adapters: the claimed units, each [dev, tx]
          stz,       \* cfg.adapters of the call, parallel to units once trimmed
          fds,       \* cfg.adapter_fds of the call
          used,      \* used_paths
          lot,       \* history: the devices that survived bring-up, before any cap
          step,      \* where create() stands
          idx,       \* the stanza the claim loop is at
          txIdx,     \* im.tx_idx, 0 when no unit transmits (im.has_tx)
          published  \* the Config AirBackend::create leaves to its caller

abVars == <<conf, dev, units, stz, fds, used, lot, step, idx, txIdx, published>>

None0 == 0
RxStanza == [mac |-> None0, bus |-> None0, tx |-> FALSE]
Path(d) == d
Mac(d) == IF dev[d].known THEN d ELSE None0

Selected(s, keep) == LET Kept[n \in 0..Len(s)] ==
                           IF n = 0 THEN << >>
                           ELSE Kept[n - 1] \o (IF n \in keep THEN <<s[n]>> ELSE << >>)
                     IN Kept[Len(s)]

\* rxOnly: the caller vouches for a node without uplink; knob: some option names a TX-die
\* property (tx_die_knob); chanOk: the configured channels exist; keyed: the host can read a
\* descriptor's bus number.
ABInit ==
    /\ \E o \in Options :
         \/ \E s \in Stanzas :
               conf = [auto |-> FALSE, stanzas |-> s, fds |-> << >>, cap |-> 0, keyed |-> TRUE,
                       rxOnly |-> o.rxOnly, knob |-> o.knob, chanOk |-> o.chanOk]
         \/ \E c \in Caps, f \in FdLists \union {<< >>} :
               conf = [auto |-> TRUE, stanzas |-> << >>, fds |-> f, cap |-> c, keyed |-> o.keyed,
                       rxOnly |-> o.rxOnly, knob |-> o.knob, chanOk |-> o.chanOk]
    /\ dev \in IF conf.auto THEN Benches
               ELSE {b \in Benches : \A d \in Devices : b[d].rank = 0}
    /\ units = << >> /\ stz = << >> /\ fds = << >> /\ used = {} /\ lot = {}
    /\ step = "validate" /\ idx = 1 /\ txIdx = 0
    /\ published = [stanzas |-> << >>, fds |-> << >>]

Refuse == /\ step' = "failed"
          /\ UNCHANGED <<conf, dev, units, stz, fds, used, lot, idx, txIdx, published>>

(* The refusals before any USB work, and the provisional stanzas of auto:  *)
(* one per descriptor, or one per enumerated radio.                        *)
TxCount(s) == Cardinality({i \in DOMAIN s : s[i].tx})
Acceptable(s) == /\ s # << >>
                 /\ TxCount(s) <= 1
                 /\ TxCount(s) = 1 \/ (conf.rxOnly /\ ~conf.knob)

Found == IF conf.fds # << >> THEN 1..Len(conf.fds) ELSE Devices
AutoAcceptable == ~(conf.rxOnly /\ conf.knob) /\ conf.chanOk /\ Found # {}

Validate == /\ step = "validate"
            /\ IF ~(IF conf.auto THEN AutoAcceptable ELSE Acceptable(conf.stanzas)) THEN Refuse
               ELSE /\ stz' = IF conf.auto THEN [i \in Found |-> RxStanza] ELSE conf.stanzas
                    /\ fds' = conf.fds
                    /\ step' = "claim"
                    /\ UNCHANGED <<conf, dev, units, used, lot, idx, txIdx, published>>

(* The claim loop.  A port pinned by a stanza without a mac is reserved;   *)
(* a stanza with both pins first tries its port and then any free device.  *)
StrictPins == {stz[i].bus : i \in {j \in DOMAIN stz : stz[j].bus # None0 /\ stz[j].mac = None0}}

NothingReserved(s) == Devices \ used

Free(s) == {d \in Devices \ used : d \notin StrictPins \/ Path(d) = s.bus}

Claimable(s) ==
    LET pinned == {d \in Devices \ used : Path(d) = s.bus}
    IN IF s.bus = None0 THEN Free(s)
       ELSE IF pinned # {} \/ s.mac = None0 THEN pinned
       ELSE Free(s)

First(S) == CHOOSE d \in S : \A e \in S : d <= e

ByFd == fds # << >>

(* skip_or_fail: the array form fails, auto passes on to the next stanza.  *)
SkipOrFail(path) ==
    IF ~conf.auto THEN Refuse
    ELSE /\ idx' = idx + 1
         /\ used' = used \union path
         /\ UNCHANGED <<conf, dev, units, stz, fds, lot, step, txIdx, published>>

(* Two descriptors may be of one device.  The key of bus and address tells *)
(* them apart before the claim; where it cannot be read, the kernel's own  *)
(* claim is exclusive.                                                     *)
Claimed == {units[i].dev : i \in DOMAIN units}

ClaimUnit(d) ==
    IF d \in Claimed /\ conf.keyed THEN Refuse
    ELSE IF d \in Claimed \/ dev[d].fate = "busy" THEN SkipOrFail(IF ByFd THEN {} ELSE {d})
    ELSE /\ units' = Append(units, [dev |-> d, tx |-> stz[idx].tx])
         /\ used' = IF ByFd THEN used ELSE used \union {d}
         /\ txIdx' = IF stz[idx].tx THEN Len(units) + 1 ELSE txIdx
         /\ idx' = idx + 1
         /\ UNCHANGED <<conf, dev, stz, fds, lot, step, published>>

ClaimByFd == /\ step = "claim" /\ idx <= Len(stz) /\ ByFd
             /\ IF dev[fds[idx]].fate = "noopen" THEN Refuse ELSE ClaimUnit(fds[idx])

ClaimByPath == /\ step = "claim" /\ idx <= Len(stz) /\ ~ByFd
               /\ LET S == Claimable(stz[idx])
                  IN IF S = {} \/ dev[First(S)].fate = "noopen" THEN SkipOrFail({})
                     ELSE ClaimUnit(First(S))

(* Auto trims the stanza array, and the list of descriptors, to what it    *)
(* claimed.                                                                *)
Trim == /\ step = "claim" /\ idx > Len(stz)
        /\ IF units = << >> THEN Refuse
           ELSE /\ stz' = SubSeq(stz, 1, Len(units))
                /\ fds' = IF Len(fds) > Len(units) THEN SubSeq(fds, 1, Len(units)) ELSE fds
                /\ step' = "bringup"
                /\ UNCHANGED <<conf, dev, units, used, lot, idx, txIdx, published>>

(* Every unit is brought up and names its die and its identity.            *)
BringUp == /\ step = "bringup"
           /\ LET up == {i \in DOMAIN units : dev[units[i].dev].fate # "throws"}
              IN IF ~conf.chanOk \/ (up # DOMAIN units /\ (~conf.auto \/ up = {})) THEN Refuse
                 ELSE /\ units' = Selected(units, up)
                      /\ stz' = Selected(stz, up)
                      /\ fds' = Selected(fds, up)
                      /\ lot' = {units[i].dev : i \in up}
                      /\ step' = IF conf.auto THEN "elect" ELSE "rebind"
                      /\ UNCHANGED <<conf, dev, used, idx, txIdx, published>>

(* The stanzas go back to the caller's configuration; the descriptors it   *)
(* was given stay as they were.                                            *)
WrittenBack(s) == [stanzas |-> s, fds |-> conf.fds]

(* plan_adapters: rank by part, then by having an identity, then by that   *)
(* identity; the cap keeps the best ones, in claim order.                  *)
Outranks(d, e) ==
    LET a == dev[d] b == dev[e]
    IN \/ a.rank < b.rank
       \/ a.rank = b.rank /\ a.known /\ ~b.known
       \/ a.rank = b.rank /\ a.known = b.known /\ d < e

Ahead(i) == {j \in DOMAIN units : Outranks(units[j].dev, units[i].dev)}
FirstFound(n) == {i \in DOMAIN units : i <= n}
BestOf(n) == {i \in DOMAIN units : Cardinality(Ahead(i)) < n}

Elect == /\ step = "elect"
         /\ LET keep == IF conf.cap = 0 THEN DOMAIN units ELSE BestOf(conf.cap)
                best == CHOOSE i \in DOMAIN units : Ahead(i) = {}
                Stamped == [i \in DOMAIN units |->
                              [dev |-> units[i].dev, tx |-> i = best /\ ~conf.rxOnly]]
                kept == Selected(Stamped, keep)
            IN /\ units' = kept
               /\ stz' = [i \in DOMAIN kept |-> [mac |-> Mac(kept[i].dev), bus |-> None0,
                                                 tx |-> kept[i].tx]]
               /\ txIdx' = IF \E i \in DOMAIN kept : kept[i].tx
                           THEN CHOOSE i \in DOMAIN kept : kept[i].tx ELSE 0
         /\ step' = "up"
         /\ UNCHANGED <<conf, dev, fds, used, lot, idx>>
         /\ published' = WrittenBack(stz')

(* Stanzas re-bind: mac pins first, then bus pins, then what is left in    *)
(* claim order; a unit takes over its final stanza's role.                 *)
Unbound(b, d) == \A i \in DOMAIN b : b[i] # d

ByMac == [i \in DOMAIN stz |->
            IF stz[i].mac \in Claimed /\ Mac(stz[i].mac) = stz[i].mac THEN stz[i].mac ELSE 0]
ByBus(b) == [i \in DOMAIN stz |->
               IF b[i] = 0 /\ stz[i].bus \in Claimed /\ Unbound(b, stz[i].bus)
                  /\ \A j \in 1..(i - 1) : b[j] # 0 \/ stz[j].bus # stz[i].bus
               THEN stz[i].bus ELSE b[i]]
Leftover(b) ==
    LET open == {i \in DOMAIN stz : b[i] = 0}
        spare == {i \in DOMAIN units : Unbound(b, units[i].dev)}
        Nth(S, x) == Cardinality({y \in S : y < x})
    IN [i \in DOMAIN stz |->
          IF b[i] # 0 THEN b[i]
          ELSE units[CHOOSE u \in spare : Nth(spare, u) = Nth(open, i)].dev]

Rebound == Leftover(ByBus(ByMac))
FinalRoleKept(d, i) == [dev |-> d, tx |-> \E j \in DOMAIN units : units[j].dev = d /\ units[j].tx]
FinalRole(d, i) == [dev |-> d, tx |-> stz[i].tx]

AnyMacPin == \E i \in DOMAIN stz : stz[i].mac # None0

Rebind == /\ step = "rebind"
          /\ units' = IF AnyMacPin THEN [i \in DOMAIN stz |-> FinalRole(Rebound[i], i)] ELSE units
          /\ txIdx' = IF AnyMacPin /\ TxCount(stz) = 1
                      THEN CHOOSE i \in DOMAIN stz : stz[i].tx ELSE txIdx
          /\ step' = "up"
          /\ published' = WrittenBack(stz)
          /\ UNCHANGED <<conf, dev, stz, fds, used, lot, idx>>

ABNext == Validate \/ ClaimByFd \/ ClaimByPath \/ Trim \/ BringUp \/ Elect \/ Rebind

ABSpec == ABInit /\ [][ABNext]_abVars

(***************************************************************************)
(* Properties                                                              *)
(***************************************************************************)
Up == step = "up"

(* BestKept: under auto the units that fly are the best of those that      *)
(* survived bring-up.  A unit is released only when the cap is full, and   *)
(* every released unit ranks below every kept one; the transmitter is the  *)
(* best of all (plan_adapters: the cap is applied after the ranking, not   *)
(* to the order the bus enumerated).                                       *)
BestKept ==
    /\ Claimed \subseteq lot
    /\ \A e \in Claimed, d \in lot \ Claimed : Outranks(e, d)
    /\ conf.cap # 0 => Len(units) <= conf.cap
    /\ Claimed # lot => Len(units) = conf.cap
    /\ txIdx # 0 => \A d \in lot : d # units[txIdx].dev => Outranks(units[txIdx].dev, d)

(* OneUplink: a backend that came up has one unit per stanza, no unit      *)
(* twice, and exactly the unit under the tx stanza injects; it goes        *)
(* without one only where the caller vouched for it, and never with an     *)
(* option that names a TX die.                                             *)
OneUplink ==
    Up => /\ Len(units) = Len(stz)
          /\ \A i, j \in DOMAIN units : units[i].dev = units[j].dev => i = j
          /\ \A i \in DOMAIN units : units[i].tx <=> i = txIdx
          /\ txIdx # 0 => stz[txIdx].tx
          /\ txIdx = 0 => conf.rxOnly /\ ~conf.knob
          /\ conf.auto => BestKept

(* ValidConfigFlies: an array-form configuration whose port pins differ    *)
(* and are plugged in, over radios that all answer, is never refused: a    *)
(* stanza without a port pin does not consume a device that a later one    *)
(* names (the strict_pins reservation).                                    *)
ValidArray ==
    LET s == conf.stanzas
    IN /\ ~conf.auto
       /\ Acceptable(s) /\ conf.chanOk
       /\ Len(s) <= Cardinality(Devices)
       /\ \A i \in DOMAIN s : s[i].bus # None0 => s[i].bus \in Devices
       /\ \A i, j \in DOMAIN s : s[i].bus # None0 /\ s[i].bus = s[j].bus => i = j
       /\ \A d \in Devices : dev[d].fate = "ok"

ValidConfigFlies == ValidArray => step # "failed"

(* BindSound: a sound configuration comes up, and what comes up has one    *)
(* uplink (air_radio.cpp create).                                          *)
BindSound == OneUplink /\ ValidConfigFlies
=============================================================================

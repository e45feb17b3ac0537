--------------------------- MODULE SpatialRepair ----------------------------
(***************************************************************************)
(* Slice-level concealment of lost pictures                                *)
(* (src/core/src/spatial_repair.cpp) behind the ground's egress            *)
(* (write_egress in src/node/src/rx_node.cpp).  The encoder numbers its    *)
(* pictures 1, 2, 3..., and that number is the picture's PTS.  Slices are  *)
(* abstracted to their addresses; parsing and synthesis always succeed on  *)
(* what the encoder produces.                                              *)
(***************************************************************************)
EXTENDS Naturals, FiniteSets

CONSTANTS Shapes,       \* slice address lists an encoder picture may have
          MaxPictures   \* bound: pictures of a behaviour

ASSUME ShapesAssumption == \A s \in Shapes : 0 \in s

VARIABLES rep,      \* the SpatialRepair object
          next,     \* the encoder's next picture
          fresh,    \* the next P picture is the first after an intra picture
          shown,    \* PTS of the last picture the sink accepted, 0 for none
          since     \* history: pictures accepted since the sink last refused

srVars == <<rep, next, fresh, shown, since>>

None == {}
NewRepair ==
    [params |-> FALSE, geometry |-> None, pending |-> None, donor |-> FALSE,
     rps |-> 0, stable |-> FALSE, meta |-> FALSE, pts |-> 0, delta |-> 0]

\* reset_stream(): geometry_pending_ is kept.
ForgottenButGeometry(r) ==
    [NewRepair EXCEPT !.geometry = r.geometry, !.pending = r.pending, !.donor = r.donor]
Forgotten(r) == [NewRepair EXCEPT !.pending = r.pending]

SRInit ==
    /\ rep = NewRepair
    /\ next = 1 /\ fresh = TRUE /\ shown = 0 /\ since = 0

\* learn(): every accepted picture teaches PTS cadence, parameter sets, donor and
\* geometry; a geometry is adopted when two pictures in a row agree on it.
Learn(r, pic) ==
    LET timed == [r EXCEPT !.meta = TRUE,
                           !.delta = IF r.pts # 0 /\ pic.pts > r.pts
                                     THEN pic.pts - r.pts ELSE @,
                           !.pts = pic.pts,
                           !.params = @ \/ pic.intra]
        donated == IF pic.intra THEN timed
                   ELSE [timed EXCEPT !.stable = r.donor /\ r.rps = pic.rps,
                                      !.donor = TRUE, !.rps = pic.rps]
    IN IF ~timed.params THEN timed
       ELSE [donated EXCEPT !.geometry = IF pic.shape = r.pending THEN pic.shape ELSE @,
                            !.pending = pic.shape]

\* write_egress(): a refused picture breaks the chain the decoder has seen.
Egress(r, pic, accepted) == IF accepted THEN Learn(r, pic) ELSE Forgotten(r)

Show(pic, accepted) ==
    /\ shown' = IF accepted THEN pic.pts ELSE shown
    /\ since' = IF accepted THEN since + 1 ELSE 0

Advance(intra) == next <= MaxPictures /\ next' = next + 1 /\ fresh' = intra

Picture(intra, shape) ==
    [pts |-> next, intra |-> intra, shape |-> shape, rps |-> IF fresh THEN 0 ELSE 1]

\* A picture arrives whole.
Delivered(intra, shape, accepted) ==
    /\ Advance(intra)
    /\ rep' = Egress(rep, Picture(intra, shape), accepted)
    /\ Show(Picture(intra, shape), accepted)

\* A picture is lost whole, or repair() gives it up.
Lost(intra) ==
    /\ Advance(intra)
    /\ UNCHANGED <<rep, shown, since>>

ConcealPts(r) == r.pts + r.delta

\* repair() with complete slices surviving: they must fit the learned geometry;
\* the metadata is the picture's own, or synthesized when chunk 0 is lost.
Conceal(shape, left, meta, accepted) ==
    /\ Advance(FALSE)
    /\ rep.params /\ rep.geometry # None
    /\ left # {} /\ left \subseteq shape /\ left # shape /\ left \subseteq rep.geometry
    /\ meta \/ rep.meta
    /\ LET pic == [Picture(FALSE, rep.geometry)
                     EXCEPT !.pts = IF meta THEN next ELSE ConcealPts(rep)]
       IN rep' = Egress(rep, pic, accepted) /\ Show(pic, accepted)

\* freeze(): no slice survived.  The accepted picture has already passed through
\* learn() when last_pts_ is advanced.
Freeze(accepted) ==
    /\ Advance(FALSE)
    /\ rep.params /\ rep.geometry # None
    /\ rep.donor /\ rep.meta /\ rep.stable
    /\ LET pic == [pts |-> ConcealPts(rep), intra |-> FALSE, shape |-> rep.geometry,
                   rps |-> rep.rps]
           seen == Egress(rep, pic, accepted)
       IN /\ rep' = IF accepted THEN [seen EXCEPT !.pts = @ + seen.delta] ELSE seen
          /\ Show(pic, accepted)

SRNext ==
    \E accepted \in BOOLEAN, shape \in Shapes :
        \/ \E intra \in BOOLEAN : Delivered(intra, shape, accepted)
        \/ \E intra \in BOOLEAN : Lost(intra)
        \/ \E left \in SUBSET shape, meta \in BOOLEAN :
               Conceal(shape, left, meta, accepted)
        \/ Freeze(accepted)

-----------------------------------------------------------------------------
\* Concealment fails closed after the sink drops a picture: nothing is rebuilt
\* until accepted pictures have taught the shape and the donor again
\* (write_egress: "fail closed until accepted pictures establish geometry/donors
\* again").
FailsClosed == since = 0 => (rep.geometry = None /\ ~rep.donor)
=============================================================================

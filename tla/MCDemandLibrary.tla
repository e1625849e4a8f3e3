--------------------------- MODULE MCDemandLibrary ---------------------------
(***************************************************************************)
(* The library with two settings, a second spelling of the first and a form*)
(* that is refused, and two names that differ in case only; and, as inputs *)
(* of behaviours of their own, the settings of DemandShape: every shape of *)
(* a day, every pair of seasons, and small profiles in every period.       *)
(***************************************************************************)
EXTENDS DemandLibrary, DemandShape, Integers, FiniteSetsExt, Functions, TLC

CONSTANTS s1, s2

VARIABLE input

MCFoldCase == [x \in Stems |-> "a"]
MCNormalize == [w \in Written \cup {FileDemand} |-> CASE w = "flat again" -> "flat"
                                                  [] w = "invalid" -> Refused
                                                  [] OTHER -> w]

(* A straight line stands for the sine; it keeps its symmetry.             *)
LinearSine(x, width) ==
    IF x >= 0 THEN Unit - ((Unit * (width - x)) \div (2 * width))
              ELSE (Unit * (width + x)) \div (2 * width)

Library == [kind |-> "library"]

AnySegment == [min |-> 1, max |-> 2, distribution |-> "UNIFORM"]
Shapes(ramps, segments) ==
    {s \in [day_start_hour : Hours, day_end_hour : 1 .. HOURS_PER_DAY,
            morning_ramp_hours : ramps, evening_ramp_hours : ramps,
            day : segments, night : segments] : ValidShape(s)}
Seasons ==
    {z \in [summer_end_period : 1 .. MAX_SUMMER_END_PERIOD,
            transition_days : 0 .. MAX_SEASON_TRANSITION_DAYS] : ValidSeasons(z)}

(* A long day and a short one, with marginals below the rounding.          *)
ProfileShapes ==
    {s \in Shapes({0, 5}, [min : {1}, max : {2, 7}, distribution : {"UNIFORM"}]) :
        /\ <<s.day_start_hour, s.day_end_hour>> \in {<<6, 20>>, <<9, 16>>}
        /\ s.morning_ramp_hours = s.evening_ramp_hours}
Profiles ==
    {p \in [summer : ProfileShapes]
           \cup {[summer |-> s, seasons |-> [summer_end_period |-> 30, transition_days |-> d,
                                            winter |-> w]] :
                s \in ProfileShapes, d \in {0, 2}, w \in ProfileShapes} :
        ValidProfile(p)}

ShapeInputs ==
    [kind : {"shape"}, shape : Shapes(0 .. MAX_RAMP_HOURS, {AnySegment})]
    \cup [kind : {"seasons"}, seasons : Seasons]
    \cup [kind : {"profile"}, profile : Profiles, t : {1, 6, 12, 20, 21, 28, 31, 35, 60}]

MCInit == Init /\ input \in {Library} \cup ShapeInputs
MCNext == input = Library /\ Next /\ input' = input
MCSpec == MCInit /\ [][MCNext]_<<vars, input>>

ScenarioSymmetry == Permutations({s1, s2})

-----------------------------------------------------------------------------
\* Over a day the transitions take from the day what they give to the night, so
\* that the day keeps its hours; the hour before a boundary and the hour after it
\* stay night and day for most of it; over the change of season summer loses as
\* much as winter; and the mask that shades the nights of a preview agrees
\* (day_weight, _validate_shape, winter_weight, night_mask).
TransitionsKeepTheDay ==
    /\ input.kind = "shape" =>
         LET s == input.shape IN
         /\ SumFunction([h \in Hours |-> day_weight(s, h)]) = day_hours(s) * Unit
         /\ \A h \in Hours : (2 * day_weight(s, h) > Unit) = InDay(s, h)
    /\ input.kind = "seasons" =>
         LET z == input.seasons
             n == z.summer_end_period + HOURS_PER_DAY * z.transition_days
         IN  SumFunction([t \in 1 .. n |-> winter_weight(z, t)])
                 = (n - z.summer_end_period) * Unit
    /\ input.kind = "profile" =>
         LET p == input.profile
             w == weights(p, input.t)
             season == CHOOSE z \in DOMAIN w : \A y \in DOMAIN w \ {z} :
                          w[y].night + w[y].day = 0
         IN  (\E z \in DOMAIN w : w[z].night + w[z].day = Unit * Unit) =>
               night_mask(p, input.t) = (w[season].night > w[season].day)

\* No draw from an accepted profile makes a run refuse its own demand: every
\* demand is positive and between the bounds of the segments that are active in
\* its period, however they are mixed and rounded (MixtureProfile.demand,
\* validate_horizon).
DemandIsUsable ==
    input.kind = "profile" =>
    \A draw \in Draws(input.profile, input.t) :
       LET x   == PeriodDemand(input.profile, input.t, draw)
           all == {Segment(input.profile, i[1], i[2]) : i \in DOMAIN draw}
       IN  /\ Usable(x)
           /\ x >= Unit * Unit * Min({g.min : g \in all})
           /\ x <= Unit * Unit * Max({g.max : g \in all})

\* A demand drawn from a profile has the day and the bounds its settings say.
DrawsAreUsable == TransitionsKeepTheDay /\ DemandIsUsable
=============================================================================

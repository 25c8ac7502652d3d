-------------------------- MODULE MCDnsAttribution --------------------------
(***************************************************************************)
(* DnsAttribution for TLC.  A behaviour is one scenario: the instance that *)
(* the configuration gives, in which every window can pass ("timing"), one *)
(* with more events than that ("burst"), or one with more names than the   *)
(* table holds ("overload").                                               *)
(***************************************************************************)
EXTENDS DnsAttribution, TLC

CONSTANTS Scenarios, k1, k2, w1, w2

VARIABLE scenario

Symmetry == Permutations({w1, w2}) \cup Permutations({k1, k2})

Burst == INSTANCE DnsAttribution WITH
    Keys <- {k1}, Workers <- {w1, w2}, LIFETIME <- 2, REUSE <- 1, SCAN <- 1, kMaxHints <- 1,
    MaxEvents <- 3, MaxPackets <- 2, MaxTime <- 3
Overload == INSTANCE DnsAttribution WITH
    Keys <- {k1, k2}, Workers <- {w1}, LIFETIME <- 3, REUSE <- 2, SCAN <- 2, kMaxHints <- 1,
    MaxEvents <- 2, MaxPackets <- 2, MaxTime <- 5

AttributionInit ==
    /\ scenario \in Scenarios
    /\ IF scenario = "overload" THEN Overload!Init ELSE Init

AttributionNext ==
    /\ UNCHANGED scenario
    /\ \/ scenario = "timing" /\ Next
       \/ scenario = "burst" /\ Burst!Next
       \/ scenario = "overload" /\ Overload!Next

AttributionSpec == AttributionInit /\ [][AttributionNext]_<<scenario, vars>>

-----------------------------------------------------------------------------

\* No packet is routed to the physical resolver while a selected query event for its name, logged
\* before the packet's barrier began, still speaks for the name (Hints::take).
DirectRouteSafe ==
    [][/\ scenario = "timing" => RoutesSafely
       /\ scenario = "burst" => Burst!RoutesSafely
       /\ scenario = "overload" => Overload!RoutesSafely]_<<scenario, vars>>

\* No direct answer is delivered once a selected lookup of the name was logged before the delivery's
\* barrier began (Hints::directAnswerUnsafe).
DirectAnswerSafe ==
    [][/\ scenario = "timing" => AnswersSafely
       /\ scenario = "overload" => Overload!AnswersSafely]_<<scenario, vars>>

\* Once the barrier passes, a packet is refused only if every live event of its name was used up by
\* an answered exchange or a quarantine applies (Hints::decide).
RefusalJustified == [][scenario = "timing" => RefusesJustly]_<<scenario, vars>>
=============================================================================

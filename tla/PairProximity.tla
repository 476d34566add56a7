---------------------------- MODULE PairProximity ----------------------------
(***************************************************************************)
(* sil_pair_proximity of sil_term_impl.h: the smallest distance between a  *)
(* position of one term and one of another, where a pair in the wrong      *)
(* order counts one more.  The positions of a term are an ascending        *)
(* sequence without repetitions.                                           *)
(***************************************************************************)
EXTENDS Sorting

CONSTANT NoProximity   \* UINT32_MAX in the code, above every distance

ASSUME PairProximityAssumption == NoProximity \in Nat

Closest(distances) == IF distances = {} THEN NoProximity ELSE Min(distances)

\* The loop: one pointer into each list, and a distance for every two
\* positions the pointers meet, except for two equal ones.
DistancesMet_BothAdvance(x, y) ==
    LET met[s \in (1..(Len(x) + 1)) \X (1..(Len(y) + 1))] ==
          LET i == s[1]
              j == s[2]
          IN  IF i > Len(x) \/ j > Len(y) THEN {}
              ELSE IF x[i] > y[j] THEN {x[i] - y[j] + 1} \cup met[<<i, j + 1>>]
              ELSE IF x[i] < y[j] THEN {y[j] - x[i]} \cup met[<<i + 1, j + 1>>]
              ELSE met[<<i, j + 1>>]
    IN  met[<<1, 1>>]
DistancesMet(x, y) ==
    LET met[s \in (1..(Len(x) + 1)) \X (1..(Len(y) + 1))] ==
          LET i == s[1]
              j == s[2]
          IN  IF i > Len(x) \/ j > Len(y) THEN {}
              ELSE IF x[i] > y[j] THEN {x[i] - y[j] + 1} \cup met[<<i, j + 1>>]
              ELSE IF x[i] < y[j] THEN {y[j] - x[i]} \cup met[<<i + 1, j>>]
              ELSE met[<<i, j + 1>>]
    IN  met[<<1, 1>>]

Proximity(x, y) == Closest(DistancesMet(x, y))

\* What the loop is for: the distance of every pair of different positions.
PairDistances(x, y) ==
    {IF x[ij[1]] < y[ij[2]] THEN y[ij[2]] - x[ij[1]] ELSE x[ij[1]] - y[ij[2]] + 1 :
        ij \in {k \in (DOMAIN x) \X (DOMAIN y) : x[k[1]] # y[k[2]]}}
=============================================================================

------------------------------- MODULE MCStore -------------------------------
(* Store on two satellites, one of which may be measured on two antennas. *)
EXTENDS Store

CONSTANTS w1, h1, a, b, v1, v2, v3

OneWriter == {w1}
OneReader == {h1}
MCSvs == {a, b}
ShortSurveys == {<<a>>, <<b, a>>}
MCSurveys == {<<>>, <<a>>, <<a, b>>, <<b, a, a>>}
ThreeViews == {v1, v2, v3}
ViewSymmetry ==
  {[v \in ThreeViews |-> f[v]] : f \in {g \in [ThreeViews -> ThreeViews] :
     \A x, y \in ThreeViews : g[x] = g[y] => x = y}}
=============================================================================

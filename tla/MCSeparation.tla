---------------------------- MODULE MCSeparation ----------------------------
\* Three vehicles on pads in a column, a site on the border of the arena, one
\* behind it on the same border, and the way home for whoever is recalled.
EXTENDS Separation, TLC

MCPad == 1 :> <<-4, 3>> @@ 2 :> <<-4, 0>> @@ 3 :> <<-4, -3>>
MCHome == <<-4, 0>>
MCSites == {<<2, 5>>, <<6, 5>>}
=============================================================================

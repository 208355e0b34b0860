-------------------------------- MODULE MCOled --------------------------------
(* Two pages of two columns, black or white.  Scenes that differ from each *)
(* other in one column, in both of a page, and on both pages.              *)
EXTENDS Oled

MCPixels == {0, 1}
Frame(first, second) ==
  [p \in Pages |-> [c \in Columns |-> IF p = 0 THEN first[c + 1] ELSE second[c + 1]]]
MCTextPlaces == {<<0, 1>>, <<1, 0>>}
MCScenes == {Frame(<<0, 0>>, <<0, 0>>), Frame(<<1, 0>>, <<0, 0>>),
             Frame(<<0, 1>>, <<1, 1>>)}
MCPowerOnGlass == {Frame(<<1, 0>>, <<0, 1>>)}
=============================================================================

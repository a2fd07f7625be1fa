-------------------------------- MODULE MCWire --------------------------------
(***************************************************************************)
(* Wire with small sizes: frames of one and two bytes, a pattern of three *)
(* by three, a surface of seven by five and pictures wider, higher and     *)
(* smaller than it, and one so narrow that no column of it would be shown. *)
(***************************************************************************)
EXTENDS Wire

MCMegaracFrames == {<<1, 7>>, <<9>>}

\* RFB 3.8 and the Insyde one, an old one, an unknown one; with types the viewer goes
\* through with, one it does not, none, and several.
MCOffers ==
  {[version |-> 55, types |-> <<1, 16>>, result |-> 0],
   [version |-> 8, types |-> <<30, 1>>, result |-> 0],
   [version |-> 8, types |-> <<15>>, result |-> 1],
   [version |-> 7, types |-> <<1>>, result |-> 0],
   [version |-> 3, types |-> <<16>>, result |-> 0],
   [version |-> 8, types |-> <<2, 1>>, result |-> 0],
   [version |-> 8, types |-> <<>>, result |-> 0],
   [version |-> 5, types |-> <<1>>, result |-> 0]}

\* An update with a picture and a blank screen, one whose picture lacks part of its header,
\* a bell, cursors with a pattern, with none and with one too large, a message of two bytes,
\* and one that is not known.
MCAtenMessages ==
  {<<0, 2, 87, 2, 5, 6, 87, 0>>, <<0, 1, 87, 1, 5>>, <<2>>, <<4, 1, 0, 2, 1, 6, 6>>,
   <<4, 0, 1, 0>>, <<4, 1, 0, 3>>, <<22, 0>>, <<77>>}

MCSurface == [width |-> 7, height |-> 5]
MCPlaces == {-1, 1, 3, 7}
MCFrameSizes == {[width |-> 4, height |-> 3], [width |-> 9, height |-> 4],
                 [width |-> 3, height |-> 6], [width |-> 1, height |-> 6]}
MCFallsShort == {[width |-> 9, height |-> 4]}
MCDefaultSize == [width |-> 4, height |-> 3]
MCButtons == 11 .. 13
MCKnownButtons ==
  [megarac |-> 11 .. 12, aten |-> 11 .. 12, pikvm |-> 11 .. 13]
MCKeys == 1 .. 5
MCKnownKeys == [megarac |-> 1 .. 4, aten |-> 1 .. 4, pikvm |-> 1 .. 5]
MCModifiers == {4}

=============================================================================

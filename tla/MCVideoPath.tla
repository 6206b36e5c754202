----------------------------- MODULE MCVideoPath -----------------------------
\* Two shapes of one size in bytes and a third with oblong samples, and three
\* sizes of the widget: wide, high, and odd.
EXTENDS VideoPath

MCShapes == {[w |-> 4, h |-> 2, sar |-> <<0, 1>>], [w |-> 2, h |-> 4, sar |-> <<1, 1>>],
             [w |-> 2, h |-> 2, sar |-> <<3, 2>>]}
MCSizes == {<<8, 3>>, <<3, 8>>, <<7, 5>>}

=============================================================================

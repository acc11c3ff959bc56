------------------------------ MODULE MCDesktop ------------------------------
EXTENDS Desktop

R(x, y, w, h) == [x |-> x, y |-> y, w |-> w, h |-> h]
(* Three spots, one of them on a second monitor that may be gone. *)
MCSpots == {R(1, 1, 2, 2), R(-5, 1, 5, 3), R(3, 3, 2, 2)}
MCDesks == {{R(0, 0, 4, 4)}, {R(0, 0, 4, 4), R(-6, 0, 6, 3)}}
MCDefaultSize == [w |-> 2, h |-> 2]
==============================================================================

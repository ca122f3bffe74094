------------------------------- MODULE Slots --------------------------------
(***************************************************************************)
(* Parts of a router, and of the tools around it, that share no state with *)
(* each other are put side by side: a behaviour follows one part, and the  *)
(* variables s1, s2, ... are that part's, in the order in which its module *)
(* declares them.                                                          *)
(***************************************************************************)
CONSTANT Nil    \* no value, in every part

VARIABLES part, s1, s2, s3, s4, s5, s6, s7, s8, s9, s10, s11, s12

slots == <<s1, s2, s3, s4, s5, s6, s7, s8, s9, s10, s11, s12>>

\* The variables from the k-th on, which a part does not use.
Idle4 == s4 = Nil /\ s5 = Nil /\ s6 = Nil
Idle9 == s9 = Nil /\ s10 = Nil
Idle7 == s7 = Nil /\ s8 = Nil /\ Idle9
Idle6 == s6 = Nil /\ Idle7
Idle11 == s11 = Nil /\ s12 = Nil

from4 == <<s4, s5, s6, s7, s8, s9, s10, s11, s12>>
from6 == <<s6, s7, s8, s9, s10, s11, s12>>
from7 == <<s7, s8, s9, s10, s11, s12>>
from9 == <<s9, s10, s11, s12>>
from11 == <<s11, s12>>
=============================================================================

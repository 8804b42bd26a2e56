-------------------------- MODULE MCEventPipeline --------------------------
(* EventPipeline on two telescopes of two boards each. *)
EXTENDS EventPipeline

At(p, absent) == [pos |-> p, missing |-> absent]
Row(t, absent, boards) == [tel |-> t, missing |-> absent, boards |-> boards]

Both    == <<At(1, FALSE), At(2, FALSE)>>
First   == <<At(1, FALSE), At(2, TRUE)>>
Swapped == <<At(2, FALSE), At(1, TRUE)>>
Short   == <<At(2, FALSE)>>

(* Two telescopes; one of the two missing; a list out of order; a short    *)
(* one.                                                                    *)
MCStates ==
  {<<Row(1, FALSE, Both), Row(2, FALSE, First)>>,
   <<Row(1, TRUE, Both), Row(2, FALSE, Both)>>,
   <<Row(1, FALSE, Swapped), Row(2, TRUE, Both)>>,
   <<Row(1, TRUE, Both), Row(2, FALSE, Short)>>}

OneEach == {<<Row(1, FALSE, First), Row(2, FALSE, First)>>}
=============================================================================

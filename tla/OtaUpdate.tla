----------------------------- MODULE OtaUpdate -----------------------------
(***************************************************************************)
(* What an over-the-air update promises, whatever happens below: the       *)
(* device always runs one whole image, and it changes the image it runs    *)
(* only by restarting, into the one that is staged at that moment.         *)
(* Staging can be undone.  OtaService is shown to implement this.          *)
(***************************************************************************)
CONSTANTS Image, Factory, None

VARIABLES current,  \* the image the device runs
          staged    \* the image the next restart would run, or None for current

Init == current = Factory /\ staged = None

\* An update completes.
Stage(im) == staged' = im /\ UNCHANGED current

\* A staged update is given up, for instance to write another one.
Unstage == staged' = None /\ UNCHANGED current

Restart ==
  /\ current' = IF staged = None THEN current ELSE staged
  /\ staged' = None

Next == (\E im \in Image : Stage(im)) \/ Unstage \/ Restart

Spec == Init /\ [][Next]_<<current, staged>>
=============================================================================

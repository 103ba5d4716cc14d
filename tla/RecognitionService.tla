------------------------- MODULE RecognitionService -------------------------
(***************************************************************************)
(* What a SpeechRecognizer promises to a program that never cancels: one   *)
(* recognition at a time, from recognize() to the last result of the       *)
(* server, and results that reach the program once, in the order of their  *)
(* segments and of the recognition they are asked for.  It does not promise *)
(* that every result does.                                                 *)
(***************************************************************************)
EXTENDS Naturals, Sequences

CONSTANTS
  MaxRecog,  \* recognitions the program asks for
  Segments   \* segments of a recognition, numbered from 1

VARIABLES
  asked,   \* recognitions asked for; the last one is the present one
  phase,   \* how far the present one is
  stored,  \* its results that were heard and not yet taken
  out      \* its results that were handed out

vars == <<asked, phase, stored, out>>

Heard == {stored[i] : i \in 1 .. Len(stored)} \cup {out[i] : i \in 1 .. Len(out)}

Init == asked = 0 /\ phase = "idle" /\ stored = <<>> /\ out = <<>>

Begin ==
  /\ phase = "idle" /\ asked < MaxRecog
  /\ asked' = asked + 1 /\ phase' = "asked" /\ stored' = <<>> /\ out' = <<>>

(* The server takes the recognition up: nothing was heard of it before.    *)
Serve ==
  /\ phase = "asked" /\ Heard = {}
  /\ phase' = "served"
  /\ UNCHANGED <<asked, stored, out>>

(* The server has sent the last result.                                    *)
Answer ==
  /\ phase = "served"
  /\ phase' = "answered"
  /\ UNCHANGED <<asked, stored, out>>

Hear ==
  /\ phase \in {"served", "answered"}
  /\ \E seg \in 1 .. Segments :
       /\ \A x \in Heard : x.seg < seg
       /\ stored' = Append(stored, [rec |-> asked, seg |-> seg])
  /\ UNCHANGED <<asked, phase, out>>

End ==
  /\ phase = "answered"
  /\ phase' = "idle"
  /\ UNCHANGED <<asked, stored, out>>

(* A wait hands out what is stored, or throws and drops it.                *)
Take ==
  /\ out' \in {out, out \o stored} /\ stored' = <<>>
  /\ UNCHANGED <<asked, phase>>

(* Auto-close forgets what the recognition may still have to come.         *)
Reset ==
  /\ phase' = "idle" /\ stored' = <<>>
  /\ UNCHANGED <<asked, out>>

Next == Begin \/ Serve \/ Answer \/ Hear \/ End \/ Take \/ Reset

Spec == Init /\ [][Next]_vars
=============================================================================

--------------------------- MODULE ImageTransfer ---------------------------
(***************************************************************************)
(* What one receiver promises about the images it returns, whatever the    *)
(* radio and the sender do: an image is opened when it is announced, its   *)
(* stored part only grows while it is open, and the verdict COMPLETE is    *)
(* given exactly when every chunk of that image, and nothing else, is in   *)
(* storage.  Session implements this for images that do not overlap.       *)
(***************************************************************************)
EXTENDS Integers

CONSTANTS
  Image,      \* the images that can be announced
  ChunksOf(_) \* the chunks an image consists of

VARIABLES
  open,     \* the image being received, 0 when there is none
  stored,   \* its chunks that storage holds, as <<chunk, image>> pairs
  verdict   \* the last image closed: [image, result, stored]

transferVars == <<open, stored, verdict>>

Whole(i) == {<<c, i>> : c \in ChunksOf(i)}

Init ==
  /\ open = 0 /\ stored = {}
  /\ verdict = [image |-> 0, result |-> "NONE", stored |-> {}]

Open(i) == open' = i /\ stored' = {} /\ UNCHANGED verdict

Store ==
  /\ open # 0
  /\ stored' \subseteq Whole(open) /\ stored \subseteq stored'
  /\ UNCHANGED <<open, verdict>>

Discard == open' = 0 /\ stored' = {} /\ UNCHANGED verdict

Close(result) ==
  /\ open # 0
  /\ result = "COMPLETE" => stored = Whole(open)
  /\ result = "INCOMPLETE" => stored # Whole(open)
  /\ verdict' = [image |-> open, result |-> result, stored |-> stored]
  /\ open' = 0 /\ stored' = {}

Next ==
  \/ \E i \in Image : Open(i)
  \/ Store \/ Discard
  \/ \E result \in {"COMPLETE", "INCOMPLETE", "TIMEOUT"} : Close(result)

Spec == Init /\ [][Next]_transferVars

=============================================================================

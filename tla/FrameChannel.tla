---- MODULE FrameChannel ----
(***************************************************************************)
(* What the relay promises its client for the frames it sends: a line that *)
(* is dialled while the client already talks, that delivers everything     *)
(* said so far the moment it is up, and from then on frame by frame in the *)
(* order they were sent, until it goes down for good.                      *)
(***************************************************************************)
EXTENDS Sequences

CONSTANT Frames

VARIABLES line, said, delivered

Init == line = "dialling" /\ said = <<>> /\ delivered = <<>>

\* A frame is said: it is delivered at once, or kept until the line is up.
Say(f) ==
  /\ said' = Append(said, f)
  /\ delivered' = IF line = "up" THEN Append(delivered, f) ELSE delivered
  /\ UNCHANGED line

Connect == line = "dialling" /\ line' = "up" /\ delivered' = said /\ UNCHANGED said

Hang == line' = "down" /\ UNCHANGED <<said, delivered>>

Next == Connect \/ Hang \/ \E f \in Frames : Say(f)

Spec == Init /\ [][Next]_<<line, said, delivered>>
====

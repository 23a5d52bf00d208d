---------------------------- MODULE MCAddonClaim ----------------------------
(***************************************************************************)
(* Instances of AddonClaim.  The backoff is scaled to pauses of 2, then of *)
(* 4, which overflows three bits and is capped at 3; for two claims it is  *)
(* always 1.                                                               *)
(***************************************************************************)
EXTENDS AddonClaim

\* The editions of a moving claim: the second has other values, and another
\* label; the third another Addon, and the first label; the fourth moves to the
\* cluster of Secret t, without values.
Moving == [c \in Claims |-> <<"s", "s", "s", "t">>]

Relabelled == <<1, 2, 1, 1>>

Rendered == <<1, 1, 3, 3>>

\* A claim that stays where it is, and gets another Addon.
Staying == [c \in Claims |-> <<"s", "s">>]

SameLabel == <<1, 1>>

NewAddon == <<1, 2>>

=============================================================================

----------------------------- MODULE MCReceivePath -----------------------------
(***************************************************************************)
(* Instances of ReceivePath for TLC.                                       *)
(***************************************************************************)
EXTENDS ReceivePath

\* A stream of audio and one for a call that echoes, both encrypted, and two
\* plain ones: audio, and three key presses, two of the same key.
Echo == {<<0, 0, 0>>}
Secure == {<<0, 0, 0, 0>>} \union Echo
Plain == {<<0, 0>>, <<0, 1, 2, 3>>}
PlainOrSecure == Plain \union Secure
Keys == <<5, 1, 5>>
TwoFives == <<5, 5>>

\* A stream that starts low and one whose third packet wraps around.
LowAndWrapping == {1, Wrap - 2}
=============================================================================

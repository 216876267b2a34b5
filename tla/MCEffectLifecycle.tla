------------------------- MODULE MCEffectLifecycle -------------------------
(***************************************************************************)
(* Instances of EffectLifecycle: one clean text merge, whose REMOTE half   *)
(* is an update of an existing file, and one upload of a new file.         *)
(***************************************************************************)
EXTENDS EffectLifecycle

CONSTANTS merge, upload, auto, other

LocalHalf == <<merge, 1>>
RemoteHalf == <<merge, 2>>
Upload == <<upload, 1>>
NoEffects == {}

\* merge and upload: the REMOTE ports answer for the update and the new file,
\* and only the reserved identity of a new file lets recovery prove its absence
Ops == {merge, upload}
Merges == {merge}
Remotes == {RemoteHalf, Upload}
Creates == {Upload}
\* an update request may still arrive after the plugin gave up on it
Updates == {RemoteHalf}

\* the merge alone, so that two chains may meet under more disturbances
OneMerge == {merge}

OneChain == {auto}
TwoChains == {auto, other}
=============================================================================

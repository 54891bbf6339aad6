---------------------------- MODULE MCMediaJobs ----------------------------
(* Small instances of MediaJobs for TLC: any job beside one that keeps     *)
(* files, or an upload that two exports share.                             *)
EXTENDS MediaJobs, TLC

CONSTANTS j1, j2, j3, s3
VARIABLE cast

Three == {j1, j2, j3}
AnyKind == [j \in Three |-> AllKinds]
ThreeObjects == Three \X (1..MaxFiles)
Casts == {j1 :> AllKinds @@ j2 :> {"upload", "avatar"} @@ j3 :> {},
          j1 :> {"upload"} @@ j2 :> {"export"} @@ j3 :> {"export"}}

CastInit == cast \in Casts /\ Init
CastNext == UNCHANGED cast /\ Next /\ \A j \in Jobs : kind'[j] \in cast[j] \cup {"none"}
CastSpec ==
    /\ CastInit /\ [][CastNext]_<<cast, mediaVars>>
    /\ (\A j \in Jobs : WF_mediaVars(JobStep(j))) /\ WF_mediaVars(Boot)
=============================================================================

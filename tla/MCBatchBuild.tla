---------------------------- MODULE MCBatchBuild ----------------------------
\* Two targets of the repository, so that a run is interrupted between them.
\* 19.uvc has its override; the commands file in the repository has a line for
\* 1.with_mcuboot too, but without a colon, so that it is none, while with the
\* one that all_building.md gives as its example both build into "build".
EXTENDS BatchBuild

MCTargets == <<"1.with_mcuboot", "19.uvc">>

MCStandard == [t \in Ids |-> "build-" \o t]
Repository == [MCStandard EXCEPT !["19.uvc"] = "build"]
Documented == [t \in Ids |-> "build"]
MCLayouts == {MCStandard, Repository, Documented}
=============================================================================

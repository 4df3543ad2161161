--------------------------- MODULE MCAssetOwnership ---------------------------
(* One downloaded base, one stage built from it and one image; a profile that
   serves the base and one that serves the stage. *)
EXTENDS AssetOwnership

CONSTANTS base, stage, image, id1, id2

MCDownloaded == {base}
MCBuilt == {stage}
MCImages == {image}
MCImageIds == {id1, id2}
MCDependsOn == [a \in {base, stage, image} |-> IF a = stage THEN {base} ELSE {}]
MCProfiles == {[assets |-> {base, image}, active |-> {base, image}],
               [assets |-> {base, stage, image}, active |-> {stage, image}]}
===============================================================================

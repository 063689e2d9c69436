---------------------------- MODULE MCTaskQueue ----------------------------
\* Two agents and three ideas: one has a line break, one of the others an asset
\* that is not the default and one an empty one.
EXTENDS TaskQueue

MCIdea == {"plain", "broken", "other"}
MCMultiLine == {"broken"}
MCAssetOf == [i \in MCIdea |->
    CASE i = "plain" -> "crypto" [] i = "broken" -> "stocks" [] i = "other" -> ""]
=============================================================================

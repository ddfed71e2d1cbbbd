------------------------------ MODULE Project -------------------------------
(***************************************************************************)
(* The components that share no state with each other, put together:       *)
(* `part` chooses which one moves, the others stay in their initial state. *)
(* The build command and the binary cache work on the tables of Database.  *)
(***************************************************************************)
EXTENDS Build, BinaryCache, Plugins, GraphStore, GraphReads, Css, Assets, Routes, Timeline

VARIABLE part

vars == <<dbVars, buildVars, cacheVars, pluginVars, storeVars, readVars, cssVars,
          assetVars, routesVars, timelineVars, part>>

Parts == {"db", "build", "cache", "plugins", "store", "reads", "css", "assets",
          "routes", "timeline"}

Init ==
    /\ part \in Parts
    /\ DbInit /\ BuildInit /\ CacheInit /\ PluginInit /\ StoreInit /\ GraphReadsInit
    /\ CssInit /\ TimelineInit
    /\ AssetInit /\ (part = "assets" \/ assetDisk = [p \in AssetPaths |-> Unreadable])
    /\ RoutesInit /\ (part = "routes" \/ site = {})

DbPart == part = "db" /\ DbNext /\ UNCHANGED <<buildVars, cacheVars>>
BuildPart == part = "build" /\ BuildNext /\ UNCHANGED cacheVars
CachePart == part = "cache" /\ CacheNext /\ UNCHANGED buildVars
PluginsPart == part = "plugins" /\ PluginNext
StorePart == part = "store" /\ StoreNext
ReadsPart == part = "reads" /\ GraphReadsNext
CssPart == part = "css" /\ CssNext
AssetsPart == part = "assets" /\ AssetNext
RoutesPart == part = "routes" /\ RoutesNext
TimelinePart == part = "timeline" /\ TimelineNext

dataVars == <<dbVars, buildVars, cacheVars>>

Next ==
    /\ part' = part
    /\ \/ (DbPart \/ BuildPart \/ CachePart) /\ UNCHANGED <<pluginVars, storeVars, readVars,
            cssVars, assetVars, routesVars, timelineVars>>
       \/ PluginsPart /\ UNCHANGED <<dataVars, storeVars, readVars, cssVars, assetVars,
            routesVars, timelineVars>>
       \/ StorePart /\ UNCHANGED <<dataVars, pluginVars, readVars, cssVars, assetVars,
            routesVars, timelineVars>>
       \/ ReadsPart /\ UNCHANGED <<dataVars, pluginVars, storeVars, cssVars, assetVars,
            routesVars, timelineVars>>
       \/ CssPart /\ UNCHANGED <<dataVars, pluginVars, storeVars, readVars, assetVars,
            routesVars, timelineVars>>
       \/ AssetsPart /\ UNCHANGED <<dataVars, pluginVars, storeVars, readVars, cssVars,
            routesVars, timelineVars>>
       \/ RoutesPart /\ UNCHANGED <<dataVars, pluginVars, storeVars, readVars, cssVars,
            assetVars, timelineVars>>
       \/ TimelinePart /\ UNCHANGED <<dataVars, pluginVars, storeVars, readVars, cssVars,
            assetVars, routesVars>>

Spec == Init /\ [][Next]_vars

-----------------------------------------------------------------------------
(* Properties                                                              *)

\* The variables of every component have their types.
TypesOK ==
    /\ DbTypeOK /\ BuildTypeOK /\ CacheTypeOK /\ PluginTypeOK /\ StoreTypeOK
    /\ GraphReadsTypeOK /\ CssTypeOK /\ AssetTypeOK /\ RoutesTypeOK /\ TimelineTypeOK

\* BuildsAccounted, where the build command is what writes the tables.
BuildRowsSound == part = "build" => BuildsAccounted

\* CacheSound, where the clients of the cache are what writes the tables.
CacheHitsSound == part = "cache" => CacheSound

\* ReadsAnswerTheLastWrite, where any caller's calls are what writes the tables.
ReadsExact == part = "db" => ReadsAnswerTheLastWrite

=============================================================================

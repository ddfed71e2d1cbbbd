----------------------------- MODULE MCProject ------------------------------
(* Values for a small instance of Project. *)
EXTENDS Project

MCHooksOf == [p \in PluginNames |-> "before"]

Edge(type, dynamic) == [key |-> <<1, 2, type>>, dynamic |-> dynamic]
MCGraphs ==
    {[nodes |-> (1 :> "hash1") @@ (2 :> "hash1"),
      edges |-> <<Edge("static-import", FALSE), Edge("dynamic-import", TRUE)>>],
     [nodes |-> 1 :> "hash2",
      edges |-> <<Edge("static-import", TRUE), Edge("static-import", FALSE)>>]}

Import(kind, target) == [kind |-> kind, target |-> target]
MCSheets ==
    {[imports |-> <<>>, tailwind |-> TRUE],
     [imports |-> <<Import("url", "b"), Import("relative", "a")>>, tailwind |-> FALSE],
     [imports |-> <<Import("relative", "b"), Import("package", "~c")>>, tailwind |-> FALSE]}
MCFileTypeOf == ("a" :> "css") @@ ("b" :> "scss") @@ ("c" :> "css")

MCAssetPaths == 1 .. 3
MCAssetKind == <<"png", "other", "svg">>

\* [id], error.tsx, layout.jsx, layout.tsx, page.tsx, route.ts, style.css, users
MCRouteNames == 1 .. 8
MCNameKind == <<"dynamic", "special", "layout", "layout", "page", "route", "none", "dir">>
SiteFile(r, dirs, n) == [router |-> r, dirs |-> dirs, name |-> n]
MCSiteFiles ==
    {SiteFile("app", <<>>, n) : n \in {3, 4}}
        \cup {SiteFile("app", <<8>>, n) : n \in {3, 5}}
        \cup {SiteFile("app", <<8, 1>>, 5), SiteFile("pages", <<8, 1>>, 6),
              SiteFile("pages", <<>>, 7)}

=============================================================================

------------------------------ MODULE MCPackage ------------------------------
(* Small packages for PackageDiscovery and PackageWriter.  Some are read by  *)
(* two calls of one Decoder: a part that may be named "img" or "IMG",        *)
(* children "a" and "b" that may be linked twice, missing, or linked to each *)
(* other, a relative target that resolves differently by source.  Others     *)
(* are read once, with every thumbnail: related already, not related, or     *)
(* missing.                                                                  *)
EXTENDS PackageWriter

MCNames   == {"root", "a", "b", "img", "IMG", "sub", "gone"}
MCTargets == MCNames \cup {"rel"}
MCSources == MCNames \cup {"/"}

MCResolve == [s \in MCSources |-> [t \in MCTargets |->
                IF t # "rel" THEN t ELSE IF s = "a" THEN "sub" ELSE "img"]]
MCFoldCase == [n \in MCNames |-> IF n = "IMG" THEN "img" ELSE n]

Model(t) == [type |-> "3dmodel", target |-> t]
Other(t) == [type |-> "other",   target |-> t]

MCParts == MCNames \ {"gone"}

(* A package with relationships of its own, of the root and of a child.      *)
MCPackageOf(parts, readable, top, core, child) ==
  [opens |-> TRUE, parts |-> parts, readable |-> readable,
   rels |-> [s \in MCSources |-> CASE s = "/" -> top [] s = "root" -> core
                                   [] s = "a" -> child [] OTHER -> <<>>]]

MCClosed == [opens |-> FALSE, parts |-> {}, readable |-> {},
             rels |-> [s \in MCSources |-> <<>>]]

UpTo2(S) == {<<>>} \cup {<<x>> : x \in S} \cup {<<x, y>> : x, y \in S}

MCReadTwice ==
  {MCClosed} \cup
  { MCPackageOf(MCParts, readable, top, core, child) :
      readable \in {MCParts, MCParts \ {"IMG"}},
      top \in {<<>>, <<Other("gone")>>, <<Model("gone"), Model("root")>>,
               <<Other("rel"), Model("root")>>, <<Model("root"), Other("IMG")>>,
               <<Model("root"), Other("IMG"), Model("root")>>},
      core \in UpTo2({Model("a"), Model("b"), Model("gone"), Other("IMG")}),
      child \in UpTo2({Other("rel"), Other("img"), Model("b")}) }

MCWritten ==
  { MCPackageOf(MCParts \ {"IMG"}, readable, top, core, child) :
      readable \in {MCParts \ {"IMG"}, MCParts \ {"img", "IMG"}},
      top \in {<<Model("root")>>, <<Other("img"), Model("root"), Other("img")>>,
               <<Model("b"), Other("rel"), Model("root")>>, <<Other("a"), Model("root")>>},
      core \in {<<>>, <<Model("a")>>, <<Model("b"), Model("a"), Model("a")>>,
                <<Model("a"), Other("rel"), Model("b"), Other("gone")>>, <<Model("root")>>},
      child \in {<<>>, <<Other("rel"), Other("img")>>,
                 <<Other("sub"), Other("rel"), Model("b")>>} }

MCPackages == MCReadTwice \cup MCWritten
MCTwice(p) == p.parts # MCParts \ {"IMG"}    \* as in MCReadTwice
MCMaxCalls == [p \in MCPackages |-> IF MCTwice(p) THEN 2 ELSE 1]

MCContent(top, thumbnails) ==
  [thumbnail |-> top,
   objects   |-> [n \in MCNames |-> IF n \in {"root", "a"} THEN thumbnails ELSE <<>>]]

MCContents ==
  [p \in MCPackages |->
     IF MCTwice(p) THEN {MCContent("img", <<"IMG">>)}
     ELSE {MCContent(top, thumbnails) : top \in {NoPart, "img"},
                                        thumbnails \in {<<>>, <<"img", "rel", "img">>, <<"gone", "a">>}}]
=============================================================================

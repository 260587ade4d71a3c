-------------------------------- MODULE MCXML --------------------------------
(* Small documents for XMLScopes and XMLPrinter: two prefixes and the default *)
(* namespace, one of the namespaces spelled like a prefix.  Those that are    *)
(* printed have roots that declare no prefix, one, two for one namespace, or  *)
(* one for the core, and elements with attributes and with a default          *)
(* namespace of their own.  XMLCells, with two names and up to four cells in  *)
(* use, runs alone.                                                           *)
EXTENDS XMLPrinter, XMLCells

MCPrefixes == {"", "p", "q", "xml"}
MCURIs     == {"core", "u", "p"}
MCLocals   == {"model"}

MCDeclarations ==
  {<<>>, <<Declares("", "u")>>, <<Declares("p", "u")>>, <<Declares("", "p")>>,
   <<Declares("p", "u"), Declares("p", "p")>>,
   <<Declares("p", "p"), Declares("", "u"), Declares("p", "u")>>}

MCExtensions ==
  {<<>>, <<PrefixAttr("p", "u")>>, <<PrefixAttr("p", "u"), PrefixAttr("q", "p")>>,
   <<PrefixAttr("q", "u"), PrefixAttr("p", "u")>>, <<PrefixAttr("p", "core")>>}

MCAttributes ==
  {<<>>, <<OtherAttr("", "a"), OtherAttr("xml", "a")>>, <<DefaultAttr("u")>>,
   <<DefaultAttr("core")>>, <<DefaultAttr("p"), OtherAttr("p", "a")>>,
   <<OtherAttr("q", "a"), OtherAttr("p", "b")>>}

MCCellNames == {"a", "b"}

ASSUME PrefixesOnlyAtRoot

NothingRead == event.op = "none" /\ err = "none" /\ ~copies

MCInit == PrinterInit /\ CellInit

MCNext ==
  \/ cells = <<>> /\ PrinterNext /\ UNCHANGED cellVars
  \/ NothingRead /\ CellNext /\ UNCHANGED <<vars, printVars>>

MCSpec == MCInit /\ [][MCNext]_<<vars, printVars, cellVars>>
=============================================================================

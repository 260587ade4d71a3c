------------------------------ MODULE MCDecoder ------------------------------
(* Small packages for Decoder: a root model and up to two or three children *)
(* whose files are sound, malformed, or unreadable, of different lengths.   *)
EXTENDS Decoder

MCNames   == {"root", "a", "b", "c"}
MCSources == MCNames \cup {"/"}
MCResolve == [s \in MCSources |-> [t \in MCNames |-> t]]
MCFoldCase == [n \in MCNames |-> n]

Model(t) == [type |-> "3dmodel", target |-> t]

(* A package whose root model links to the children in the order given.    *)
MCPackage(top, children, readable, tokens) ==
  [opens |-> TRUE, parts |-> MCNames, readable |-> readable,
   rels |-> [s \in MCSources |->
               IF s = "/" THEN top
               ELSE IF s = "root" THEN [i \in DOMAIN children |-> Model(children[i])]
               ELSE <<>>],
   tokens |-> tokens]

Files(root, a, b, c) ==
  [n \in MCNames |-> CASE n = "root" -> root [] n = "a" -> a
                       [] n = "b" -> b [] n = "c" -> c]

Top == <<Model("root")>>

(* Two children, each sound or not, and the root sound or not.             *)
AFiles == {<<"object", "plain", "object", "any">>,
           <<"object", "badattr", "object">>,
           <<"plain", "plain", "syntax">>}
BFiles == {<<"object", "object">>,
           <<"badattr", "syntax">>,
           <<"plain", "object", "plain", "plain", "plain">>}
RootFiles == {<<"any", "object">>, <<"badattr", "object">>}

(* Three children that all fail, each with another error.                  *)
MCFailing ==
  { MCPackage(Top, <<"a", "b", "c">>, readable,
              Files(<<"object">>, <<"syntax">>, <<"plain", "badattr">>,
                    <<"plain", "plain", "object">>))
      : readable \in {MCNames, MCNames \ {"b"}, MCNames \ {"c"}} }

MCPackages ==
  MCFailing \cup
  { MCPackage(Top, <<"a", "b">>, readable, Files(r, a, b, <<>>))
      : readable \in {MCNames, MCNames \ {"a"}},
        r \in RootFiles, a \in AFiles, b \in BFiles }
  \cup {[MCPackage(Top, <<>>, MCNames, Files(<<"object">>, <<>>, <<>>, <<>>))
           EXCEPT !.opens = FALSE]}
  \cup {MCPackage(<<>>, <<>>, MCNames, Files(<<"object">>, <<>>, <<>>, <<>>))}
  \cup {MCPackage(Top, <<"a">>, MCNames \ {"root"},
                  Files(<<"object">>, <<"plain">>, <<>>, <<>>))}

(* A child with nothing to append twice, decoded by two calls.             *)
MCPlainChild == {MCPackage(Top, <<"a">>, MCNames, Files(<<"object", "any">>, a, <<>>, <<>>))
                  : a \in {<<"plain", "plain">>, <<"plain", "badattr">>}}

(* One child with objects, sound or not, decoded by two calls.             *)
MCReused == {MCPackage(Top, <<"a">>, MCNames, Files(<<"plain">>, a, <<>>, <<>>))
              : a \in {<<"object", "plain">>, <<"object", "syntax">>}}

(* Two children, each with an element of an unknown namespace.             *)
MCUnknown == {MCPackage(Top, <<"a", "b">>, MCNames,
               Files(<<"plain">>, <<"any", "plain">>, <<"any">>, <<>>))}

MCAll == MCPackages \cup MCPlainChild

MCMaxCalls == [p \in MCAll \cup MCReused \cup MCUnknown |->
                 IF p \in MCPlainChild \cup MCReused THEN 2 ELSE 1]
=============================================================================

--------------------------- MODULE MCMemoryBuild ---------------------------
(* Source maps over eight paths: two directories, one of them ignored, paths *)
(* that are a file in one map and a directory in another, package.json among *)
(* them, two keys of one path, a key outside of the repository, and manifests *)
(* with a name, without one, and that are not JSON.                         *)
EXTENDS MemoryBuildProperties

MCPaths == {"package.json", "package.json/x", "src", "src/a", "src/b", "src/d", "dist", "dist/c"}
MCParentOf == [p \in MCPaths |->
  CASE p \in {"src/a", "src/b", "src/d"} -> "src" [] p = "dist/c" -> "dist"
    [] p = "package.json/x" -> "package.json" [] OTHER -> Root]

MCKeys == MCPaths \cup {"./src/a", "../x"}
MCNormalized == [k \in MCKeys |->
  CASE k = "./src/a" -> "src/a" [] k = "../x" -> Invalid [] OTHER -> k]

MCContents == {"named", "v2", "{}", "{"}
MCNameOf == [c \in MCContents |-> CASE c = "{" -> NotJson [] c = "{}" -> Nameless [] OTHER -> c]

\* The first entry has the contents first.
Entries(keys, first) ==
  [i \in 1..Len(keys) |-> [key |-> keys[i], contents |-> IF i = 1 THEN first ELSE "v2"]]

MCInputs ==
  {Entries(k, "named") : k \in {
     <<>>, <<"package.json">>, <<"package.json", "src/a", "src/b", "src/d">>,
     <<"src/a", "package.json", "./src/a">>, <<"package.json", "dist/c", "src/a">>,
     <<"src", "src/a", "src/b">>, <<"src/b">>, <<"src/a", "../x">>,
     <<"package.json/x", "src/a">>}}
  \cup {Entries(<<"package.json", "src/a">>, c) : c \in {"{}", "{"}}

MCRequests == {Undefined, 0, 9}
=============================================================================
